-------------------------- MODULE WorkspaceBindings --------------------------
(***************************************************************************)
(* The integration bindings of workspaces (WorkspaceIntegrationService on  *)
(* its in-memory repository), the registry of providers they refer to, and *)
(* the calls of GitHub that are made from them.                            *)
(*                                                                         *)
(* Repository methods hold an asyncio.Lock, but none awaits while it has   *)
(* it, so the lock is always free, taking it gives no control away, and a  *)
(* method of the service is one action.  A method that refuses changes     *)
(* nothing and is no action.  A call of GitHub is several: it is prepared  *)
(* from a binding, checked by the provider, waits for the resolvers of the *)
(* credential, is sent, and answered.  The registry is the caller's; the   *)
(* service may have been made without one, and then skips every check that *)
(* needs a provider.                                                       *)
(*                                                                         *)
(* A credential is an opaque reference with a provider and an owner, who   *)
(* may be a user, a workspace or both; the status a caller presents it     *)
(* with is copied into the binding.  Left out of the data: configuration,  *)
(* parameters, metadata and the formats of identifiers.                    *)
(***************************************************************************)
EXTENDS Naturals, FiniteSets

CONSTANTS
  Bindings,      \* binding ids; one is used for one binding
  Workspaces, Users,
  Providers,     \* provider ids
  GitHub,        \* the provider the calls go to
  Scopes,
  Offers,        \* bound: the objects that are registered for each provider
  Refs,          \* credential references
  CredentialOf,  \* the provider and the owner of each
  Nobody,        \* no workspace, user or credential
  Updates,       \* bound: the statuses update_binding is asked for
  Presented,     \* bound: the statuses credentials are presented with
  Named,         \* bound: the sets of scopes that callers name
  MaxRecords, MaxProviders

ASSUME NobodyAssumption == Nobody \notin Workspaces \cup Users \cup Refs \cup Bindings
ASSUME CredentialAssumption ==
  CredentialOf \in [Refs -> [provider : Providers, user : Users \cup {Nobody},
                             workspace : Workspaces \cup {Nobody}]]
ASSUME LimitsAssumption == MaxRecords \in Nat /\ MaxProviders \in Nat

IntegrationStatuses == {"available", "degraded", "disabled", "unavailable"}
CredentialStatuses == {"pending", "active", "expired", "revoked", "disabled", "error"}
BindingStatuses == {"active", "disabled", "pending", "error"}

\* A provider object advertises a status and the scopes it requires, for good.
ProviderObjects == [status : IntegrationStatuses, requires : SUBSET Scopes]
Unregistered == [status |-> "unregistered"]

ASSUME ProvidersAssumption == GitHub \in Providers /\ Offers \in [Providers -> SUBSET ProviderObjects]
ASSUME CallersAssumption ==
  /\ Updates \subseteq BindingStatuses
  /\ Presented \subseteq CredentialStatuses
  /\ Named \subseteq SUBSET Scopes

VARIABLES
  guided,     \* whether the service was made with the registry
  registry,   \* each provider's object
  records,    \* the bindings
  expired,    \* the credentials whose expires_at has passed
  call        \* a call of GitHub

vars == <<guided, registry, records, expired, call>>

\* A credential as a caller presents it.
Credentials == [ref : Refs, status : CredentialStatuses]
NoCredential == [ref |-> Nobody, status |-> "active"]

WorkspaceIntegrationBindings ==
  [workspace : Workspaces, user : Users, provider : Providers, status : BindingStatuses,
   credential : Credentials \cup {NoCredential}, scopes : SUBSET Scopes]
Absent == [status |-> "absent"]

IntegrationRequests ==
  [workspace : Workspaces, user : Users, provider : Providers,
   credential : Credentials \cup {NoCredential}, scopes : SUBSET Scopes, supported : BOOLEAN]
NoRequest == [provider |-> Nobody]

\* A call ends "answered" by a response, "refused" by the provider's checks,
\* or "raised" with any other exception.
CallStages == {"idle", "prepared", "resolving", "sent", "answered", "refused", "raised"}

ErrorCodes ==
  {"none", "authentication_failed", "forbidden", "rate_limit_exceeded", "resource_not_found",
   "github_api_error", "network_failure", "malformed_response", "invalid_parameters",
   "internal_provider_error",
   "provider", "unavailable", "capability", "permission", "credential", "lifecycle",
   "resolver", "message"}

\* What becomes of a request that the provider tries to send: its parameters are
\* not accepted, nothing answers, the answer is no JSON, its data are not as
\* expected, or it is fine; or GitHub answers with an error status and a
\* message, which is some text, blank, or no text at all.  A 403 that tells of a
\* rate limit, in its headers or in its text, is "limited" as a 429 is.
ErrorStatuses == {"unauthorized", "forbidden", "limited", "missing", "transient", "other"}
Outcomes ==
  [status : {"ok", "invalid", "unreachable", "unparsable", "unexpected"}, message : {"none"}] \cup
  [status : ErrorStatuses, message : {"text", "blank", "number"}]
NoOutcome == [status |-> "none", message |-> "none"]

Calls ==
  [stage : CallStages, request : IntegrationRequests \cup {NoRequest}, narrowed : BOOLEAN,
   error : ErrorCodes, retryable : BOOLEAN, outcome : Outcomes \cup {NoOutcome}]

Present == {b \in Bindings : records[b] # Absent}
Registered == {p \in Providers : registry[p] # Unregistered}

TypeOK ==
  /\ guided \in BOOLEAN
  /\ \A p \in Providers : registry[p] \in Offers[p] \cup {Unregistered}
  /\ Cardinality(Registered) <= MaxProviders
  /\ records \in [Bindings -> WorkspaceIntegrationBindings \cup {Absent}]
  /\ Cardinality(Present) <= MaxRecords
  /\ expired \subseteq Refs
  /\ call \in Calls

-----------------------------------------------------------------------------
(* The checks. *)

Unavailable == {"disabled", "unavailable"}

\* The registry has a provider that takes requests, or one that requires no
\* other scopes than some; the service cannot ask when it has no registry.
Takes(p) == guided => registry[p] # Unregistered /\ registry[p].status \notin Unavailable
Suffice(scopes, p) == guided => registry[p] # Unregistered /\ registry[p].requires \subseteq scopes

\* ensure_credential_usable does not raise.
EnsureCredentialUsable(credential) ==
  credential.status = "active" /\ credential.ref \notin expired

\* The credential belongs to the binding's provider, user and workspace; an
\* owner without a user or a workspace is no restriction.
Matches(credential, binding) ==
  LET owned == CredentialOf[credential.ref]
  IN  /\ owned.provider = binding.provider
      /\ owned.user \in {Nobody, binding.user}
      /\ owned.workspace \in {Nobody, binding.workspace}

\* A credential without an owner, which bind_integration cannot handle: its
\* look at ownership.user_id raises AttributeError.
Unowned(credential) ==
  CredentialOf[credential.ref].user = Nobody /\ CredentialOf[credential.ref].workspace = Nobody

SameSlot(a, b) == a.workspace = b.workspace /\ a.provider = b.provider

\* Mutant: the repository does not look for another active binding.
SlotFreeAlways(b, binding) == TRUE

\* The repository finds no other active binding of the workspace and provider.
SlotFree(b, binding) ==
  binding.status = "active" =>
    \A other \in Present \ {b} :
      records[other].status = "active" => ~ SameSlot(records[other], binding)

-----------------------------------------------------------------------------

Idle ==
  [stage |-> "idle", request |-> NoRequest, narrowed |-> FALSE, error |-> "none",
   retryable |-> FALSE, outcome |-> NoOutcome]

Init ==
  /\ guided \in BOOLEAN
  /\ registry = [p \in Providers |-> Unregistered]
  /\ records = [b \in Bindings |-> Absent]
  /\ expired = {}
  /\ call = Idle

\* Mutant: the limit is compared after the fact.
RegisterPastLimit(p, object) ==
  /\ registry[p] = Unregistered
  /\ Cardinality(Registered) <= MaxProviders
  /\ registry' = [registry EXCEPT ![p] = object]
  /\ UNCHANGED <<guided, records, expired, call>>

\* IntegrationProviderRegistry.register.
Register(p, object) ==
  /\ registry[p] = Unregistered
  /\ Cardinality(Registered) < MaxProviders
  /\ registry' = [registry EXCEPT ![p] = object]
  /\ UNCHANGED <<guided, records, expired, call>>

\* IntegrationProviderRegistry.unregister.
Unregister(p) ==
  /\ registry[p] # Unregistered
  /\ registry' = [registry EXCEPT ![p] = Unregistered]
  /\ UNCHANGED <<guided, records, expired, call>>

\* bind_integration.
Bind(b, binding) ==
  /\ records[b] = Absent
  /\ Takes(binding.provider)
  /\ Suffice(binding.scopes, binding.provider)
  /\ binding.credential # NoCredential =>
       /\ EnsureCredentialUsable(binding.credential)
       /\ ~ Unowned(binding.credential)
       /\ Matches(binding.credential, binding)
  /\ SlotFree(b, binding)
  /\ Cardinality(Present) < MaxRecords
  /\ records' = [records EXCEPT ![b] = binding]
  /\ UNCHANGED <<guided, registry, expired, call>>

\* disable_binding.
Disable(b) ==
  /\ b \in Present
  /\ records' = [records EXCEPT ![b].status = "disabled"]
  /\ UNCHANGED <<guided, registry, expired, call>>

\* The repository's update.
Store(b, updated) ==
  /\ SlotFree(b, updated)
  /\ records' = [records EXCEPT ![b] = updated]
  /\ UNCHANGED <<guided, registry, expired, call>>

\* enable_binding.
Enable(b) ==
  /\ b \in Present
  /\ Takes(records[b].provider)
  /\ records[b].credential # NoCredential => EnsureCredentialUsable(records[b].credential)
  /\ Store(b, [records[b] EXCEPT !.status = "active"])

\* update_binding accepts a credential the caller gives.
TakesCredential(b, credential) ==
  /\ credential # NoCredential
  /\ EnsureCredentialUsable(credential)
  /\ Matches(credential, records[b])

\* Mutant: scopes are replaced as they come.
UpdateScopesUnchecked(b, status, credential, scopes) ==
  /\ b \in Present
  /\ credential # records[b].credential => TakesCredential(b, credential)
  /\ Store(b, [records[b] EXCEPT !.status = status, !.credential = credential, !.scopes = scopes])

\* Mutant: the credential is not compared with the binding.
UpdateAnyCredential(b, status, credential, scopes) ==
  /\ b \in Present
  /\ credential # records[b].credential =>
       credential # NoCredential /\ EnsureCredentialUsable(credential)
  /\ scopes # records[b].scopes => Suffice(scopes, records[b].provider)
  /\ Store(b, [records[b] EXCEPT !.status = status, !.credential = credential, !.scopes = scopes])

\* update_binding, to a status, a credential and scopes of which each may be as
\* it was; only what the caller gives is checked, and its status not at all.
Update(b, status, credential, scopes) ==
  /\ b \in Present
  /\ credential # records[b].credential => TakesCredential(b, credential)
  /\ scopes # records[b].scopes => Suffice(scopes, records[b].provider)
  /\ Store(b, [records[b] EXCEPT !.status = status, !.credential = credential, !.scopes = scopes])

\* The repository's delete.
Delete(b) ==
  /\ b \in Present
  /\ records' = [records EXCEPT ![b] = Absent]
  /\ UNCHANGED <<guided, registry, expired, call>>

\* expires_at of a credential passes.
Expire(ref) ==
  /\ ref \notin expired
  /\ expired' = expired \cup {ref}
  /\ UNCHANGED <<guided, registry, records, call>>

-----------------------------------------------------------------------------
(* A call of GitHub. *)

\* Once the request is accepted it is not looked at again.
Goto(stage) == call' = [Idle EXCEPT !.stage = stage]
Refuse(code) == call' = [call EXCEPT !.stage = "refused", !.error = code]

Raise(code, outcome) ==
  call' = [Idle EXCEPT !.stage = "raised", !.error = code, !.outcome = outcome]
Answer(code, retryable) ==
  call' = [Idle EXCEPT !.stage = "answered", !.error = code, !.retryable = retryable]

\* is_usable: the status of the credential is that of the copy.
IsUsable(binding) == binding.status = "active" /\ binding.credential.status = "active"

\* build_integration_request: for some of the granted scopes, or for all.
RequestFrom(binding, asked, supported) ==
  [workspace  |-> binding.workspace,
   user       |-> binding.user,
   provider   |-> binding.provider,
   credential |-> binding.credential,
   scopes     |-> IF asked = {} THEN binding.scopes ELSE asked,
   supported  |-> supported]

\* prepare_integration_request for GitHub, from the active binding of a
\* workspace, for a capability the provider supports or another.
Prepare(b, asked, supported) ==
  /\ call.stage = "idle"
  /\ b \in Present /\ IsUsable(records[b]) /\ records[b].provider = GitHub
  /\ guided => registry[GitHub] # Unregistered /\ supported
  /\ asked \subseteq records[b].scopes
  /\ call' = [call EXCEPT !.stage = "prepared", !.request = RequestFrom(records[b], asked, supported),
                          !.narrowed = asked \notin {{}, records[b].scopes}]
  /\ UNCHANGED <<guided, registry, records, expired>>

\* What GitHubProvider.execute objects to in a request, in the order of
\* validate_provider_request and ensure_credential_usable; "none" if nothing.
Objection(request) ==
  LET given == request.credential # NoCredential
  IN  IF request.provider # GitHub THEN "provider"
      ELSE IF registry[GitHub].status \in Unavailable THEN "unavailable"
      ELSE IF ~ request.supported THEN "capability"
      ELSE IF given /\ CredentialOf[request.credential.ref].provider # GitHub THEN "credential"
      ELSE IF ~ registry[GitHub].requires \subseteq request.scopes THEN "permission"
      ELSE IF given /\ ~ Matches(request.credential, request) THEN "credential"
      ELSE IF given /\ ~ EnsureCredentialUsable(request.credential) THEN "lifecycle"
      ELSE "none"

\* The caller gets the provider of the request from the registry, and its
\* execute checks the request up to its first await.
Execute ==
  /\ call.stage = "prepared"
  /\ registry[GitHub] # Unregistered
  /\ IF Objection(call.request) # "none"
       THEN Refuse(Objection(call.request))
       ELSE Goto(IF call.request.credential = NoCredential THEN "sent" ELSE "resolving")
  /\ UNCHANGED <<guided, registry, records, expired>>

\* The resolvers answer, whatever they say of the credential, or raise: their
\* calls stand outside the try statement.
Resolve ==
  /\ call.stage = "resolving"
  /\ Goto("sent") \/ Raise("resolver", NoOutcome)
  /\ UNCHANGED <<guided, registry, records, expired>>

\* The error of each outcome, and the outcomes after which the caller is told it
\* may try again; of the error statuses, "transient" is 500, 502, 503 and 504.
ErrorCode ==
  [ok           |-> "none",                   invalid    |-> "invalid_parameters",
   unreachable  |-> "network_failure",        unparsable |-> "malformed_response",
   unexpected   |-> "internal_provider_error",
   unauthorized |-> "authentication_failed",  forbidden  |-> "forbidden",
   limited      |-> "rate_limit_exceeded",    missing    |-> "resource_not_found",
   transient    |-> "github_api_error",       other      |-> "github_api_error"]
Retryable == {"unreachable", "limited", "transient"}

\* _handle_error_response looks for a rate limit in the message of a 403, and
\* fails on one that is no text: an error like any other.
Mistaken(outcome) == outcome.status = "forbidden" /\ outcome.message = "number"

\* IntegrationErrorInfo takes no message that is blank or no text.
Unacceptable(outcome) == outcome.message \in {"blank", "number"}

\* The client and the provider make a response of what becomes of the request;
\* the handler of an error with an unacceptable message raises in turn.
Conclude(outcome) ==
  /\ call.stage = "sent"
  /\ \/ Mistaken(outcome) /\ Answer("internal_provider_error", FALSE)
     \/ ~ Mistaken(outcome) /\ Unacceptable(outcome) /\ Raise("message", outcome)
     \/ /\ ~ Mistaken(outcome) /\ ~ Unacceptable(outcome)
        /\ Answer(ErrorCode[outcome.status], outcome.status \in Retryable)
  /\ UNCHANGED <<guided, registry, records, expired>>

\* The caller is done with the call, or does not make it, and prepares another.
Finish ==
  /\ call.stage \in {"prepared", "answered", "refused", "raised"}
  /\ call' = Idle
  /\ UNCHANGED <<guided, registry, records, expired>>

-----------------------------------------------------------------------------

RegistryStep ==
  \E p \in Providers : Unregister(p) \/ \E object \in Offers[p] : Register(p, object)

\* What callers present, and the bindings they ask for.
Given == [ref : Refs, status : Presented] \cup {NoCredential}
Creations ==
  [workspace : Workspaces, user : Users, provider : Providers, status : {"active"},
   credential : Given, scopes : Named]

ServiceStep ==
  \E b \in Bindings :
    \/ \E binding \in Creations : Bind(b, binding)
    \/ Disable(b)
    \/ Enable(b)
    \/ /\ b \in Present
       /\ \E status \in Updates \cup {records[b].status},
             credential \in Given \cup {records[b].credential},
             scopes \in Named \cup {records[b].scopes} : Update(b, status, credential, scopes)
    \/ Delete(b)

CallStep ==
  \/ \E b \in Bindings, asked \in Named \cup {{}}, supported \in BOOLEAN : Prepare(b, asked, supported)
  \/ Execute
  \/ Resolve
  \/ \E outcome \in Outcomes : Conclude(outcome)
  \/ Finish

Next ==
  \/ RegistryStep
  \/ ServiceStep
  \/ \E ref \in Refs : Expire(ref)
  \/ CallStep

Spec == Init /\ [][Next]_vars

-----------------------------------------------------------------------------

ActiveBindings(w, p) ==
  {b \in Bindings : records[b].status = "active"
                    /\ records[b].workspace = w /\ records[b].provider = p}

Slot == INSTANCE ExclusiveSlot WITH
  Slots   <- Workspaces \X Providers,
  Holders <- Bindings,
  holders <- [s \in Workspaces \X Providers |-> ActiveBindings(s[1], s[2])]

\* A workspace has at most one active binding to a provider, which no other
\* replaces while it is active, whatever is bound, enabled, updated and deleted.
SlotsAreExclusive == Slot!Spec

\* However a binding was created and updated, its credential is of its provider,
\* user and workspace and was active when it was given, although an update
\* copies the binding past the validators of its class.  In a service that has a
\* registry it also has all scopes that some object of its provider requires,
\* the one that was registered when the scopes were given: they stay what they
\* are when another object takes its place.
BindingsAreCoherent ==
  \A b \in Present :
    /\ records[b].credential # NoCredential =>
         Matches(records[b].credential, records[b]) /\ records[b].credential.status = "active"
    /\ guided => \E object \in Offers[records[b].provider] : object.requires \subseteq records[b].scopes

\* GitHub has been registered with other required scopes than before.
RequirementsDiffer == \E o, q \in Offers[GitHub] : o.requires # q.requires

\* What the service has prepared, the provider refuses only for what may have
\* changed since or was never checked: its own status, the expiry of the
\* credential, scopes the caller has left out or an object now requires; and
\* the capability and the scopes, when the service has no registry.  Once the
\* request is sent its caller gets a response, whatever becomes of it, and an
\* exception only when GitHub's own error message is blank or no text.
ErrorsHaveACause ==
  /\ call.stage = "refused" =>
       /\ call.error \in {"unavailable", "capability", "permission", "lifecycle"}
       /\ call.error = "lifecycle" => call.request.credential.ref \in expired
       /\ guided => /\ call.error # "capability"
                    /\ call.error = "permission" => call.narrowed \/ RequirementsDiffer
  /\ call.stage = "raised" =>
       \/ call.error = "resolver"
       \/ call.outcome.status \in ErrorStatuses /\ call.outcome.message # "text"
=============================================================================
