----------------------- MODULE WorkspaceBindingsProofs -----------------------
(***************************************************************************)
(* What WorkspaceBindings keeps, for any number of workspaces, users,      *)
(* providers, credentials and bindings.  BindingsInv is inductive: what a  *)
(* binding is made of was checked when it was given, by bind_integration   *)
(* or update_binding, and the fields the checks compare never change; a    *)
(* prepared request has been copied from such a binding.                   *)
(***************************************************************************)
EXTENDS WorkspaceBindings, FiniteSetTheorems, TLAPS

\* A binding, or a request made from it, has a credential that is its own and
\* was active when it was given.
OwnCredential(x) ==
  x.credential # NoCredential => Matches(x.credential, x) /\ x.credential.status = "active"

\* A request the service has prepared is for GitHub.  One that was prepared with
\* a registry is for a capability of GitHub's, and has the scopes that some object
\* of GitHub's requires unless the caller has named fewer.
CallInv ==
  call.stage = "prepared" =>
    /\ call.request # NoRequest
    /\ call.request.provider = GitHub
    /\ OwnCredential(call.request)
    /\ guided => call.request.supported
    /\ guided /\ ~ call.narrowed =>
         \E object \in Offers[GitHub] : object.requires \subseteq call.request.scopes

SlotsInv ==
  \A a, b \in Present :
    /\ a # b
    /\ records[a].status = "active" /\ records[b].status = "active"
    => ~ SameSlot(records[a], records[b])

LimitsInv ==
  /\ IsFiniteSet(Present) /\ Cardinality(Present) <= MaxRecords
  /\ IsFiniteSet(Registered) /\ Cardinality(Registered) <= MaxProviders

\* Each provider that is registered has one of its objects.
IsRegistry(r) ==
  DOMAIN r = Providers /\ \A p \in Providers : r[p] \in Offers[p] \cup {Unregistered}

TypeInv ==
  /\ guided \in BOOLEAN
  /\ IsRegistry(registry)
  /\ records \in [Bindings -> WorkspaceIntegrationBindings \cup {Absent}]
  /\ expired \subseteq Refs
  /\ call \in Calls

BindingsInv ==
  /\ TypeInv /\ LimitsInv /\ SlotsInv
  /\ BindingsAreCoherent /\ CallInv /\ ErrorsHaveACause

-----------------------------------------------------------------------------

LEMMA InitBindingsInv == Init => BindingsInv
<1> SUFFICES ASSUME Init PROVE BindingsInv
  OBVIOUS
<1> USE DEF Init
<1>1. Present = {} /\ Registered = {}
  BY DEF Present, Registered
<1>2. TypeInv
  BY DEF TypeInv, IsRegistry, Calls, Idle, CallStages, ErrorCodes
<1>3. LimitsInv
  BY <1>1, FS_EmptySet, LimitsAssumption DEF LimitsInv
<1>4. SlotsInv /\ BindingsAreCoherent
  BY <1>1 DEF SlotsInv, BindingsAreCoherent
<1>5. CallInv /\ ErrorsHaveACause
  BY DEF CallInv, ErrorsHaveACause, Idle
<1> QED BY <1>2, <1>3, <1>4, <1>5 DEF BindingsInv

\* A binding is what it is made of, and is not absent.
LEMMA PresentAreBindings ==
  ASSUME TypeInv, NEW b \in Present
  PROVE  records[b] \in WorkspaceIntegrationBindings
BY DEF TypeInv, Present

LEMMA BindingsAreNotAbsent ==
  ASSUME NEW binding \in WorkspaceIntegrationBindings
  PROVE  binding # Absent
<1>1. binding.status # "absent"
  BY DEF WorkspaceIntegrationBindings, BindingStatuses
<1> QED BY <1>1 DEF Absent

-----------------------------------------------------------------------------
(* What a write to one binding has to keep. *)

\* A binding the service may store has the scopes that an object of its provider
\* requires, if there is a registry, and a credential of its own.
Sufficient(binding) ==
  guided => \E object \in Offers[binding.provider] : object.requires \subseteq binding.scopes
Coherent(binding) == Sufficient(binding) /\ OwnCredential(binding)

\* Storing a coherent binding in a slot that is free keeps BindingsInv.
LEMMA StoringKeeps ==
  ASSUME BindingsInv, NEW b \in Bindings, NEW binding \in WorkspaceIntegrationBindings,
         Coherent(binding), SlotFree(b, binding),
         b \in Present \/ Cardinality(Present) < MaxRecords,
         records' = [records EXCEPT ![b] = binding],
         UNCHANGED <<guided, registry, expired, call>>
  PROVE  BindingsInv'
<1> USE DEF BindingsInv
<1>1. binding # Absent
  BY BindingsAreNotAbsent
<1>2. records'[b] = binding /\ \A o \in Bindings \ {b} : records'[o] = records[o]
  BY DEF TypeInv
<1>3. Present' = Present \cup {b}
  BY <1>1, <1>2 DEF Present
<1>4. TypeInv'
  BY DEF TypeInv
<1>5. LimitsInv'
  <2>1. IsFiniteSet(Present \cup {b}) /\ Cardinality(Present \cup {b}) <= MaxRecords
    <3>1. IsFiniteSet(Present) /\ Cardinality(Present) \in Nat /\ Cardinality(Present) <= MaxRecords
      BY FS_CardinalityType DEF LimitsInv
    <3>2. /\ IsFiniteSet(Present \cup {b})
          /\ Cardinality(Present \cup {b}) =
               IF b \in Present THEN Cardinality(Present) ELSE Cardinality(Present) + 1
      BY <3>1, FS_AddElement
    <3> QED BY <3>1, <3>2, LimitsAssumption
  <2> QED BY <1>3, <2>1 DEF LimitsInv, Registered
<1>6. SlotsInv'
  <2>1. ASSUME NEW o \in Present \ {b}, binding.status = "active", records[o].status = "active"
        PROVE  ~ SameSlot(records[o], binding) /\ ~ SameSlot(binding, records[o])
    BY <2>1 DEF SlotFree, SameSlot
  <2>2. ASSUME NEW o \in Present', NEW p \in Present', o # p,
               records'[o].status = "active", records'[p].status = "active"
        PROVE  ~ SameSlot(records'[o], records'[p])
    <3>1. CASE o = b
      BY <1>2, <1>3, <2>1, <2>2, <3>1 DEF Present
    <3>2. CASE p = b
      BY <1>2, <1>3, <2>1, <2>2, <3>2 DEF Present
    <3>3. CASE o # b /\ p # b
      BY <1>2, <1>3, <2>2, <3>3 DEF SlotsInv, Present
    <3> QED BY <3>1, <3>2, <3>3
  <2> QED BY <2>2 DEF SlotsInv, SameSlot
<1>7. BindingsAreCoherent'
  <2>1. ASSUME NEW o \in Present'
        PROVE  /\ Sufficient(records[o])'
               /\ records'[o].credential # NoCredential =>
                    /\ Matches(records'[o].credential, records'[o])
                    /\ records'[o].credential.status = "active"
    BY <1>2, <1>3, <2>1 DEF BindingsAreCoherent, Coherent, Sufficient, OwnCredential, Present
  <2> QED BY <2>1 DEF BindingsAreCoherent, Sufficient, Matches
<1>8. CallInv' /\ ErrorsHaveACause'
  BY DEF CallInv, ErrorsHaveACause, OwnCredential, Matches
<1> QED BY <1>4, <1>5, <1>6, <1>7, <1>8

\* A step of the call keeps BindingsInv if the call keeps what is said of it.
LEMMA CallKeeps ==
  ASSUME BindingsInv, UNCHANGED <<guided, registry, records, expired>>,
         call' \in Calls,
         CallInv', ErrorsHaveACause'
  PROVE  BindingsInv'
<1>1. TypeInv' /\ LimitsInv'
  BY DEF BindingsInv, TypeInv, LimitsInv, Present, Registered
<1>2. SlotsInv' /\ BindingsAreCoherent'
  BY DEF BindingsInv, SlotsInv, BindingsAreCoherent, Present, SameSlot, Matches
<1> QED BY <1>1, <1>2 DEF BindingsInv

\* So does a step that changes the registry or the expiries within their bounds.
LEMMA SurroundingsKeep ==
  ASSUME BindingsInv, UNCHANGED <<guided, records, call>>,
         IsRegistry(registry'),
         expired \subseteq expired', expired' \subseteq Refs,
         IsFiniteSet(Registered'), Cardinality(Registered') <= MaxProviders
  PROVE  BindingsInv'
<1>1. TypeInv' /\ LimitsInv'
  BY DEF BindingsInv, TypeInv, LimitsInv, Present
<1>2. SlotsInv' /\ BindingsAreCoherent'
  BY DEF BindingsInv, SlotsInv, BindingsAreCoherent, Present, SameSlot, Matches
<1>3. CallInv' /\ ErrorsHaveACause'
  BY DEF BindingsInv, CallInv, ErrorsHaveACause, OwnCredential, Matches
<1> QED BY <1>1, <1>2, <1>3 DEF BindingsInv

-----------------------------------------------------------------------------
(* The registry, and the expiry of credentials. *)

LEMMA RegisterKeeps ==
  ASSUME BindingsInv, NEW p \in Providers, NEW object \in Offers[p], Register(p, object)
  PROVE  BindingsInv'
<1>1. object # Unregistered
  <2>1. object \in ProviderObjects
    BY ProvidersAssumption
  <2> QED BY <2>1 DEF ProviderObjects, IntegrationStatuses, Unregistered
<1>2. IsRegistry(registry)
  BY DEF BindingsInv, TypeInv
<1>3. Registered' = Registered \cup {p} /\ p \notin Registered
  BY <1>1, <1>2 DEF Register, Registered, IsRegistry
<1>4. /\ IsFiniteSet(Registered) /\ Cardinality(Registered) \in Nat
      /\ Cardinality(Registered) < MaxProviders
  BY FS_CardinalityType DEF BindingsInv, LimitsInv, Register
<1>5. IsFiniteSet(Registered \cup {p}) /\ Cardinality(Registered \cup {p}) = Cardinality(Registered) + 1
  BY <1>3, <1>4, FS_AddElement
<1>6. IsFiniteSet(Registered') /\ Cardinality(Registered') <= MaxProviders
  BY <1>3, <1>4, <1>5, LimitsAssumption
<1>7. IsRegistry(registry')
  BY <1>2 DEF Register, IsRegistry
<1> QED BY <1>6, <1>7, SurroundingsKeep DEF Register, BindingsInv, TypeInv

LEMMA UnregisterKeeps ==
  ASSUME BindingsInv, NEW p \in Providers, Unregister(p)
  PROVE  BindingsInv'
<1>1. IsRegistry(registry) /\ IsRegistry(registry')
  BY DEF BindingsInv, TypeInv, IsRegistry, Unregister
<1>2. Registered' \subseteq Registered
  BY <1>1 DEF Unregister, Registered, IsRegistry
<1>3. /\ IsFiniteSet(Registered) /\ Cardinality(Registered) \in Nat
      /\ Cardinality(Registered) <= MaxProviders
  BY FS_CardinalityType DEF BindingsInv, LimitsInv
<1>4. IsFiniteSet(Registered') /\ Cardinality(Registered') <= Cardinality(Registered)
  BY <1>2, <1>3, FS_Subset
<1>5. Cardinality(Registered') \in Nat
  BY <1>4, FS_CardinalityType
<1>6. Cardinality(Registered') <= MaxProviders
  BY <1>3, <1>4, <1>5, LimitsAssumption
<1> QED BY <1>1, <1>4, <1>6, SurroundingsKeep DEF Unregister, BindingsInv, TypeInv

LEMMA ExpireKeeps ==
  ASSUME BindingsInv, NEW ref \in Refs, Expire(ref)
  PROVE  BindingsInv'
BY SurroundingsKeep DEF Expire, BindingsInv, TypeInv, LimitsInv, Registered

-----------------------------------------------------------------------------
(* The methods of the service. *)

\* What the registry has found sufficient is so for the object it has.
LEMMA SufficeIsSufficient ==
  ASSUME BindingsInv, NEW binding \in WorkspaceIntegrationBindings,
         Suffice(binding.scopes, binding.provider)
  PROVE  Sufficient(binding)
BY DEF Suffice, Sufficient, BindingsInv, TypeInv, IsRegistry, WorkspaceIntegrationBindings

LEMMA BindKeeps ==
  ASSUME BindingsInv, NEW b \in Bindings, NEW binding \in Creations, Bind(b, binding)
  PROVE  BindingsInv'
<1>1. binding \in WorkspaceIntegrationBindings /\ Coherent(binding)
  <2>1. binding \in WorkspaceIntegrationBindings /\ OwnCredential(binding)
    BY CallersAssumption
    DEF Bind, Creations, Given, Credentials, WorkspaceIntegrationBindings, BindingStatuses,
        OwnCredential, EnsureCredentialUsable
  <2>2. Sufficient(binding)
    BY <2>1, SufficeIsSufficient DEF Bind
  <2> QED BY <2>1, <2>2 DEF Coherent
<1> QED BY <1>1, StoringKeeps DEF Bind

\* The credential is compared with the binding as it was, which has the same
\* provider, user and workspace as the binding it becomes.
LEMMA UpdateKeeps ==
  ASSUME BindingsInv, NEW b \in Present, NEW status \in BindingStatuses,
         NEW credential \in Credentials \cup {NoCredential}, NEW scopes \in SUBSET Scopes,
         Update(b, status, credential, scopes)
  PROVE  BindingsInv'
<1>1. PICK new : /\ new = [records[b] EXCEPT !.status = status, !.credential = credential,
                                             !.scopes = scopes]
                 /\ Store(b, new)
  BY DEF Update
<1>2. /\ new \in WorkspaceIntegrationBindings
      /\ new.provider = records[b].provider
      /\ new.user = records[b].user /\ new.workspace = records[b].workspace
      /\ new.credential = credential /\ new.scopes = scopes
  <2>1. PICK old : old = records[b] /\ old \in WorkspaceIntegrationBindings
    BY PresentAreBindings DEF BindingsInv
  <2>2. new = [old EXCEPT !.status = status, !.credential = credential, !.scopes = scopes]
    BY <1>1, <2>1
  <2>3. /\ new \in WorkspaceIntegrationBindings
        /\ new.provider = old.provider /\ new.user = old.user /\ new.workspace = old.workspace
        /\ new.credential = credential /\ new.scopes = scopes
    BY <2>1, <2>2 DEF WorkspaceIntegrationBindings
  <2> QED BY <2>1, <2>3
<1>3. OwnCredential(new)
  <2>1. credential # NoCredential =>
          Matches(credential, records[b]) /\ credential.status = "active"
    BY DEF Update, TakesCredential, EnsureCredentialUsable, BindingsInv, BindingsAreCoherent
  <2> QED BY <1>2, <2>1 DEF OwnCredential, Matches
<1>4. Sufficient(new)
  <2>1. CASE scopes = records[b].scopes
    BY <1>2, <2>1 DEF Sufficient, BindingsInv, BindingsAreCoherent
  <2>2. CASE scopes # records[b].scopes
    BY <1>2, <2>2, SufficeIsSufficient DEF Update
  <2> QED BY <2>1, <2>2
<1> QED BY <1>1, <1>2, <1>3, <1>4, StoringKeeps DEF Coherent, Store, Present

\* Enabling and disabling write a status only.
LEMMA SetStatusKeeps ==
  ASSUME BindingsInv, NEW b \in Present, NEW status \in BindingStatuses,
         NEW new, new = [records[b] EXCEPT !.status = status], SlotFree(b, new),
         records' = [records EXCEPT ![b] = new], UNCHANGED <<guided, registry, expired, call>>
  PROVE  BindingsInv'
<1>1. records[b] \in WorkspaceIntegrationBindings
  BY PresentAreBindings DEF BindingsInv
<1>2. PICK old : old = records[b]
  OBVIOUS
<1>3. /\ new \in WorkspaceIntegrationBindings
      /\ new.provider = old.provider /\ new.user = old.user /\ new.workspace = old.workspace
      /\ new.credential = old.credential /\ new.scopes = old.scopes
  <2>1. new = [old EXCEPT !.status = status] /\ old \in WorkspaceIntegrationBindings
    BY <1>1, <1>2
  <2> QED BY <2>1 DEF WorkspaceIntegrationBindings
<1>4. Coherent(new)
  BY <1>2, <1>3 DEF Coherent, Sufficient, OwnCredential, Matches, BindingsInv, BindingsAreCoherent
<1> QED BY <1>3, <1>4, StoringKeeps DEF Present

LEMMA EnableKeeps ==
  ASSUME BindingsInv, NEW b \in Bindings, Enable(b)
  PROVE  BindingsInv'
BY SetStatusKeeps DEF Enable, Store, BindingStatuses

LEMMA DisableKeeps ==
  ASSUME BindingsInv, NEW b \in Bindings, Disable(b)
  PROVE  BindingsInv'
<1>1. PICK new : new = [records[b] EXCEPT !.status = "disabled"]
  OBVIOUS
<1>2. records' = [records EXCEPT ![b] = new]
  BY <1>1 DEF Disable
<1>3. new.status = "disabled"
  <2>1. PICK old : old = records[b] /\ old \in WorkspaceIntegrationBindings
    BY PresentAreBindings DEF BindingsInv, Disable
  <2>2. new = [old EXCEPT !.status = "disabled"]
    BY <1>1, <2>1
  <2> QED BY <2>1, <2>2 DEF WorkspaceIntegrationBindings
<1>4. SlotFree(b, new)
  BY <1>3 DEF SlotFree
<1> QED BY <1>1, <1>2, <1>4, SetStatusKeeps DEF Disable, BindingStatuses

LEMMA DeleteKeeps ==
  ASSUME BindingsInv, NEW b \in Bindings, Delete(b)
  PROVE  BindingsInv'
<1> USE DEF Delete, BindingsInv
<1>1. Present' = Present \ {b} /\ \A o \in Present' : records'[o] = records[o]
  BY DEF Present, TypeInv
<1>2. TypeInv'
  BY DEF TypeInv
<1>3. LimitsInv'
  <2>1. /\ IsFiniteSet(Present) /\ Cardinality(Present) \in Nat /\ Cardinality(Present) <= MaxRecords
        /\ b \in Present
    BY FS_CardinalityType DEF LimitsInv
  <2>2. IsFiniteSet(Present \ {b}) /\ Cardinality(Present \ {b}) = Cardinality(Present) - 1
    BY <2>1, FS_RemoveElement
  <2> QED BY <1>1, <2>1, <2>2, LimitsAssumption DEF LimitsInv, Registered
<1>4. SlotsInv'
  BY <1>1 DEF SlotsInv, SameSlot
<1>5. BindingsAreCoherent'
  BY <1>1 DEF BindingsAreCoherent, Matches
<1>6. CallInv' /\ ErrorsHaveACause'
  BY DEF CallInv, ErrorsHaveACause, OwnCredential, Matches
<1> QED BY <1>2, <1>3, <1>4, <1>5, <1>6

-----------------------------------------------------------------------------
(* The steps of a call. *)

\* What the type of the call says of its parts, and what Idle is.
LEMMA CallParts ==
  ASSUME TypeInv
  PROVE  /\ call.request \in IntegrationRequests \cup {NoRequest}
         /\ call.stage \in CallStages /\ call.error \in ErrorCodes /\ call.retryable \in BOOLEAN
BY DEF TypeInv, Calls

\* A call that is over, or starts anew, says nothing of a request.
LEMMA IdleKeeps ==
  ASSUME BindingsInv, UNCHANGED <<guided, registry, records, expired>>,
         NEW stage \in CallStages \ {"prepared", "refused"}, NEW code \in ErrorCodes,
         NEW again \in BOOLEAN, NEW outcome \in Outcomes \cup {NoOutcome},
         call' = [stage |-> stage, request |-> NoRequest, narrowed |-> FALSE, error |-> code,
                  retryable |-> again, outcome |-> outcome],
         stage = "raised" =>
           code = "resolver" \/ (outcome.status \in ErrorStatuses /\ outcome.message # "text")
  PROVE  BindingsInv'
<1>1. call' \in Calls
  BY DEF Calls
<1>2. CallInv' /\ ErrorsHaveACause'
  BY DEF CallInv, ErrorsHaveACause
<1> QED BY <1>1, <1>2, CallKeeps

LEMMA PrepareKeeps ==
  ASSUME BindingsInv, NEW b \in Bindings, NEW asked \in SUBSET Scopes, NEW supported \in BOOLEAN,
         Prepare(b, asked, supported)
  PROVE  BindingsInv'
<1>1. PICK binding : /\ binding = records[b] /\ binding \in WorkspaceIntegrationBindings
                     /\ OwnCredential(binding) /\ Sufficient(binding) /\ binding.provider = GitHub
  BY PresentAreBindings DEF Prepare, BindingsInv, BindingsAreCoherent, OwnCredential, Sufficient
<1>2. PICK request : request = RequestFrom(binding, asked, supported)
  OBVIOUS
<1>3. /\ request \in IntegrationRequests /\ request.provider = GitHub
      /\ request.credential = binding.credential
      /\ request.user = binding.user /\ request.workspace = binding.workspace
      /\ request.supported = supported
      /\ asked \in {{}, binding.scopes} => request.scopes = binding.scopes
  BY <1>1, <1>2 DEF RequestFrom, WorkspaceIntegrationBindings, IntegrationRequests
<1>4. OwnCredential(request)
  BY <1>1, <1>3 DEF OwnCredential, Matches
<1>5. request # NoRequest
  <2>1. DOMAIN request # DOMAIN NoRequest
    <3>1. "scopes" \in DOMAIN request
      BY <1>2 DEF RequestFrom
    <3>2. "scopes" \notin DOMAIN NoRequest
      BY DEF NoRequest
    <3> QED BY <3>1, <3>2
  <2> QED BY <2>1
<1>6. /\ call' = [call EXCEPT !.stage = "prepared", !.request = request,
                               !.narrowed = asked \notin {{}, binding.scopes}]
      /\ UNCHANGED <<guided, registry, records, expired>>
  BY <1>1, <1>2 DEF Prepare
<1>7. /\ call' \in Calls
      /\ call'.stage = "prepared" /\ call'.request = request
      /\ call'.narrowed = (asked \notin {{}, binding.scopes})
  BY <1>3, <1>6 DEF BindingsInv, TypeInv, Calls, CallStages
<1>8. CallInv'
  <2>1. guided => supported
    BY DEF Prepare
  <2>2. OwnCredential(call.request)'
    BY <1>4, <1>6, <1>7 DEF OwnCredential, Matches
  <2>3. guided /\ asked \in {{}, binding.scopes} =>
          \E object \in Offers[GitHub] : object.requires \subseteq request.scopes
    BY <1>1, <1>3 DEF Sufficient
  <2> QED BY <1>3, <1>5, <1>6, <1>7, <2>1, <2>2, <2>3 DEF CallInv
<1>9. ErrorsHaveACause'
  BY <1>7 DEF ErrorsHaveACause
<1> QED BY <1>6, <1>7, <1>8, <1>9, CallKeeps

\* Of a request the service has prepared, the provider objects to what may have
\* changed or was never checked.
LEMMA ObjectionsToPrepared ==
  ASSUME BindingsInv, call.stage = "prepared", registry[GitHub] # Unregistered,
         Objection(call.request) # "none"
  PROVE  /\ Objection(call.request) \in {"unavailable", "capability", "permission", "lifecycle"}
         /\ Objection(call.request) = "lifecycle" => call.request.credential.ref \in expired
         /\ guided => /\ Objection(call.request) # "capability"
                      /\ Objection(call.request) = "permission" => call.narrowed \/ RequirementsDiffer
<1>1. registry[GitHub] \in Offers[GitHub]
  BY ProvidersAssumption DEF BindingsInv, TypeInv, IsRegistry
<1>2. /\ Objection(call.request) \in {"unavailable", "capability", "permission", "lifecycle"}
      /\ Objection(call.request) = "lifecycle" => call.request.credential.ref \in expired
  BY DEF BindingsInv, CallInv, OwnCredential, Objection, Matches, EnsureCredentialUsable
<1>3. guided => Objection(call.request) # "capability"
  BY DEF BindingsInv, CallInv, Objection
<1>4. Objection(call.request) = "permission" => ~ registry[GitHub].requires \subseteq call.request.scopes
  BY DEF Objection
<1>5. guided /\ ~ call.narrowed =>
        \E object \in Offers[GitHub] : object.requires \subseteq call.request.scopes
  BY DEF BindingsInv, CallInv
<1>6. guided /\ Objection(call.request) = "permission" => call.narrowed \/ RequirementsDiffer
  BY <1>1, <1>4, <1>5 DEF RequirementsDiffer
<1> QED BY <1>2, <1>3, <1>6

\* A call whose request is accepted goes on without it.
LEMMA GotoKeeps ==
  ASSUME BindingsInv, UNCHANGED <<guided, registry, records, expired>>,
         NEW stage \in {"resolving", "sent"}, Goto(stage)
  PROVE  BindingsInv'
<1>1. /\ call' = [stage |-> stage, request |-> NoRequest, narrowed |-> FALSE, error |-> "none",
                  retryable |-> FALSE, outcome |-> NoOutcome]
      /\ stage \in CallStages \ {"prepared", "refused", "raised"}
  BY DEF Goto, Idle, CallStages
<1> QED BY <1>1, IdleKeeps DEF ErrorCodes

LEMMA ExecuteKeeps ==
  ASSUME BindingsInv, Execute
  PROVE  BindingsInv'
<1> DEFINE objection == Objection(call.request)
<1>1. CASE objection # "none"
  <2>1. /\ call.stage = "prepared"
        /\ call' = [call EXCEPT !.stage = "refused", !.error = objection]
        /\ UNCHANGED <<guided, registry, records, expired>>
    BY <1>1 DEF Execute, Refuse
  <2>2. /\ objection \in {"unavailable", "capability", "permission", "lifecycle"}
        /\ objection = "lifecycle" => call.request.credential.ref \in expired
        /\ guided => /\ objection # "capability"
                     /\ objection = "permission" => call.narrowed \/ RequirementsDiffer
    BY <1>1, <2>1, ObjectionsToPrepared DEF Execute
  <2> HIDE DEF objection
  <2>3. /\ call' \in Calls
        /\ call'.stage = "refused" /\ call'.error = objection
        /\ call'.request = call.request /\ call'.narrowed = call.narrowed
    BY <2>1, <2>2 DEF BindingsInv, TypeInv, Calls, CallStages, ErrorCodes
  <2>4. CallInv' /\ ErrorsHaveACause'
    BY <2>1, <2>2, <2>3 DEF CallInv, ErrorsHaveACause, RequirementsDiffer
  <2> QED BY <2>1, <2>3, <2>4, CallKeeps
<1>2. CASE objection = "none"
  BY <1>2, GotoKeeps DEF Execute
<1> QED BY <1>1, <1>2

\* A call that is over has no request.
LEMMA AnswerKeeps ==
  ASSUME BindingsInv, UNCHANGED <<guided, registry, records, expired>>,
         NEW code \in ErrorCodes, NEW again \in BOOLEAN, Answer(code, again)
  PROVE  BindingsInv'
<1>1. /\ call' = [stage |-> "answered", request |-> NoRequest, narrowed |-> FALSE, error |-> code,
                  retryable |-> again, outcome |-> NoOutcome]
      /\ "answered" \in CallStages \ {"prepared", "refused"}
  BY DEF Answer, Idle, CallStages
<1>2. NoOutcome \in Outcomes \cup {NoOutcome} /\ "answered" # "raised"
  OBVIOUS
<1> QED BY <1>1, <1>2, IdleKeeps

LEMMA RaiseKeeps ==
  ASSUME BindingsInv, UNCHANGED <<guided, registry, records, expired>>,
         NEW code \in ErrorCodes, NEW outcome \in Outcomes \cup {NoOutcome}, Raise(code, outcome),
         code = "resolver" \/ (outcome.status \in ErrorStatuses /\ outcome.message # "text")
  PROVE  BindingsInv'
<1>1. /\ call' = [stage |-> "raised", request |-> NoRequest, narrowed |-> FALSE, error |-> code,
                  retryable |-> FALSE, outcome |-> outcome]
      /\ "raised" \in CallStages \ {"prepared", "refused"}
  BY DEF Raise, Idle, CallStages
<1> QED BY <1>1, IdleKeeps

LEMMA ResolveKeeps ==
  ASSUME BindingsInv, Resolve
  PROVE  BindingsInv'
<1>1. CASE Goto("sent")
  BY <1>1, GotoKeeps DEF Resolve
<1>2. CASE Raise("resolver", NoOutcome)
  BY <1>2, RaiseKeeps DEF Resolve, ErrorCodes
<1> QED BY <1>1, <1>2 DEF Resolve

LEMMA ConcludeKeeps ==
  ASSUME BindingsInv, NEW outcome \in Outcomes, Conclude(outcome)
  PROVE  BindingsInv'
<1>1. UNCHANGED <<guided, registry, records, expired>>
  BY DEF Conclude
<1>2. CASE Answer("internal_provider_error", FALSE)
  BY <1>1, <1>2, AnswerKeeps DEF ErrorCodes
<1>3. CASE Unacceptable(outcome) /\ Raise("message", outcome)
  <2>1. outcome.status \in ErrorStatuses /\ outcome.message # "text"
    BY <1>3 DEF Unacceptable, Outcomes
  <2> QED BY <1>1, <1>3, <2>1, RaiseKeeps DEF ErrorCodes
<1>4. CASE Answer(ErrorCode[outcome.status], outcome.status \in Retryable)
  <2>1. ErrorCode[outcome.status] \in ErrorCodes
    BY DEF ErrorCode, ErrorCodes, Outcomes, ErrorStatuses
  <2>2. (outcome.status \in Retryable) \in BOOLEAN
    OBVIOUS
  <2>3. PICK code, again : code = ErrorCode[outcome.status] /\ again = (outcome.status \in Retryable)
    OBVIOUS
  <2>4. Answer(code, again)
    BY <1>4, <2>3
  <2> QED BY <1>1, <2>1, <2>2, <2>3, <2>4, AnswerKeeps
<1> QED BY <1>2, <1>3, <1>4 DEF Conclude

LEMMA FinishKeeps ==
  ASSUME BindingsInv, Finish
  PROVE  BindingsInv'
BY IdleKeeps DEF Finish, Idle, CallStages, ErrorCodes

-----------------------------------------------------------------------------

LEMMA StepKeepsBindingsInv == BindingsInv /\ [Next]_vars => BindingsInv'
<1> SUFFICES ASSUME BindingsInv, [Next]_vars PROVE BindingsInv'
  OBVIOUS
<1>1. CASE RegistryStep
  BY <1>1, RegisterKeeps, UnregisterKeeps DEF RegistryStep
<1>2. CASE ServiceStep
  <2>1. ASSUME NEW b \in Present, NEW status \in Updates \cup {records[b].status},
               NEW credential \in Given \cup {records[b].credential},
               NEW scopes \in Named \cup {records[b].scopes}, Update(b, status, credential, scopes)
        PROVE  BindingsInv'
    <3>1. status \in BindingStatuses /\ scopes \in SUBSET Scopes
          /\ credential \in Credentials \cup {NoCredential}
      BY PresentAreBindings, CallersAssumption
      DEF BindingsInv, WorkspaceIntegrationBindings, Given, Credentials
    <3> QED BY <2>1, <3>1, UpdateKeeps
  <2> QED BY <1>2, <2>1, BindKeeps, DisableKeeps, EnableKeeps, DeleteKeeps DEF ServiceStep
<1>3. ASSUME NEW ref \in Refs, Expire(ref) PROVE BindingsInv'
  BY <1>3, ExpireKeeps
<1>4. CASE CallStep
  BY <1>4, PrepareKeeps, ExecuteKeeps, ResolveKeeps, ConcludeKeeps, FinishKeeps,
     CallersAssumption DEF CallStep
<1>5. CASE UNCHANGED vars
  BY <1>5, CallKeeps DEF vars, BindingsInv, TypeInv, CallInv, ErrorsHaveACause, OwnCredential, Matches
<1> QED BY <1>1, <1>2, <1>3, <1>4, <1>5 DEF Next

\* BindingsInv holds in every state of every behaviour.
THEOREM BindingsInvariant == Spec => []BindingsInv
BY InitBindingsInv, StepKeepsBindingsInv, PTL DEF Spec

\* The variables keep their types and the two tables their limits, however many
\* bindings and providers a service is given.
THEOREM TypeCorrect == Spec => []TypeOK
<1>1. BindingsInv => TypeOK
  BY DEF BindingsInv, TypeInv, IsRegistry, LimitsInv, TypeOK
<1> QED BY <1>1, BindingsInvariant, PTL

\* Every binding has a credential of its own that was active when it was given,
\* whatever sequence of calls made it; and scopes that satisfied its provider when
\* they were given, in a service that has a registry.
THEOREM BindingsCoherent == Spec => []BindingsAreCoherent
<1>1. BindingsInv => BindingsAreCoherent
  BY DEF BindingsInv
<1> QED BY <1>1, BindingsInvariant, PTL

\* A call that the service has prepared is refused only for what has changed
\* since or was never checked, and raises only from the resolvers or for a message
\* of GitHub's that is blank or no text.
THEOREM ErrorsCaused == Spec => []ErrorsHaveACause
<1>1. BindingsInv => ErrorsHaveACause
  BY DEF BindingsInv
<1> QED BY <1>1, BindingsInvariant, PTL

-----------------------------------------------------------------------------
(* The slots. *)

\* What the slots see.
Holding == [s \in Workspaces \X Providers |-> ActiveBindings(s[1], s[2])]

LEMMA ActiveArePresent ==
  ASSUME NEW w, NEW p
  PROVE  ActiveBindings(w, p) \subseteq Present
BY DEF ActiveBindings, Present, Absent

\* A slot that has a holder has no other.
LEMMA HoldersAreAlone ==
  ASSUME SlotsInv, NEW w, NEW p, NEW b \in ActiveBindings(w, p)
  PROVE  ActiveBindings(w, p) = {b}
BY ActiveArePresent DEF SlotsInv, ActiveBindings, SameSlot

\* A step that writes one binding, without moving it to another slot, changes at
\* most that slot: the binding takes it when it is free, leaves it, or keeps it.
LEMMA OneSlotChanges ==
  ASSUME BindingsInv, BindingsInv', NEW b \in Bindings, NEW w \in Workspaces, NEW p \in Providers,
         \A o \in Bindings \ {b} : records'[o] = records[o],
         b \in Present => records[b].workspace = w /\ records[b].provider = p,
         b \in Present' => records'[b].workspace = w /\ records'[b].provider = p
  PROVE  Slot!Next \/ Holding' = Holding
<1> DEFINE slot == <<w, p>>
<1>1. slot \in Workspaces \X Providers /\ Holding[slot] = ActiveBindings(w, p)
      /\ Holding'[slot] = ActiveBindings(w, p)'
  BY DEF Holding
<1>2. ASSUME NEW s \in Workspaces \X Providers, s # slot
      PROVE  ActiveBindings(s[1], s[2])' = ActiveBindings(s[1], s[2])
  <2>1. ~ (s[1] = w /\ s[2] = p)
    BY <1>2
  <2>2. /\ records[b].status = "active" => b \in Present
        /\ records'[b].status = "active" => b \in Present'
    BY DEF Present, Absent
  <2>3. b \notin ActiveBindings(s[1], s[2]) /\ b \notin ActiveBindings(s[1], s[2])'
    BY <2>1, <2>2 DEF ActiveBindings
  <2> QED BY <2>3 DEF ActiveBindings
<1>3. ActiveBindings(w, p)' \ {b} = ActiveBindings(w, p) \ {b}
  BY DEF ActiveBindings
<1>4. Holding' = [Holding EXCEPT ![slot] = ActiveBindings(w, p)']
  BY <1>1, <1>2 DEF Holding
<1>5. SlotsInv /\ SlotsInv'
  BY DEF BindingsInv
<1>6. CASE b \in ActiveBindings(w, p) /\ b \in ActiveBindings(w, p)'
  <2>1. ActiveBindings(w, p)' = ActiveBindings(w, p)
    BY <1>3, <1>6
  <2> QED BY <1>1, <1>4, <2>1 DEF Holding
<1>7. CASE b \notin ActiveBindings(w, p) /\ b \notin ActiveBindings(w, p)'
  <2>1. ActiveBindings(w, p)' = ActiveBindings(w, p)
    BY <1>3, <1>7
  <2> QED BY <1>1, <1>4, <2>1 DEF Holding
<1>8. CASE b \in ActiveBindings(w, p) /\ b \notin ActiveBindings(w, p)'
  <2>1. ActiveBindings(w, p) = {b}
    BY <1>5, <1>8, HoldersAreAlone
  <2>2. ActiveBindings(w, p)' = {}
    BY <1>3, <1>8, <2>1
  <2>3. Slot!Release(slot)
    BY <1>1, <1>4, <2>1, <2>2 DEF Slot!Release, Holding
  <2> QED BY <1>1, <2>3 DEF Slot!Next
<1>9. CASE b \notin ActiveBindings(w, p) /\ b \in ActiveBindings(w, p)'
  <2>1. ActiveBindings(w, p)' = {b}
    <3>1. \A o \in Bindings : records'[o].status = "active" => o \in Present'
      BY DEF Present, Absent
    <3>2. ASSUME NEW o \in ActiveBindings(w, p)', o # b PROVE FALSE
      BY <1>5, <1>9, <3>1, <3>2 DEF SlotsInv, ActiveBindings, SameSlot
    <3> QED BY <1>9, <3>2
  <2>2. ActiveBindings(w, p) = {}
    BY <1>3, <1>9, <2>1
  <2>3. Slot!Acquire(slot, b)
    BY <1>1, <1>4, <2>1, <2>2 DEF Slot!Acquire, Holding
  <2> QED BY <1>1, <2>3 DEF Slot!Next
<1> QED BY <1>6, <1>7, <1>8, <1>9

\* Only the service writes bindings, one at a time, and never moves one.
LEMMA StepWritesOne ==
  ASSUME BindingsInv, [Next]_vars
  PROVE  \/ records' = records
         \/ \E b \in Bindings, w \in Workspaces, p \in Providers :
              /\ \A o \in Bindings \ {b} : records'[o] = records[o]
              /\ b \in Present => records[b].workspace = w /\ records[b].provider = p
              /\ b \in Present' => records'[b].workspace = w /\ records'[b].provider = p
<1> DEFINE Writes(b) ==
      \E w \in Workspaces, p \in Providers :
        /\ \A o \in Bindings \ {b} : records'[o] = records[o]
        /\ b \in Present => records[b].workspace = w /\ records[b].provider = p
        /\ b \in Present' => records'[b].workspace = w /\ records'[b].provider = p
<1>1. DOMAIN records = Bindings
  BY DEF BindingsInv, TypeInv
<1>2. ASSUME NEW b \in Bindings, NEW binding \in Creations, Bind(b, binding) PROVE Writes(b)
  BY <1>1, <1>2 DEF Bind, Creations, WorkspaceIntegrationBindings, Present
<1>3. ASSUME NEW b \in Bindings, Disable(b) \/ Enable(b) PROVE Writes(b)
  <2>1. PICK old : old = records[b] /\ old \in WorkspaceIntegrationBindings
    BY <1>3, PresentAreBindings DEF Disable, Enable, BindingsInv
  <2>2. PICK status, new : new = [old EXCEPT !.status = status] /\ records' = [records EXCEPT ![b] = new]
    BY <1>3, <2>1 DEF Disable, Enable, Store
  <2>3. new.workspace = old.workspace /\ new.provider = old.provider
    BY <2>1, <2>2 DEF WorkspaceIntegrationBindings
  <2>4. old.workspace \in Workspaces /\ old.provider \in Providers
    BY <2>1 DEF WorkspaceIntegrationBindings
  <2> QED BY <1>1, <2>1, <2>2, <2>3, <2>4
<1>4. ASSUME NEW b \in Present, NEW status, NEW credential, NEW scopes,
             Update(b, status, credential, scopes)
      PROVE  Writes(b)
  <2>1. PICK old : old = records[b] /\ old \in WorkspaceIntegrationBindings
    BY <1>4, PresentAreBindings DEF BindingsInv
  <2>2. PICK new : /\ new = [old EXCEPT !.status = status, !.credential = credential, !.scopes = scopes]
                   /\ records' = [records EXCEPT ![b] = new]
    BY <1>4, <2>1 DEF Update, Store
  <2>3. new.workspace = old.workspace /\ new.provider = old.provider
    BY <2>1, <2>2 DEF WorkspaceIntegrationBindings
  <2>4. old.workspace \in Workspaces /\ old.provider \in Providers
    BY <2>1 DEF WorkspaceIntegrationBindings
  <2> QED BY <1>1, <2>1, <2>2, <2>3, <2>4 DEF Present
<1>5. ASSUME NEW b \in Bindings, Delete(b) PROVE Writes(b)
  <2>1. records[b] \in WorkspaceIntegrationBindings /\ b \notin Present'
    BY <1>1, <1>5, PresentAreBindings DEF Delete, BindingsInv, Present
  <2> QED BY <1>1, <1>5, <2>1 DEF Delete, WorkspaceIntegrationBindings
<1>6. ASSUME ~ ServiceStep PROVE records' = records
  BY <1>6
  DEF Next, vars, RegistryStep, Register, Unregister, Expire, CallStep, Prepare, Execute, Resolve,
      Conclude, Finish
<1>7. CASE ServiceStep
  BY <1>2, <1>3, <1>4, <1>5, <1>7 DEF ServiceStep, Present
<1> QED BY <1>6, <1>7

\* WorkspaceBindings implements ExclusiveSlot, for any number of bindings: a
\* workspace has at most one active binding to a provider, which no other
\* replaces while it is active, whichever methods write them.
THEOREM SlotRefinement == Spec => SlotsAreExclusive
<1>1. Init => Slot!Init
  BY DEF Init, Slot!Init, ActiveBindings, Absent
<1>2. BindingsInv /\ BindingsInv' /\ [Next]_vars => [Slot!Next]_Holding
  <2> SUFFICES ASSUME BindingsInv, BindingsInv', [Next]_vars PROVE [Slot!Next]_Holding
    OBVIOUS
  <2>1. CASE records' = records
    BY <2>1 DEF Holding, ActiveBindings, Present
  <2>2. CASE records' # records
    BY <2>2, StepWritesOne, OneSlotChanges
  <2> QED BY <2>1, <2>2
<1> QED BY <1>1, <1>2, BindingsInvariant, PTL DEF Spec, SlotsAreExclusive, Slot!Spec, Holding
=============================================================================
