--------------------------- MODULE ContextPlanning ---------------------------
(***************************************************************************)
(* What create_and_execute does before it executes: an                     *)
(* AgentContextAssembler asks its providers for sections and merges them,  *)
(* a DeterministicPlanner turns the requested tools into a plan, and the   *)
(* executor validates the plan.  Meanwhile other requests store, edit and  *)
(* delete memories, and providers and tools are registered.                *)
(*                                                                         *)
(* Only some providers suspend (the memory provider twice, for its two     *)
(* SELECTs); whatever runs between two suspensions, the merge included, is *)
(* one action.                                                             *)
(*                                                                         *)
(* Sizes and lengths are small numbers.  The payload of a section is under *)
(* one of its keys (Bulk), the others weigh nothing.  Left out of the      *)
(* data: descriptions, ids, metadata and their limits, and sections of a   *)
(* wrong type, name or priority, which no provider of the code returns.    *)
(***************************************************************************)
EXTENDS Naturals, FiniteSets, Sequences, SequencesExt, Functions

CONSTANTS
  Providers,                        \* names of context providers
  Conversation, Memory, Knowledge,  \* three of them
  Builds,                           \* the sets of providers assemblers are built with
  Required,                         \* required_provider_names
  Waiting,                          \* the providers that suspend
  Priority, NameRank,               \* a provider's priority, and its place by name
  Keys, Bulk,                       \* the data keys of its section
  Identifiers,                      \* the names that are stable identifiers
  MaxSections, MaxSection, MaxTotal,
  MaxQuery,                         \* the longest knowledge query
  Overhead,                         \* what the planner counts on top of a context's size
  Tools, Malformed, MaxTools,       \* tool ids; those no tool can have
  Inventories,                      \* bound: what the tool registry holds at first
  RequestedLists, MaxRequested,     \* bound: the lists of tools asked for
  MaxPlanSteps,                     \* max_plan_steps of the planner's limits
  LongestPlan,                      \* the steps an ExecutionPlan may have
  MaxSteps,                         \* max_steps of the executor's limits
  Memories, MaxMemories,
  Sizes, Lengths                    \* bounds: sizes of sections, lengths of queries

\* What a step without a tool has instead of one.
NoTool == "none"

ASSUME ProvidersAssumption ==
  /\ {Conversation, Memory, Knowledge} \subseteq Providers
  /\ {Memory, Knowledge} \subseteq Waiting /\ Waiting \subseteq Providers
  /\ Builds \subseteq SUBSET Providers /\ \A build \in Builds : IsFiniteSet(build)
  /\ Required \subseteq Providers
  /\ Identifiers \subseteq Providers
  /\ Priority \in [Providers -> Nat]
  /\ NameRank \in [Providers -> Nat] /\ IsInjective(NameRank)
  /\ \A p \in Providers : Bulk[p] \in Keys[p]
ASSUME LimitsAssumption ==
  /\ {MaxSections, MaxSection, MaxTotal, MaxQuery, Overhead, MaxTools, MaxRequested, MaxMemories,
      MaxPlanSteps, LongestPlan, MaxSteps} \subseteq Nat
  /\ MaxSection <= MaxTotal /\ 0 \notin {MaxPlanSteps, LongestPlan, MaxSteps}
  /\ Sizes \subseteq Nat /\ Lengths \subseteq Nat

\* What the tool registry says of an id.
ToolStates == {"absent", "enabled", "disabled"}

ASSUME ToolsAssumption ==
  /\ Inventories \subseteq [Tools -> ToolStates]
  /\ \A i \in Inventories :
       LET there == {t \in Tools : i[t] # "absent"}
       IN  IsFiniteSet(there) /\ Cardinality(there) <= MaxTools /\ there \cap Malformed = {}
  /\ Malformed \subseteq Tools /\ NoTool \notin Tools
  /\ \A l \in RequestedLists : l \in Seq(Tools) /\ IsInjective(l)
ASSUME MemoriesAssumption == IsFiniteSet(Memories)

VARIABLES
  registry,   \* the assembler's providers
  tools,      \* the tool registry: the state of each tool, or "absent"
  memories,   \* the state of each memory of the user
  request,    \* what is asked for
  stage,      \* where create_and_execute is
  queue,      \* the providers the assembly goes through
  at,         \* the one it waits for
  sizes,      \* the sizes of the sections it has
  listed,     \* the memories the first SELECT returned
  context,    \* the assembled context
  plan,       \* the plan
  error       \* the error create_and_execute met

registries == <<registry, tools>>
assembly == <<queue, at, sizes, listed>>
vars == <<registries, memories, request, stage, assembly, context, plan, error>>

Requests == [requested : RequestedLists, messages : Sizes, query : Lengths]
Stages == {"new", "asking", "counting", "assembled", "planned", "accepted", "failed"}
StepTypes == {"instruction", "tool"}

\* A memory that lives passes the filters of the search, or is "hidden" by them.
MemoryStates == {"unborn", "live", "hidden", "deleted"}

\* The errors, by the exception that carries them; the last three are the
\* ValidationErrors the planner does not translate.
Codes ==
  {"none", "configuration", "context_limit", "provider", "memory_limit", "memory_total",
   "knowledge_limit", "provider_names", "planner_limit", "unavailable_tool", "changed_plan",
   "executor_limit", "executor_validation", "planning_request", "plan_metadata", "plan_steps"}

\* The sections an assembly has, by their sizes.
Sections == [Providers -> Nat]

NoContext == [providers |-> <<>>, data |-> <<>>, size |-> 0]
NoPlan == [steps |-> <<>>, available |-> {}, requested |-> <<>>]

PlanSteps ==
  [order : Nat, type : StepTypes, tool : Tools \cup {NoTool}, depends_on : SUBSET Nat]

TypeOK ==
  /\ registry \subseteq Providers
  /\ tools \in [Tools -> ToolStates]
  /\ Cardinality({t \in Tools : tools[t] # "absent"}) <= MaxTools
  /\ memories \in [Memories -> MemoryStates]
  /\ request \in Requests /\ stage \in Stages /\ error \in Codes
  /\ (error # "none") = (stage = "failed")
  /\ queue \in Seq(Providers) /\ Len(queue) <= MaxSections /\ at \in 0 .. Len(queue)
  /\ sizes \in Sections
  /\ listed \subseteq Memories /\ Cardinality(listed) <= MaxMemories
  /\ stage \in {"assembled", "planned", "accepted"} =>
       /\ context.size <= MaxTotal /\ \A p \in Providers : sizes[p] <= MaxSection
       /\ Required \subseteq Range(context.providers)
  /\ plan.steps \in Seq(PlanSteps) /\ Len(plan.steps) <= MaxPlanSteps

Enabled == {t \in Tools : tools[t] = "enabled"}
Live == {m \in Memories : memories[m] = "live"}

-----------------------------------------------------------------------------
(* The registries and the environment. *)

\* ContextProviderRegistry.register; a name that is taken is refused.
RegisterProvider(p) ==
  /\ p \notin registry
  /\ registry' = registry \cup {p}
  /\ UNCHANGED <<tools, memories, request, stage, assembly, context, plan, error>>

\* ToolRegistry.register; a duplicate or one tool too many is refused.
RegisterTool(t, state) ==
  /\ t \notin Malformed
  /\ tools[t] = "absent"
  /\ Cardinality({u \in Tools : tools[u] # "absent"}) < MaxTools
  /\ tools' = [tools EXCEPT ![t] = state]
  /\ UNCHANGED <<registry, memories, request, stage, assembly, context, plan, error>>

\* Another request stores a memory, edits one, or deletes one.  The edit of a
\* text, a category, an importance or an expiry may take a memory out of what
\* the search filters let through, or bring it back.
StoreMemory(m) ==
  /\ memories[m] = "unborn"
  /\ memories' = [memories EXCEPT ![m] = "live"]
  /\ UNCHANGED <<registries, request, stage, assembly, context, plan, error>>

EditMemory(m) ==
  /\ \/ memories[m] = "live" /\ memories' = [memories EXCEPT ![m] = "hidden"]
     \/ memories[m] = "hidden" /\ memories' = [memories EXCEPT ![m] = "live"]
  /\ UNCHANGED <<registries, request, stage, assembly, context, plan, error>>

DeleteMemory(m) ==
  /\ memories[m] \in {"live", "hidden"}
  /\ memories' = [memories EXCEPT ![m] = "deleted"]
  /\ UNCHANGED <<registries, request, stage, assembly, context, plan, error>>

-----------------------------------------------------------------------------
(* Assembling the context. *)

Outranks(p, q) ==
  \/ Priority[p] > Priority[q]
  \/ Priority[p] = Priority[q] /\ NameRank[p] < NameRank[q]

\* ContextProviderRegistry.providers: each has its predecessors before it.
Ranked(names) ==
  [i \in 1 .. Cardinality(names) |->
     CHOOSE p \in names : Cardinality({q \in names : Outranks(q, p)}) = i - 1]

Fail(code) == stage' = "failed" /\ error' = code /\ UNCHANGED <<context, plan>>

\* Mutant: a later section replaces the keys of an earlier one.
WithTheKeysReplaced(merged, p) ==
  [k \in DOMAIN merged \cup Keys[p] |-> IF k \in Keys[p] THEN p ELSE merged[k]]

\* merged.setdefault: only a key that is not there yet is taken from a section.
WithTheKeys(merged, p) ==
  [k \in DOMAIN merged \cup Keys[p] |-> IF k \in DOMAIN merged THEN merged[k] ELSE p]

\* PriorityContextMergeStrategy.merge: which section each key is from.
Merged(names) == FoldLeft(WithTheKeys, <<>>, Ranked(names))

\* _json_size of sections and data: a payload is in both, unless a section of
\* higher rank has its key.
MergedSize(names, size) ==
  LET data == Merged(names)
  IN  SumFunctionOnSet(size, names) + SumFunctionOnSet(size, {p \in names : data[Bulk[p]] = p})

\* build_context after its last provider: the metadata names the providers
\* registered by now, the sections those that were asked.
Merge(names, size) ==
  LET made == [providers |-> Ranked(names), data |-> Merged(names), size |-> MergedSize(names, size)]
  IN  \/ made.size > MaxTotal /\ Fail("context_limit")
      \/ made.size <= MaxTotal /\ Ranked(registry) # made.providers /\ Fail("provider_names")
      \/ /\ made.size <= MaxTotal /\ Ranked(registry) = made.providers
         /\ stage' = "assembled" /\ context' = made
         /\ UNCHANGED <<plan, error>>

\* The section of a provider that does not suspend.
SizeAtOnce(p) == IF p = Conversation THEN request.messages ELSE 0

\* build_context's loop from the provider after the i-th to the next that
\* suspends; _resolve_query of the knowledge provider comes before its await.
GoOn(order, i, size) ==
  LET waits == {j \in i + 1 .. Len(order) : order[j] \in Waiting}
      next  == IF waits = {} THEN Len(order) + 1 ELSE CHOOSE j \in waits : \A k \in waits : j <= k
      atOnce == {order[j] : j \in i + 1 .. next - 1}
      sized == [p \in Providers |-> IF p \in atOnce THEN SizeAtOnce(p) ELSE size[p]]
      fits  == \A p \in atOnce : sized[p] <= MaxSection
      asks  == fits /\ next <= Len(order)
      tooLong == order[next] = Knowledge /\ request.query > MaxQuery
  IN  /\ queue' = order /\ sizes' = sized
      /\ at' = IF asks THEN next ELSE i
      /\ \/ ~fits /\ Fail("context_limit")
         \/ asks /\ tooLong /\ Fail("knowledge_limit")
         \/ asks /\ ~tooLong /\ stage' = "asking" /\ UNCHANGED <<context, plan, error>>
         \/ fits /\ next > Len(order) /\ Merge(Range(order), sized)

\* Mutant: required providers are not looked for.
BeginWithAny ==
  /\ stage = "new"
  /\ IF Cardinality(registry) > MaxSections
       THEN Fail("context_limit") /\ UNCHANGED assembly
       ELSE GoOn(Ranked(registry), 0, sizes) /\ UNCHANGED listed
  /\ UNCHANGED <<registries, memories, request>>

\* build_context up to the first provider that suspends.
Begin ==
  /\ stage = "new"
  /\ \/ ~(Required \subseteq registry) /\ Fail("configuration") /\ UNCHANGED assembly
     \/ /\ Required \subseteq registry /\ Cardinality(registry) > MaxSections
        /\ Fail("context_limit") /\ UNCHANGED assembly
     \/ /\ Required \subseteq registry /\ Cardinality(registry) <= MaxSections
        /\ GoOn(Ranked(registry), 0, sizes) /\ UNCHANGED listed
  /\ UNCHANGED <<registries, memories, request>>

\* search_for_user: the ranked page of the memories there are.
ListMemories ==
  /\ stage = "asking" /\ queue[at] = Memory
  /\ \E page \in SUBSET Live :
       /\ Cardinality(page) <= MaxMemories
       /\ page = Live \/ Cardinality(page) = MaxMemories
       /\ listed' = page
  /\ stage' = "counting"
  /\ UNCHANGED <<registries, memories, request, queue, at, sizes, context, plan, error>>

\* Mutant: the check has the comparison the wrong way round.
TotalMisleadsReversed == Cardinality(Live) > Cardinality(listed)

\* MemoryContextProvider._validate_response.
TotalMisleads == Cardinality(Live) < Cardinality(listed)

\* search_for_user's second SELECT, at READ COMMITTED; then the provider's
\* checks and its section.
CountMemories ==
  /\ stage = "counting"
  /\ \E size \in Sizes :
       /\ listed = {} <=> size = 0
       /\ \/ TotalMisleads /\ Fail("memory_total") /\ UNCHANGED assembly
          \/ /\ ~TotalMisleads /\ size > MaxSection
             /\ Fail("memory_limit") /\ UNCHANGED assembly
          \/ /\ ~TotalMisleads /\ size <= MaxSection
             /\ GoOn(queue, at, [sizes EXCEPT ![Memory] = size]) /\ UNCHANGED listed
  /\ UNCHANGED <<registries, memories, request>>

\* The answer of another provider that suspends.
Answer ==
  /\ stage = "asking" /\ queue[at] # Memory
  /\ \E size \in Sizes :
       \/ /\ size > MaxSection
          /\ Fail(IF queue[at] = Knowledge THEN "knowledge_limit" ELSE "context_limit")
          /\ UNCHANGED assembly
       \/ /\ size <= MaxSection
          /\ GoOn(queue, at, [sizes EXCEPT ![queue[at]] = size]) /\ UNCHANGED listed
  /\ UNCHANGED <<registries, memories, request>>

\* The database, the embedding or the vector store fails under a provider.
ProviderFails ==
  /\ stage \in {"asking", "counting"}
  /\ Fail("provider")
  /\ UNCHANGED <<registries, memories, request, assembly>>

-----------------------------------------------------------------------------
(* Planning, and the executor's view of the plan. *)

\* Mutant: the dependency is written with the step's own index.
BuildStepsOnThemselves(requested) ==
  IF requested = <<>>
    THEN <<[order |-> 1, type |-> "instruction", tool |-> NoTool, depends_on |-> {}]>>
    ELSE [i \in DOMAIN requested |->
            [order |-> i, type |-> "tool", tool |-> requested[i], depends_on |-> {i} \ {1}]]

\* _build_steps: one instruction, or the tools in a chain.
BuildSteps(requested) ==
  IF requested = <<>>
    THEN <<[order |-> 1, type |-> "instruction", tool |-> NoTool, depends_on |-> {}]>>
    ELSE [i \in DOMAIN requested |->
            [order |-> i, type |-> "tool", tool |-> requested[i],
             depends_on |-> IF i = 1 THEN {} ELSE {i - 1}]]

\* The tools of the steps that have one, in their order.
ToolsOf(steps) ==
  LET used[i \in 0 .. Len(steps)] ==
        IF i = 0 THEN <<>>
        ELSE IF steps[i].type = "tool" THEN Append(used[i - 1], steps[i].tool) ELSE used[i - 1]
  IN  used[Len(steps)]

\* PlanStep.validate_tool_step and the fields of an ExecutionPlan.
ValidSteps(steps) ==
  /\ steps # <<>>
  /\ {s.order : s \in Range(steps)} = DOMAIN steps
  /\ \A s \in Range(steps) :
       /\ s.type = "tool" <=> s.tool # NoTool
       /\ \A d \in s.depends_on : d \in DOMAIN steps /\ d < s.order

\* PlanningValidator.validate_plan_for_request after its limit, for the
\* request's own tools.
ValidForRequest(p, available) ==
  Range(ToolsOf(p.steps)) \subseteq available /\ ToolsOf(p.steps) = p.requested

\* ExecutionValidator.validate_plan after its limit.
Executable(p) ==
  /\ p.steps # <<>>
  /\ \A i \in DOMAIN p.steps :
       /\ p.steps[i].order = i
       /\ \A d \in p.steps[i].depends_on : d \in DOMAIN p.steps /\ d < i
  /\ Range(ToolsOf(p.steps)) \subseteq p.available
  /\ ToolsOf(p.steps) = p.requested

\* PlanningValidator.validate_request.
WithinPlannerLimits ==
  Len(request.requested) <= MaxRequested /\ context.size + Overhead <= MaxTotal

\* PlanningRequest takes the tools asked for.
WellFormed == Range(request.requested) \cap Malformed = {}

\* DeterministicPlanner.plan: nothing in it waits.
Plan ==
  /\ stage = "assembled"
  /\ LET asked == request.requested
         made  == [steps |-> BuildSteps(asked), available |-> Enabled, requested |-> asked]
         resolved == WellFormed /\ WithinPlannerLimits /\ Range(asked) \subseteq Enabled
         named == Range(context.providers) \subseteq Identifiers
         built == resolved /\ named /\ Len(made.steps) <= LongestPlan /\ ValidSteps(made.steps)
         short == Len(made.steps) <= MaxPlanSteps
     IN  \/ ~WellFormed /\ Fail("planning_request")
         \/ WellFormed /\ ~WithinPlannerLimits /\ Fail("planner_limit")
         \/ WellFormed /\ WithinPlannerLimits /\ ~resolved /\ Fail("unavailable_tool")
         \/ resolved /\ ~named /\ Fail("plan_metadata")
         \/ resolved /\ named /\ ~built /\ Fail("plan_steps")
         \/ built /\ ~short /\ Fail("planner_limit")
         \/ built /\ short /\ ~ValidForRequest(made, Enabled) /\ Fail("changed_plan")
         \/ /\ built /\ short /\ ValidForRequest(made, Enabled)
            /\ stage' = "planned" /\ plan' = made /\ UNCHANGED <<context, error>>
  /\ UNCHANGED <<registries, memories, request, assembly>>

\* The executor takes the plan, or refuses it.
Execute ==
  /\ stage = "planned"
  /\ LET short == Len(plan.steps) <= MaxSteps
     IN  \/ ~short /\ Fail("executor_limit")
         \/ short /\ ~Executable(plan) /\ Fail("executor_validation")
         \/ short /\ Executable(plan) /\ stage' = "accepted" /\ UNCHANGED <<context, plan, error>>
  /\ UNCHANGED <<registries, memories, request, assembly>>

-----------------------------------------------------------------------------
Init ==
  /\ registry \in Builds
  /\ tools \in Inventories
  /\ memories \in [Memories -> {"unborn", "live"}]
  /\ request \in Requests
  /\ stage = "new" /\ error = "none"
  /\ queue = <<>> /\ at = 0 /\ sizes = [p \in Providers |-> 0] /\ listed = {}
  /\ context = NoContext /\ plan = NoPlan

Orchestrate ==
  Begin \/ ListMemories \/ CountMemories \/ Answer \/ ProviderFails \/ Plan \/ Execute

\* Bound: what happens after the run's planning has ended is left out.
Meanwhile ==
  /\ stage \notin {"accepted", "failed"}
  /\ \/ \E p \in Providers : RegisterProvider(p)
     \/ \E t \in Tools, state \in {"enabled", "disabled"} : RegisterTool(t, state)
     \/ \E m \in Memories : StoreMemory(m) \/ EditMemory(m) \/ DeleteMemory(m)

Next == Meanwhile \/ Orchestrate

Spec == Init /\ [][Next]_vars

-----------------------------------------------------------------------------
(* Properties. *)

\* A key of an assembled context is from the section of highest rank that
\* has it, so that a provider of lower rank never speaks for a higher one, and
\* no key of any section is missing.
HighestRankSpeaks ==
  context # NoContext =>
    LET names == Range(context.providers)
    IN  /\ DOMAIN context.data = UNION {Keys[p] : p \in names}
        /\ \A k \in DOMAIN context.data :
             /\ k \in Keys[context.data[k]]
             /\ \A p \in names : k \in Keys[p] => ~Outranks(p, context.data[k])

\* The refusals that do not follow from one request alone, and what each
\* takes: a total below the page, a memory of the page that another request has
\* deleted or edited between the two SELECTs; names that do not match the
\* sections, a registration while providers were being asked; a limit of the
\* planner, too many tools or steps, or a context that the assembler passed but
\* that is within the planner's overhead of the limit; a limit of the executor,
\* a plan that was short enough for the planner.
RefusalsHaveACause ==
  /\ error = "memory_total" => \E m \in listed : memories[m] \in {"hidden", "deleted"}
  /\ error = "provider_names" => ~(registry \subseteq Range(queue))
  /\ error = "planner_limit" =>
       \/ Len(request.requested) > MaxRequested
       \/ context.size > MaxTotal - Overhead
       \/ Len(request.requested) > MaxPlanSteps
  /\ error = "plan_metadata" => ~(Range(queue) \subseteq Identifiers)
  /\ error = "executor_limit" => MaxSteps < Len(plan.steps) /\ Len(plan.steps) <= MaxPlanSteps

\* Whatever is registered in between, the planner never refuses a plan of its
\* own but for its length, nor does the executor, and a tool of a plan waits,
\* through its dependencies, for all tools that were asked for before it.
PlansAreExecutable ==
  /\ error \notin {"changed_plan", "executor_validation"}
  /\ error = "plan_steps" => Len(request.requested) > LongestPlan
  /\ \A i \in DOMAIN plan.steps : i > 1 => (i - 1) \in plan.steps[i].depends_on
=============================================================================
