\* One run's planning, with registrations and memory edits at every await.
SPECIFICATION Spec
CONSTANTS
  t1 = t1  t2 = t2  t3 = t3  t4 = t4  t5 = t5  bad = bad
  Providers = {"conversation_history", "runtime_metadata", "memory", "knowledge", "notes", "Persona"}
  Conversation = "conversation_history"
  Memory = "memory"
  Knowledge = "knowledge"
  Builds <- MCBuilds
  Required = {"conversation_history", "runtime_metadata", "memory", "knowledge"}
  Waiting = {"memory", "knowledge", "notes"}
  Priority <- MCPriority
  NameRank <- MCNameRank
  Keys <- MCKeys
  Bulk <- MCBulk
  Identifiers = {"conversation_history", "runtime_metadata", "memory", "knowledge", "notes"}
  MaxSections = 5
  MaxSection = 1
  MaxTotal = 4
  MaxQuery = 1
  Overhead = 1
  Tools = {t1, t2, t3, t4, t5, bad}
  Malformed = {bad}
  MaxTools = 4
  Inventories <- MCInventories
  RequestedLists <- MCRequestedLists
  MaxRequested = 4
  MaxPlanSteps = 2
  LongestPlan = 3
  MaxSteps = 1
  Memories = {1, 2}
  MaxMemories = 1
  Sizes = {0, 1, 2}
  Lengths = {1, 2}
INVARIANTS
  TypeOK
  HighestRankSpeaks
  RefusalsHaveACause
  PlansAreExecutable
CHECK_DEADLOCK FALSE
