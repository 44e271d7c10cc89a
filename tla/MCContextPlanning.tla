-------------------------- MODULE MCContextPlanning --------------------------
(* ContextPlanning for TLC: the providers of the agents route, less the two *)
(* that resemble the conversation history, and two more.                    *)
EXTENDS ContextPlanning

CONSTANTS t1, t2, t3, t4, t5, bad

MCBuilds == {{"conversation_history", "runtime_metadata", "memory", "knowledge"},
             {"conversation_history", "runtime_metadata", "memory"}}

MCPriority ==
  [conversation_history |-> 100, runtime_metadata |-> 200, memory |-> 75, knowledge |-> 70,
   notes |-> 75, Persona |-> 300]

MCNameRank ==
  [conversation_history |-> 2, runtime_metadata |-> 6, memory |-> 4, knowledge |-> 3,
   notes |-> 5, Persona |-> 1]

MCKeys ==
  [conversation_history |-> {"messages"}, runtime_metadata |-> {"task", "user_id"},
   memory |-> {"memories", "query"}, knowledge |-> {"knowledge_chunks"},
   notes |-> {"memories", "notes"}, Persona |-> {"task"}]

MCBulk ==
  [conversation_history |-> "messages", runtime_metadata |-> "task", memory |-> "memories",
   knowledge |-> "knowledge_chunks", notes |-> "memories", Persona |-> "task"]

MCInventories ==
  LET registered(enabled, disabled) ==
        [t \in Tools |->
           IF t \in enabled THEN "enabled" ELSE IF t \in disabled THEN "disabled" ELSE "absent"]
  IN  {registered({t1, t2, t3}, {}), registered({t2, t3, t4}, {t1})}

\* Lists at each of the limits on a plan's length, and one beyond them all.
MCRequestedLists ==
  {<<>>, <<t1>>, <<t1, t2>>, <<t2, t3, t1>>, <<t4, t3, t2, t1>>, <<t1, t2, t3, t4, t5>>, <<bad>>}
=============================================================================
