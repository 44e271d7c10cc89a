---------------------------- MODULE MCMemoryItems ----------------------------
(* MemoryItems for TLC: the updates are alike. *)
EXTENDS MemoryItems, TLC

UpdateSymmetry == Permutations(Updates)

\* Nothing, a new expiry, none, a type that calls for one, or a type that does
\* not, without one; references, none, two, or two after a change of the type,
\* which takes the row's lock first.
MCEdits ==
  {[NoPayload EXCEPT !.expires = x] : x \in {"unset", "future", "none"}} \cup
  {[NoPayload EXCEPT !.type = "short_term", !.references = r] : r \in {"unset", "pair"}} \cup
  {[NoPayload EXCEPT !.type = "long_term", !.expires = "none"]} \cup
  {[NoPayload EXCEPT !.references = r] : r \in {"empty", "pair"}}
=============================================================================
