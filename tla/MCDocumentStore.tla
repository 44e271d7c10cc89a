--------------------------- MODULE MCDocumentStore ---------------------------
(* DocumentStore for TLC: the requests of a kind are interchangeable. *)
EXTENDS DocumentStore, TLC

RequestSymmetry == Permutations(Uploads) \cup Permutations(Deletes)
=============================================================================
