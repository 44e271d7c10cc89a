------------------------------ MODULE MCChunking ------------------------------
(* Chunking for TLC: every overlap the constructor accepts, and the first it refuses on either side. *)
EXTENDS Chunking

MCOverlaps == -1 .. ChunkSize
=============================================================================
