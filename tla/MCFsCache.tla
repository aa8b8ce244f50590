----------------------------- MODULE MCFsCache -----------------------------
(* Small instances of FsCache for TLC. *)
EXTENDS FsCache

CONSTANTS a, b, k1, k2, s1, s2, l1

\* A file of payload a weighs two units, any other one.
MCSize == [blob \in Blobs |-> IF blob = a THEN 2 ELSE 1]

=============================================================================
