--------------------------- MODULE MCImageRequests ---------------------------
(* Small instances of ImageRequests for TLC. *)
EXTENDS ImageRequests

CONSTANTS r1, r2, k1, k2

=============================================================================
