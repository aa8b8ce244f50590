----------------------------- MODULE MCLifecycle -----------------------------
(* Small instances of Lifecycle for TLC. *)
EXTENDS Lifecycle

CONSTANTS ka, kb, kbad

\* No grace period, one without a limit, one that is no multiple of the sleep.
AllGraces == {-1, 0, 12}

=============================================================================
