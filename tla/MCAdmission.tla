----------------------------- MODULE MCAdmission -----------------------------
(* Small instances of Admission for TLC. *)
EXTENDS Admission

CONSTANTS c1, ha, hb, local, ka, kb, kbad, h1, h2

=============================================================================
