---------------------------- MODULE MCRocksCache ----------------------------
(* Small instances of RocksCache for TLC. *)
EXTENDS RocksRefinement, TLC

CONSTANTS a, b, s1, s2, l1

\* Payload a weighs two units, payload b one.
MCSize == [c \in Contents |-> IF c = a THEN 2 ELSE 1]

\* Payloads of one weight, where a run is about what is loaded, not how much.
EqualSize == [c \in Contents |-> 1]

\* What an earlier run may have left under a key, by run.
EntryAt(c, t) == [content |-> c, time |-> t]
NothingPrior == {None}
GarbledPrior == {None, Garbled}
MixedPrior == {None, Garbled, EntryAt(a, 1)}
FullPrior == {EntryAt(a, 1)}
\* The savers are interchangeable.
SaverSymmetry == Permutations(Savers)

AnyTimePrior == {None} \cup {EntryAt(b, t) : t \in Times}
SomePrior == {None, Garbled} \cup {EntryAt(b, t) : t \in Times}

=============================================================================
