--------------------------- MODULE RocksRefinement ---------------------------
(***************************************************************************)
(* RocksCache implements ImageCache.  What a load of a key may find is     *)
(* what either column family has under it, and what a save under way has   *)
(* put, or is about to put, there.                                         *)
(***************************************************************************)
EXTENDS RocksCache

\* The image a metadata record was computed from.
ImageOf(record) == IF record \in Entry THEN record.content ELSE None

\* The images that a load of k may find the bytes or the checksum of.
Held(k) == ({images[k], ImageOf(meta[k])} \ {None})
             \cup {saves[s].entry.content : s \in Saving(k)}

held == [k \in Keys |-> Held(k)]

\* The calls under way, as their callers see them.
SaveCalls == [s \in Savers |->
                IF saves[s] = None THEN None
                ELSE [key |-> saves[s].key, content |-> saves[s].entry.content,
                      lone |-> s \in lone]]

LoadCalls == [l \in Loaders |->
                IF loads[l] = None THEN None
                ELSE [key |-> loads[l].key, bytes |-> loads[l].bytes,
                      sum |-> ImageOf(loads[l].entry)]]

ASSUME CallsAssumption ==
  None \notin [key : Keys, content : Contents, lone : BOOLEAN]
            \cup [key : Keys, bytes : Contents \cup {None},
                  sum : Contents \cup {None}]

Trait == INSTANCE ImageCache WITH saves <- SaveCalls, loads <- LoadCalls,
                                  errors <- faults

\* save_entry, load_entry and the eviction keep the promise of the ImageCache
\* trait through every interleaving of their column family accesses, failure
\* and kill: a hit is made of images saved under its key, and once a save that
\* met no other save of its key returns true nothing older is found again.
ImplementsImageCache == Trait!Spec

=============================================================================
