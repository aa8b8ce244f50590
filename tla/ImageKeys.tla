------------------------------ MODULE ImageKeys ------------------------------
(***************************************************************************)
(* The keys the cache engines store images under (ImageKey in              *)
(* src/cache/mod.rs).  as_bkey hashes the archive, the chapter and the     *)
(* name of an image one after the other, with nothing between them.        *)
(* SHA-256 is taken to be injective, so that keys are as different as what *)
(* is hashed.                                                              *)
(***************************************************************************)
EXTENDS Integers, Sequences

Byte == 0 .. 255
Text == Seq(Byte)
ImageKey == [chapter : Text, image : Text, data_saver : {0, 1}]

\* What as_bkey feeds to the hash.
Hashed(k) == <<k.data_saver>> \o (k.chapter \o k.image)

=============================================================================
