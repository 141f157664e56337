-------------------------- MODULE MCCompressedFile --------------------------
(* The instance of CompressedFile that TLC checks. *)
EXTENDS CompressedFile

SomeWrites == UNION {[1 .. n -> Bytes] : n \in 1 .. 2}
SomeOffsets == {-2, 0, 3}
=============================================================================
