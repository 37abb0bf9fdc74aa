----------------------------- MODULE MCFrameCodec -----------------------------
(* FrameCodec with bytes on both sides of every boundary of the escaping;   *)
(* their sums with the header reach every form of the checksum.             *)
EXTENDS FrameCodec

SomeBytes == {0, 5, 15, 122, 249, 250, 255}
SomeFrameNrs == {0, 4, 127}
===============================================================================
