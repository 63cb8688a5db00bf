--------------------------- MODULE MCCallProtocol ---------------------------
(***************************************************************************)
(* Instances of CallProtocol for TLC.  The entry frame has its real size;  *)
(* the stack is scaled down so that it overflows within a few frames.      *)
(***************************************************************************)
EXTENDS CallProtocol

MCEntryFrame == 8 + 4 * 13
MCFrameSizes == {8, 64}
MCStackFloor == -60
=============================================================================
