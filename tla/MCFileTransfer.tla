--------------------------- MODULE MCFileTransfer ---------------------------
(***************************************************************************)
(* The instance of FileTransfer for TLC: the files to send.                *)
(***************************************************************************)
EXTENDS FileTransfer, TLC

\* A file that fills its row of the arrays (two segments), one of one segment that has a NUL byte, an empty one.
MixedSizes == (0 :> 2) @@ (1 :> 1) @@ (2 :> 0)
MixedCut == {<<1, 0>>}
=============================================================================
