--------------------------- MODULE MCBufferCache ---------------------------
(* Small instances of BufferCache: all blocks on one device, or a device   *)
(* for each block.                                                         *)
EXTENDS BufferCache, TLC

CONSTANTS d1

OneDevice == [k \in Block |-> d1]
OwnDevice == [k \in Block |-> k]
Symmetry == Permutations(Proc) \cup Permutations(Buf) \cup Permutations(Block)
SymmetryProcBuf == Permutations(Proc) \cup Permutations(Buf)
=============================================================================
