--------------------------- MODULE MCKernelHeap ---------------------------
(***************************************************************************)
(* KernelHeap with pages of four bytes, a header of one, and numbers below *)
(* 16: kmalloc(1) takes one page, kmalloc(5) two, and kmalloc(13) wraps    *)
(* around to none.  Page tables have four entries, so that the blocks need *)
(* two of them, and the last two frames are beyond the identity mapping.   *)
(***************************************************************************)
EXTENDS KernelHeap
=============================================================================
