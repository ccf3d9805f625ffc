---------------------- MODULE MCVirtualFileRefinement ----------------------
(* Finite instances of VirtualFileRefinement for TLC. *)
EXTENDS VirtualFileRefinement, MCVirtualFile
=============================================================================
