------------------------------ MODULE MCReadAt ------------------------------
(* A small region file for ReadAt: four slots of four bytes. *)
EXTENDS ReadAt
=============================================================================
