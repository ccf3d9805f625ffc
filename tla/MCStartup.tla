----------------------------- MODULE MCStartup -----------------------------
(* The instance of Startup for TLC: all its values are in startup.cfg. *)
EXTENDS Startup
=============================================================================
