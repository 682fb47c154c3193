------------------------------ MODULE MCFloppy ------------------------------
(* Floppy, with the constants of MCFloppy.cfg.                             *)
EXTENDS Floppy
=============================================================================
