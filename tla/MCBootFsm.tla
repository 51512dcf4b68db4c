------------------------------ MODULE MCBootFsm ------------------------------
(***************************************************************************)
(* BootFsm for TLC; its constants are numbers and switches, given in the   *)
(* configurations.                                                         *)
(***************************************************************************)
EXTENDS BootFsm
===============================================================================
