----------------------------- MODULE MCImageOrder -----------------------------
(* ImageOrder for TLC. *)
EXTENDS ImageOrder
===============================================================================
