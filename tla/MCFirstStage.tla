----------------------------- MODULE MCFirstStage -----------------------------
(* FirstStage for TLC. *)
EXTENDS FirstStage
===============================================================================
