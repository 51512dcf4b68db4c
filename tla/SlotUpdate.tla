------------------------------ MODULE SlotUpdate ------------------------------
(***************************************************************************)
(* What an update of the application slot promises to the device, without  *)
(* flash sectors, quad-words or a boot sequence.  The slot is overwritten  *)
(* only while an update is pending whose target is valid, and that update  *)
(* is over only when the slot holds the target.  A device whose power      *)
(* fails or whose flash operations fail may in addition abandon an update. *)
(***************************************************************************)
CONSTANTS
    Region,     \* every content the application slot can have
    Reliable    \* whether power losses and flash errors are excluded

VARIABLES
    slot,       \* content of the application slot
    target,     \* content of the staged image
    pending     \* the update that is requested: none, one of a valid image
                \* or one of an image that has to be refused

vars == <<slot, target, pending>>

Pending == {"none", "valid", "bad"}

Init ==
    /\ slot \in Region
    /\ target \in Region
    /\ pending \in Pending

\* The application stages another image.
Stage ==
    /\ pending = "none"
    /\ target' \in Region
    /\ UNCHANGED <<slot, pending>>

\* The application asks for the staged image to be installed.
Request ==
    /\ pending = "none"
    /\ pending' \in {"valid", "bad"}
    /\ UNCHANGED <<slot, target>>

\* Some part of the slot is erased or programmed.
Overwrite ==
    /\ pending = "valid"
    /\ slot' \in Region
    /\ UNCHANGED <<target, pending>>

\* The update is over: the slot holds the target.
Commit ==
    /\ pending = "valid"
    /\ slot = target
    /\ pending' = "none"
    /\ UNCHANGED <<slot, target>>

\* The staged image is refused: the slot keeps what it has.
Refuse ==
    /\ pending = "bad"
    /\ pending' = "none"
    /\ UNCHANGED <<slot, target>>

\* A fault ends the update with the slot in whatever state it is.
Abandon ==
    /\ ~Reliable
    /\ pending' \in Pending
    /\ slot' \in Region
    /\ slot' # slot => pending = "valid"
    /\ UNCHANGED target

Next == Stage \/ Request \/ Overwrite \/ Commit \/ Refuse \/ Abandon

Spec == Init /\ [][Next]_vars
===============================================================================
