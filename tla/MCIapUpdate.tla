----------------------------- MODULE MCIapUpdate ------------------------------
(***************************************************************************)
(* IapUpdate for TLC: sectors of two quad-words of two bytes, a header and *)
(* a tag of two bytes, buffers of two headers.                             *)
(***************************************************************************)
EXTENDS IapUpdate

CONSTANTS PayloadLengths, DamagedUnits, SlotSectors

MCUpdateSlot == [half |-> 1, base |-> 0, size |-> SlotSectors * SectorSize]

MCImages == [length : PayloadLengths, damaged : DamagedUnits]
===============================================================================
