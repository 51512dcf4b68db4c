----------------------------- MODULE MCSlotStream -----------------------------
(***************************************************************************)
(* SlotStream for TLC: sectors of two quad-words of two bytes.  The chunks  *)
(* end inside, at and behind a quad-word.                                  *)
(***************************************************************************)
EXTENDS SlotStream

CONSTANT SlotHalves, TableSize

MCContents == {1, 2, 3, Erased, Junk, Pad}

MCChunks == {<<1>>, <<1, 2, 3, 1, 2, 3>>}

MCSlots == {s \in [half : SlotHalves, base : {c \in Offsets : c % WriteSize = 0}, size : {SectorSize, 2 * SectorSize}] :
              s.base + s.size <= BankSize}

MCTables == [1 .. TableSize -> MCSlots]
===============================================================================
