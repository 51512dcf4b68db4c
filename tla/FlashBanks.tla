------------------------------ MODULE FlashBanks ------------------------------
(***************************************************************************)
(* The flash driver of the STM32H5 (stm32h5xx_flash_driver.c) and the two  *)
(* banks below it.  A write programs quad-words in ascending order; when   *)
(* one begins at a sector, the driver erases that sector first.  With      *)
(* FLASH_DB_MODE (DualBank) it does so in the bank it takes for the one    *)
(* that does not execute, whatever the address; otherwise in the bank of   *)
(* the address.                                                            *)
(*                                                                         *)
(* An address is a half of the address space (0: STM32H5xx_FLASH_BANK1_    *)
(* ADDR, where the processor executes, 1: STM32H5xx_FLASH_BANK2_ADDR) and  *)
(* an offset.  Which bank a half shows is latched at reset from the        *)
(* SWAP_BANK option; HAL_FLASHEx_OBGetConfig reads the option register,    *)
(* which follows the programming of the option at once (LaunchLoads) or at *)
(* the reset.                                                              *)
(***************************************************************************)
EXTENDS Integers, Sequences

CONSTANTS
    BankSize,     \* STM32H5xx_FLASH_BANK_SIZE
    SectorSize,   \* STM32H5xx_FLASH_SECTOR_SIZE
    WriteSize,    \* STM32H5xx_FLASH_WRITE_SIZE
    DualBank,     \* FLASH_DB_MODE
    LaunchLoads,  \* the option register follows HAL_FLASH_OB_Launch at once
    Erased,       \* an erased byte
    Junk          \* a byte of a quad-word torn or programmed twice

ASSUME GeometryAssumption ==
    /\ BankSize \in Nat /\ SectorSize \in Nat \ {0} /\ WriteSize \in Nat \ {0}
    /\ SectorSize % WriteSize = 0 /\ BankSize % SectorSize = 0
    /\ {DualBank, LaunchLoads} \subseteq BOOLEAN

Banks   == 1 .. 2
Halves  == 0 .. 1
Offsets == 0 .. BankSize - 1

VARIABLES
    flash,    \* the bytes of both banks
    mapped,   \* the bank the processor executes from
    option    \* the bank the SWAP_BANK option selects

banks == <<flash, mapped, option>>

\* The sector an offset is in, by its first offset (stm32h5xxFlashGetSector).
SectorStart(c) == c - (c % SectorSize)

IsSectorAddress(c) == c % SectorSize = 0

\* The bank shown in a half of the address space.
BankOf(half) == IF half = 0 THEN mapped ELSE 3 - mapped

\* flashGetCurrentBank.
CurrentBank == IF LaunchLoads THEN option ELSE mapped

\* Mutant: the sector is erased in the executing bank.
EraseBankExecuting(half) == IF DualBank THEN CurrentBank ELSE BankOf(half)

\* The bank in which stm32h5xxFlashDriverWriteQuadWord erases a sector.
EraseBank(half) == IF DualBank THEN 3 - CurrentBank ELSE BankOf(half)

\* Mutant: a write that ends at a sector erases that one too.
ClearedOneMore(f, half, at, n) ==
    [b \in Banks |-> [c \in Offsets |->
        IF b = EraseBank(half) /\ SectorStart(c) \in at .. at + n
        THEN Erased ELSE f[b][c]]]

\* The bank f[b] after the sectors that begin in at .. at + n - 1 are erased.
Cleared(f, half, at, n) ==
    [b \in Banks |-> [c \in Offsets |->
        IF b = EraseBank(half) /\ SectorStart(c) \in at .. at + n - 1
        THEN Erased ELSE f[b][c]]]

\* stm32h5xxFlashDriverWrite of whole quad-words: erases each sector when it
\* gets to its first byte; what is not erased then cannot be programmed.
Program(f, half, at, data) ==
    LET g == Cleared(f, half, at, Len(data)) IN
    [b \in Banks |-> [c \in Offsets |->
        IF b = BankOf(half) /\ c \in at .. at + Len(data) - 1
        THEN IF g[b][c] = Erased THEN data[c - at + 1] ELSE Junk
        ELSE g[b][c]]]

\* What a quad-word that fails or is cut off may leave: nothing done, its
\* sector erased, or the quad-word torn.
Torn(f, half, at) ==
    LET g == Cleared(f, half, at, WriteSize) IN
    {f, g, [b \in Banks |-> [c \in Offsets |->
               IF b = BankOf(half) /\ c \in at .. at + WriteSize - 1 THEN Junk ELSE g[b][c]]]}

\* The address checks of the driver: within one bank.  Without FLASH_DB_MODE they
\* look at the end of the flash only, which is that of the upper half.
InBank(at, n) == at + n <= BankSize

\* stm32h5xxFlashDriverErase without FLASH_DB_MODE: every sector the range
\* touches, counted from its first address.  (With it: not implemented.)
EraseRange(f, half, at, n) ==
    [b \in Banks |-> [c \in Offsets |->
        IF b = BankOf(half) /\ c >= SectorStart(at) /\ SectorStart(c) - SectorStart(at) < n
        THEN Erased ELSE f[b][c]]]

\* Mutant: the test of the current bank is inverted.
SwapBanksInverted == option' = CurrentBank

\* stm32h5xxFlashDriverSwapBanks.
SwapBanks == option' = 3 - CurrentBank

\* A reset latches the option into the address map.
ResetBanks == mapped' = option /\ UNCHANGED <<flash, option>>

BanksTypeOK(Cell) ==
    /\ flash \in [Banks -> [Offsets -> Cell]]
    /\ mapped \in Banks
    /\ option \in Banks
===============================================================================
