-------------------------- MODULE SlotMemoryProofs ---------------------------
(***************************************************************************)
(* What a call of memoryWriteSlot does to a stream, for any geometry of    *)
(* the flash, any slot and any data: the step that the clients of memory.c *)
(* repeat.                                                                 *)
(***************************************************************************)
EXTENDS SlotMemory, TLAPS

\* A sector begins at or before the offsets in it, and behind every sector
\* boundary that lies before them (stm32h5xxFlashGetSector).
LEMMA SectorStartBounds ==
    ASSUME NEW c \in Nat, NEW base \in Nat, IsSectorAddress(base), base <= c
    PROVE  /\ SectorStart(c) \in Nat
           /\ SectorStart(c) <= c
           /\ base <= SectorStart(c)
<1>1. SectorSize \in Nat /\ SectorSize > 0
  BY GeometryAssumption
<1>2. c % SectorSize \in 0 .. SectorSize - 1
  BY <1>1
<1> DEFINE q == c \div SectorSize
           k == base \div SectorSize
<1>3. q \in Nat /\ c = SectorSize * q + (c % SectorSize)
  BY <1>1
<1>4. k \in Nat /\ base = SectorSize * k
  BY <1>1 DEF IsSectorAddress
<1>5. SectorSize * k <= SectorSize * q
  <2>1. SUFFICES ASSUME q + 1 <= k PROVE FALSE
    <3>1. k <= q => SectorSize * k <= SectorSize * q
      BY <1>1, <1>3, <1>4
    <3> QED BY <3>1, <1>3, <1>4, <2>1
  <2>2. SectorSize * (q + 1) <= SectorSize * k
    BY <1>1, <1>3, <1>4, <2>1
  <2>3. SectorSize * (q + 1) = SectorSize * q + SectorSize
    BY <1>1, <1>3
  <2> QED BY <1>1, <1>2, <1>3, <1>4, <2>2, <2>3
<1>6. SectorStart(c) = SectorSize * q
  BY <1>1, <1>2, <1>3 DEF SectorStart
<1> QED BY <1>1, <1>2, <1>3, <1>4, <1>5, <1>6 DEF SectorStart

\* The slot can be written: it begins at a sector, and the bank in which the
\* driver erases is the one the slot is in.
Writable(slot) ==
    /\ slot \in Slot
    /\ IsSectorAddress(slot.base)
    /\ EraseBank(slot.half) = BankOf(slot.half)

\* The bank that a write to the slot leaves alone.
OtherBank(slot) == 3 - BankOf(slot.half)

\* Behind a stream that has got to pos, the rest of the sector it is in is
\* erased: the driver erases a sector only when a write begins at it.
CleanAhead(slot, pos) ==
    \A c \in Offsets :
        (c >= slot.base + pos /\ SectorStart(c) < slot.base + pos) =>
            flash[BankOf(slot.half)][c] = Erased

\* The padding completes the last quad-word (memory.c:363-367).
LEMMA PaddingFacts ==
    ASSUME NEW Cell, Pad \in Cell, wbuf \in Seq(Cell),
           NEW data \in Seq(Cell), NEW flag
    PROVE  /\ Taken(flag, data) \in Seq(Cell)
           /\ Padding(flag, data) \in Seq(Cell)
           /\ Queue(flag, data) \in Seq(Cell)
           /\ Len(Queue(flag, data)) = Len(Taken(flag, data)) + Len(Padding(flag, data))
<1>1. WriteSize \in Nat /\ WriteSize > 0
  BY GeometryAssumption
<1>2. Taken(flag, data) \in Seq(Cell)
  BY DEF Taken
<1>3. Padding(flag, data) \in Seq(Cell)
  <2>1. CASE Padding(flag, data) = <<>>
    BY <2>1
  <2>2. CASE Padding(flag, data) # <<>>
    <3> DEFINE n == WriteSize - (Len(Taken(flag, data)) % WriteSize)
    <3>1. n \in Nat
      BY <1>1, <1>2
    <3>2. Padding(flag, data) = [i \in 1 .. n |-> Pad]
      BY <2>2 DEF Padding
    <3> QED BY <3>1, <3>2
  <2> QED BY <2>1, <2>2
<1> QED BY <1>2, <1>3 DEF Queue

\* What is written and what stays in the buffer make up the queue.
LEMMA QueueFacts ==
    ASSUME NEW Cell, Pad \in Cell, wbuf \in Seq(Cell),
           NEW data \in Seq(Cell), NEW flag
    PROVE  /\ Written(flag, data) \in 0 .. Len(Queue(flag, data))
           /\ Rest(flag, data) \in Seq(Cell)
           /\ Len(Rest(flag, data)) = Len(Queue(flag, data)) - Written(flag, data)
           /\ Len(Rest(flag, data)) < WriteSize
           /\ \A i \in 1 .. Len(Rest(flag, data)) :
                 Rest(flag, data)[i] = Queue(flag, data)[Written(flag, data) + i]
<1> DEFINE q == Queue(flag, data)
           w == Written(flag, data)
<1>1. WriteSize \in Nat /\ WriteSize > 0
  BY GeometryAssumption
<1>2. q \in Seq(Cell)
  BY PaddingFacts
<1>3. Len(q) % WriteSize \in 0 .. WriteSize - 1 /\ Len(q) % WriteSize <= Len(q)
  BY <1>1, <1>2
<1>4. w \in 0 .. Len(q) /\ Len(q) - w < WriteSize
  BY <1>1, <1>2, <1>3 DEF Written
<1>5. Rest(flag, data) = SubSeq(q, w + 1, Len(q))
  BY DEF Rest
<1> HIDE DEF q, w
<1> QED BY <1>2, <1>4, <1>5 DEF q, w

\* Three sequences in a row, by index.
LEMMA ConcatAt ==
    ASSUME NEW S, NEW a \in Seq(S), NEW b \in Seq(S), NEW c \in Seq(S),
           NEW j \in 1 .. Len(a) + Len(b) + Len(c)
    PROVE  (a \o b \o c)[j] =
              IF j <= Len(a) THEN a[j]
              ELSE IF j <= Len(a) + Len(b) THEN b[j - Len(a)]
              ELSE c[j - Len(a) - Len(b)]
<1> DEFINE d == a \o b
<1>1. d \in Seq(S) /\ Len(d) = Len(a) + Len(b)
  OBVIOUS
<1>2. \A i \in 1 .. Len(d) : d[i] = IF i <= Len(a) THEN a[i] ELSE b[i - Len(a)]
  OBVIOUS
<1> HIDE DEF d
<1>3. (d \o c)[j] = IF j <= Len(d) THEN d[j] ELSE c[j - Len(d)]
  BY <1>1
<1> QED BY <1>1, <1>2, <1>3 DEF d

\* Queue holds what the history has behind the position.
LEMMA QueueIsGiven ==
    ASSUME NEW Cell, Pad \in Cell, wbuf \in Seq(Cell), given \in Seq(Cell),
           NEW data \in Seq(Cell), NEW flag, NEW pos \in Nat,
           Take(flag, data),
           IF flag = "RESET" THEN pos = 0
           ELSE /\ pos = Len(given) - Len(wbuf)
                /\ \A i \in 1 .. Len(wbuf) : wbuf[i] = given[pos + i]
    PROVE  /\ given' \in Seq(Cell)
           /\ Len(given') = pos + Len(Queue(flag, data))
           /\ \A j \in 1 .. Len(Queue(flag, data)) : Queue(flag, data)[j] = given'[pos + j]
           /\ flag # "RESET" => \A i \in 1 .. pos : given'[i] = given[i]
<1> DEFINE pad == Padding(flag, data)
           g == IF flag = "RESET" THEN <<>> ELSE given
           w == IF flag = "RESET" THEN <<>> ELSE wbuf
<1>1. pad \in Seq(Cell)
  BY PaddingFacts
<1>2. g \in Seq(Cell) /\ w \in Seq(Cell)
  OBVIOUS
<1>3. given' = g \o data \o pad
  BY DEF Take
<1>4. Queue(flag, data) = w \o data \o pad
  BY DEF Queue, Taken
<1>5. pos = Len(g) - Len(w) /\ \A i \in 1 .. Len(w) : w[i] = g[pos + i]
  OBVIOUS
<1>6. flag # "RESET" => g = given
  OBVIOUS
<1> HIDE DEF pad, g, w
<1>7. given' \in Seq(Cell) /\ Queue(flag, data) \in Seq(Cell)
  BY <1>1, <1>2, <1>3, <1>4
<1>8. /\ Len(given') = Len(g) + Len(data) + Len(pad)
      /\ Len(Queue(flag, data)) = Len(w) + Len(data) + Len(pad)
  BY <1>1, <1>2, <1>3, <1>4
<1>9. ASSUME NEW j \in 1 .. Len(Queue(flag, data))
      PROVE  Queue(flag, data)[j] = given'[pos + j]
  <2>1. j \in 1 .. Len(w) + Len(data) + Len(pad)
    BY <1>8
  <2>2. pos + j \in 1 .. Len(g) + Len(data) + Len(pad)
    BY <2>1, <1>1, <1>2, <1>5
  <2>3. Queue(flag, data)[j] = IF j <= Len(w) THEN w[j]
                               ELSE IF j <= Len(w) + Len(data) THEN data[j - Len(w)]
                               ELSE pad[j - Len(w) - Len(data)]
    BY <2>1, <1>1, <1>2, <1>4, ConcatAt
  <2>4. given'[pos + j] = IF pos + j <= Len(g) THEN g[pos + j]
                          ELSE IF pos + j <= Len(g) + Len(data) THEN data[pos + j - Len(g)]
                          ELSE pad[pos + j - Len(g) - Len(data)]
    BY <2>2, <1>1, <1>2, <1>3, ConcatAt
  <2> QED BY <2>1, <2>3, <2>4, <1>1, <1>2, <1>5
<1>10. ASSUME flag # "RESET", NEW i \in 1 .. pos
       PROVE  given'[i] = given[i]
  BY <1>1, <1>2, <1>3, <1>5, <1>6, <1>8, <1>10
<1> QED BY <1>2, <1>5, <1>7, <1>8, <1>9, <1>10

\* stm32h5xxFlashDriverWrite: a content of the banks stays one, and the other
\* bank keeps its content.
LEMMA ProgramTypes ==
    ASSUME NEW Cell, {Erased, Junk} \subseteq Cell, NEW m, m \in [Banks -> [Offsets -> Cell]],
           mapped \in Banks, NEW slot, Writable(slot), NEW at \in Nat, NEW data \in Seq(Cell)
    PROVE  /\ Program(m, slot.half, at, data) \in [Banks -> [Offsets -> Cell]]
           /\ Program(m, slot.half, at, data)[OtherBank(slot)] = m[OtherBank(slot)]
<1> DEFINE o == OtherBank(slot)
           b == BankOf(slot.half)
           f == Program(m, slot.half, at, data)
           g == Cleared(m, slot.half, at, Len(data))
<1>1. b \in Banks /\ o \in Banks /\ o # b
  BY DEF OtherBank, BankOf, Halves, Banks, Writable, Slot
<1>2. EraseBank(slot.half) = b
  BY DEF Writable
<1>3. g = [d \in Banks |-> [c \in Offsets |->
             IF d = b /\ SectorStart(c) \in at .. at + Len(data) - 1 THEN Erased ELSE m[d][c]]]
  BY <1>2 DEF Cleared
<1>4. f = [d \in Banks |-> [c \in Offsets |->
             IF d = b /\ c \in at .. at + Len(data) - 1
             THEN IF g[d][c] = Erased THEN data[c - at + 1] ELSE Junk
             ELSE g[d][c]]]
  BY DEF Program
<1> HIDE DEF o, b, g, f
<1>5. f \in [Banks -> [Offsets -> Cell]]
  <2>1. g \in [Banks -> [Offsets -> Cell]]
    BY <1>3
  <2>2. ASSUME NEW c \in Offsets, c \in at .. at + Len(data) - 1
        PROVE  data[c - at + 1] \in Cell
    BY <2>2
  <2> QED BY <1>4, <2>1, <2>2
<1>6. \A c \in Offsets : f[o][c] = m[o][c]
  BY <1>1, <1>3, <1>4
<1>7. f[o] = m[o]
  BY <1>1, <1>5, <1>6
<1> QED BY <1>5, <1>7 DEF o, b, f

\* stm32h5xxFlashDriverWrite of bytes behind a stream: they are programmed, what
\* lies before them stays, and the rest of the last sector is erased.
LEMMA ProgramFacts ==
    ASSUME NEW Cell, BanksTypeOK(Cell), {Erased, Junk} \subseteq Cell,
           NEW slot, Writable(slot), NEW pos \in Nat, pos > 0 => CleanAhead(slot, pos),
           NEW data \in Seq(Cell), InBank(slot.base + pos, Len(data)),
           NEW f, f = Program(flash, slot.half, slot.base + pos, data)
    PROVE  /\ \A c \in Offsets : c < slot.base + pos =>
                 f[BankOf(slot.half)][c] = flash[BankOf(slot.half)][c]
           /\ \A i \in 1 .. Len(data) : f[BankOf(slot.half)][slot.base + pos + i - 1] = data[i]
           /\ \A c \in Offsets :
                 (c >= slot.base + pos + Len(data) /\ SectorStart(c) < slot.base + pos + Len(data))
                   => f[BankOf(slot.half)][c] = Erased
<1> DEFINE at == slot.base + pos
           b == BankOf(slot.half)
           g == Cleared(flash, slot.half, at, Len(data))
<1>1. /\ slot.half \in Halves /\ slot.base \in Nat /\ at \in Nat
      /\ Len(data) \in Nat /\ BankSize \in Nat /\ at + Len(data) <= BankSize
  BY GeometryAssumption DEF Writable, Slot, InBank
<1>2. b \in Banks /\ 3 - b \in Banks /\ 3 - b # b
  BY <1>1 DEF BankOf, Halves, Banks, BanksTypeOK
<1>3. EraseBank(slot.half) = b
  BY DEF Writable
<1>4. ASSUME NEW c \in Offsets
      PROVE  /\ SectorStart(c) \in Nat /\ SectorStart(c) <= c
             /\ slot.base <= c => slot.base <= SectorStart(c)
  <2>1. c \in Nat /\ IsSectorAddress(0)
    BY GeometryAssumption DEF Offsets, IsSectorAddress
  <2>2. IsSectorAddress(slot.base)
    BY DEF Writable
  <2> QED BY <1>1, <2>1, <2>2, SectorStartBounds
<1>5. g = [d \in Banks |-> [c \in Offsets |->
             IF d = b /\ SectorStart(c) \in at .. at + Len(data) - 1 THEN Erased ELSE flash[d][c]]]
  BY <1>3 DEF Cleared
<1>6. f = [d \in Banks |-> [c \in Offsets |->
             IF d = b /\ c \in at .. at + Len(data) - 1
             THEN IF g[d][c] = Erased THEN data[c - at + 1] ELSE Junk
             ELSE g[d][c]]]
  BY DEF Program
<1> HIDE DEF b, g, at
<1>7. ASSUME NEW c \in Offsets, c < at
       PROVE  f[b][c] = flash[b][c]
  <2>1. SectorStart(c) < at
    BY <1>1, <1>4, <1>7 DEF Offsets
  <2> QED BY <1>1, <1>2, <1>4, <1>5, <1>6, <1>7, <2>1 DEF Offsets
\* A byte that is written is erased by the driver, or was before.
<1>8. ASSUME NEW c \in Offsets, at <= c, SectorStart(c) < at + Len(data)
       PROVE  g[b][c] = Erased
  <2>1. CASE SectorStart(c) >= at
    BY <1>1, <1>2, <1>4, <1>5, <1>8, <2>1
  <2>2. CASE SectorStart(c) < at
    <3>1. pos > 0
      <4>1. slot.base <= SectorStart(c)
        BY <1>1, <1>4, <1>8 DEF Offsets, at
      <4> QED BY <1>1, <1>4, <2>2, <4>1 DEF at
    <3>2. flash[b][c] = Erased
      BY <3>1, <1>8, <2>2 DEF CleanAhead, b, at
    <3> QED BY <1>2, <1>5, <3>2
  <2> QED BY <1>1, <1>4, <2>1, <2>2
<1>9. ASSUME NEW i \in 1 .. Len(data)
       PROVE  f[b][at + i - 1] = data[i]
  <2> DEFINE c == at + i - 1
  <2>1. c \in Offsets /\ c \in at .. at + Len(data) - 1 /\ c - at + 1 = i
    BY <1>1, <1>9 DEF Offsets
  <2>2. g[b][c] = Erased
    BY <1>1, <1>4, <1>8, <2>1
  <2> QED BY <1>2, <1>6, <2>1, <2>2
<1>10. ASSUME NEW c \in Offsets, c >= at + Len(data), SectorStart(c) < at + Len(data)
       PROVE  f[b][c] = Erased
  <2>1. g[b][c] = Erased
    BY <1>1, <1>8, <1>10 DEF Offsets
  <2> QED BY <1>1, <1>2, <1>6, <1>10, <2>1 DEF Offsets
<1> QED BY <1>7, <1>9, <1>10 DEF b, at

\* memoryWriteSlot, whatever the slot holds: types, and the other bank.
LEMMA WriteSlotTypes ==
    ASSUME NEW Cell, {Erased, Junk, Pad} \subseteq Cell, MemoryTypeOK(Cell),
           NEW slot, Writable(slot), NEW pos \in Nat, NEW data \in Seq(Cell), NEW flag,
           WriteSlot(slot, pos, data, flag)
    PROVE  /\ MemoryTypeOK(Cell)'
           /\ flash'[OtherBank(slot)] = flash[OtherBank(slot)]
<1> DEFINE q == Queue(flag, data)
           w == Written(flag, data)
           h == SubSeq(q, 1, w)
<1>1. /\ wbuf \in Seq(Cell) /\ given \in Seq(Cell) /\ Pad \in Cell
      /\ BanksTypeOK(Cell) /\ broken \in BOOLEAN
  BY DEF MemoryTypeOK
<1>2. slot.base + pos \in Nat
  BY DEF Writable, Slot
<1>3. /\ q \in Seq(Cell) /\ w \in 0 .. Len(q)
      /\ Rest(flag, data) \in Seq(Cell) /\ Len(Rest(flag, data)) < WriteSize
  BY <1>1, PaddingFacts, QueueFacts
<1>4. /\ flash' = Program(flash, slot.half, slot.base + pos, h)
      /\ wbuf' = Rest(flag, data)
      /\ given' = (IF flag = "RESET" THEN <<>> ELSE given) \o data \o Padding(flag, data)
      /\ broken' = (broken /\ flag # "RESET")
      /\ mapped' = mapped /\ option' = option
  BY DEF WriteSlot, Take
<1> HIDE DEF q, w
<1>5. h \in Seq(Cell)
  BY <1>3
<1>6. /\ flash' \in [Banks -> [Offsets -> Cell]]
      /\ flash'[OtherBank(slot)] = flash[OtherBank(slot)]
  <2>1. PICK a : a = slot.base + pos
    OBVIOUS
  <2>2. /\ {Erased, Junk} \subseteq Cell /\ a \in Nat /\ mapped \in Banks
        /\ flash \in [Banks -> [Offsets -> Cell]] /\ Writable(slot)
    BY <1>1, <1>2, <2>1 DEF BanksTypeOK
  <2> HIDE DEF h
  <2>3. /\ Program(flash, slot.half, a, h) \in [Banks -> [Offsets -> Cell]]
        /\ Program(flash, slot.half, a, h)[OtherBank(slot)] = flash[OtherBank(slot)]
    BY ONLY <1>5, <2>2, ProgramTypes
  <2> QED BY <1>4, <2>1, <2>3
<1>7. BanksTypeOK(Cell)'
  BY <1>1, <1>4, <1>6 DEF BanksTypeOK
<1>8. given' \in Seq(Cell)
  <2>1. Padding(flag, data) \in Seq(Cell)
    BY <1>1, PaddingFacts
  <2> QED BY <1>1, <1>4, <2>1
<1>9. wbuf' \in Seq(Cell) /\ Len(wbuf') <= WriteSize
  BY <1>3, <1>4, GeometryAssumption
<1> QED BY <1>1, <1>4, <1>6, <1>7, <1>8, <1>9 DEF MemoryTypeOK

\* memoryWriteSlot stops after k quad-words: types, and the other bank.
LEMMA WriteSlotStopsTypes ==
    ASSUME NEW Cell, {Erased, Junk, Pad} \subseteq Cell, MemoryTypeOK(Cell),
           NEW slot, Writable(slot), NEW pos \in Nat, NEW data \in Seq(Cell), NEW flag,
           NEW k \in Nat,
           WriteSlotStops(slot, pos, data, flag, k)
    PROVE  /\ MemoryTypeOK(Cell)'
           /\ flash'[OtherBank(slot)] = flash[OtherBank(slot)]
           /\ broken'
<1> DEFINE q == Queue(flag, data)
           t == Taken(flag, data)
           done == k * WriteSize
           at == slot.base + pos
           h == SubSeq(q, 1, done)
<1>1. /\ wbuf \in Seq(Cell) /\ given \in Seq(Cell) /\ Pad \in Cell
      /\ BanksTypeOK(Cell) /\ broken \in BOOLEAN
  BY DEF MemoryTypeOK
<1>2. at \in Nat /\ done \in Nat /\ WriteSize \in Nat /\ WriteSize > 0
  BY GeometryAssumption DEF Writable, Slot
<1>3. /\ q \in Seq(Cell) /\ t \in Seq(Cell) /\ Padding(flag, data) \in Seq(Cell)
      /\ Len(q) = Len(t) + Len(Padding(flag, data))
      /\ Written(flag, data) \in 0 .. Len(q)
  BY <1>1, PaddingFacts, QueueFacts
<1>4. /\ done < Written(flag, data)
      /\ flash' \in Torn(Program(flash, slot.half, at, h), slot.half, at + done)
      /\ wbuf' = SubSeq(t, done + 1, IF Len(t) < done + WriteSize THEN Len(t) ELSE done + WriteSize)
      /\ given' = (IF flag = "RESET" THEN <<>> ELSE given) \o data \o Padding(flag, data)
      /\ broken' = TRUE
      /\ mapped' = mapped /\ option' = option
  BY DEF WriteSlotStops, Take
<1>5. mapped \in Banks /\ flash \in [Banks -> [Offsets -> Cell]] /\ {Erased, Junk} \subseteq Cell
  BY <1>1 DEF BanksTypeOK
<1> HIDE DEF q, t, done, at
<1>6. h \in Seq(Cell)
  <2>1. done \in 0 .. Len(q)
    BY <1>2, <1>3, <1>4
  <2> QED BY <1>3, <2>1
<1>7. /\ flash' \in [Banks -> [Offsets -> Cell]]
      /\ flash'[OtherBank(slot)] = flash[OtherBank(slot)]
  <2>1. PICK m : m = Program(flash, slot.half, at, h)
    OBVIOUS
  <2>2. PICK a : a = at + done
    OBVIOUS
  <2>3. {Erased, Junk} \subseteq Cell /\ Writable(slot)
    OBVIOUS
  <2> HIDE DEF h
  <2>4. /\ m \in [Banks -> [Offsets -> Cell]]
        /\ m[OtherBank(slot)] = flash[OtherBank(slot)]
    BY ONLY <1>2, <1>5, <1>6, <2>1, <2>3, ProgramTypes
\* What the driver leaves: nothing done, the sector erased, the quad-word torn.
  <2> DEFINE o == OtherBank(slot)
             b == BankOf(slot.half)
             g == Cleared(m, slot.half, a, WriteSize)
             j == [d \in Banks |-> [c \in Offsets |->
                     IF d = b /\ c \in a .. a + WriteSize - 1 THEN Junk ELSE g[d][c]]]
  <2>5. b \in Banks /\ o \in Banks /\ o # b
    BY <1>5 DEF OtherBank, BankOf, Halves, Banks, Writable, Slot
  <2>6. g = [d \in Banks |-> [c \in Offsets |->
               IF d = b /\ SectorStart(c) \in a .. a + WriteSize - 1 THEN Erased ELSE m[d][c]]]
    BY DEF Cleared, Writable
  <2>7. flash' \in {m, g, j}
    BY <1>4, <2>1, <2>2 DEF Torn
  <2> HIDE DEF o, b, g
  <2>8. g \in [Banks -> [Offsets -> Cell]]
    BY <1>5, <2>4, <2>6
  <2>9. j \in [Banks -> [Offsets -> Cell]]
    BY <1>5, <2>8
  <2>10. g[o] = m[o]
    <3>1. \A c \in Offsets : g[o][c] = m[o][c]
      BY <2>5, <2>6
    <3> QED BY <2>4, <2>5, <2>8, <3>1
  <2>11. j[o] = g[o]
    <3>1. \A c \in Offsets : j[o][c] = g[o][c]
      BY <2>5
    <3> HIDE DEF j
    <3> QED BY <2>5, <2>8, <2>9, <3>1
  <2> HIDE DEF j
  <2>12. m[o] = flash[o]
    BY <2>4 DEF o
  <2> QED BY <2>4, <2>7, <2>8, <2>9, <2>10, <2>11, <2>12 DEF o
<1>8. given' \in Seq(Cell)
  BY <1>1, <1>3, <1>4
<1>9. wbuf' \in Seq(Cell) /\ Len(wbuf') <= WriteSize
  <2> DEFINE to == IF Len(t) < done + WriteSize THEN Len(t) ELSE done + WriteSize
  <2>1. to \in Nat /\ to <= Len(t) /\ to - done <= WriteSize
    BY <1>2, <1>3
  <2>2. wbuf' = SubSeq(t, done + 1, to) /\ done + 1 \in Nat /\ done + 1 >= 1
    BY <1>2, <1>4
  <2> HIDE DEF to
  <2>3. wbuf' \in Seq(Cell)
    BY <1>3, <2>1, <2>2
  <2>4. Len(wbuf') = IF done + 1 <= to THEN to - done ELSE 0
    BY <1>2, <1>3, <2>1, <2>2
  <2> QED BY <1>2, <2>1, <2>3, <2>4
<1> QED BY <1>1, <1>4, <1>5, <1>7, <1>8, <1>9 DEF MemoryTypeOK, BanksTypeOK

\* memoryWriteSlot goes on with a stream, or begins one: the stream is longer by
\* what was handed over, and it still lies in the slot without a gap.
LEMMA WriteSlotStep ==
    ASSUME NEW Cell, {Erased, Junk, Pad} \subseteq Cell, MemoryTypeOK(Cell),
           NEW slot, Writable(slot), NEW pos \in Nat, NEW data \in Seq(Cell), NEW flag,
           IF flag = "RESET" THEN pos = 0 ELSE Faithful(slot, pos) /\ CleanAhead(slot, pos),
           WriteSlot(slot, pos, data, flag),
           NEW p, p = pos + Written(flag, data)
    PROVE  /\ MemoryTypeOK(Cell)'
           /\ flash'[OtherBank(slot)] = flash[OtherBank(slot)]
           /\ p \in Nat
           /\ Len(given') = pos + Len(Queue(flag, data))
           /\ Faithful(slot, p)'
           /\ CleanAhead(slot, p)'
<1> DEFINE q == Queue(flag, data)
           w == Written(flag, data)
           h == SubSeq(q, 1, w)
           b == BankOf(slot.half)
<1>1. /\ wbuf \in Seq(Cell) /\ given \in Seq(Cell) /\ Len(wbuf) \in Nat /\ Pad \in Cell
      /\ BanksTypeOK(Cell) /\ broken \in BOOLEAN
  BY DEF MemoryTypeOK
<1>2. slot.half \in Halves /\ slot.base \in Nat /\ BankSize \in Nat
  BY GeometryAssumption DEF Writable, Slot
<1>3. /\ q \in Seq(Cell) /\ w \in 0 .. Len(q)
      /\ Rest(flag, data) \in Seq(Cell)
      /\ Len(Rest(flag, data)) = Len(q) - w
      /\ Len(Rest(flag, data)) < WriteSize
      /\ \A i \in 1 .. Len(Rest(flag, data)) : Rest(flag, data)[i] = q[w + i]
  BY <1>1, PaddingFacts, QueueFacts
<1>4. /\ given' \in Seq(Cell)
      /\ Len(given') = pos + Len(q)
      /\ \A j \in 1 .. Len(q) : q[j] = given'[pos + j]
      /\ flag # "RESET" => \A i \in 1 .. pos : given'[i] = given[i]
  <2>1. IF flag = "RESET" THEN pos = 0
        ELSE /\ pos = Len(given) - Len(wbuf)
             /\ \A i \in 1 .. Len(wbuf) : wbuf[i] = given[pos + i]
    BY DEF Faithful
  <2>2. Take(flag, data)
    BY DEF WriteSlot
  <2>3. Pad \in Cell /\ wbuf \in Seq(Cell) /\ given \in Seq(Cell)
    BY <1>1
  <2> HIDE DEF q, w, h, b
  <2>4. /\ given' \in Seq(Cell)
        /\ Len(given') = pos + Len(Queue(flag, data))
        /\ \A j \in 1 .. Len(Queue(flag, data)) : Queue(flag, data)[j] = given'[pos + j]
        /\ flag # "RESET" => \A i \in 1 .. pos : given'[i] = given[i]
    BY <2>1, <2>2, <2>3, QueueIsGiven, SMTT(30)
  <2> QED BY <2>4 DEF q
<1>5. /\ InBank(slot.base + pos, w)
      /\ flash' = Program(flash, slot.half, slot.base + pos, h)
      /\ wbuf' = Rest(flag, data)
      /\ broken' = (broken /\ flag # "RESET")
      /\ mapped' = mapped /\ option' = option
  BY DEF WriteSlot
<1>6. BankOf(slot.half)' = b
  BY <1>5 DEF BankOf
<1> HIDE DEF q, w, h, b
<1>7. h \in Seq(Cell) /\ Len(h) = w /\ \A i \in 1 .. w : h[i] = q[i]
  BY <1>3 DEF h
<1>8. pos > 0 => CleanAhead(slot, pos)
  OBVIOUS
<1>9. /\ \A c \in Offsets : c < slot.base + pos => flash'[b][c] = flash[b][c]
      /\ \A i \in 1 .. Len(h) : flash'[b][slot.base + pos + i - 1] = h[i]
      /\ \A c \in Offsets :
            (c >= slot.base + pos + Len(h) /\ SectorStart(c) < slot.base + pos + Len(h))
              => flash'[b][c] = Erased
  <2>1. InBank(slot.base + pos, Len(h)) /\ {Erased, Junk} \subseteq Cell
    BY <1>5, <1>7
  <2>2. PICK f : f = flash'
    OBVIOUS
  <2> QED BY <1>1, <1>5, <1>7, <1>8, <2>1, <2>2, ProgramFacts DEF b
<1>10. p \in Nat /\ p = pos + w /\ w \in Nat /\ Len(q) \in Nat
  <2>1. w \in Nat /\ Len(q) \in Nat
    BY <1>3
  <2> QED BY <2>1 DEF w
<1>11. /\ MemoryTypeOK(Cell)'
       /\ flash'[OtherBank(slot)] = flash[OtherBank(slot)]
  BY WriteSlotTypes
<1>12. Faithful(slot, p)'
  <2>1. p = Len(given') - Len(wbuf')
    <3>1. Len(given') = pos + Len(q) /\ Len(wbuf') = Len(q) - w
      BY <1>3, <1>4, <1>5
    <3> QED BY <1>10, <3>1
  <2>2. ASSUME NEW i \in 1 .. p PROVE flash'[b][slot.base + i - 1] = given'[i]
    <3>1. CASE i <= pos
      <4>1. flag # "RESET"
        BY <3>1, <2>2
      <4>2. flash[b][slot.base + i - 1] = given[i] /\ given'[i] = given[i]
        BY <1>4, <3>1, <4>1 DEF Faithful, b
      <4>3. slot.base + i - 1 \in Offsets /\ slot.base + i - 1 < slot.base + pos
        BY <1>2, <1>5, <1>10, <3>1 DEF Offsets, InBank
      <4> QED BY <1>9, <4>2, <4>3
    <3>2. CASE i > pos
      <4>1. PICK j \in 1 .. w : i = pos + j
        <5>1. i - pos \in 1 .. w
          BY <1>3, <1>10, <3>2
        <5> QED BY <1>10, <5>1
      <4>2. flash'[b][slot.base + pos + j - 1] = h[j]
        BY <1>7, <1>9, <4>1
      <4>3. h[j] = q[j] /\ q[j] = given'[pos + j]
        BY <1>3, <1>4, <1>7, <4>1
      <4>4. slot.base + i - 1 = slot.base + pos + j - 1
        BY <1>2, <1>3, <4>1
      <4> QED BY <4>1, <4>2, <4>3, <4>4
    <3> QED BY <1>10, <3>1, <3>2
  <2>3. ASSUME NEW i \in 1 .. Len(wbuf') PROVE wbuf'[i] = given'[p + i]
    <3>1. wbuf'[i] = q[w + i] /\ w + i \in 1 .. Len(q)
      BY <1>3, <1>5, <2>3
    <3>2. q[w + i] = given'[pos + (w + i)]
      BY <1>4, <3>1
    <3>3. pos + (w + i) = p + i
      BY <1>10, <2>3
    <3> QED BY <3>1, <3>2, <3>3
  <2> QED BY <1>3, <1>5, <1>6, <2>1, <2>2, <2>3 DEF Faithful
<1>13. CleanAhead(slot, p)'
  <2>0. Len(h) = w
    BY <1>7
  <2>1. slot.base + pos + Len(h) = slot.base + p
    BY <1>2, <1>10, <2>0
  <2> QED BY <1>6, <1>9, <2>1 DEF CleanAhead
<1> QED BY <1>4, <1>9, <1>10, <1>11, <1>12, <1>13 DEF b, q

-------------------------------------------------------------------------------
(* What a write leaves alone.                                              *)

\* A byte of a sector that a stream of n bytes in the slot has got to.
Reached(slot, n, b, c) ==
    b = BankOf(slot.half) /\ c >= slot.base /\ SectorStart(c) < slot.base + n

\* The slot ends where a sector does: the driver erases no byte behind it.
EndsWithSector(slot) == IsSectorAddress(slot.base + slot.size)

\* A byte of the slot.
Within(slot, b, c) == b = BankOf(slot.half) /\ c \in slot.base .. slot.base + slot.size - 1

\* A stream that fits a slot which ends with a sector only gets to bytes of it.
LEMMA ReachedWithin ==
    ASSUME NEW slot, Writable(slot), EndsWithSector(slot),
           NEW n \in Nat, n <= slot.size, NEW b \in Banks, NEW c \in Offsets, Reached(slot, n, b, c)
    PROVE  Within(slot, b, c)
<1>1. slot.base \in Nat /\ slot.size \in Nat
  BY DEF Writable, Slot
<1>2. PICK end \in Nat : end = slot.base + slot.size
  BY <1>1
<1>3. c \in Nat /\ IsSectorAddress(end) /\ IsSectorAddress(0)
  BY <1>2, GeometryAssumption DEF Offsets, EndsWithSector, IsSectorAddress
<1>4. SectorStart(c) \in Nat /\ SectorStart(c) < end
  BY <1>1, <1>2, <1>3, SectorStartBounds DEF Reached
<1>5. c < end
  BY <1>2, <1>3, <1>4, SectorStartBounds
<1> QED BY <1>1, <1>2, <1>3, <1>5 DEF Reached, Within

\* The erasure of sectors by a write (stm32h5xx_flash_driver.c:720-760).
LEMMA ClearedStaysIn ==
    ASSUME NEW m, NEW slot, Writable(slot), NEW pos \in Nat, NEW n \in Nat,
           NEW b \in Banks, NEW c \in Offsets, ~Reached(slot, pos + n, b, c)
    PROVE  Cleared(m, slot.half, slot.base + pos, n)[b][c] = m[b][c]
<1>1. slot.base \in Nat /\ EraseBank(slot.half) = BankOf(slot.half)
  BY DEF Writable, Slot
<1>2. PICK at \in Nat : at = slot.base + pos /\ slot.base <= at
  BY <1>1
<1>3. c \in Nat /\ IsSectorAddress(0)
  BY GeometryAssumption DEF Offsets, IsSectorAddress
<1>4. PICK start \in Nat : start = SectorStart(c) /\ start <= c
  BY <1>3, SectorStartBounds
<1>5. Cleared(m, slot.half, at, n)[b][c] =
         IF b = BankOf(slot.half) /\ start \in at .. at + n - 1 THEN Erased ELSE m[b][c]
  BY <1>1, <1>4 DEF Cleared
<1>6. ~(b = BankOf(slot.half) /\ start \in at .. at + n - 1)
  BY <1>1, <1>2, <1>3, <1>4 DEF Reached
<1> QED BY <1>2, <1>5, <1>6

\* stm32h5xxFlashDriverWrite.
LEMMA ProgramStaysIn ==
    ASSUME NEW m, NEW slot, Writable(slot),
           NEW pos \in Nat, NEW data, Len(data) \in Nat,
           NEW b \in Banks, NEW c \in Offsets, ~Reached(slot, pos + Len(data), b, c)
    PROVE  Program(m, slot.half, slot.base + pos, data)[b][c] = m[b][c]
<1>1. PICK n \in Nat : n = Len(data)
  OBVIOUS
<1>2. slot.base \in Nat
  BY DEF Writable, Slot
<1>3. PICK at \in Nat : at = slot.base + pos
  BY <1>2
<1>4. PICK g : g = Cleared(m, slot.half, at, n)
  OBVIOUS
<1>5. g[b][c] = m[b][c]
  <2>1. ~Reached(slot, pos + n, b, c)
    BY <1>1
  <2>2. Cleared(m, slot.half, slot.base + pos, n)[b][c] = m[b][c]
    BY <2>1, ClearedStaysIn
  <2> QED BY <1>3, <1>4, <2>2
<1>6. Program(m, slot.half, at, data)[b][c] =
         IF b = BankOf(slot.half) /\ c \in at .. at + n - 1
         THEN IF g[b][c] = Erased THEN data[c - at + 1] ELSE Junk
         ELSE g[b][c]
  BY <1>1, <1>4 DEF Program
<1>7. c \in Nat /\ SectorStart(c) \in Nat /\ SectorStart(c) <= c
  BY GeometryAssumption, SectorStartBounds DEF Offsets, IsSectorAddress
<1>8. ~(b = BankOf(slot.half) /\ c \in at .. at + n - 1)
  BY <1>1, <1>2, <1>3, <1>7 DEF Reached
<1> QED BY <1>3, <1>5, <1>6, <1>8

\* The same of a quad-word that fails or is cut off.
LEMMA TornStaysIn ==
    ASSUME NEW m, NEW slot, Writable(slot), NEW pos \in Nat,
           NEW f \in Torn(m, slot.half, slot.base + pos),
           NEW b \in Banks, NEW c \in Offsets, ~Reached(slot, pos + WriteSize, b, c)
    PROVE  f[b][c] = m[b][c]
<1>1. slot.base \in Nat /\ WriteSize \in Nat
  BY GeometryAssumption DEF Writable, Slot
<1>2. PICK at \in Nat : at = slot.base + pos
  BY <1>1
<1>3. PICK g : g = Cleared(m, slot.half, at, WriteSize)
  OBVIOUS
<1>4. g[b][c] = m[b][c]
  BY <1>1, <1>2, <1>3, ClearedStaysIn
<1>5. f \in {m, g, [d \in Banks |-> [o \in Offsets |->
               IF d = BankOf(slot.half) /\ o \in at .. at + WriteSize - 1 THEN Junk ELSE g[d][o]]]}
  BY <1>2, <1>3 DEF Torn
<1>6. c \in Nat /\ SectorStart(c) \in Nat /\ SectorStart(c) <= c
  BY GeometryAssumption, SectorStartBounds DEF Offsets, IsSectorAddress
<1>7. ~(b = BankOf(slot.half) /\ c \in at .. at + WriteSize - 1)
  BY <1>1, <1>2, <1>6 DEF Reached
<1> QED BY <1>4, <1>5, <1>7

\* memoryWriteSlot (memory.c:278-410), a call that succeeds.
LEMMA WriteSlotStaysIn ==
    ASSUME NEW Cell, Pad \in Cell, wbuf \in Seq(Cell), NEW slot, Writable(slot),
           NEW pos \in Nat, NEW data \in Seq(Cell), NEW flag,
           WriteSlot(slot, pos, data, flag),
           NEW b \in Banks, NEW c \in Offsets, ~Reached(slot, pos + Written(flag, data), b, c)
    PROVE  flash'[b][c] = flash[b][c]
<1>1. /\ Queue(flag, data) \in Seq(Cell)
      /\ Written(flag, data) \in 0 .. Len(Queue(flag, data))
  BY PaddingFacts, QueueFacts
<1>2. PICK h : h = SubSeq(Queue(flag, data), 1, Written(flag, data))
  OBVIOUS
<1>3. Len(h) = Written(flag, data) /\ Len(h) \in Nat
  BY <1>1, <1>2
<1>4. flash' = Program(flash, slot.half, slot.base + pos, h)
  BY <1>2 DEF WriteSlot
<1>5. Program(flash, slot.half, slot.base + pos, h)[b][c] = flash[b][c]
  <2>1. ~Reached(slot, pos + Len(h), b, c) /\ Len(h) \in Nat
    BY <1>3
  <2> QED BY ONLY <2>1, Writable(slot), pos \in Nat, b \in Banks, c \in Offsets, ProgramStaysIn
<1> QED BY <1>4, <1>5

\* What a call writes is whole quad-words: when one of them fails, all of it
\* was still to be written.
LEMMA QuadWordIsWhole ==
    ASSUME NEW Cell, Pad \in Cell, wbuf \in Seq(Cell),
           NEW data \in Seq(Cell), NEW flag,
           NEW k \in Nat, k * WriteSize < Written(flag, data)
    PROVE  k * WriteSize + WriteSize <= Written(flag, data)
<1>1. PICK w \in Nat \ {0} : w = WriteSize
  BY GeometryAssumption
<1>2. PICK n \in Nat : n = Len(Queue(flag, data))
  <2>1. Queue(flag, data) \in Seq(Cell)
    BY PaddingFacts
  <2> QED BY <2>1
<1>3. Written(flag, data) = n - (n % w)
  BY <1>1, <1>2 DEF Written
<1>4. PICK q \in Nat : n - (n % w) = w * q
  <2>1. n \div w \in Nat /\ n - (n % w) = w * (n \div w)
    BY <1>1, <1>2
  <2> QED BY <2>1
<1>5. k < q
  <2>1. SUFFICES ASSUME q <= k PROVE FALSE
    BY <1>4
  <2>2. w * q <= k * w
    BY <1>1, <2>1
  <2>3. k * w < w * q /\ k * w \in Nat /\ w * q \in Nat
    BY <1>1, <1>3, <1>4
  <2> QED BY <2>2, <2>3
<1>6. (k + 1) * w <= w * q
  BY <1>1, <1>5
<1>7. (k + 1) * w = k * w + w
  BY <1>1
<1> QED BY <1>1, <1>3, <1>4, <1>6, <1>7

\* The same of a call that stops.
LEMMA WriteSlotStopsStaysIn ==
    ASSUME NEW Cell, Pad \in Cell, wbuf \in Seq(Cell), NEW slot, Writable(slot),
           NEW pos \in Nat, NEW data \in Seq(Cell), NEW flag, NEW k \in Nat,
           WriteSlotStops(slot, pos, data, flag, k),
           NEW b \in Banks, NEW c \in Offsets, ~Reached(slot, pos + Written(flag, data), b, c)
    PROVE  flash'[b][c] = flash[b][c]
<1>1. /\ Queue(flag, data) \in Seq(Cell)
      /\ Written(flag, data) \in 0 .. Len(Queue(flag, data))
      /\ k * WriteSize < Written(flag, data)
  BY PaddingFacts, QueueFacts DEF WriteSlotStops
<1>2. PICK done : done = k * WriteSize
  OBVIOUS
<1>3. done \in Nat /\ WriteSize \in Nat /\ slot.base \in Nat
  BY <1>2, GeometryAssumption DEF Writable, Slot
<1>4. done + WriteSize <= Written(flag, data) /\ Written(flag, data) \in Nat
  BY <1>1, <1>2, QuadWordIsWhole
<1>5. PICK h : h = SubSeq(Queue(flag, data), 1, done)
  OBVIOUS
<1>6. Len(h) = done
  BY <1>1, <1>2, <1>3, <1>5
<1>7. PICK m : m = Program(flash, slot.half, slot.base + pos, h)
  OBVIOUS
<1>8. c \in Nat /\ SectorStart(c) \in Nat
  BY GeometryAssumption, SectorStartBounds DEF Offsets, IsSectorAddress
<1>9. ~Reached(slot, pos + done, b, c) /\ ~Reached(slot, (pos + done) + WriteSize, b, c)
  BY <1>3, <1>4, <1>8 DEF Reached
<1>10. m[b][c] = flash[b][c]
  <2>1. ~Reached(slot, pos + Len(h), b, c) /\ Len(h) \in Nat
    BY <1>3, <1>6, <1>9
  <2>2. Program(flash, slot.half, slot.base + pos, h)[b][c] = flash[b][c]
    BY ONLY <2>1, Writable(slot), pos \in Nat, b \in Banks, c \in Offsets, ProgramStaysIn
  <2> QED BY <1>7, <2>2
<1>11. PICK at \in Nat : at = pos + done
  BY <1>3
<1>12. flash' \in Torn(m, slot.half, slot.base + at)
  <2>1. (slot.base + pos) + done = slot.base + at
    BY <1>3, <1>11
  <2>2. flash' \in Torn(m, slot.half, (slot.base + pos) + done)
    BY <1>2, <1>5, <1>7 DEF WriteSlotStops
  <2> QED BY <2>1, <2>2
<1>13. flash'[b][c] = m[b][c]
  BY <1>9, <1>11, <1>12, TornStaysIn
<1> QED BY <1>10, <1>13
===============================================================================
