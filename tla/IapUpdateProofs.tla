--------------------------- MODULE IapUpdateProofs ----------------------------
(***************************************************************************)
(* The updater with two banks, for any geometry, any images longer than    *)
(* its buffer, any way to cut them into calls and any failures: the next   *)
(* reset finds a whole application, nothing but the other bank changes,    *)
(* and an image that arrives as it was made is accepted.  With one bank:   *)
(* an image that was refused has no header.                                *)
(***************************************************************************)
EXTENDS IapUpdate, SlotMemoryProofs

\* What the configuration with two banks keeps to.
TwoBanks == DualBank /\ AwaitReset /\ \A image \in Images : image.length > BufferSize

-------------------------------------------------------------------------------
(* Sequences *)

\* The first n units of a sequence.
LEMMA FirstFacts ==
    ASSUME NEW S, NEW s \in Seq(S), NEW n \in Nat
    PROVE  /\ First(s, n) \in Seq(S)
           /\ Len(First(s, n)) = IF n < Len(s) THEN n ELSE Len(s)
           /\ \A i \in 1 .. Len(First(s, n)) : First(s, n)[i] = s[i]
           /\ n >= Len(s) => First(s, n) = s
<1> DEFINE to == IF n < Len(s) THEN n ELSE Len(s)
<1>1. to \in Nat /\ to <= Len(s) /\ First(s, n) = SubSeq(s, 1, to)
  BY DEF First
<1> HIDE DEF to
<1>2. /\ SubSeq(s, 1, to) \in Seq(S) /\ Len(SubSeq(s, 1, to)) = to
      /\ \A i \in 1 .. to : SubSeq(s, 1, to)[i] = s[i]
  BY <1>1
<1>3. n >= Len(s) => First(s, n) = s
  <2>1. ASSUME to = Len(s) PROVE SubSeq(s, 1, to) = s
    BY <1>1, <1>2, <2>1
  <2> QED BY <1>1, <2>1 DEF to
<1> QED BY <1>1, <1>2, <1>3 DEF to

\* What is behind them.
LEMMA DropFacts ==
    ASSUME NEW S, NEW s \in Seq(S), NEW n \in Nat
    PROVE  /\ Drop(s, n) \in Seq(S)
           /\ Len(Drop(s, n)) <= Len(s)
           /\ n >= Len(s) => Drop(s, n) = <<>>
<1>1. Drop(s, n) = SubSeq(s, n + 1, Len(s)) /\ Len(s) \in Nat
  BY DEF Drop
<1>2. /\ SubSeq(s, n + 1, Len(s)) \in Seq(S)
      /\ Len(SubSeq(s, n + 1, Len(s))) = IF n + 1 <= Len(s) THEN Len(s) - n ELSE 0
  BY <1>1
<1> QED BY <1>1, <1>2

\* A number filled up to the next multiple.
LEMMA MultipleMod ==
    ASSUME NEW w \in Nat, w > 0, NEW n \in Nat
    PROVE  (n + (IF n % w = 0 THEN 0 ELSE w - (n % w))) % w = 0
<1>1. PICK k \in Nat, r \in 0 .. w - 1 : n = w * k + r /\ r = n % w
  <2>1. n \div w \in Nat /\ n % w \in 0 .. w - 1 /\ n = w * (n \div w) + (n % w)
    OBVIOUS
  <2> QED BY <2>1
<1> DEFINE all == n + (IF n % w = 0 THEN 0 ELSE w - (n % w))
<1>2. PICK j \in Nat : all = w * j
  <2>1. w * (k + 1) = w * k + w /\ k + 1 \in Nat
    BY <1>1
  <2>2. all = w * k \/ all = w * (k + 1)
    BY <1>1, <2>1
  <2> QED BY <2>1, <2>2
<1>3. all \in Nat
  BY <1>1
<1> HIDE DEF all
<1>4. PICK m \in Nat, x \in 0 .. w - 1 : all = w * m + x /\ x = all % w
  <2>1. all \div w \in Nat /\ all % w \in 0 .. w - 1 /\ all = w * (all \div w) + (all % w)
    BY <1>3
  <2> QED BY <2>1
<1>5. CASE j <= m
  <2>1. w * j <= w * m
    BY <1>5
  <2>2. w * j \in Nat /\ w * m \in Nat
    OBVIOUS
  <2>3. x = 0
    BY <1>2, <1>4, <2>1, <2>2
  <2> QED BY <1>4, <2>3 DEF all
<1>6. CASE j >= m + 1
  <2>1. w * j >= w * (m + 1) /\ w * (m + 1) = w * m + w
    BY <1>6
  <2>2. w * j \in Nat /\ w * m \in Nat
    OBVIOUS
  <2> QED BY <1>2, <1>4, <2>1, <2>2
<1> QED BY <1>5, <1>6

\* FORCE leaves nothing in the buffer (memory.c:363-367).
LEMMA ForceFlushes ==
    ASSUME NEW Cell, Pad \in Cell, wbuf \in Seq(Cell), NEW data \in Seq(Cell)
    PROVE  Rest("FORCE", data) = <<>>
<1> DEFINE t == Taken("FORCE", data)
           p == Padding("FORCE", data)
           q == Queue("FORCE", data)
           r == Len(t) % WriteSize
<1>1. WriteSize \in Nat /\ WriteSize > 0
  BY GeometryAssumption
<1>2. t \in Seq(Cell) /\ p \in Seq(Cell) /\ q \in Seq(Cell) /\ Len(q) = Len(t) + Len(p)
  BY PaddingFacts
<1>3. r \in 0 .. WriteSize - 1 /\ Len(t) \in Nat
  BY <1>1, <1>2
<1>4. Len(p) = IF r = 0 THEN 0 ELSE WriteSize - r
  <2>1. CASE r = 0
    BY <2>1 DEF Padding
  <2>2. CASE r # 0
    <3>1. p = [i \in 1 .. WriteSize - r |-> Pad] /\ WriteSize - r \in Nat
      BY <1>1, <1>3, <2>2 DEF Padding
    <3> QED BY <3>1, <2>2
  <2> QED BY <2>1, <2>2
<1>5. Len(q) % WriteSize = 0
  <2>1. PICK n \in Nat : n = Len(t)
    BY <1>3
  <2>2. Len(q) = n + (IF n % WriteSize = 0 THEN 0 ELSE WriteSize - (n % WriteSize))
    BY <1>2, <1>3, <1>4, <2>1
  <2>3. (n + (IF n % WriteSize = 0 THEN 0 ELSE WriteSize - (n % WriteSize))) % WriteSize = 0
    BY <1>1, MultipleMod
  <2> QED BY <2>2, <2>3
<1>6. Written("FORCE", data) = Len(q)
  BY <1>2, <1>5 DEF Written
<1>7. Len(Rest("FORCE", data)) = 0 /\ Rest("FORCE", data) \in Seq(Cell)
  BY <1>2, <1>6, QueueFacts
<1> QED BY <1>7

\* Whole quad-words.
QuadWords(n) == \E q \in Nat : n = q * WriteSize

\* What a call of memoryWriteSlot writes ends with a quad-word.
LEMMA WrittenIsQuadWords ==
    ASSUME NEW Cell, Pad \in Cell, wbuf \in Seq(Cell), NEW data \in Seq(Cell), NEW flag,
           NEW pos \in Nat, QuadWords(pos)
    PROVE  QuadWords(pos + Written(flag, data))
<1>1. PICK w \in Nat \ {0} : w = WriteSize
  BY GeometryAssumption
<1>2. PICK n \in Nat : n = Len(Queue(flag, data))
  <2>1. Queue(flag, data) \in Seq(Cell)
    BY PaddingFacts
  <2> QED BY <2>1
<1>3. PICK k \in Nat : Written(flag, data) = k * w
  <2>1. n \div w \in Nat /\ n - (n % w) = (n \div w) * w
    BY <1>1, <1>2
  <2>2. Written(flag, data) = n - (n % w)
    BY <1>1, <1>2 DEF Written
  <2> QED BY <2>1, <2>2
<1>4. PICK j \in Nat : pos = j * w
  BY <1>1 DEF QuadWords
<1>5. pos + Written(flag, data) = (j + k) * w /\ j + k \in Nat
  BY <1>1, <1>3, <1>4
<1> QED BY <1>1, <1>5 DEF QuadWords

\* A number that leaves no remainder is a multiple.
LEMMA NoRemainder ==
    ASSUME NEW n \in Nat, NEW m \in Nat \ {0}, n % m = 0
    PROVE  \E q \in Nat : n = q * m
<1>1. PICK q \in Nat, r \in Nat : r = n % m /\ n = q * m + r
  <2>1. n \div m \in Nat /\ n % m \in Nat /\ n = (n \div m) * m + (n % m)
    OBVIOUS
  <2> QED BY <2>1
<1>2. q * m \in Nat /\ r = 0
  BY <1>1
<1>3. n = q * m
  BY <1>1, <1>2
<1> QED BY <1>3

\* What begins and ends with a sector is whole quad-words.
LEMMA SectorsAreQuadWords ==
    ASSUME NEW base \in Nat, NEW size \in Nat, IsSectorAddress(base), IsSectorAddress(base + size)
    PROVE  QuadWords(size)
<1>1. PICK s \in Nat \ {0}, w \in Nat \ {0} : s = SectorSize /\ w = WriteSize /\ s % w = 0
  BY GeometryAssumption
<1>2. PICK i \in Nat : base = i * s
  BY <1>1, NoRemainder DEF IsSectorAddress
<1>3. PICK j \in Nat : base + size = j * s
  <2>1. PICK end \in Nat : end = base + size /\ end % s = 0
    BY <1>1 DEF IsSectorAddress
  <2> QED BY <2>1, NoRemainder
<1>4. PICK k \in Nat : s = k * w
  BY <1>1, NoRemainder
<1>5. i <= j
  <2>1. SUFFICES ASSUME j + 1 <= i PROVE FALSE
    OBVIOUS
  <2>2. (j + 1) * s <= i * s /\ (j + 1) * s = j * s + s /\ i * s \in Nat /\ j * s \in Nat
    BY <1>1, <2>1
  <2> QED BY <1>1, <1>2, <1>3, <2>2
<1>6. PICK d \in Nat : j = i + d
  <2>1. j - i \in Nat /\ j = i + (j - i)
    BY <1>5
  <2> QED BY <2>1
<1>7. size = d * s
  <2>1. (i + d) * s = i * s + d * s /\ i * s \in Nat /\ d * s \in Nat
    BY <1>1
  <2> QED BY <1>2, <1>3, <1>6, <2>1
<1>8. d * s = (d * k) * w /\ d * k \in Nat
  BY <1>1, <1>4
<1> QED BY <1>1, <1>7, <1>8 DEF QuadWords

\* A write that begins at a quad-word stays below an end of whole quad-words
\* when the bytes do, with the padding of FORCE too.
LEMMA WrittenStaysBelow ==
    ASSUME NEW Cell, Pad \in Cell, wbuf \in Seq(Cell), NEW data \in Seq(Cell), NEW flag,
           NEW pos \in Nat, QuadWords(pos), NEW size \in Nat, QuadWords(size),
           pos + Len(Taken(flag, data)) <= size
    PROVE  pos + Written(flag, data) <= size
<1>1. PICK w \in Nat \ {0} : w = WriteSize
  BY GeometryAssumption
<1>2. /\ Taken(flag, data) \in Seq(Cell) /\ Padding(flag, data) \in Seq(Cell)
      /\ Len(Queue(flag, data)) = Len(Taken(flag, data)) + Len(Padding(flag, data))
      /\ Written(flag, data) \in 0 .. Len(Queue(flag, data))
  BY PaddingFacts, QueueFacts
<1>3. PICK t \in Nat, p \in Nat : t = Len(Taken(flag, data)) /\ p = Len(Padding(flag, data))
  BY <1>2
<1>4. p < w
  <2>1. CASE Padding(flag, data) = <<>>
    BY <1>1, <1>3, <2>1
  <2>2. CASE Padding(flag, data) # <<>>
    <3> DEFINE r == t % w
    <3>1. r \in 0 .. w - 1
      BY <1>1
    <3>2. r # 0 /\ Padding(flag, data) = [i \in 1 .. w - r |-> Pad]
      BY <1>1, <1>3, <2>2 DEF Padding
    <3> HIDE DEF r
    <3>3. w - r \in Nat /\ w - r < w
      BY <3>1, <3>2
    <3>4. Len([i \in 1 .. w - r |-> Pad]) = w - r
      BY <3>3
    <3> QED BY <1>3, <3>2, <3>3, <3>4
  <2> QED BY <2>1, <2>2
<1>5. PICK n \in Nat : n = Written(flag, data) /\ n <= t + p
  BY <1>2, <1>3
<1>6. pos + n < size + w
  BY <1>1, <1>3, <1>4, <1>5
<1>7. PICK a \in Nat, b \in Nat : pos + n = a * w /\ size = b * w
  BY <1>1, <1>5, WrittenIsQuadWords DEF QuadWords
<1>8. a <= b
  <2>1. SUFFICES ASSUME b + 1 <= a PROVE FALSE
    OBVIOUS
  <2>2. (b + 1) * w <= a * w /\ (b + 1) * w = b * w + w /\ a * w \in Nat /\ b * w \in Nat
    BY <1>1, <2>1
  <2> QED BY <1>1, <1>6, <1>7, <2>2
<1>9. a * w <= b * w
  BY <1>1, <1>8
<1> QED BY <1>5, <1>7, <1>9

\* What the application receives is made of units.
LEMMA StreamUnits ==
    ASSUME NEW s \in 0 .. MaxSessions, NEW image \in Images
    PROVE  Stream(s, image) \in Seq(Units) /\ Header(s) \in Seq(Units)
<1>1. /\ MaxSessions \in Nat /\ Trailing \in Nat /\ HeaderSize \in Nat
      /\ image.length \in Nat
  BY UpdateAssumption
<1>2. \A i \in Int : Unit(s, i) \in Units
  BY DEF Unit, Units
<1>3. Header(s) \in Seq(Units)
  BY <1>1, <1>2 DEF Header
<1>4. UnitsOf(image) \in Nat
  BY <1>1, UpdateAssumption DEF UnitsOf
<1>5. \A i \in 1 .. UnitsOf(image) + Trailing :
        (IF i = image.damaged \/ i > UnitsOf(image) THEN Noise ELSE Unit(s, i)) \in Units
  BY <1>1, <1>2, <1>4 DEF Units
<1> QED BY <1>1, <1>3, <1>4, <1>5 DEF Stream

\* What a call of memoryWriteSlot appends to the bytes taken.
LEMMA TakenFacts ==
    ASSUME NEW Cell, Pad \in Cell, wbuf \in Seq(Cell), given \in Seq(Cell),
           NEW data \in Seq(Cell), NEW flag, Take(flag, data),
           NEW w \in Nat, w = IF flag = "RESET" THEN 0 ELSE Len(given)
    PROVE  /\ Len(given') >= w + Len(data)
           /\ flag # "FORCE" => Len(given') = w + Len(data)
           /\ flag # "RESET" => \A i \in 1 .. w : given'[i] = given[i]
           /\ \A i \in 1 .. Len(data) : given'[w + i] = data[i]
<1> DEFINE pad == Padding(flag, data)
           g == IF flag = "RESET" THEN <<>> ELSE given
<1>1. g \in Seq(Cell) /\ pad \in Seq(Cell)
  BY PaddingFacts
<1>2. given' = g \o data \o pad
  BY DEF Take
<1>3. flag # "FORCE" => pad = <<>>
  BY DEF Padding
<1>9. Len(g) = w /\ (flag # "RESET" => g = given)
  OBVIOUS
<1> HIDE DEF pad, g
<1>4. given' \in Seq(Cell) /\ Len(given') = Len(g) + Len(data) + Len(pad)
  BY <1>1, <1>2
<1>5. \A j \in 1 .. Len(g) + Len(data) + Len(pad) :
        given'[j] = IF j <= Len(g) THEN g[j]
                    ELSE IF j <= Len(g) + Len(data) THEN data[j - Len(g)]
                    ELSE pad[j - Len(g) - Len(data)]
  BY <1>1, <1>2, ConcatAt
<1>6. Len(g) \in Nat /\ Len(data) \in Nat /\ Len(pad) \in Nat
  BY <1>1
<1>7. ASSUME NEW i \in 1 .. Len(g) PROVE given'[i] = g[i]
  BY <1>5, <1>6
<1>8. ASSUME NEW i \in 1 .. Len(data) PROVE given'[Len(g) + i] = data[i]
  <2>1. Len(g) + i \in 1 .. Len(g) + Len(data) + Len(pad) /\ ~(Len(g) + i <= Len(g))
        /\ Len(g) + i <= Len(g) + Len(data) /\ (Len(g) + i) - Len(g) = i
    BY <1>6
  <2> QED BY <1>5, <2>1
<1>10. flag # "RESET" => \A i \in 1 .. w : given'[i] = given[i]
  BY <1>7, <1>9
<1>11. \A i \in 1 .. Len(data) : given'[w + i] = data[i]
  BY <1>8, <1>9
<1>12. pad = <<>> => Len(pad) = 0
  OBVIOUS
<1>13. Len(given') >= w + Len(data) /\ (flag # "FORCE" => Len(given') = w + Len(data))
  <2>1. PICK l \in Nat, d \in Nat, a \in Nat :
           l = Len(given') /\ d = Len(data) /\ a = Len(pad)
    BY <1>4, <1>6
  <2>2. l = w + d + a /\ (flag # "FORCE" => a = 0)
    BY <1>3, <1>4, <1>9, <1>12, <2>1
  <2>3. l >= w + d /\ (a = 0 => l = w + d)
    BY <2>2
  <2> QED BY <2>1, <2>2, <2>3
<1> QED BY <1>10, <1>11, <1>13

-------------------------------------------------------------------------------
(* Types, and what holds of the control whatever fails *)

InType(i) ==
    /\ i \in [state : {"NONE", "IDLE", "HEADER", "DATA", "CHECK", "VALIDATE", "REBOOT"},
              buffer : Seq(Units), written : Nat, length : Nat, check : Seq(Units), sum : Seq(Units)]
    /\ Len(i.buffer) <= BufferSize

OutType(o) ==
    /\ o \in [state : {"NONE", "INIT", "HEADER", "DATA", "DIGEST", "END"},
              buffer : Seq(Cells), skew : Int, written : Nat, pos : Nat, sum : Seq(Cells)]
    /\ Len(o.buffer) <= BufferSize

Receiving == {"DATA", "CHECK", "VALIDATE", "REBOOT"}

\* How far the input has got: the payload fits the slot, the state DATA ends with it.
InShape(i) ==
    /\ i.state = "HEADER" => i.written = 0 /\ i.sum = <<>>
    /\ i.state \in Receiving =>
          /\ i.length = images[session].length /\ i.length <= UpdateSlot.size
          /\ IF i.state = "DATA" THEN i.written < i.length ELSE i.written = i.length

\* With two banks no header goes to the output; a block is processed in the
\* state DATA only, and until the reset behind a swap nothing is received.
Shape ==
    /\ session <= MaxSessions
    /\ in.state # "NONE" => session > 0
    /\ place \notin {"header", "overrun"} /\ out.skew = 0
    /\ out.state \in {"NONE", "INIT", "DATA", "END"}
    /\ place = "data" => in.state = "DATA" /\ in.buffer # <<>>
    /\ option # mapped => in.state \in {"VALIDATE", "REBOOT", "IDLE"}
    /\ InShape(in)

TypeInv == TypeOK /\ Shape

\* A unit can lie in the flash.
LEMMA CellFacts ==
    /\ {Erased, Junk, Pad} \subseteq Cells
    /\ Units \subseteq Cells
    /\ Seq(Units) \subseteq Seq(Cells)
<1>1. {Erased, Junk, Pad} \subseteq Cells /\ Units \subseteq Cells
  BY DEF Cells
<1>2. ASSUME NEW s \in Seq(Units) PROVE s \in Seq(Cells)
  BY <1>1
<1> QED BY <1>1, <1>2

\* TypeOK by its parts.
LEMMA TypeParts ==
    TypeOK <=> /\ MemoryTypeOK(Cells)
               /\ images \in Seq(Images) /\ sent \in Nat
               /\ InType(in) /\ OutType(out)
               /\ place \in {"app", "loop", "header", "data", "error", "overrun"}
               /\ left \in Seq(Units) /\ feed \in Seq(Units)
               /\ result \in {"ok", "error"}
               /\ whole \in [Banks -> 0 .. MaxSessions]
               /\ faults \in 0 .. MaxFaults
  BY DEF TypeOK, InType, OutType

\* What a pass of the loop of updateProcess finds in the input buffer.
LEMMA FilledFacts ==
    ASSUME InType(in), left \in Seq(Units), Room >= 0
    PROVE  /\ Filled \in Seq(Units) /\ After \in Seq(Units)
           /\ Len(Filled) <= BufferSize
           /\ (left # <<>> /\ Room > 0) => Len(Filled) > 0
<1>1. in.buffer \in Seq(Units) /\ Len(in.buffer) \in Nat /\ BufferSize \in Nat
  BY UpdateAssumption DEF InType
<1>2. Room \in Nat /\ Len(in.buffer) + Room = BufferSize
  BY <1>1 DEF Room
<1>3. PICK room \in Nat : room = Room
  BY <1>2
<1>4. /\ First(left, room) \in Seq(Units) /\ Drop(left, room) \in Seq(Units)
      /\ Len(First(left, room)) = IF room < Len(left) THEN room ELSE Len(left)
  BY FirstFacts, DropFacts
<1>5. Filled = in.buffer \o First(left, room) /\ After = Drop(left, room)
  BY <1>3 DEF Filled, After
<1>6. ASSUME NEW b \in Seq(Units), NEW f \in Seq(Units)
      PROVE  b \o f \in Seq(Units) /\ Len(b \o f) = Len(b) + Len(f)
  OBVIOUS
<1>7. Len(Filled) = Len(in.buffer) + Len(First(left, room)) /\ Filled \in Seq(Units)
  BY <1>1, <1>4, <1>5, <1>6
<1>8. Len(left) \in Nat /\ (left # <<>> => Len(left) > 0)
  OBVIOUS
<1> HIDE DEF Filled, After
<1>9. Len(Filled) <= BufferSize /\ ((left # <<>> /\ Room > 0) => Len(Filled) > 0)
  <2>1. PICK l \in Nat, f \in Nat, k \in Nat :
           l = Len(left) /\ f = Len(First(left, room)) /\ k = Len(in.buffer)
    BY <1>1, <1>4, <1>8
  <2>2. f = (IF room < l THEN room ELSE l) /\ (left # <<>> => l > 0)
    BY <1>4, <1>8, <2>1
  <2>3. Len(Filled) = k + f /\ k + room = BufferSize
    BY <1>2, <1>3, <1>7, <2>1
  <2>4. k + f <= BufferSize /\ ((l > 0 /\ room > 0) => k + f > 0)
    BY ONLY <2>2, <2>3, l \in Nat, f \in Nat, k \in Nat, room \in Nat
  <2> QED BY <1>3, <2>2, <2>3, <2>4
<1> QED BY <1>4, <1>5, <1>7, <1>9

\* A step that leaves the memory and the images alone.
LEMMA TypeKept ==
    ASSUME TypeInv, UNCHANGED <<memory, images>>, sent' \in Nat,
           InType(in'), OutType(out'),
           place' \in {"app", "loop", "data", "error"},
           left' \in Seq(Units), feed' \in Seq(Units), result' \in {"ok", "error"},
           whole' \in [Banks -> 0 .. MaxSessions], faults' \in 0 .. MaxFaults,
           in'.state # "NONE" => session > 0,
           out'.state \in {"NONE", "INIT", "DATA", "END"}, out'.skew = 0,
           place' = "data" => in'.state = "DATA" /\ in'.buffer # <<>>,
           option # mapped => in'.state \in {"VALIDATE", "REBOOT", "IDLE"},
           InShape(in')
    PROVE  TypeInv'
<1>1. MemoryTypeOK(Cells)'
  BY DEF TypeInv, TypeOK, MemoryTypeOK, BanksTypeOK, memory, banks
<1>2. TypeOK'
  BY <1>1 DEF TypeInv, TypeOK, InType, OutType
<1>3. Shape'
  BY DEF TypeInv, Shape, InShape, session, memory, banks
<1> QED BY <1>2, <1>3 DEF TypeInv

\* imageProcessAppCheck.
LEMMA CheckedType ==
    ASSUME NEW i, InType(i), i.state \in {"DATA", "CHECK"}
    PROVE  /\ InType(Checked(i)) /\ Checked(i).state \in {i.state, "VALIDATE"}
           /\ Checked(i).length = i.length /\ Checked(i).written = i.written
           /\ Checked(i).sum = i.sum
<1>1. CASE ~CheckFits(i)
  BY <1>1 DEF Checked
<1>2. CASE CheckFits(i)
  <2>1. i.check \o i.buffer \in Seq(Units) /\ <<>> \in Seq(Units)
    BY DEF InType
  <2> DEFINE c == i.check \o i.buffer
  <2>2. PICK s \in {i.state, "VALIDATE"} :
           s = IF Len(i.check \o i.buffer) = TagSize THEN "VALIDATE" ELSE i.state
    OBVIOUS
  <2>3. Checked(i) = [i EXCEPT !.check = c, !.buffer = <<>>, !.state = s]
    BY <1>2, <2>2 DEF Checked, InType
  <2> HIDE DEF c
  <2>4. Len(<<>>) <= BufferSize
    BY UpdateAssumption
  <2> QED BY <2>1, <2>3, <2>4 DEF InType, c
<1> QED BY <1>1, <1>2

\* The image of the update is longer than the buffer.
LEMMA PayloadLength ==
    ASSUME TwoBanks, TypeInv, in.state # "NONE"
    PROVE  /\ session \in 1 .. MaxSessions /\ images[session] \in Images
           /\ images[session].length \in Nat /\ images[session].length > BufferSize
           /\ images[session].length > 0
<1>1. images \in Seq(Images) /\ session \in 1 .. Len(images) /\ session \in 1 .. MaxSessions
  BY UpdateAssumption DEF TypeInv, TypeOK, Shape, session
<1>2. images[session] \in Images
  BY <1>1
<1> QED BY <1>1, <1>2, UpdateAssumption DEF TwoBanks

\* The data of a buffer are not more than what the payload lacks.
LEMMA DataInFacts ==
    ASSUME TypeInv, in.state = "DATA", NEW b \in Seq(Units)
    PROVE  /\ DataIn(b) \in Seq(Units) /\ Len(DataIn(b)) <= Len(b)
           /\ Len(DataIn(b)) \in Nat /\ in.written + Len(DataIn(b)) <= in.length
           /\ Len(b) > 0 => Len(DataIn(b)) > 0
<1>1. in.written \in Nat /\ in.length \in Nat /\ in.written < in.length
  BY DEF TypeInv, TypeOK, Shape, InShape, Receiving
<1>2. PICK n \in Nat : n = in.length - in.written
  BY <1>1
<1>3. /\ First(b, n) \in Seq(Units)
      /\ Len(First(b, n)) = IF n < Len(b) THEN n ELSE Len(b)
  BY FirstFacts
<1>4. Len(b) \in Nat /\ DataIn(b) = First(b, n)
  BY <1>2 DEF DataIn
<1> QED BY <1>1, <1>2, <1>3, <1>4

\* The steps of updateProcess that read the input.
Reads ==
    \/ LoopEnds \/ LoopOverflows
    \/ HeaderWait \/ HeaderRefused \/ HeaderAccepted \/ FedHeader
    \/ DataWait \/ DataBlock \/ FedData
    \/ CheckBlock \/ WrongState
    \/ ReturnError

\* No step that reads the input overfills a buffer.
LEMMA ReadsType ==
    ASSUME TwoBanks, TypeInv, Reads
    PROVE  TypeInv'
<1>1. /\ InType(in) /\ OutType(out) /\ left \in Seq(Units) /\ feed \in Seq(Units)
      /\ sent \in Nat /\ result \in {"ok", "error"} /\ DualBank
      /\ place \in {"app", "loop", "data", "error"}
      /\ whole \in [Banks -> 0 .. MaxSessions] /\ faults \in 0 .. MaxFaults
      /\ BufferSize \in Nat /\ HeaderSize \in Nat /\ HeaderSize > 0 /\ <<>> \in Seq(Units)
  BY UpdateAssumption, TypeParts DEF TypeInv, Shape, TwoBanks
<1>2. Room \in Nat
  BY <1>1 DEF Room, InType
<1>3. /\ Filled \in Seq(Units) /\ After \in Seq(Units) /\ Len(Filled) <= BufferSize
      /\ (left # <<>> /\ Room > 0) => Len(Filled) > 0 /\ Filled # <<>>
  BY <1>1, <1>2, FilledFacts
<1> DEFINE filled == [in EXCEPT !.buffer = Filled]
<1>4. /\ InType(filled) /\ filled.state = in.state /\ filled.buffer = Filled
      /\ InShape(filled)
  BY <1>1, <1>3 DEF InType, TypeInv, Shape, InShape
<1> HIDE DEF filled
<1>5. CASE LoopEnds \/ LoopOverflows \/ ReturnError
  <2>1. /\ place' = "app" /\ left' = <<>> /\ feed' = <<>> /\ result' \in {"ok", "error"}
        /\ UNCHANGED <<memory, images, sent, in, out, whole, faults>>
    BY <1>5 DEF LoopEnds, LoopOverflows, ReturnError, Return
  <2> QED BY <1>1, <2>1, TypeKept DEF TypeInv, Shape
<1>6. CASE HeaderWait \/ HeaderRefused \/ DataWait \/ WrongState
  <2>1. /\ in' = filled /\ left' = After /\ place' \in {"loop", "error"}
        /\ UNCHANGED <<out, feed, memory, images, sent, result, whole, faults>>
    BY <1>6 DEF HeaderWait, HeaderRefused, DataWait, WrongState, Processing, Stays, filled
  <2> QED BY <1>1, <1>3, <1>4, <2>1, TypeKept DEF TypeInv, Shape
<1>7. CASE HeaderAccepted
  <2> DEFINE i == [in EXCEPT !.buffer = Filled, !.length = images[session].length]
             c == Filled[HeaderSize]
             d == Drop(Filled, HeaderSize)
  <2>1. /\ in' = HeaderDone(i) /\ left' = After /\ Len(Filled) >= HeaderSize /\ in.state = "HEADER"
        /\ UNCHANGED <<place, feed, out, memory, images, sent, result, whole, faults>>
        /\ place = "loop"
    BY <1>1, <1>7 DEF HeaderAccepted, Processing, Stays
  <2>2. images[session].length \in Nat
    <3>1. images \in Seq(Images) /\ session \in 1 .. Len(images)
      BY <2>1 DEF TypeInv, TypeOK, Shape, session
    <3>2. images[session] \in Images
      BY <3>1
    <3> QED BY <3>2, UpdateAssumption
  <2>3. /\ i.state = in.state /\ i.buffer = Filled /\ i.written = in.written
        /\ i.length = images[session].length /\ i.check = in.check /\ i.sum = in.sum
    BY <1>1 DEF InType
  <2>4. c \in Units
    BY <1>1, <1>3, <2>1
  <2>5. d \in Seq(Units) /\ Len(d) <= BufferSize
    <3>1. d \in Seq(Units) /\ Len(d) <= Len(Filled)
      BY <1>1, <1>3, DropFacts
    <3> QED BY <1>1, <1>3, <3>1
  <2>6. Append(in.sum, c) \in Seq(Units)
    BY <1>1, <2>4 DEF InType
  <2>7. in' = [in EXCEPT !.state = "DATA", !.buffer = d, !.length = images[session].length,
                         !.sum = Append(in.sum, c)]
    BY <1>1, <2>1, <2>3 DEF HeaderDone, InType
  <2> HIDE DEF c, d, i
  <2>8. InType(in') /\ in'.state = "DATA" /\ in'.written = in.written
        /\ in'.length = images[session].length
    BY <1>1, <2>2, <2>5, <2>6, <2>7 DEF InType
  <2>9. images[session].length <= UpdateSlot.size
    BY <1>1, <1>7, <2>2 DEF HeaderAccepted, HeaderValid
  <2>10. InShape(in')
    BY <2>1, <2>8, <2>9, PayloadLength DEF TypeInv, Shape, InShape, Receiving
  <2> QED BY <1>1, <1>3, <2>1, <2>8, <2>10, TypeKept DEF TypeInv, Shape
<1>8. CASE FedHeader
  BY <1>8 DEF FedHeader, Fed, TypeInv, Shape
<1>9. CASE DataBlock
  <2>1. /\ in' = [in EXCEPT !.buffer = Filled, !.sum = in.sum \o DataIn(Filled)]
        /\ feed' = DataIn(Filled) /\ left' = After /\ place' = "data" /\ in.state = "DATA"
        /\ left # <<>> /\ Room > 0
        /\ UNCHANGED <<out, memory, images, sent, result, whole, faults>>
    BY <1>1, <1>9 DEF DataBlock, Processing, Stays, InType
  <2>2. DataIn(Filled) \in Seq(Units)
    BY <1>3, <2>1, DataInFacts
  <2>3. in.sum \o DataIn(Filled) \in Seq(Units)
    BY <1>1, <2>2 DEF InType
  <2>4. InType(in') /\ in'.state = "DATA" /\ in'.buffer = Filled
    BY <1>1, <1>3, <2>1, <2>3 DEF InType
  <2>5. InShape(in')
    BY <1>1, <2>1, <2>4 DEF InType, TypeInv, Shape, InShape, Receiving
  <2> QED BY <1>1, <1>3, <2>1, <2>2, <2>4, <2>5, TypeKept DEF TypeInv, Shape
<1>10. CASE FedData
  <2> DEFINE n == Len(DataIn(in.buffer))
             d == Drop(in.buffer, n)
             i == [in EXCEPT !.written = in.written + n, !.buffer = d,
                             !.state = IF in.written + n = in.length THEN "CHECK" ELSE in.state]
  <2>1. /\ IF i.state = "CHECK" /\ i.buffer # <<>>
           THEN in' = Checked(i) /\ place' = (IF CheckFits(i) THEN "loop" ELSE "error")
           ELSE in' = i /\ place' = "loop"
        /\ place = "data"
        /\ UNCHANGED <<out, left, feed, memory, images, sent, result, whole, faults>>
    BY <1>1, <1>10 DEF FedData, Fed, Stays, InType
  <2>2. in.state = "DATA" /\ in.buffer \in Seq(Units) /\ in.written \in Nat /\ in.length \in Nat
    BY <1>1, <2>1 DEF TypeInv, Shape, InType
  <2>3. n \in Nat /\ in.written + n <= in.length
    BY <2>2, DataInFacts
  <2>4. d \in Seq(Units) /\ Len(d) <= BufferSize
    <3>1. d \in Seq(Units) /\ Len(d) <= Len(in.buffer) /\ Len(d) \in Nat
      BY <2>2, <2>3, DropFacts
    <3> QED BY <1>1, <2>2, <3>1 DEF InType
  <2> HIDE DEF n, d
  <2>5. /\ InType(i) /\ i.length = in.length /\ i.written = in.written + n
        /\ i.state = (IF in.written + n = in.length THEN "CHECK" ELSE "DATA")
        /\ i.state \in {"DATA", "CHECK"}
    <3>1. PICK t \in {"DATA", "CHECK"} : t = IF in.written + n = in.length THEN "CHECK" ELSE in.state
      BY <2>2
    <3>2. PICK w \in Nat : w = in.written + n
      BY <2>2, <2>3
    <3>3. i = [in EXCEPT !.written = w, !.buffer = d, !.state = t]
      BY <3>1, <3>2
    <3> HIDE DEF i
    <3>4. /\ InType(i) /\ i.length = in.length /\ i.written = w /\ i.state = t
      BY <1>1, <2>4, <3>1, <3>2, <3>3 DEF InType
    <3> QED BY <2>2, <3>1, <3>2, <3>4
  <2> HIDE DEF i
  <2>6. InShape(i)
    BY <2>2, <2>3, <2>5 DEF TypeInv, Shape, InShape, Receiving
  <2>7. CASE i.state = "CHECK" /\ i.buffer # <<>>
    <3>1. /\ InType(Checked(i)) /\ Checked(i).state \in {"CHECK", "VALIDATE"}
          /\ Checked(i).length = i.length /\ Checked(i).written = i.written
      BY <2>5, <2>7, CheckedType
    <3>2. InShape(Checked(i))
      BY <2>6, <2>7, <3>1 DEF InShape, Receiving
    <3> QED BY <1>1, <2>1, <2>2, <2>7, <3>1, <3>2, TypeKept DEF TypeInv, Shape
  <2>8. CASE ~(i.state = "CHECK" /\ i.buffer # <<>>)
    BY <1>1, <2>1, <2>2, <2>5, <2>6, <2>8, TypeKept DEF TypeInv, Shape
  <2> QED BY <2>7, <2>8
<1>11. CASE CheckBlock
  <2>1. /\ in.state = "CHECK" /\ in' = Checked(filled) /\ left' = After /\ place' \in {"loop", "error"}
        /\ UNCHANGED <<out, feed, memory, images, sent, result, whole, faults>>
    BY <1>11 DEF CheckBlock, Processing, Stays, filled
  <2>2. /\ InType(in') /\ in'.state \in {"CHECK", "VALIDATE"}
        /\ in'.length = filled.length /\ in'.written = filled.written
    BY <1>4, <2>1, CheckedType
  <2>3. InShape(in')
    BY <1>4, <2>1, <2>2 DEF InShape, Receiving
  <2> QED BY <1>1, <1>3, <2>1, <2>2, <2>3, TypeKept DEF TypeInv, Shape
<1> QED BY <1>5, <1>6, <1>7, <1>8, <1>9, <1>10, <1>11 DEF Reads

\* With two banks the slot is in the bank that does not execute.
LEMMA SlotWritable ==
    ASSUME TwoBanks, TypeInv, option = mapped
    PROVE  /\ Writable(UpdateSlot) /\ OtherBank(UpdateSlot) = mapped
           /\ BankOf(1) \in Banks /\ BankOf(1) # mapped
<1>1. mapped \in Banks /\ UpdateSlot.half = 1 /\ UpdateSlot \in Slot /\ DualBank
  BY UpdateAssumption DEF TwoBanks, TypeInv, TypeOK, MemoryTypeOK, BanksTypeOK
<1> QED BY <1>1, UpdateAssumption
        DEF Writable, OtherBank, BankOf, EraseBank, CurrentBank, Banks

\* What a pass of the loop of imageProcessOutput writes.
LEMMA BlockFacts ==
    ASSUME TypeInv
    PROVE  /\ Block \in Seq(Cells) /\ Len(Block) <= BufferSize /\ Len(Block) \in Nat
           /\ Unmoved \in Seq(Units)
           /\ (out.buffer = <<>> /\ Len(feed) <= BufferSize) => Block = feed /\ Unmoved = <<>>
<1>1. /\ out.buffer \in Seq(Cells) /\ feed \in Seq(Units) /\ feed \in Seq(Cells)
      /\ Len(out.buffer) \in Nat /\ BufferSize \in Nat /\ Len(out.buffer) <= BufferSize
  BY UpdateAssumption, CellFacts DEF TypeInv, TypeOK
<1>2. PICK n \in Nat : n = BufferSize - Len(out.buffer)
  BY <1>1
<1>3. /\ Moved \in Seq(Cells) /\ Moved \in Seq(Units) /\ Len(Moved) <= n /\ Len(Moved) \in Nat
      /\ n >= Len(feed) => Moved = feed
  <2>1. /\ First(feed, n) \in Seq(Units)
        /\ Len(First(feed, n)) = IF n < Len(feed) THEN n ELSE Len(feed)
        /\ n >= Len(feed) => First(feed, n) = feed
    BY <1>1, FirstFacts
  <2>2. Moved = First(feed, n) /\ Len(feed) \in Nat
    BY <1>1, <1>2 DEF Moved
  <2> QED BY <2>1, <2>2, CellFacts
<1>4. ASSUME NEW b \in Seq(Cells), NEW m \in Seq(Cells)
      PROVE  b \o m \in Seq(Cells) /\ Len(b \o m) = Len(b) + Len(m) /\ <<>> \o m = m
  OBVIOUS
<1>8. Block = out.buffer \o Moved
  BY DEF Block, TypeInv, Shape
<1>5. Block \in Seq(Cells) /\ Len(Block) = Len(out.buffer) + Len(Moved)
  BY <1>1, <1>3, <1>4, <1>8
<1>6. Unmoved \in Seq(Units) /\ (Moved = feed => Unmoved = <<>>)
  <2>1. PICK k \in Nat : k = Len(Moved)
    BY <1>3
  <2>2. /\ Drop(feed, k) \in Seq(Units)
        /\ k >= Len(feed) => Drop(feed, k) = <<>>
    BY <1>1, DropFacts
  <2> QED BY <1>1, <2>1, <2>2 DEF Unmoved
<1>7. ASSUME out.buffer = <<>>, Len(feed) <= BufferSize PROVE Block = feed /\ Unmoved = <<>>
  <2>1. n >= Len(feed)
    <3>1. Len(out.buffer) = 0
      BY <1>7
    <3> QED BY <1>1, <1>2, <1>7, <3>1
  <2> QED BY <1>1, <1>3, <1>4, <1>6, <1>7, <1>8, <2>1
<1> QED BY <1>1, <1>2, <1>3, <1>5, <1>6, <1>7

\* The types that every write of imageProcessOutputBinary keeps.
LEMMA WritesType ==
    ASSUME TwoBanks, TypeInv, BinaryFirst \/ BinaryData
    PROVE  /\ TypeInv'
           /\ flash'[mapped] = flash[mapped]
           /\ UNCHANGED <<mapped, option, images, in, whole>>
           /\ in.state = "DATA" /\ option = mapped /\ place = "data" /\ faults' >= faults
<1>1. /\ place = "data" /\ feed # <<>> /\ in.state = "DATA" /\ option = mapped
      /\ out.state \in {"INIT", "DATA"}
      /\ UNCHANGED <<images, sent, in, left, result, whole>>
  BY DEF BinaryFirst, BinaryData, Feeding, TypeInv, Shape
<1>2. /\ MemoryTypeOK(Cells) /\ out.pos \in Nat /\ out.written \in Nat /\ OutType(out)
      /\ faults \in 0 .. MaxFaults /\ MaxFaults \in Nat
      /\ wbuf \in Seq(Cells) /\ Len(wbuf) \in Nat /\ 0 \in Nat
  BY UpdateAssumption DEF TypeInv, TypeOK, OutType, MemoryTypeOK
<1>3. /\ Block \in Seq(Cells) /\ Len(Block) \in Nat /\ Len(Block) <= BufferSize
      /\ Unmoved \in Seq(Units)
      /\ Writable(UpdateSlot) /\ OtherBank(UpdateSlot) = mapped
      /\ {Erased, Junk, Pad} \subseteq Cells /\ <<>> \in Seq(Units) /\ <<>> \in Seq(Cells)
      /\ BufferSize \in Nat /\ Len(<<>>) <= BufferSize
  BY <1>1, BlockFacts, SlotWritable, CellFacts, UpdateAssumption
<1>4. ASSUME NEW at \in Nat, NEW flag, WriteSlot(UpdateSlot, at, Block, flag)
      PROVE  /\ MemoryTypeOK(Cells)' /\ flash'[mapped] = flash[mapped]
             /\ UNCHANGED <<mapped, option>> /\ at + Written(flag, Block) \in Nat
  <2>1. Written(flag, Block) \in 0 .. Len(Queue(flag, Block)) /\ Queue(flag, Block) \in Seq(Cells)
    BY <1>2, <1>3, QueueFacts, PaddingFacts
  <2>2. MemoryTypeOK(Cells)' /\ flash'[mapped] = flash[mapped]
    BY <1>2, <1>3, <1>4, WriteSlotTypes
  <2> QED BY <1>4, <2>1, <2>2 DEF WriteSlot
<1>5. ASSUME NEW at \in Nat, NEW flag, NEW k \in 0 .. Len(wbuf) + Len(Block),
             WriteSlotStops(UpdateSlot, at, Block, flag, k)
      PROVE  /\ MemoryTypeOK(Cells)' /\ flash'[mapped] = flash[mapped]
             /\ UNCHANGED <<mapped, option>>
  <2>1. k \in Nat
    BY <1>2, <1>3
  <2>2. MemoryTypeOK(Cells)' /\ flash'[mapped] = flash[mapped]
    BY <1>2, <1>3, <1>5, <2>1, WriteSlotStopsTypes
  <2> QED BY <1>5, <2>2 DEF WriteSlotStops
<1>6. /\ MemoryTypeOK(Cells)' /\ flash'[mapped] = flash[mapped] /\ UNCHANGED <<mapped, option>>
      /\ OutType(out') /\ out'.state \in {"INIT", "DATA", "END"} /\ out'.skew = out.skew
      /\ feed' \in Seq(Units) /\ faults' \in 0 .. MaxFaults /\ faults' >= faults
      /\ place' \in {"data", "error"}
  <2>1. CASE BinaryFirst
    <3>1. CASE /\ WriteSlot(UpdateSlot, 0, Block, FirstFlag)
               /\ out' = [[out EXCEPT !.buffer = <<>>, !.written = out.written + Len(Block),
                                      !.state = "DATA"]
                             EXCEPT !.pos = 0 + Written(FirstFlag, Block)]
               /\ feed' = Unmoved /\ UNCHANGED <<place, faults>>
      <4>1. 0 + Written(FirstFlag, Block) \in Nat
        BY <1>2, <1>4, <3>1
      <4>2. PICK p \in Nat, w \in Nat :
               p = 0 + Written(FirstFlag, Block) /\ w = out.written + Len(Block)
        BY <1>2, <1>3, <4>1
      <4>3. out' = [out EXCEPT !.buffer = <<>>, !.written = w, !.state = "DATA", !.pos = p]
        BY <1>2, <3>1, <4>2 DEF OutType
      <4>4. OutType(out') /\ out'.state = "DATA" /\ out'.skew = out.skew
        BY <1>2, <1>3, <4>2, <4>3 DEF OutType
      <4>5. MemoryTypeOK(Cells)' /\ flash'[mapped] = flash[mapped] /\ UNCHANGED <<mapped, option>>
        BY <1>2, <1>4, <3>1
      <4>6. feed' = Unmoved /\ place' = place /\ faults' = faults
        BY <3>1
      <4> QED BY <1>1, <1>2, <1>3, <4>4, <4>5, <4>6
    <3>2. CASE /\ faults' = faults \/ (faults < MaxFaults /\ faults' = faults + 1)
               /\ \E k \in 0 .. Len(wbuf) + Len(Block) :
                     WriteSlotStops(UpdateSlot, 0, Block, FirstFlag, k)
               /\ out' = [out EXCEPT !.buffer = Block, !.pos = 0]
               /\ feed' = <<>> /\ place' = "error"
      <4>1. OutType(out') /\ out'.state = out.state /\ out'.skew = out.skew
        BY <1>2, <1>3, <3>2 DEF OutType
      <4>2. MemoryTypeOK(Cells)' /\ flash'[mapped] = flash[mapped] /\ UNCHANGED <<mapped, option>>
        BY <1>2, <1>5, <3>2
      <4>3. /\ feed' = <<>> /\ place' = "error"
            /\ faults' = faults \/ (faults < MaxFaults /\ faults' = faults + 1)
        BY <3>2
      <4> QED BY <1>1, <1>2, <1>3, <4>1, <4>2, <4>3
    <3> QED BY <1>2, <2>1, <3>1, <3>2 DEF BinaryFirst, WriteOut, OutType, WriteSlotFails, WriteSlotRefused
  <2>2. CASE BinaryData
    <3> DEFINE flag == IF LastBlock THEN LastFlag ELSE "DEFAULT"
               o == [out EXCEPT !.buffer = <<>>, !.written = out.written + Len(Block),
                                !.state = IF LastBlock THEN "END" ELSE out.state]
    <3>1. CASE /\ WriteSlot(UpdateSlot, out.pos, Block, flag)
               /\ out' = [o EXCEPT !.pos = out.pos + Written(flag, Block)]
               /\ feed' = Unmoved /\ UNCHANGED <<place, faults>>
      <4>1. out.pos + Written(flag, Block) \in Nat
        BY <1>2, <1>4, <3>1
      <4>2. PICK p \in Nat, w \in Nat, s \in {"INIT", "DATA", "END"} :
               /\ p = out.pos + Written(flag, Block) /\ w = out.written + Len(Block)
               /\ s = IF LastBlock THEN "END" ELSE out.state
        BY <1>1, <1>2, <1>3, <4>1
      <4>3. out' = [out EXCEPT !.buffer = <<>>, !.written = w, !.state = s, !.pos = p]
        BY <1>2, <3>1, <4>2 DEF OutType
      <4>4. OutType(out') /\ out'.state = s /\ out'.skew = out.skew
        BY <1>2, <1>3, <4>2, <4>3 DEF OutType
      <4> QED BY <1>1, <1>2, <1>3, <1>4, <3>1, <4>2, <4>4
    <3>2. CASE /\ faults' = faults \/ (faults < MaxFaults /\ faults' = faults + 1)
               /\ \E k \in 0 .. Len(wbuf) + Len(Block) :
                     WriteSlotStops(UpdateSlot, out.pos, Block, flag, k)
               /\ out' = [out EXCEPT !.buffer = Block]
               /\ feed' = <<>> /\ place' = "error"
      <4>1. OutType(out') /\ out'.state = out.state /\ out'.skew = out.skew
        BY <1>2, <1>3, <3>2 DEF OutType
      <4> QED BY <1>1, <1>2, <1>3, <1>5, <3>2, <4>1
    <3> QED BY <1>2, <2>2, <3>1, <3>2 DEF BinaryData, WriteOut, OutType, WriteSlotFails, WriteSlotRefused
  <2> QED BY <2>1, <2>2
<1>7. TypeOK'
  BY <1>1, <1>6 DEF TypeInv, TypeOK, OutType
<1>8. Shape'
  BY <1>1, <1>6 DEF TypeInv, Shape, InShape, session
<1> QED BY <1>1, <1>6, <1>7, <1>8 DEF TypeInv

\* What the application does between two calls of updateProcess.
Calls ==
    \/ UpdateInit
    \/ \E n \in Lengths : UpdateProcess(n)
    \/ FinalizeValid \/ FinalizeSwapFails \/ FinalizeInvalid \/ FinalizeNotReady
    \/ Reset

\* Nor does a call of the application, or a reset.
LEMMA CallsType ==
    ASSUME TwoBanks, TypeInv, Calls
    PROVE  TypeInv'
<1>1. /\ InType(in) /\ OutType(out) /\ left \in Seq(Units) /\ feed \in Seq(Units)
      /\ sent \in Nat /\ result \in {"ok", "error"} /\ DualBank /\ images \in Seq(Images)
      /\ place \in {"app", "loop", "data", "error"} /\ MaxSessions \in Nat
      /\ whole \in [Banks -> 0 .. MaxSessions] /\ faults \in 0 .. MaxFaults /\ MaxFaults \in Nat
      /\ BufferSize \in Nat /\ <<>> \in Seq(Units) /\ <<>> \in Seq(Cells) /\ MemoryTypeOK(Cells)
      /\ Len(<<>>) <= BufferSize /\ session \in 0 .. MaxSessions
  BY UpdateAssumption, TypeParts DEF TypeInv, Shape, TwoBanks, session
<1>2. InType(NoInput) /\ OutType(NoOutput) /\ NoInput.state = "NONE" /\ NoOutput.state = "NONE"
      /\ NoOutput.skew = 0 /\ InShape(NoInput)
  BY <1>1 DEF InType, OutType, NoInput, NoOutput, InShape, Receiving
<1>3. CASE UpdateInit
  <2>1. PICK image \in Images : images' = Append(images, image)
    BY <1>3 DEF UpdateInit
  <2>2. /\ images' \in Seq(Images) /\ session' = session + 1 /\ session' <= MaxSessions
    BY <1>1, <1>3, <2>1 DEF UpdateInit, session
  <2>3. /\ in' = [NoInput EXCEPT !.state = "HEADER"] /\ out' = [NoOutput EXCEPT !.state = "INIT"]
        /\ option = mapped /\ sent' = 0 /\ result' = "ok" /\ place = "app"
        /\ UNCHANGED <<memory, place, left, feed, whole, faults>>
    BY <1>1, <1>3 DEF UpdateInit, TwoBanks
  <2>4. /\ InType(in') /\ in'.state = "HEADER" /\ in'.written = 0 /\ in'.sum = <<>>
        /\ OutType(out') /\ out'.state = "INIT" /\ out'.skew = 0
    BY <1>2, <2>3 DEF InType, OutType, NoInput, NoOutput
  <2>5. MemoryTypeOK(Cells)'
    BY <1>1, <2>3 DEF MemoryTypeOK, BanksTypeOK, memory, banks
  <2>6. TypeOK'
    BY <1>1, <2>2, <2>3, <2>4, <2>5 DEF TypeOK, InType, OutType
  <2>7. Shape'
    BY <1>1, <2>2, <2>3, <2>4 DEF Shape, InShape, Receiving, memory, banks
  <2> QED BY <2>6, <2>7 DEF TypeInv
<1>4. CASE \E n \in Lengths : UpdateProcess(n)
  <2>1. PICK n \in Lengths : UpdateProcess(n)
    BY <1>4
  <2> DEFINE all == Stream(session, images[session])
  <2>2. n \in Nat /\ in.state # "NONE" /\ place = "app"
    BY <2>1, UpdateAssumption DEF UpdateProcess
  <2>3. all \in Seq(Units) /\ Len(all) \in Nat
    BY <1>1, <2>2, PayloadLength, StreamUnits
  <2>4. /\ sent + n <= Len(all) /\ left' = SubSeq(all, sent + 1, sent + n) /\ sent' = sent + n
        /\ place' = "loop"
        /\ UNCHANGED <<memory, images, in, out, feed, result, whole, faults>>
    BY <2>1 DEF UpdateProcess
  <2> HIDE DEF all
  <2>5. left' \in Seq(Units)
    <3>1. ASSUME NEW s \in Seq(Units), NEW a \in Nat, NEW b \in Nat, b <= Len(s)
          PROVE  SubSeq(s, a + 1, b) \in Seq(Units)
      BY <3>1
    <3>2. sent + n \in Nat
      BY <1>1, <2>2
    <3> QED BY <1>1, <2>3, <2>4, <3>1, <3>2
  <2>6. sent' \in Nat
    BY <1>1, <2>2, <2>4
  <2> QED BY <1>1, <2>4, <2>5, <2>6, TypeKept DEF TypeInv, Shape
<1>5. CASE FinalizeValid \/ FinalizeSwapFails
  <2>1. /\ in.state = "VALIDATE" /\ in'.state \in {"VALIDATE", "REBOOT"}
        /\ in' = [in EXCEPT !.state = in'.state]
        /\ faults' \in 0 .. MaxFaults /\ result' \in {"ok", "error"}
        /\ place' = "app" /\ left' = <<>> /\ feed' = <<>>
        /\ UNCHANGED <<flash, mapped, wbuf, given, broken, images, sent, out>>
    <3>1. CASE FinalizeValid
      BY <1>1, <3>1 DEF FinalizeValid, Return, InType
    <3>2. CASE FinalizeSwapFails
      <4>1. in = [in EXCEPT !.state = in.state]
        BY <1>1 DEF InType
      <4>2. in' = in /\ in.state = "VALIDATE"
        BY <3>2 DEF FinalizeSwapFails
      <4>3. faults < MaxFaults /\ faults' = faults + 1
        BY <3>2 DEF FinalizeSwapFails
      <4>4. faults' \in 0 .. MaxFaults
        BY <1>1, <4>3
      <4> QED BY <3>2, <4>1, <4>2, <4>4 DEF FinalizeSwapFails, Return
    <3> QED BY <1>5, <3>1, <3>2
  <2>2. \/ option' = option /\ whole' = whole
        \/ SwapBanks /\ whole' = [whole EXCEPT ![BankOf(1)] = session]
    BY <1>1, <1>5 DEF FinalizeValid, FinalizeSwapFails
  <2>3. option' \in Banks /\ whole' \in [Banks -> 0 .. MaxSessions]
    BY <1>1, <2>2 DEF MemoryTypeOK, BanksTypeOK, SwapBanks, CurrentBank, Banks
  <2>4. MemoryTypeOK(Cells)'
    BY <1>1, <2>1, <2>3 DEF MemoryTypeOK, BanksTypeOK
  <2>5. PICK s \in {"VALIDATE", "REBOOT"} : s = in'.state
    BY <2>1
  <2>6. /\ InType(in') /\ in'.length = in.length /\ in'.written = in.written
    BY <1>1, <2>1, <2>5 DEF InType
  <2>7. TypeOK'
    BY <1>1, <2>1, <2>3, <2>4, <2>6 DEF TypeOK, InType, OutType
  <2>8. Shape'
    BY <2>1, <2>6 DEF TypeInv, Shape, InShape, Receiving, session
  <2> QED BY <2>7, <2>8 DEF TypeInv
<1>6. CASE FinalizeInvalid \/ FinalizeNotReady
  <2>1. /\ place' = "app" /\ result' = "error" /\ left' = <<>> /\ feed' = <<>>
        /\ \/ in' = in
           \/ in' = [in EXCEPT !.state = "IDLE"] /\ in.state = "VALIDATE"
        /\ UNCHANGED <<memory, images, sent, out, whole, faults>>
    BY <1>1, <1>6 DEF FinalizeInvalid, FinalizeNotReady, DropHeader, Return
  <2>2. InType(in') /\ InShape(in') /\ in'.state \in {in.state, "IDLE"}
        /\ (in'.state = "IDLE" => in.state \in {"IDLE", "VALIDATE"})
    BY <1>1, <2>1 DEF InType, InShape, Receiving, TypeInv, Shape
  <2> QED BY <1>1, <2>1, <2>2, TypeKept DEF TypeInv, Shape
<1>7. CASE Reset
  <2>1. /\ mapped' = option /\ UNCHANGED <<flash, option>>
        /\ wbuf' = <<>> /\ given' = <<>> /\ broken' = FALSE
        /\ in' = NoInput /\ out' = NoOutput
        /\ place' = "app" /\ result' = "ok" /\ left' = <<>> /\ feed' = <<>>
        /\ UNCHANGED <<images, sent, whole, faults>>
    BY <1>7 DEF Reset, ResetMemory, ResetBanks, Return
  <2>2. Len(wbuf') <= WriteSize
    BY <2>1, GeometryAssumption
  <2>3. MemoryTypeOK(Cells)'
    BY <1>1, <2>1, <2>2 DEF MemoryTypeOK, BanksTypeOK
  <2>4. TypeOK'
    BY <1>1, <1>2, <2>1, <2>3 DEF TypeOK, InType, OutType
  <2>5. Shape'
    BY <1>1, <1>2, <2>1 DEF Shape, InShape, Receiving, session
  <2> QED BY <2>4, <2>5 DEF TypeInv
<1> QED BY <1>3, <1>4, <1>5, <1>6, <1>7 DEF Calls

\* A device that has booted its first application.
LEMMA TypeInit == TwoBanks /\ Init => TypeInv
<1> SUFFICES ASSUME TwoBanks, Init PROVE TypeInv
  OBVIOUS
<1>1. /\ mapped \in Banks /\ option = mapped
      /\ flash = [b \in Banks |-> IF b = mapped THEN Factory ELSE [c \in Offsets |-> Junk]]
      /\ wbuf = <<>> /\ given = <<>> /\ broken = FALSE
      /\ images = <<>> /\ sent = 0 /\ in = NoInput /\ out = NoOutput
      /\ place = "app" /\ left = <<>> /\ feed = <<>> /\ result = "ok"
      /\ whole = [b \in Banks |-> 0] /\ faults = 0
  BY DEF Init
<1>2. /\ BufferSize \in Nat /\ WriteSize \in Nat /\ BankSize \in Nat
      /\ MaxSessions \in Nat /\ MaxFaults \in Nat
  BY UpdateAssumption, GeometryAssumption
<1>3. \A c \in Offsets : Unit(0, c) \in Cells /\ Junk \in Cells
  BY <1>2 DEF Offsets, Cells, Units, Unit
<1>4. flash \in [Banks -> [Offsets -> Cells]]
  BY <1>1, <1>3 DEF Factory
<1>5. MemoryTypeOK(Cells)
  <2>1. wbuf \in Seq(Cells) /\ given \in Seq(Cells) /\ Len(wbuf) = 0
    BY <1>1
  <2>2. mapped \in Banks /\ option \in Banks /\ broken \in BOOLEAN
    BY <1>1
  <2> QED BY <1>2, <1>4, <2>1, <2>2 DEF MemoryTypeOK, BanksTypeOK
<1>6. InType(in) /\ OutType(out)
  BY <1>1, <1>2 DEF InType, OutType, NoInput, NoOutput
<1>7. TypeOK
  <2>1. images \in Seq(Images) /\ left \in Seq(Units) /\ feed \in Seq(Units)
    BY <1>1
  <2>2. whole \in [Banks -> 0 .. MaxSessions] /\ faults \in 0 .. MaxFaults
    BY <1>1, <1>2
  <2> QED BY <1>1, <1>5, <1>6, <2>1, <2>2, TypeParts
<1>8. Shape
  BY <1>1, <1>2 DEF Shape, InShape, Receiving, NoInput, NoOutput, session
<1> QED BY <1>7, <1>8 DEF TypeInv

\* With two banks a step is one of these.
LEMMA StepCases ==
    ASSUME TwoBanks, TypeInv, [Next]_vars
    PROVE  Calls \/ Reads \/ BinaryFirst \/ BinaryData \/ UNCHANGED vars
<1>1. DualBank /\ place # "header" /\ out.state \notin {"HEADER", "DIGEST"}
  BY DEF TwoBanks, TypeInv, Shape
<1>2. ~( ImageHeader \/ ImageData \/ ImageLast \/ ImageDigest \/ ImageOverruns
        \/ ErrorErased \/ ErrorEraseFails )
  BY <1>1 DEF ImageHeader, ImageData, ImageLast, ImageDigest, ImageOverruns, ErrorErased,
              ErrorEraseFails
<1> QED BY <1>2 DEF Next, Step, Calls, Reads

\* Every step keeps the types and the control.
LEMMA TypeStep ==
    ASSUME TwoBanks, TypeInv, [Next]_vars
    PROVE  TypeInv'
<1>1. CASE UNCHANGED vars
  BY <1>1 DEF vars, TypeInv, TypeOK, MemoryTypeOK, BanksTypeOK, Shape, InShape, session,
              memory, banks
<1> QED BY <1>1, StepCases, CallsType, ReadsType, WritesType

-------------------------------------------------------------------------------
(* From the input to the slot *)

\* The first n units of the payload have gone to the slot, those that were
\* digested behind the CRC of the header.
Streamed(n) ==
    /\ Faithful(UpdateSlot, out.pos) /\ CleanAhead(UpdateSlot, out.pos)
    /\ QuadWords(out.pos)
    /\ Len(given) >= n
    /\ \A i \in 1 .. n : given[i] = in.sum[i + 1]

\* The output context has taken the first n units of the payload.
OutputAt(n) ==
    /\ out.buffer = <<>> /\ out.written = n
    /\ \/ out.state = "INIT" /\ n = 0
       \/ out.state = "DATA" /\ 0 < n /\ n < in.length /\ Streamed(n) /\ Len(given) = n
       \/ out.state = "END" /\ n = in.length /\ Streamed(n) /\ wbuf = <<>>

\* What a block has added to the digest that in.written does not count yet.
Pending == IF place = "data" THEN Len(DataIn(in.buffer)) ELSE 0

\* No block has been lost: what is digested is what the output has taken.
Live ==
    /\ Len(in.sum) = 1 + in.written + Pending
    /\ IF place = "data" /\ feed # <<>>
       THEN /\ feed = DataIn(in.buffer)
            /\ \A i \in 1 .. Len(feed) : in.sum[1 + in.written + i] = feed[i]
            /\ OutputAt(in.written)
       ELSE OutputAt(in.written + Pending)

\* A block that could not be written was digested and is digested again when it
\* comes again: the digest is too long from then on.
Lost == faults > 0 /\ Len(in.sum) > 1 + in.written + Pending

Flow ==
    /\ in.state = "HEADER" => out.state = "INIT" /\ out.buffer = <<>> /\ out.written = 0
    /\ in.state \in Receiving => Lost \/ Live

\* What the output has taken stays while the slot and the output do.
LEMMA OutputKept ==
    ASSUME NEW n \in Nat, OutputAt(n), UNCHANGED <<flash, mapped, wbuf, given, out>>,
           in'.length = in.length, \A i \in 1 .. n : in'.sum[i + 1] = in.sum[i + 1]
    PROVE  OutputAt(n)'
<1>1. Streamed(n) => Streamed(n)'
  BY DEF Streamed, Faithful, CleanAhead, BankOf
<1> QED BY <1>1 DEF OutputAt

\* A block is never empty, and never longer than the buffer.
LEMMA PendingFacts ==
    ASSUME TypeInv
    PROVE  /\ Pending \in Nat /\ in.written \in Nat /\ in.length \in Nat
           /\ in.sum \in Seq(Units) /\ Len(in.sum) \in Nat
           /\ place = "data" => Pending > 0 /\ in.written + Pending <= in.length
                                /\ Pending <= BufferSize
                                /\ DataIn(in.buffer) \in Seq(Units)
           /\ place # "data" => Pending = 0
<1>1. /\ in.written \in Nat /\ in.length \in Nat /\ in.sum \in Seq(Units) /\ in.buffer \in Seq(Units)
      /\ Len(in.buffer) <= BufferSize /\ BufferSize \in Nat /\ Len(in.buffer) \in Nat
  BY UpdateAssumption DEF TypeInv, TypeOK
<1>2. ASSUME place = "data"
      PROVE  /\ Pending \in Nat /\ Pending > 0 /\ in.written + Pending <= in.length
             /\ Pending <= BufferSize /\ DataIn(in.buffer) \in Seq(Units)
  <2>1. in.state = "DATA" /\ Len(in.buffer) > 0
    BY <1>1, <1>2 DEF TypeInv, Shape
  <2>2. PICK b \in Seq(Units) : b = in.buffer
    BY <1>1
  <2>3. /\ DataIn(b) \in Seq(Units) /\ Len(DataIn(b)) <= Len(b)
        /\ Len(DataIn(b)) \in Nat /\ in.written + Len(DataIn(b)) <= in.length
        /\ Len(b) > 0 => Len(DataIn(b)) > 0
    BY <2>1, DataInFacts
  <2>4. Pending = Len(DataIn(b))
    BY <1>2, <2>2 DEF Pending
  <2> QED BY <1>1, <2>1, <2>2, <2>3, <2>4
<1> QED BY <1>1, <1>2 DEF Pending

\* A step behind which the digest and the slot are what they were.
LEMMA FlowKept ==
    ASSUME TypeInv, TypeInv', Flow, place # "data", place' # "data",
           UNCHANGED <<flash, mapped, wbuf, given, out>>, faults' >= faults,
           in'.sum = in.sum, in'.written = in.written, in'.length = in.length,
           in'.state = "HEADER" => in.state = "HEADER",
           in'.state \in Receiving => in.state \in Receiving
    PROVE  Flow'
<1>1. Pending = 0 /\ Pending' = 0 /\ in.written \in Nat
  BY PendingFacts DEF Pending
<1>2. ASSUME Live PROVE Live'
  <2>1. PICK n \in Nat : n = in.written
    BY <1>1
  <2>2. OutputAt(n)
    BY <1>1, <1>2, <2>1 DEF Live
  <2>3. OutputAt(n)'
    BY <2>2, OutputKept
  <2>4. OutputAt(in.written + Pending)'
    BY <1>1, <2>1, <2>3 DEF OutputAt
  <2> QED BY <1>1, <1>2, <2>4 DEF Live
<1>3. Lost => Lost'
  <2>1. faults \in Nat /\ faults' \in Nat
    BY UpdateAssumption DEF TypeInv, TypeOK
  <2> QED BY <1>1, <2>1 DEF Lost
<1> QED BY <1>2, <1>3 DEF Flow

\* Reading the input loses no block.
LEMMA ReadsFlow ==
    ASSUME TwoBanks, TypeInv, TypeInv', Flow, Reads
    PROVE  Flow'
<1>1. /\ InType(in) /\ left \in Seq(Units) /\ DualBank /\ <<>> \in Seq(Units)
      /\ BufferSize \in Nat /\ HeaderSize \in Nat /\ HeaderSize > 0 /\ place # "header"
      /\ faults \in Nat
  BY UpdateAssumption, TypeParts DEF TypeInv, Shape, TwoBanks, TypeOK
<1>2. Room \in Nat
  BY <1>1 DEF Room, InType
<1>3. /\ Filled \in Seq(Units) /\ Len(Filled) <= BufferSize
      /\ (left # <<>> /\ Room > 0) => Len(Filled) > 0
  BY <1>1, <1>2, FilledFacts
<1> DEFINE filled == [in EXCEPT !.buffer = Filled]
<1>4. /\ InType(filled) /\ filled.state = in.state /\ filled.sum = in.sum
      /\ filled.written = in.written /\ filled.length = in.length
  BY <1>1, <1>3 DEF InType
<1> HIDE DEF filled
<1>5. CASE LoopEnds \/ LoopOverflows \/ ReturnError
  BY <1>1, <1>5, FlowKept DEF LoopEnds, LoopOverflows, ReturnError, Return, memory, banks
<1>6. CASE HeaderWait \/ HeaderRefused \/ DataWait \/ WrongState
  <2>1. /\ in' = filled /\ place = "loop" /\ place' \in {"loop", "error"}
        /\ UNCHANGED <<memory, out, faults>>
    BY <1>6 DEF HeaderWait, HeaderRefused, DataWait, WrongState, Processing, Stays, filled
  <2> QED BY <1>1, <1>4, <2>1, FlowKept DEF memory, banks
<1>7. CASE CheckBlock
  <2>1. /\ in.state = "CHECK" /\ in' = Checked(filled) /\ place = "loop" /\ place' \in {"loop", "error"}
        /\ UNCHANGED <<memory, out, faults>>
    BY <1>7 DEF CheckBlock, Processing, Stays, filled
  <2>2. /\ in'.state \in {"CHECK", "VALIDATE"} /\ in'.sum = in.sum
        /\ in'.written = in.written /\ in'.length = in.length
    BY <1>4, <2>1, CheckedType
  <2> QED BY <1>1, <2>1, <2>2, FlowKept DEF memory, banks, Receiving
<1>8. CASE HeaderAccepted
  <2> DEFINE i == [in EXCEPT !.buffer = Filled, !.length = images[session].length]
  <2>1. /\ in' = HeaderDone(i) /\ in.state = "HEADER" /\ place = "loop" /\ place' = "loop"
        /\ UNCHANGED out
    BY <1>1, <1>8 DEF HeaderAccepted, Processing
  <2>2. /\ in.sum = <<>> /\ in.written = 0 /\ out.state = "INIT" /\ out.buffer = <<>>
        /\ out.written = 0
    BY <2>1 DEF Flow, TypeInv, Shape, InShape
  <2>3. i.buffer = Filled /\ i.sum = in.sum /\ i.written = in.written
    BY <1>1 DEF InType
  <2>4. PICK c : c = i.buffer[HeaderSize]
    OBVIOUS
  <2>5. in' = [i EXCEPT !.state = "DATA", !.buffer = Drop(i.buffer, HeaderSize),
                        !.sum = Append(i.sum, c)]
    BY <2>1, <2>4 DEF HeaderDone
  <2>6. in'.sum = Append(in.sum, c) /\ in'.written = 0 /\ in'.state = "DATA"
    BY <1>1, <2>2, <2>3, <2>5 DEF InType
  <2>7. Len(in'.sum) = 1 /\ Pending' = 0
    <3>1. Len(Append(<<>>, c)) = 1
      OBVIOUS
    <3> QED BY <2>1, <2>2, <2>6, <3>1 DEF Pending
  <2>8. OutputAt(0)'
    BY <2>1, <2>2 DEF OutputAt
  <2>9. OutputAt(in.written + Pending)'
    BY <2>6, <2>7, <2>8 DEF OutputAt
  <2> QED BY <2>1, <2>6, <2>7, <2>9 DEF Flow, Live
<1>9. CASE DataBlock
  <2>1. /\ in' = [in EXCEPT !.buffer = Filled, !.sum = in.sum \o DataIn(Filled)]
        /\ feed' = DataIn(Filled) /\ place = "loop" /\ place' = "data" /\ in.state = "DATA"
        /\ left # <<>> /\ Room > 0
        /\ UNCHANGED <<out, memory, faults>>
    BY <1>1, <1>9 DEF DataBlock, Processing, Stays, InType
  <2> DEFINE d == DataIn(Filled)
  <2>2. d \in Seq(Units) /\ Len(d) \in Nat /\ Len(d) > 0
    BY <1>3, <2>1, DataInFacts
  <2>3. /\ in'.state = "DATA" /\ in'.buffer = Filled /\ in'.written = in.written
        /\ in'.length = in.length /\ in'.sum = in.sum \o d
    BY <1>1, <2>1 DEF InType
  <2>4. DataIn(in.buffer)' = d /\ Pending' = Len(d)
    BY <2>1, <2>3 DEF DataIn, Pending
  <2>5. Pending = 0 /\ in.written \in Nat /\ in.sum \in Seq(Units) /\ Len(in.sum) \in Nat
    BY <2>1, PendingFacts
  <2> HIDE DEF d
  <2>6. /\ Len(in'.sum) = Len(in.sum) + Len(d)
        /\ \A j \in 1 .. Len(in.sum) : in'.sum[j] = in.sum[j]
        /\ \A j \in 1 .. Len(d) : in'.sum[Len(in.sum) + j] = d[j]
    BY <2>2, <2>3, <2>5
  <2>7. Lost => Lost'
    BY <2>1, <2>2, <2>3, <2>4, <2>5, <2>6 DEF Lost
  <2>8. ASSUME Live PROVE Live'
    <3>1. PICK n \in Nat : n = in.written
      BY <2>5
    <3>2. OutputAt(n) /\ Len(in.sum) = 1 + n
      BY <2>1, <2>5, <2>8, <3>1 DEF Live
    <3>3. \A j \in 1 .. n : in'.sum[j + 1] = in.sum[j + 1]
      BY <2>6, <3>2
    <3>4. OutputAt(n)'
      BY <2>1, <2>3, <3>2, <3>3, OutputKept DEF memory, banks
    <3>5. OutputAt(in.written)'
      BY <2>3, <3>1, <3>4 DEF OutputAt
    <3>6. feed' = DataIn(in.buffer)' /\ feed' # <<>> /\ feed' = d
      BY <2>1, <2>2, <2>4 DEF d
    <3>7. Len(in'.sum) = 1 + in'.written + Pending'
      BY <2>2, <2>3, <2>4, <2>6, <3>1, <3>2
    <3>8. \A j \in 1 .. Len(feed') : in'.sum[1 + in'.written + j] = feed'[j]
      BY <2>3, <2>6, <3>1, <3>2, <3>6
    <3> QED BY <2>1, <3>5, <3>6, <3>7, <3>8 DEF Live
  <2> QED BY <2>1, <2>3, <2>7, <2>8 DEF Flow, Receiving
<1>10. CASE FedData
  <2> DEFINE n == Len(DataIn(in.buffer))
             i == [in EXCEPT !.written = in.written + n, !.buffer = Drop(in.buffer, n),
                             !.state = IF in.written + n = in.length THEN "CHECK" ELSE in.state]
  <2>1. /\ in' = i \/ in' = Checked(i)
        /\ place = "data" /\ feed = <<>> /\ place' \in {"loop", "error"}
        /\ UNCHANGED <<out, memory, faults>>
    BY <1>1, <1>10 DEF FedData, Fed, Stays, InType
  <2>2. n = Pending /\ in.state = "DATA"
    BY <2>1 DEF Pending, TypeInv, Shape
  <2>3. /\ Pending \in Nat /\ in.written \in Nat /\ in.sum \in Seq(Units)
    BY PendingFacts
  <2>4. PICK w \in Nat : w = in.written + Pending
    BY <2>3
  <2>5. i.sum = in.sum /\ i.length = in.length /\ i.written = w
    BY <1>1, <2>2, <2>4 DEF InType
  <2>6. Checked(i).sum = i.sum /\ Checked(i).written = i.written /\ Checked(i).length = i.length
    BY <1>1 DEF Checked, InType
  <2> HIDE DEF i, n
  <2>7. in'.sum = in.sum /\ in'.length = in.length /\ in'.written = w /\ Pending' = 0
    BY <2>1, <2>5, <2>6 DEF Pending
  <2>8. Lost => Lost'
    BY <2>1, <2>3, <2>4, <2>7 DEF Lost
  <2>9. ASSUME Live PROVE Live'
    <3>1. OutputAt(w)
      BY <2>1, <2>4, <2>9 DEF Live
    <3>2. OutputAt(w)'
      BY <2>1, <2>7, <3>1, OutputKept DEF memory, banks
    <3>3. OutputAt(in.written + Pending)'
      BY <2>7, <3>2 DEF OutputAt
    <3> QED BY <2>1, <2>3, <2>4, <2>7, <2>9, <3>3 DEF Live
  <2>10. in'.state # "HEADER"
    BY <1>1, <1>10, <2>2 DEF FedData, Checked, InType
  <2> QED BY <2>2, <2>8, <2>9, <2>10 DEF Flow, Receiving
<1>11. CASE FedHeader
  BY <1>1, <1>11 DEF FedHeader, Fed
<1> QED BY <1>5, <1>6, <1>7, <1>8, <1>9, <1>10, <1>11 DEF Reads

\* Nor do the calls of the application.
LEMMA CallsFlow ==
    ASSUME TwoBanks, TypeInv, TypeInv', Flow, Calls
    PROVE  Flow'
<1>1. InType(in) /\ DualBank /\ faults \in Nat
  BY TypeParts DEF TypeInv, TwoBanks, TypeOK
<1>2. CASE UpdateInit
  <2>1. in'.state = "HEADER" /\ out'.state = "INIT" /\ out'.buffer = <<>> /\ out'.written = 0
    BY <1>1, <1>2 DEF UpdateInit, NoInput, NoOutput
  <2> QED BY <2>1 DEF Flow, Receiving
<1>3. CASE \E n \in Lengths : UpdateProcess(n)
  BY <1>1, <1>3, FlowKept DEF UpdateProcess, memory, banks
<1>4. CASE FinalizeValid \/ FinalizeSwapFails \/ FinalizeInvalid \/ FinalizeNotReady
  <2>1. /\ \/ in' = in
           \/ in' = [in EXCEPT !.state = "REBOOT"] /\ in.state = "VALIDATE"
           \/ in' = [in EXCEPT !.state = "IDLE"]
        /\ place = "app" /\ place' = "app" /\ faults' >= faults
        /\ UNCHANGED <<flash, mapped, wbuf, given, out>>
    BY <1>1, <1>4 DEF FinalizeValid, FinalizeSwapFails, FinalizeInvalid, FinalizeNotReady,
                      MayFinalize, Return, DropHeader, memory, banks
  <2>2. /\ in'.sum = in.sum /\ in'.written = in.written /\ in'.length = in.length
        /\ \/ in'.state = in.state
           \/ in'.state = "REBOOT" /\ in.state = "VALIDATE"
           \/ in'.state = "IDLE"
    BY <1>1, <2>1 DEF InType
  <2> QED BY <2>1, <2>2, FlowKept DEF Receiving
<1>5. CASE Reset
  BY <1>5 DEF Reset, NoInput, Flow, Receiving
<1> QED BY <1>2, <1>3, <1>4, <1>5 DEF Calls

\* A block of the payload that goes to the slot behind the w units before it.
LEMMA BlockStreamed ==
    ASSUME TwoBanks, TypeInv, option = mapped, NEW w \in Nat, NEW pos \in Nat, NEW flag,
           IF flag = "RESET" THEN pos = 0 /\ w = 0
           ELSE /\ Faithful(UpdateSlot, pos) /\ CleanAhead(UpdateSlot, pos) /\ Len(given) = w
                /\ \A i \in 1 .. w : given[i] = in.sum[i + 1],
           QuadWords(pos),
           \A i \in 1 .. Len(feed) : in.sum[1 + w + i] = feed[i],
           WriteSlot(UpdateSlot, pos, feed, flag),
           out'.pos = pos + Written(flag, feed), in' = in,
           NEW n \in Nat, n = w + Len(feed)
    PROVE  /\ Streamed(n)'
           /\ flag # "FORCE" => Len(given') = n
           /\ flag = "FORCE" => wbuf' = <<>>
<1>1. /\ MemoryTypeOK(Cells) /\ feed \in Seq(Cells) /\ {Erased, Junk, Pad} \subseteq Cells
      /\ Writable(UpdateSlot) /\ Len(feed) \in Nat
      /\ wbuf \in Seq(Cells) /\ given \in Seq(Cells) /\ Pad \in Cells
  <2>1. Writable(UpdateSlot)
    BY SlotWritable
  <2>2. MemoryTypeOK(Cells) /\ feed \in Seq(Cells) /\ {Erased, Junk, Pad} \subseteq Cells
    BY CellFacts DEF TypeInv, TypeOK
  <2> QED BY <2>1, <2>2 DEF MemoryTypeOK
<1>2. PICK p : p = pos + Written(flag, feed)
  OBVIOUS
<1>3. Faithful(UpdateSlot, p)' /\ CleanAhead(UpdateSlot, p)'
  BY <1>1, <1>2, WriteSlotStep
<1>4. Faithful(UpdateSlot, out.pos)' /\ CleanAhead(UpdateSlot, out.pos)'
  BY <1>2, <1>3 DEF Faithful, CleanAhead
<1>5. Take(flag, feed) /\ wbuf' = Rest(flag, feed)
  BY DEF WriteSlot
<1>6. w = IF flag = "RESET" THEN 0 ELSE Len(given)
  OBVIOUS
<1>7. flag # "RESET" => \A i \in 1 .. w : given[i] = in.sum[i + 1]
  OBVIOUS
<1>8. /\ Len(given') >= w + Len(feed)
      /\ flag # "FORCE" => Len(given') = w + Len(feed)
      /\ flag # "RESET" => \A i \in 1 .. w : given'[i] = given[i]
      /\ \A i \in 1 .. Len(feed) : given'[w + i] = feed[i]
  <2>1. PICK d \in Seq(Cells) : d = feed
    BY <1>1
  <2>2. Take(flag, d)
    BY <1>5, <2>1
  <2>3. /\ Len(given') >= w + Len(d)
        /\ flag # "FORCE" => Len(given') = w + Len(d)
        /\ flag # "RESET" => \A i \in 1 .. w : given'[i] = given[i]
        /\ \A i \in 1 .. Len(d) : given'[w + i] = d[i]
    <3>1. Pad \in Cells /\ wbuf \in Seq(Cells) /\ given \in Seq(Cells)
      BY <1>1
    <3> QED BY <1>6, <2>2, <3>1, TakenFacts
  <2> QED BY <2>1, <2>3
<1>9. ASSUME NEW i \in 1 .. n PROVE given'[i] = in'.sum[i + 1]
  <2>1. CASE i <= w
    <3>1. flag # "RESET"
      BY <1>6, <2>1
    <3> QED BY <1>7, <1>8, <2>1, <3>1
  <2>2. CASE i > w
    <3>1. PICK j \in 1 .. Len(feed) : i = w + j
      <4>1. i - w \in 1 .. Len(feed) /\ i = w + (i - w)
        BY <1>1, <2>2
      <4> QED BY <4>1
    <3>2. given'[i] = feed[j]
      BY <1>7, <1>8, <3>1
    <3>3. in.sum[1 + w + j] = feed[j] /\ 1 + w + j = i + 1
      BY <1>1, <3>1
    <3> QED BY <3>2, <3>3
  <2> QED BY <2>1, <2>2
<1>10. flag = "FORCE" => wbuf' = <<>>
  BY <1>1, <1>5, ForceFlushes
<1>11. QuadWords(out'.pos)
  BY <1>1, WrittenIsQuadWords
<1> QED BY <1>4, <1>7, <1>8, <1>9, <1>10, <1>11 DEF Streamed

\* A block that has not been lost is written behind what was, and with its
\* padding ends within any whole quad-words that hold the slot.
LEMMA BlockHasRoom ==
    ASSUME TwoBanks, TypeInv, Live,
           BinaryFirst \/ BinaryData,
           NEW pos, NEW flag,
           \/ out.state = "INIT" /\ pos = 0 /\ flag = "RESET"
           \/ out.state = "DATA" /\ pos = out.pos /\ flag \in {"DEFAULT", "FORCE"},
           NEW room \in Nat, UpdateSlot.size <= room, QuadWords(room)
    PROVE  pos \in Nat /\ pos + Written(flag, Block) <= room
<1>1. /\ in.state = "DATA" /\ place = "data" /\ feed # <<>> /\ out.pos \in Nat
      /\ wbuf \in Seq(Cells) /\ given \in Seq(Cells) /\ Pad \in Cells
  BY WritesType, CellFacts DEF BinaryFirst, BinaryData, Feeding, TypeInv, TypeOK, MemoryTypeOK
<1>2. /\ in.written \in Nat /\ Pending \in Nat /\ Pending > 0 /\ Pending <= BufferSize
      /\ in.written + Pending <= in.length /\ in.length \in Nat
      /\ Pending = Len(DataIn(in.buffer)) /\ DataIn(in.buffer) \in Seq(Units)
  BY <1>1, PendingFacts DEF Pending
<1>3. in.length <= room
  <2>1. in.length <= UpdateSlot.size /\ UpdateSlot.size \in Nat
    BY <1>1, UpdateAssumption DEF TypeInv, Shape, InShape, Receiving, Slot
  <2> QED BY <1>2, <2>1
<1>6. PICK w \in Nat, n \in Nat : w = in.written /\ n = w + Pending
  BY <1>2
<1>7. feed = DataIn(in.buffer) /\ Len(feed) = Pending /\ OutputAt(w)
  BY <1>1, <1>2, <1>6 DEF Live
<1>8. Block = feed /\ feed \in Seq(Cells)
  BY <1>2, <1>7, BlockFacts, CellFacts DEF OutputAt
<1>9. pos \in Nat /\ QuadWords(pos) /\ pos + Len(Taken(flag, feed)) <= room
  <2>1. n <= room /\ Len(feed) = n - w
    BY <1>2, <1>3, <1>6, <1>7
  <2>2. CASE pos = 0 /\ flag = "RESET"
    <3>1. Taken(flag, feed) = <<>> \o feed
      BY <2>2 DEF Taken
    <3>2. Len(Taken(flag, feed)) = Len(feed)
      BY <1>8, <3>1
    <3>3. QuadWords(0)
      BY GeometryAssumption DEF QuadWords
    <3> QED BY <1>6, <2>1, <2>2, <3>2, <3>3
  <2>3. CASE out.state = "DATA" /\ pos = out.pos /\ flag \in {"DEFAULT", "FORCE"}
    <3>1. Streamed(w) /\ Len(given) = w
      BY <1>7, <2>3 DEF OutputAt
    <3>2. QuadWords(pos) /\ pos = Len(given) - Len(wbuf)
      BY <2>3, <3>1 DEF Streamed, Faithful
    <3>3. Taken(flag, feed) = wbuf \o feed
      BY <2>3 DEF Taken
    <3>4. Len(Taken(flag, feed)) = Len(wbuf) + Len(feed) /\ Len(wbuf) \in Nat
      BY <1>1, <1>8, <3>3
    <3> QED BY <1>1, <1>6, <2>1, <2>3, <3>1, <3>2, <3>4
  <2> QED BY <2>2, <2>3
<1>10. pos + Written(flag, feed) <= room
  BY <1>1, <1>8, <1>9, WrittenStaysBelow
<1> QED BY <1>8, <1>9, <1>10

\* The driver refuses no block that has not been lost.
LEMMA NotRefused ==
    ASSUME TwoBanks, TypeInv, Live, BinaryFirst \/ BinaryData, place' = "error"
    PROVE  faults' = faults + 1
<1>1. /\ place = "data" /\ Block \in Seq(Cells) /\ wbuf \in Seq(Cells) /\ Pad \in Cells
  BY BlockFacts, CellFacts DEF BinaryFirst, BinaryData, Feeding, TypeInv, TypeOK, Shape, MemoryTypeOK
<1>2. PICK room \in Nat : room = BankSize - UpdateSlot.base /\ UpdateSlot.size <= room
  BY GeometryAssumption, UpdateAssumption DEF Slot
<1>3. QuadWords(room)
  <2>1. UpdateSlot.base \in Nat /\ IsSectorAddress(UpdateSlot.base)
        /\ UpdateSlot.base + room = BankSize /\ IsSectorAddress(BankSize)
    BY <1>2, GeometryAssumption, UpdateAssumption DEF Slot, IsSectorAddress
  <2> QED BY <2>1, SectorsAreQuadWords
<1>4. SUFFICES ASSUME NEW pos, NEW flag,
                      \/ out.state = "INIT" /\ pos = 0 /\ flag = "RESET"
                      \/ out.state = "DATA" /\ pos = out.pos /\ flag \in {"DEFAULT", "FORCE"},
                      NEW k \in 0 .. Len(wbuf) + Len(Block),
                      WriteSlotRefused(UpdateSlot, pos, Block, flag, k)
               PROVE  FALSE
  <2>1. CASE BinaryFirst
    BY <1>1, <2>1 DEF BinaryFirst, WriteOut, FirstFlag
  <2>2. CASE BinaryData
    <3>1. PICK flag : flag = (IF LastBlock THEN LastFlag ELSE "DEFAULT")
                      /\ flag \in {"DEFAULT", "FORCE"}
      BY DEF LastFlag
    <3> QED BY <1>1, <2>2, <3>1 DEF BinaryData, WriteOut
  <2> QED BY <2>1, <2>2
<1>5. pos \in Nat /\ pos + Written(flag, Block) <= room
  BY <1>2, <1>3, <1>4, BlockHasRoom
<1>6. /\ UpdateSlot.base + pos + k * WriteSize = BankSize
      /\ k * WriteSize < Written(flag, Block)
  BY <1>4 DEF WriteSlotRefused, WriteSlotStops
<1>7. PICK d \in Nat : d = k * WriteSize
  <2>1. Len(wbuf) + Len(Block) \in Nat /\ WriteSize \in Nat
    BY <1>1, GeometryAssumption
  <2>2. k \in Nat
    BY <2>1
  <2> QED BY <2>1, <2>2
<1>8. PICK w \in Nat : w = Written(flag, Block)
  <2>1. Written(flag, Block) \in 0 .. Len(Queue(flag, Block)) /\ Queue(flag, Block) \in Seq(Cells)
    BY <1>1, QueueFacts, PaddingFacts
  <2> QED BY <2>1
<1>9. UpdateSlot.base \in Nat /\ BankSize \in Nat
  BY GeometryAssumption, UpdateAssumption DEF Slot
<1> QED BY <1>2, <1>5, <1>6, <1>7, <1>8, <1>9

\* A write gets the block to the slot, or the digest is too long from then on.
LEMMA WritesFlow ==
    ASSUME TwoBanks, TypeInv, TypeInv', Flow, BinaryFirst \/ BinaryData
    PROVE  Flow'
<1>1. /\ in' = in /\ in.state = "DATA" /\ option = mapped /\ place = "data" /\ feed # <<>>
      /\ out.state \in {"INIT", "DATA"} /\ OutType(out)
  BY WritesType, TypeParts DEF BinaryFirst, BinaryData, Feeding, TypeInv
<1>2. /\ Pending \in Nat /\ Pending > 0 /\ Pending <= BufferSize /\ in.written \in Nat
      /\ Len(in.sum) \in Nat /\ in.length \in Nat /\ in.written + Pending <= in.length
      /\ Pending = Len(DataIn(in.buffer)) /\ DataIn(in.buffer) \in Seq(Units)
      /\ BufferSize \in Nat
  BY <1>1, PendingFacts, UpdateAssumption DEF Pending
<1>3. in.length > BufferSize
  BY <1>1, PayloadLength DEF TypeInv, Shape, InShape, Receiving
<1>4. CASE place' = "error"
  <2>1. Pending' = 0
    BY <1>4 DEF Pending
  <2>2. faults' > 0
    <3>1. faults \in Nat /\ faults' \in {faults, faults + 1}
      BY <1>1, <1>4 DEF BinaryFirst, BinaryData, WriteOut, TypeInv, TypeOK
    <3>2. CASE Lost
      BY <3>1, <3>2 DEF Lost
    <3>3. CASE Live
      BY <1>4, <3>1, <3>3, NotRefused
    <3> QED BY <1>1, <3>2, <3>3 DEF Flow, Receiving
  <2>3. Lost'
    BY <1>1, <1>2, <2>1, <2>2 DEF Lost, Live, Flow, Receiving
  <2> QED BY <1>1, <2>3 DEF Flow
<1>5. CASE place' # "error"
  <2>1. place' = "data" /\ feed' = Unmoved /\ faults' = faults
    BY <1>1, <1>5 DEF BinaryFirst, BinaryData, WriteOut
  <2>2. Pending' = Pending
    BY <1>1, <2>1 DEF Pending, DataIn
  <2>3. Lost => Lost'
    BY <1>1, <2>1, <2>2 DEF Lost
  <2>4. ASSUME Live PROVE Live'
    <3>1. PICK w \in Nat : w = in.written
      BY <1>2
    <3>2. PICK n \in Nat : n = w + Pending
      BY <1>2
    <3>3. /\ Len(in.sum) = 1 + n /\ feed = DataIn(in.buffer) /\ Len(feed) = Pending
          /\ \A i \in 1 .. Len(feed) : in.sum[1 + w + i] = feed[i]
          /\ OutputAt(w)
      <4>1. /\ Len(in.sum) = 1 + in.written + Pending /\ feed = DataIn(in.buffer)
            /\ \A i \in 1 .. Len(feed) : in.sum[1 + in.written + i] = feed[i]
            /\ OutputAt(in.written)
        BY <1>1, <2>4 DEF Live
      <4>2. Len(in.sum) = 1 + n
        BY <1>2, <3>1, <3>2, <4>1
      <4> QED BY <1>2, <3>1, <4>1, <4>2
    <3>4. out.buffer = <<>> /\ out.written = w /\ n <= in.length
      BY <1>2, <3>1, <3>2, <3>3 DEF OutputAt
    <3>5. Block = feed /\ Unmoved = <<>>
      BY <1>2, <3>3, <3>4, BlockFacts
    <3>6. OutputAt(n)'
      <4>1. CASE BinaryFirst
        <5>1. out.state = "INIT" /\ w = 0
          BY <3>3, <4>1 DEF BinaryFirst, OutputAt
        <5>2. /\ WriteSlot(UpdateSlot, 0, feed, "RESET")
              /\ out' = [[out EXCEPT !.buffer = <<>>, !.written = out.written + Len(feed),
                                     !.state = "DATA"]
                            EXCEPT !.pos = 0 + Written("RESET", feed)]
          BY <1>1, <1>5, <3>5, <4>1 DEF BinaryFirst, WriteOut, FirstFlag, OutType
        <5>3. PICK p : p = 0 + Written("RESET", feed)
          OBVIOUS
        <5>4. out' = [out EXCEPT !.buffer = <<>>, !.written = n, !.state = "DATA", !.pos = p]
          BY <1>1, <3>2, <3>3, <3>4, <5>2, <5>3 DEF OutType
        <5>5. /\ out'.buffer = <<>> /\ out'.written = n /\ out'.state = "DATA"
              /\ out'.pos = 0 + Written("RESET", feed)
          BY <1>1, <5>3, <5>4 DEF OutType
        <5>6. Streamed(n)' /\ Len(given') = n
          <6>1. QuadWords(0)
            BY GeometryAssumption DEF QuadWords
          <6> QED BY <1>1, <3>2, <3>3, <5>1, <5>2, <5>5, <6>1, BlockStreamed
        <5>7. 0 < n /\ n < in'.length
          BY <1>1, <1>2, <1>3, <3>2, <5>1
        <5> QED BY <5>5, <5>6, <5>7 DEF OutputAt
      <4>2. CASE BinaryData
        <5> DEFINE flag == IF LastBlock THEN "FORCE" ELSE "DEFAULT"
                   s == IF LastBlock THEN "END" ELSE out.state
        <5>1. out.state = "DATA" /\ 0 < w /\ w < in.length /\ Streamed(w) /\ Len(given) = w
          BY <3>3, <4>2 DEF BinaryData, OutputAt
        <5>2. /\ WriteSlot(UpdateSlot, out.pos, feed, flag)
              /\ out' = [[out EXCEPT !.buffer = <<>>, !.written = out.written + Len(feed), !.state = s]
                            EXCEPT !.pos = out.pos + Written(flag, feed)]
          BY <1>1, <1>5, <3>5, <4>2 DEF BinaryData, WriteOut, LastFlag, OutType
        <5>3. LastBlock <=> n = in.length
          BY <3>2, <3>3, <3>4, <3>5 DEF LastBlock
        <5>4. PICK f \in {"FORCE", "DEFAULT"}, pos \in Nat, t \in {"DATA", "END"} :
                 f = flag /\ pos = out.pos /\ t = s
          BY <1>1, <5>1 DEF OutType
        <5> HIDE DEF flag, s
        <5>5. PICK p : p = pos + Written(f, feed)
          OBVIOUS
        <5>6. out' = [out EXCEPT !.buffer = <<>>, !.written = n, !.state = t, !.pos = p]
          BY <1>1, <3>2, <3>3, <3>4, <5>2, <5>4, <5>5 DEF OutType
        <5>7. /\ out'.buffer = <<>> /\ out'.written = n /\ out'.state = t
              /\ out'.pos = pos + Written(f, feed)
          BY <1>1, <5>5, <5>6 DEF OutType
        <5>8. /\ Faithful(UpdateSlot, pos) /\ CleanAhead(UpdateSlot, pos) /\ QuadWords(pos)
              /\ \A i \in 1 .. w : given[i] = in.sum[i + 1]
          BY <5>1, <5>4 DEF Streamed
        <5>9. WriteSlot(UpdateSlot, pos, feed, f)
          BY <5>2, <5>4
        <5>10. /\ Streamed(n)'
               /\ f # "FORCE" => Len(given') = n
               /\ f = "FORCE" => wbuf' = <<>>
          <6>1. IF f = "RESET" THEN pos = 0 /\ w = 0
                ELSE /\ Faithful(UpdateSlot, pos) /\ CleanAhead(UpdateSlot, pos) /\ Len(given) = w
                     /\ \A i \in 1 .. w : given[i] = in.sum[i + 1]
            BY <5>1, <5>4, <5>8
          <6>2. n = w + Len(feed) /\ \A i \in 1 .. Len(feed) : in.sum[1 + w + i] = feed[i]
            BY <3>2, <3>3
          <6> QED BY <1>1, <5>7, <5>8, <5>9, <6>1, <6>2, BlockStreamed
        <5>11. 0 < n
          BY <1>2, <3>2
        <5>12. CASE LastBlock
          <6>1. n = in'.length /\ t = "END" /\ f = "FORCE"
            BY <1>1, <5>3, <5>4, <5>12 DEF flag, s
          <6> QED BY <5>7, <5>10, <6>1 DEF OutputAt
        <5>13. CASE ~LastBlock
          <6>1. n < in'.length /\ t = "DATA" /\ f = "DEFAULT"
            BY <1>1, <1>2, <3>4, <5>1, <5>3, <5>4, <5>13 DEF flag, s
          <6> QED BY <5>7, <5>10, <5>11, <6>1 DEF OutputAt
        <5> QED BY <5>12, <5>13
      <4> QED BY <4>1, <4>2
    <3>7. OutputAt(in.written + Pending)'
      BY <1>1, <2>2, <3>1, <3>2, <3>6 DEF OutputAt
    <3> QED BY <1>1, <2>1, <2>2, <3>1, <3>2, <3>3, <3>5, <3>7 DEF Live
  <2> QED BY <1>1, <2>3, <2>4 DEF Flow, Receiving
<1> QED BY <1>4, <1>5

-------------------------------------------------------------------------------
(* The banks *)

\* Both the bank that executes and the one the next reset boots from hold a
\* whole application; the swap is pending behind an update declared valid.
Bank ==
    /\ \A b \in Banks : whole[b] <= session
    /\ Holds(mapped, whole[mapped])
    /\ Holds(option, whole[option])
    /\ in.state = "REBOOT" => Holds(BankOf(1), session)
    /\ faults = 0 => (option # mapped <=> in.state = "REBOOT")

\* A bank that is not written keeps its application.
LEMMA HoldsKept ==
    ASSUME NEW b \in Banks, NEW s \in Nat, s <= session, Holds(b, s), flash'[b] = flash[b],
           \A i \in 1 .. session : images'[i] = images[i]
    PROVE  Holds(b, s)'
<1>1. CASE s = 0
  BY <1>1 DEF Holds
<1>2. CASE s # 0
  <2>1. images'[s] = images[s]
    BY <1>2 DEF session
  <2> QED BY <1>2, <2>1 DEF Holds, InSlot
<1> QED BY <1>1, <1>2

\* verifyConfirm: an image of which no unit is missing in the digest went to
\* the slot whole.
LEMMA ValidHolds ==
    ASSUME TwoBanks, TypeInv, Flow, in.state = "VALIDATE", place = "app", Valid
    PROVE  Holds(BankOf(1), session)
<1>1. PICK n \in Nat : n = images[session].length /\ n > 0 /\ n > BufferSize
  BY PayloadLength
<1>2. in.length = n /\ in.written = n /\ Pending = 0 /\ session \in 1 .. MaxSessions
  BY <1>1, PayloadLength, PendingFacts DEF TypeInv, Shape, InShape, Receiving
<1> DEFINE h == Header(session)[HeaderSize]
           p == PayloadOf(session, n)
<1>3. in.sum = <<h>> \o p
  BY <1>1 DEF Valid, Digested
<1>4. p = [i \in 1 .. n |-> Unit(session, HeaderSize + i)]
  BY DEF PayloadOf
<1>5. \A i \in 1 .. n : Unit(session, HeaderSize + i) \in Units
  <2>1. HeaderSize \in Nat
    BY UpdateAssumption
  <2>2. \A i \in 1 .. n : HeaderSize + i \in Int
    BY <2>1
  <2> QED BY <1>2, <2>2 DEF Unit, Units, session
<1>6. p \in Seq(Units) /\ Len(p) = n
  BY <1>4, <1>5
<1> HIDE DEF h, p
<1>7. Len(in.sum) = 1 + n /\ \A i \in 1 .. n : in.sum[i + 1] = p[i]
  <2>1. ASSUME NEW S, NEW x, NEW t \in Seq(S)
        PROVE  Len(<<x>> \o t) = 1 + Len(t) /\ \A i \in 1 .. Len(t) : (<<x>> \o t)[i + 1] = t[i]
    OBVIOUS
  <2> QED BY <1>3, <1>6, <2>1
<1>8. OutputAt(n)
  BY <1>2, <1>7 DEF Flow, Lost, Live, Receiving
<1>9. Streamed(n) /\ wbuf = <<>>
  BY <1>1, <1>2, <1>8 DEF OutputAt
<1>10. given \in Seq(Cells) /\ UpdateSlot.half = 1
  BY UpdateAssumption DEF TypeInv, TypeOK, MemoryTypeOK, TwoBanks
<1>11. out.pos = Len(given) /\ out.pos >= n /\ out.pos \in Nat
  <2>1. Len(wbuf) = 0 /\ Len(given) \in Nat
    BY <1>9, <1>10
  <2> QED BY <1>9, <2>1 DEF Streamed, Faithful
<1>12. \A i \in 1 .. n : flash[BankOf(1)][UpdateSlot.base + i - 1] = p[i]
  BY <1>7, <1>9, <1>10, <1>11 DEF Streamed, Faithful
<1> QED BY <1>1, <1>2, <1>6, <1>12 DEF Holds, InSlot, p

\* The first application is in the bank that executes.
LEMMA BankInit == TwoBanks /\ Init => Bank /\ Flow
<1> SUFFICES ASSUME TwoBanks, Init PROVE Bank /\ Flow
  OBVIOUS
<1>1. /\ mapped \in Banks /\ option = mapped
      /\ flash = [b \in Banks |-> IF b = mapped THEN Factory ELSE [c \in Offsets |-> Junk]]
      /\ images = <<>> /\ in = NoInput /\ whole = [b \in Banks |-> 0] /\ faults = 0
  BY DEF Init
<1>2. in.state = "NONE" /\ session = 0
  BY <1>1 DEF NoInput, session
<1>3. Holds(mapped, 0)
  BY <1>1 DEF Holds
<1>4. \A b \in Banks : whole[b] = 0
  BY <1>1
<1> QED BY <1>1, <1>2, <1>3, <1>4 DEF Bank, Flow, Receiving

\* Steps that leave the flash and the images alone, and the banks.
LEMMA BankKept ==
    ASSUME TypeInv, Bank, UNCHANGED <<flash, mapped, option, images, whole>>,
           faults' = faults, in'.state = "REBOOT" <=> in.state = "REBOOT"
    PROVE  Bank'
<1>1. /\ mapped \in Banks /\ option \in Banks /\ whole \in [Banks -> 0 .. MaxSessions]
  BY DEF TypeInv, TypeOK, MemoryTypeOK, BanksTypeOK
<1>2. \A b \in Banks : Holds(b, whole[b]) => Holds(b, whole[b])'
  BY DEF Holds, InSlot
<1>3. Holds(BankOf(1), session) => Holds(BankOf(1), session)'
  BY DEF Holds, InSlot, BankOf, session
<1>4. \A b \in Banks : whole'[b] <= session'
  BY DEF Bank, session
<1>5. Holds(mapped, whole[mapped])' /\ Holds(option, whole[option])'
  BY <1>1, <1>2 DEF Bank, Holds, InSlot
<1> QED BY <1>3, <1>4, <1>5 DEF Bank

\* Reading the input concerns no bank.
LEMMA ReadsBank ==
    ASSUME TwoBanks, TypeInv, TypeInv', Bank, Reads
    PROVE  Bank'
<1>1. /\ InType(in) /\ DualBank /\ place # "header"
  BY TypeParts DEF TypeInv, Shape, TwoBanks
<1>2. UNCHANGED <<memory, images, whole, faults>>
  BY <1>1 DEF Reads, LoopEnds, LoopOverflows, HeaderWait, HeaderRefused, HeaderAccepted,
              FedHeader, DataWait, DataBlock, FedData, CheckBlock, WrongState, ReturnError, Stays
<1>3. in'.state = "REBOOT" <=> in.state = "REBOOT"
  <2>1. CASE LoopEnds \/ LoopOverflows \/ ReturnError
    BY <2>1 DEF LoopEnds, LoopOverflows, ReturnError
  <2>2. CASE HeaderWait \/ HeaderRefused \/ DataWait \/ WrongState
    BY <1>1, <2>2 DEF HeaderWait, HeaderRefused, DataWait, WrongState, InType
  <2>3. CASE HeaderAccepted
    BY <1>1, <2>3 DEF HeaderAccepted, HeaderDone, Processing, InType
  <2>4. CASE FedHeader
    BY <1>1, <2>4 DEF FedHeader, Fed
  <2>5. CASE DataBlock
    <3>1. in' = [in EXCEPT !.buffer = Filled, !.sum = in.sum \o DataIn(Filled)]
      BY <1>1, <2>5 DEF DataBlock, InType
    <3> QED BY <1>1, <3>1 DEF InType
  <2>6. CASE FedData
    BY <1>1, <2>6 DEF FedData, Fed, Checked, InType, TypeInv, Shape
  <2>7. CASE CheckBlock
    BY <1>1, <2>7 DEF CheckBlock, Processing, Checked, InType
  <2> QED BY <2>1, <2>2, <2>3, <2>4, <2>5, <2>6, <2>7 DEF Reads
<1> QED BY <1>2, <1>3, BankKept DEF memory, banks

\* A write leaves the bank that executes alone.
LEMMA WritesBank ==
    ASSUME TwoBanks, TypeInv, TypeInv', Bank, BinaryFirst \/ BinaryData
    PROVE  Bank'
<1>1. /\ flash'[mapped] = flash[mapped] /\ UNCHANGED <<mapped, option, images, in, whole>>
      /\ in.state = "DATA" /\ option = mapped /\ faults' >= faults
  BY WritesType
<1>2. /\ mapped \in Banks /\ whole[mapped] \in Nat /\ faults \in Nat /\ faults' \in Nat
  BY UpdateAssumption DEF TypeInv, TypeOK, MemoryTypeOK, BanksTypeOK
<1>3. PICK m \in Banks, s \in Nat : m = mapped /\ s = whole[mapped]
  BY <1>2
<1>4. Holds(m, s) /\ s <= session
  BY <1>2, <1>3 DEF Bank
<1>5. Holds(m, s)'
  BY <1>1, <1>3, <1>4, HoldsKept
<1>6. Holds(mapped, whole[mapped])' /\ Holds(option, whole[option])'
  BY <1>1, <1>3, <1>5 DEF Holds, InSlot
<1>7. \A b \in Banks : whole'[b] <= session'
  BY <1>1 DEF Bank, session
<1> QED BY <1>1, <1>2, <1>6, <1>7 DEF Bank

\* A swap selects a bank with a whole application.
LEMMA CallsBank ==
    ASSUME TwoBanks, TypeInv, TypeInv', Flow, Bank, Calls
    PROVE  Bank'
<1>1. /\ InType(in) /\ DualBank /\ mapped \in Banks /\ option \in Banks
      /\ whole \in [Banks -> 0 .. MaxSessions] /\ MaxSessions \in Nat /\ session \in Nat
      /\ images \in Seq(Images) /\ faults \in Nat
      /\ \A b \in Banks : whole[b] \in Nat
  <2>1. /\ DualBank /\ MaxSessions \in Nat /\ MaxFaults \in Nat
        /\ whole \in [Banks -> 0 .. MaxSessions] /\ images \in Seq(Images)
        /\ faults \in 0 .. MaxFaults /\ InType(in)
    BY TypeParts, UpdateAssumption DEF TypeInv, TwoBanks
  <2>2. mapped \in Banks /\ option \in Banks
    BY DEF TypeInv, TypeOK, MemoryTypeOK, BanksTypeOK
  <2>3. session \in Nat
    BY <2>1 DEF session
  <2>4. \A b \in Banks : whole[b] \in 0 .. MaxSessions
    BY <2>1
  <2> QED BY <2>1, <2>2, <2>3, <2>4
<1>2. CASE UpdateInit
  <2>1. PICK image \in Images : images' = Append(images, image)
    BY <1>2 DEF UpdateInit
  <2>2. /\ option = mapped /\ UNCHANGED <<flash, mapped, option, whole, faults>>
        /\ in'.state = "HEADER"
    BY <1>2 DEF UpdateInit, TwoBanks, memory, banks, NoInput
  <2>3. session' = session + 1 /\ \A i \in 1 .. session : images'[i] = images[i]
    BY <1>1, <2>1 DEF session
  <2>4. PICK m \in Banks, s \in Nat : m = mapped /\ s = whole[mapped]
    BY <1>1
  <2>5. Holds(m, s) /\ s <= session
    BY <1>1, <2>4 DEF Bank
  <2>6. Holds(m, s)'
    BY <2>2, <2>3, <2>5, HoldsKept
  <2>7. Holds(mapped, whole[mapped])' /\ Holds(option, whole[option])'
    BY <2>2, <2>4, <2>6 DEF Holds, InSlot
  <2>8. \A b \in Banks : whole'[b] <= session'
    BY <1>1, <2>2, <2>3 DEF Bank
  <2> QED BY <2>2, <2>7, <2>8 DEF Bank
<1>3. CASE \E n \in Lengths : UpdateProcess(n)
  BY <1>3, BankKept DEF UpdateProcess, memory, banks
<1>4. CASE FinalizeValid \/ FinalizeSwapFails
  <2>1. Holds(BankOf(1), session)
    BY <1>4, ValidHolds DEF FinalizeValid, FinalizeSwapFails, MayFinalize
  <2>2. /\ \/ option' = option /\ whole' = whole /\ FinalizeSwapFails
           \/ SwapBanks /\ whole' = [whole EXCEPT ![BankOf(1)] = session]
        /\ in.state = "VALIDATE" /\ UNCHANGED <<flash, mapped, images>>
    BY <1>1, <1>4 DEF FinalizeValid, FinalizeSwapFails
  <2>3. \/ FinalizeValid /\ in'.state = "REBOOT" /\ faults' = faults /\ SwapBanks
        \/ FinalizeSwapFails /\ in' = in /\ faults' = faults + 1
    BY <1>1, <1>4 DEF FinalizeValid, FinalizeSwapFails, InType
  <2>4. PICK o \in Banks : o = BankOf(1) /\ o = 3 - mapped /\ o # mapped
    BY <1>1 DEF BankOf, Banks
  <2>5. \A b \in Banks : whole'[b] <= session'
    BY <1>1, <2>2, <2>4 DEF Bank, session
  <2>6. Holds(mapped, whole[mapped])'
    <3>1. whole'[mapped] = whole[mapped]
      BY <1>1, <2>2, <2>4
    <3> QED BY <2>2, <3>1 DEF Bank, Holds, InSlot
  <2>7. Holds(option, whole[option])'
    <3>1. CASE option' = option /\ whole' = whole
      BY <2>2, <3>1 DEF Bank, Holds, InSlot
    <3>2. CASE SwapBanks /\ whole' = [whole EXCEPT ![BankOf(1)] = session]
      <4>1. option' \in Banks
        BY <1>1, <3>2 DEF SwapBanks, CurrentBank, Banks
      <4>2. CASE option' = mapped
        BY <2>2, <2>6, <4>2 DEF Holds, InSlot
      <4>3. CASE option' # mapped
        <5>1. option' = o /\ whole'[o] = session
          BY <1>1, <2>4, <3>2, <4>1, <4>3 DEF Banks
        <5> QED BY <2>1, <2>2, <2>4, <5>1 DEF Holds, InSlot
      <4> QED BY <4>2, <4>3
    <3> QED BY <2>2, <3>1, <3>2
  <2>8. Holds(BankOf(1), session)'
    BY <2>1, <2>2 DEF Holds, InSlot, BankOf, session
  <2>9. faults' = 0 => (option' # mapped' <=> in'.state = "REBOOT")
    <3>1. CASE FinalizeValid /\ in'.state = "REBOOT" /\ faults' = faults /\ SwapBanks
      BY <1>1, <2>2, <3>1 DEF Bank, SwapBanks, CurrentBank, Banks
    <3>2. CASE faults' = faults + 1
      BY <1>1, <3>2
    <3> QED BY <2>3, <3>1, <3>2
  <2> QED BY <2>5, <2>6, <2>7, <2>8, <2>9 DEF Bank
<1>5. CASE FinalizeInvalid \/ FinalizeNotReady
  <2>1. /\ UNCHANGED <<memory, images, whole, faults>>
        /\ \/ in' = in
           \/ in' = [in EXCEPT !.state = "IDLE"] /\ in.state = "VALIDATE"
    BY <1>1, <1>5 DEF FinalizeInvalid, FinalizeNotReady, DropHeader
  <2>2. in'.state = "REBOOT" <=> in.state = "REBOOT"
    BY <1>1, <2>1 DEF InType
  <2> QED BY <2>1, <2>2, BankKept DEF memory, banks
<1>6. CASE Reset
  <2>1. /\ mapped' = option /\ UNCHANGED <<flash, option, images, whole, faults>>
        /\ in'.state = "NONE"
    BY <1>6 DEF Reset, ResetMemory, ResetBanks, NoInput
  <2>2. Holds(mapped, whole[mapped])' /\ Holds(option, whole[option])'
    BY <2>1 DEF Bank, Holds, InSlot
  <2> QED BY <2>1, <2>2 DEF Bank, session
<1> QED BY <1>2, <1>3, <1>4, <1>5, <1>6 DEF Calls

-------------------------------------------------------------------------------
(* Theorems *)

UpdateInv == TypeInv /\ Flow /\ Bank

\* The invariant of the updater with two banks.
LEMMA UpdateInvHolds == TwoBanks => (Spec => []UpdateInv)
<1> SUFFICES ASSUME TwoBanks PROVE Spec => []UpdateInv
  OBVIOUS
<1>1. Init => UpdateInv
  BY TypeInit, BankInit DEF UpdateInv
<1>2. UpdateInv /\ [Next]_vars => UpdateInv'
  <2> SUFFICES ASSUME UpdateInv, [Next]_vars PROVE UpdateInv'
    OBVIOUS
  <2>1. TypeInv /\ Flow /\ Bank /\ TypeInv'
    BY TypeStep DEF UpdateInv
  <2>2. CASE Calls
    BY <2>1, <2>2, CallsFlow, CallsBank DEF UpdateInv
  <2>3. CASE Reads
    BY <2>1, <2>3, ReadsFlow, ReadsBank DEF UpdateInv
  <2>4. CASE BinaryFirst \/ BinaryData
    BY <2>1, <2>4, WritesFlow, WritesBank DEF UpdateInv
  <2>5. CASE UNCHANGED vars
    <3>1. Flow'
      BY <2>1, <2>5 DEF vars, memory, banks, Flow, Lost, Live, Pending, DataIn, OutputAt,
                        Streamed, Faithful, CleanAhead, BankOf
    <3>2. Bank'
      BY <2>1, <2>5, BankKept DEF vars, memory, banks
    <3> QED BY <2>1, <3>1, <3>2 DEF UpdateInv
  <2> QED BY <2>1, <2>2, <2>3, <2>4, <2>5, StepCases
<1> QED BY <1>1, <1>2, PTL DEF Spec

\* update.c:319-323, 419-470: whatever fails and whenever the power goes, the
\* bank the next reset boots from holds a whole application, when the images
\* are longer than the buffer.
THEOREM NextBootIsWholeHolds == TwoBanks => (Spec => []NextBootIsWhole)
<1> SUFFICES ASSUME TwoBanks PROVE Spec => []NextBootIsWhole
  OBVIOUS
<1>1. UpdateInv => NextBootIsWhole
  BY DEF UpdateInv, Bank, NextBootIsWhole
<1> QED BY <1>1, UpdateInvHolds, PTL

\* update.c:319-323: an image that updateFinalize has declared valid lies whole
\* in the slot.
THEOREM ReadyIsWholeHolds == TwoBanks => (Spec => []ReadyIsWhole)
<1> SUFFICES ASSUME TwoBanks PROVE Spec => []ReadyIsWhole
  OBVIOUS
<1>1. UpdateInv => ReadyIsWhole
  BY DEF UpdateInv, Bank, ReadyIsWhole, TwoBanks
<1> QED BY <1>1, UpdateInvHolds, PTL

\* update.c:419-455: and the next reset boots it, as long as no operation of
\* the flash has failed.
THEOREM ReadyIsNextHolds == TwoBanks => (Spec => []ReadyIsNext)
<1> SUFFICES ASSUME TwoBanks PROVE Spec => []ReadyIsNext
  OBVIOUS
<1>1. UpdateInv => ReadyIsNext
  <2>1. UpdateInv => mapped \in Banks /\ option \in Banks
    BY DEF UpdateInv, TypeInv, TypeOK, MemoryTypeOK, BanksTypeOK
  <2>2. UpdateInv => (faults = 0 => (option # mapped <=> in.state = "REBOOT"))
    BY DEF UpdateInv, Bank
  <2> QED BY <2>1, <2>2 DEF ReadyIsNext, BankOf, Banks
<1> QED BY <1>1, UpdateInvHolds, PTL

\* Types, and image_process.c:153, image_utils.c:262: neither buffer of an image
\* context is ever filled beyond its size.
THEOREM UpdateTypes == TwoBanks => (Spec => []TypeOK)
<1> SUFFICES ASSUME TwoBanks PROVE Spec => []TypeOK
  OBVIOUS
<1>1. UpdateInv => TypeOK
  BY DEF UpdateInv, TypeInv
<1> QED BY <1>1, UpdateInvHolds, PTL

-------------------------------------------------------------------------------
(* What a step may change of the flash                                     *)

\* A write changes nothing outside of the slot until one has failed.
LEMMA WritesInSlot ==
    ASSUME TwoBanks, EndsWithSector(UpdateSlot), TypeInv, Flow, faults = 0,
           BinaryFirst \/ BinaryData,
           NEW b \in Banks, NEW c \in Offsets, ~Within(UpdateSlot, b, c)
    PROVE  flash'[b][c] = flash[b][c]
<1>1. /\ Pad \in Cells /\ wbuf \in Seq(Cells) /\ Len(wbuf) \in Nat
      /\ Block \in Seq(Cells) /\ Len(Block) \in Nat /\ Writable(UpdateSlot)
  <2>1. option = mapped
    BY WritesType
  <2>2. Pad \in Cells /\ wbuf \in Seq(Cells)
    BY CellFacts DEF TypeInv, TypeOK, MemoryTypeOK
  <2> QED BY <2>1, <2>2, BlockFacts, SlotWritable
<1>2. PICK data \in Seq(Cells) : data = Block
  BY <1>1
<1>3. PICK pos, flag :
         /\ \/ out.state = "INIT" /\ pos = 0 /\ flag = "RESET"
            \/ out.state = "DATA" /\ pos = out.pos /\ flag \in {"DEFAULT", "FORCE"}
         /\ \/ WriteSlot(UpdateSlot, pos, data, flag)
            \/ \E k \in 0 .. Len(wbuf) + Len(data) :
                  WriteSlotStops(UpdateSlot, pos, data, flag, k)
  <2>1. CASE BinaryFirst
    BY <1>2, <2>1 DEF BinaryFirst, WriteOut, FirstFlag, WriteSlotFails, WriteSlotRefused
  <2>2. CASE BinaryData
    <3>1. PICK flag : flag = (IF LastBlock THEN LastFlag ELSE "DEFAULT")
                      /\ flag \in {"DEFAULT", "FORCE"}
      BY DEF LastFlag
    <3> QED BY <1>2, <2>2, <3>1 DEF BinaryData, WriteOut, WriteSlotFails, WriteSlotRefused
  <2> QED BY <2>1, <2>2
<1>4. pos \in Nat /\ pos + Written(flag, data) <= UpdateSlot.size
  <2>1. /\ UpdateSlot.base \in Nat /\ UpdateSlot.size \in Nat /\ IsSectorAddress(UpdateSlot.base)
        /\ IsSectorAddress(UpdateSlot.base + UpdateSlot.size)
    BY UpdateAssumption DEF Slot, EndsWithSector
  <2>2. QuadWords(UpdateSlot.size) /\ UpdateSlot.size <= UpdateSlot.size
    BY <2>1, SectorsAreQuadWords
  <2>3. Live
    BY WritesType DEF Flow, Receiving, Lost
  <2> QED BY <1>2, <1>3, <2>1, <2>2, <2>3, BlockHasRoom
<1>7. ~Reached(UpdateSlot, pos + Written(flag, data), b, c)
  <2>1. PICK w \in Nat : w = Written(flag, data)
    <3>1. Written(flag, data) \in 0 .. Len(Queue(flag, data)) /\ Queue(flag, data) \in Seq(Cells)
      BY <1>1, QueueFacts, PaddingFacts
    <3> QED BY <3>1
  <2>2. pos + w \in Nat /\ pos + w <= UpdateSlot.size
    BY <1>4, <2>1
  <2> QED BY <1>1, <2>1, <2>2, ReachedWithin
<1>5. CASE WriteSlot(UpdateSlot, pos, data, flag)
  BY <1>1, <1>4, <1>5, <1>7, WriteSlotStaysIn
<1>6. ASSUME NEW k \in 0 .. Len(wbuf) + Len(data),
             WriteSlotStops(UpdateSlot, pos, data, flag, k)
      PROVE  flash'[b][c] = flash[b][c]
  <2>1. k \in Nat
    BY <1>1, <1>2
  <2> QED BY <1>1, <1>4, <1>6, <1>7, <2>1, WriteSlotStopsStaysIn
<1> QED BY <1>3, <1>5, <1>6

\* update.c:677, driver:233-300: with two banks, and a slot that ends with a
\* sector, nothing but the bank of the slot is ever changed, whatever fails, and
\* nothing but the slot up to the first failure.
THEOREM OnlySlotChangesHolds ==
    TwoBanks /\ EndsWithSector(UpdateSlot) => (Spec => OnlySlotChanges)
<1> SUFFICES ASSUME TwoBanks, EndsWithSector(UpdateSlot) PROVE Spec => OnlySlotChanges
  OBVIOUS
<1> DEFINE Only ==
        \A b \in Banks, c \in Offsets :
          flash'[b][c] # flash[b][c] =>
              /\ b = BankOf(UpdateSlot.half)
              /\ faults = 0 =>
                    c \in UpdateSlot.base .. UpdateSlot.base + UpdateSlot.size - 1
<1>1. UpdateInv /\ [Next]_vars => [Only]_vars
  <2> SUFFICES ASSUME UpdateInv, [Next]_vars PROVE Only
    OBVIOUS
  <2>1. TypeInv /\ Flow
    BY DEF UpdateInv
  <2>2. CASE flash' = flash
    BY <2>2
  <2>3. CASE BinaryFirst \/ BinaryData
    <3>1. flash'[mapped] = flash[mapped] /\ option = mapped
      BY <2>1, <2>3, WritesType
    <3>2. ASSUME NEW b \in Banks, b # BankOf(UpdateSlot.half) PROVE b = mapped
      <4>1. mapped \in Banks /\ UpdateSlot.half = 1
        BY <2>1, UpdateAssumption DEF TwoBanks, TypeInv, TypeOK, MemoryTypeOK, BanksTypeOK
      <4> QED BY <3>2, <4>1 DEF BankOf, Banks
    <3>3. ASSUME NEW b \in Banks, NEW c \in Offsets, faults = 0, ~Within(UpdateSlot, b, c)
          PROVE  flash'[b][c] = flash[b][c]
      BY <2>1, <2>3, <3>3, WritesInSlot
    <3> QED BY <3>1, <3>2, <3>3 DEF Within
  <2>4. CASE Calls
    BY <2>4 DEF Calls, UpdateInit, UpdateProcess, FinalizeValid, FinalizeSwapFails,
                FinalizeInvalid, FinalizeNotReady, DropHeader, Reset, ResetMemory, ResetBanks,
                memory, banks, TwoBanks
  <2>5. CASE Reads
    BY <2>1, <2>5 DEF Reads, LoopEnds, LoopOverflows, HeaderWait, HeaderRefused, HeaderAccepted,
                FedHeader, DataWait, DataBlock, FedData, CheckBlock, WrongState, ReturnError,
                Stays, memory, banks, TwoBanks
  <2>6. CASE UNCHANGED vars
    BY <2>6 DEF vars, memory, banks
  <2> QED BY <2>1, <2>2, <2>3, <2>4, <2>5, <2>6, StepCases
<1> QED BY <1>1, UpdateInvHolds, PTL DEF Spec, OnlySlotChanges

-------------------------------------------------------------------------------
(* A sound image is accepted                                               *)

\* Units of the image that updateProcess has taken from its caller.
got == sent - Len(left)

\* What is left of the call continues the image.
Ahead(s) ==
    /\ Len(left) <= sent
    /\ \A i \in 1 .. Len(left) : left[i] = Unit(s, got + i)

\* The input buffer holds the units of the image from p + 1 on.
Buffered(s, p) ==
    /\ p + Len(in.buffer) = got
    /\ \A i \in 1 .. Len(in.buffer) : in.buffer[i] = Unit(s, p + i)

\* The payload as far as it is digested, behind the CRC of the header.
DigestedSoFar(s) ==
    /\ Len(in.sum) = 1 + in.written + Pending
    /\ \A j \in 1 .. Len(in.sum) : in.sum[j] = Unit(s, HeaderSize + j - 1)

\* The tag as far as it has come.
Tagged(s, n) ==
    /\ got = HeaderSize + n + Len(in.check)
    /\ \A i \in 1 .. Len(in.check) : in.check[i] = Unit(s, HeaderSize + n + i)

\* How far the parser has got is where the image is: no unit is taken twice,
\* none is lost, and a full buffer is always processed.
Parsed(s, n) ==
    /\ Ahead(s)
    /\ in.state # "IDLE" /\ place # "error"
    /\ in.state = "HEADER" =>
          got < HeaderSize /\ in.check = <<>> /\ Buffered(s, 0)
    /\ in.state = "DATA" =>
          /\ in.check = <<>> /\ Buffered(s, HeaderSize + in.written)
          /\ (place = "data") <=> (Len(in.buffer) = BufferSize \/ in.written + Len(in.buffer) >= n)
    /\ in.state = "CHECK" => Tagged(s, n) /\ Len(in.check) < TagSize /\ in.buffer = <<>>
    /\ in.state \in {"VALIDATE", "REBOOT"} => Tagged(s, n) /\ Len(in.check) = TagSize
    /\ in.state \in Receiving => DigestedSoFar(s)

\* An undamaged image that fits, of which no more than itself is handed over.
Sound ==
    /\ in.state # "NONE" /\ faults = 0 /\ sent <= ImageLength
    /\ images[session].damaged = 0 /\ images[session].length <= UpdateSlot.size

SoundInv ==
    /\ place = "app" => left = <<>>
    /\ \A s, n \in Nat :
          (Sound /\ s = session /\ n = images[session].length) => Parsed(s, n)

\* What is behind the first units of a sequence, by index.
LEMMA DropAt ==
    ASSUME NEW S, NEW t \in Seq(S), NEW n \in Nat, n <= Len(t)
    PROVE  /\ Drop(t, n) \in Seq(S) /\ Len(Drop(t, n)) = Len(t) - n
           /\ \A i \in 1 .. Len(t) - n : Drop(t, n)[i] = t[n + i]
<1>1. Len(t) \in Nat /\ Drop(t, n) = SubSeq(t, n + 1, Len(t))
  BY DEF Drop
<1>2. /\ SubSeq(t, n + 1, Len(t)) \in Seq(S) /\ Len(SubSeq(t, n + 1, Len(t))) = Len(t) - n
      /\ \A i \in 1 .. Len(t) - n : SubSeq(t, n + 1, Len(t))[i] = t[n + i]
  BY <1>1
<1> QED BY <1>1, <1>2

\* Filling the buffer takes the next units from the call.
LEMMA FilledUnits ==
    ASSUME TypeInv, NEW s, NEW p \in Nat, Ahead(s), Buffered(s, p)
    PROVE  /\ Filled \in Seq(Units) /\ After \in Seq(Units)
           /\ Len(Filled) \in Nat /\ Len(After) \in Nat /\ Len(Filled) <= BufferSize
           /\ Len(After) <= sent /\ p + Len(Filled) = sent - Len(After)
           /\ \A i \in 1 .. Len(Filled) : Filled[i] = Unit(s, p + i)
           /\ \A i \in 1 .. Len(After) : After[i] = Unit(s, sent - Len(After) + i)
           /\ (left # <<>> /\ Room > 0) => Len(Filled) > 0
<1>1. /\ InType(in) /\ left \in Seq(Units) /\ sent \in Nat /\ BufferSize \in Nat
      /\ in.buffer \in Seq(Units) /\ Len(in.buffer) <= BufferSize
  BY UpdateAssumption, TypeParts DEF TypeInv, InType
<1>2. PICK b \in Seq(Units), l \in Seq(Units), c \in Nat, m \in Nat :
         b = in.buffer /\ l = left /\ c = Len(b) /\ m = Len(l) /\ c <= BufferSize
  BY <1>1
<1>3. PICK room \in Nat : room = Room /\ c + room = BufferSize
  <2>1. BufferSize - c \in Nat /\ Room = BufferSize - c /\ c + (BufferSize - c) = BufferSize
    BY <1>1, <1>2 DEF Room
  <2> QED BY ONLY <2>1
<1>4. /\ Filled \in Seq(Units) /\ After \in Seq(Units) /\ Len(Filled) <= BufferSize
      /\ (left # <<>> /\ Room > 0) => Len(Filled) > 0
  BY <1>1, <1>3, FilledFacts
<1>5. PICK f \in Nat : f = (IF room < m THEN room ELSE m) /\ f <= m
  BY <1>2
<1>6. /\ First(l, room) \in Seq(Units) /\ Len(First(l, room)) = f
      /\ \A i \in 1 .. f : First(l, room)[i] = l[i]
  BY <1>2, <1>5, FirstFacts
<1>7. /\ Len(Filled) = c + f
      /\ \A i \in 1 .. c : Filled[i] = b[i]
      /\ \A i \in 1 .. f : Filled[c + i] = l[i]
  <2>1. ASSUME NEW g \in Seq(Units)
        PROVE  /\ Len(b \o g) = Len(b) + Len(g)
               /\ \A i \in 1 .. Len(b) : (b \o g)[i] = b[i]
               /\ \A i \in 1 .. Len(g) : (b \o g)[Len(b) + i] = g[i]
    OBVIOUS
  <2>2. PICK g \in Seq(Units) : g = First(l, room) /\ Len(g) = f
    BY <1>6
  <2>3. Filled = b \o g
    BY <1>2, <1>3, <2>2 DEF Filled
  <2>4. \A i \in 1 .. f : g[i] = l[i]
    BY ONLY <1>6, <2>2
  <2>5. /\ Len(b \o g) = c + f
        /\ \A i \in 1 .. c : (b \o g)[i] = b[i]
        /\ \A i \in 1 .. f : (b \o g)[c + i] = g[i]
    BY <1>2, <2>1, <2>2
  <2> QED BY ONLY <2>3, <2>4, <2>5
<1>8. Len(After) = m - f /\ \A i \in 1 .. m - f : After[i] = l[f + i]
  <2>1. After = Drop(l, room)
    BY <1>2, <1>3 DEF After
  <2>2. CASE room <= m
    <3>1. f = room
      BY <1>5, <2>2
    <3>2. /\ Len(Drop(l, room)) = Len(l) - room
          /\ \A i \in 1 .. Len(l) - room : Drop(l, room)[i] = l[room + i]
      <4>1. l \in Seq(Units) /\ room \in Nat /\ room <= Len(l)
        BY <1>2, <2>2
      <4> QED BY ONLY <4>1, DropAt
    <3>3. /\ Len(Drop(l, room)) = m - f
          /\ \A i \in 1 .. m - f : Drop(l, room)[i] = l[f + i]
      BY <1>2, <3>1, <3>2
    <3> QED BY <2>1, <3>3
  <2>3. CASE room > m
    <3>1. After = <<>> /\ f = m
      BY <1>2, <1>5, <2>1, <2>3, DropFacts
    <3> QED BY <1>2, <3>1
  <2> QED BY <1>2, <2>2, <2>3
<1>9. /\ m <= sent /\ p + c = sent - m
      /\ \A i \in 1 .. m : l[i] = Unit(s, sent - m + i)
      /\ \A i \in 1 .. c : b[i] = Unit(s, p + i)
  BY <1>2 DEF Ahead, Buffered, got
<1> HIDE DEF Filled, After
<1>10. Len(After) <= sent /\ p + Len(Filled) = sent - Len(After)
  BY <1>1, <1>5, <1>7, <1>8, <1>9
<1>11. ASSUME NEW i \in 1 .. Len(Filled) PROVE Filled[i] = Unit(s, p + i)
  <2>1. CASE i <= c
    BY <1>7, <1>9, <2>1
  <2>2. CASE i > c
    <3>1. PICK j \in 1 .. f : i = c + j
      <4>1. i - c \in 1 .. f /\ i = c + (i - c)
        BY <1>7, <2>2
      <4> QED BY <4>1
    <3>2. Filled[i] = l[j] /\ j \in 1 .. m
      BY <1>5, <1>7, <3>1
    <3>3. sent - m + j = p + i
      BY <1>1, <1>9, <3>1
    <3> QED BY <1>9, <3>2, <3>3
  <2> QED BY <1>7, <2>1, <2>2
<1>12. ASSUME NEW i \in 1 .. Len(After) PROVE After[i] = Unit(s, sent - Len(After) + i)
  <2>1. After[i] = l[f + i] /\ f + i \in 1 .. m
    BY <1>5, <1>8
  <2>2. sent - m + (f + i) = sent - Len(After) + i
    BY <1>1, <1>5, <1>8
  <2> QED BY <1>9, <2>1, <2>2
<1>13. Len(Filled) \in Nat /\ Len(After) \in Nat
  BY <1>4
<1> QED BY <1>4, <1>10, <1>11, <1>12, <1>13

\* The parser at a unit of a sound image.
Parsing(s, n) ==
    /\ s \in Nat /\ s = session
    /\ n \in Nat /\ n = images[session].length /\ n > BufferSize /\ n <= UpdateSlot.size
    /\ faults = 0 /\ sent <= HeaderSize + n + TagSize /\ in.state # "NONE"
    /\ Parsed(s, n)

\* The units of a pass of the loop.
LEMMA PassUnits ==
    ASSUME TypeInv, NEW s, NEW n, Parsing(s, n), NEW p \in Nat, Buffered(s, p),
           left' = After, sent' = sent
    PROVE  /\ Ahead(s)' /\ got' = p + Len(Filled) /\ got' <= HeaderSize + n + TagSize
           /\ Filled \in Seq(Units) /\ Len(Filled) \in Nat /\ Len(Filled) <= BufferSize
           /\ \A i \in 1 .. Len(Filled) : Filled[i] = Unit(s, p + i)
           /\ (left # <<>> /\ Room > 0) => Len(Filled) > 0
<1>1. n \in Nat /\ Ahead(s) /\ sent \in Nat /\ sent <= HeaderSize + n + TagSize
      /\ HeaderSize \in Nat /\ TagSize \in Nat
  BY UpdateAssumption DEF Parsing, Parsed, TypeInv, TypeOK
<1>2. /\ Filled \in Seq(Units) /\ After \in Seq(Units)
      /\ Len(Filled) \in Nat /\ Len(After) \in Nat /\ Len(Filled) <= BufferSize
      /\ Len(After) <= sent /\ p + Len(Filled) = sent - Len(After)
      /\ \A i \in 1 .. Len(Filled) : Filled[i] = Unit(s, p + i)
      /\ \A i \in 1 .. Len(After) : After[i] = Unit(s, sent - Len(After) + i)
      /\ (left # <<>> /\ Room > 0) => Len(Filled) > 0
  BY <1>1, FilledUnits
<1>3. Ahead(s)' /\ got' = sent - Len(After)
  <2>1. PICK l, t : l = After /\ t = sent
    OBVIOUS
  <2>2. Len(l) <= t /\ \A i \in 1 .. Len(l) : l[i] = Unit(s, t - Len(l) + i)
    BY <1>2, <2>1
  <2>3. left' = l /\ sent' = t
    BY <2>1
  <2>4. Ahead(s)' /\ got' = t - Len(l)
    BY <2>2, <2>3 DEF Ahead, got
  <2> QED BY <2>1, <2>4
<1> HIDE DEF Filled, After
<1> QED BY <1>1, <1>2, <1>3

\* There is room in the buffer as long as there are units.
LEMMA UnitsHaveRoom ==
    ASSUME TwoBanks, TypeInv, NEW s, NEW n, Parsing(s, n), place = "loop", left # <<>>
    PROVE  /\ Room > 0 /\ in.state \in {"HEADER", "DATA", "CHECK"}
           /\ Pending = 0
<1>1. /\ InType(in) /\ BufferSize \in Nat /\ HeaderSize \in Nat /\ HeaderSize > 0
      /\ BufferSize >= HeaderSize /\ n \in Nat /\ sent \in Nat /\ sent <= HeaderSize + n + TagSize
      /\ left \in Seq(Units) /\ TagSize \in Nat
  BY UpdateAssumption, TypeParts DEF TypeInv, Parsing
<1>2. PICK k \in Nat, m \in Nat : k = Len(in.buffer) /\ m = Len(left) /\ k <= BufferSize /\ m > 0
  BY <1>1 DEF InType
<1>3. got = sent - m /\ m <= sent
  BY <1>2 DEF got, Parsing, Parsed, Ahead
<1>4. in.state \in {"HEADER", "DATA", "CHECK"}
  <2>1. in.state \notin {"VALIDATE", "REBOOT"}
    BY <1>1, <1>2, <1>3 DEF Parsing, Parsed, Tagged
  <2>2. in.state # "IDLE" /\ in.state # "NONE"
    BY DEF Parsing, Parsed
  <2> QED BY <1>1, <2>1, <2>2 DEF InType
<1>5. Room = BufferSize - k
  BY <1>2 DEF Room
<1>6. k < BufferSize
  <2>1. CASE in.state = "HEADER"
    BY <1>1, <1>2, <1>3, <2>1 DEF Parsing, Parsed, Buffered
  <2>2. CASE in.state = "DATA"
    BY <1>1, <1>2, <2>2 DEF Parsing, Parsed
  <2>3. CASE in.state = "CHECK"
    <3>1. in.buffer = <<>>
      BY <2>3 DEF Parsing, Parsed
    <3> QED BY <1>1, <1>2, <3>1
  <2> QED BY <1>4, <2>1, <2>2, <2>3
<1> QED BY <1>1, <1>2, <1>4, <1>5, <1>6 DEF Pending

\* Steps that leave the input where it is.
LEMMA ParsedKept ==
    ASSUME NEW s, NEW n, Parsed(s, n), in' = in, left' = left, sent' = sent,
           place' # "error", place' = "data" <=> place = "data"
    PROVE  Parsed(s, n)'
<1>1. Ahead(s)' /\ got' = got
  BY DEF Parsed, Ahead, got
<1>2. \A p : Buffered(s, p) => Buffered(s, p)'
  BY <1>1 DEF Buffered
<1>3. DigestedSoFar(s) => DigestedSoFar(s)'
  <2>1. Pending' = Pending
    BY DEF Pending, DataIn
  <2> QED BY <2>1 DEF DigestedSoFar
<1> QED BY <1>1, <1>2, <1>3 DEF Parsed, Buffered, Tagged

\* imageGetHeader finds the header of a sound image.
LEMMA SoundHeader ==
    ASSUME TwoBanks, TypeInv, NEW s, NEW n, Parsing(s, n),
           Filled \in Seq(Units), Len(Filled) >= HeaderSize,
           \A i \in 1 .. Len(Filled) : Filled[i] = Unit(s, i)
    PROVE  HeaderValid
<1>1. HeaderSize \in Nat /\ n \in Nat /\ Len(Filled) \in Nat
  BY UpdateAssumption DEF Parsing
<1>2. PICK f \in Seq(Units) : f = First(Filled, HeaderSize) /\ Len(f) = HeaderSize
                              /\ \A i \in 1 .. HeaderSize : f[i] = Filled[i]
  BY <1>1, FirstFacts
<1>3. \A i \in 1 .. HeaderSize : f[i] = Unit(s, i)
  BY <1>1, <1>2
<1>4. f = [i \in 1 .. HeaderSize |-> Unit(s, i)]
  BY <1>1, <1>2, <1>3
<1>5. f = Header(session)
  BY <1>4 DEF Header, Parsing
<1>6. images[session].length + (IF DualBank THEN 0 ELSE HeaderSize + TagSize) <= UpdateSlot.size
  BY <1>1 DEF Parsing, TwoBanks
<1> QED BY <1>2, <1>5, <1>6 DEF HeaderValid

\* Reading the header.
LEMMA HeaderSound ==
    ASSUME TwoBanks, TypeInv, NEW s, NEW n, Parsing(s, n),
           HeaderWait \/ HeaderRefused \/ HeaderAccepted
    PROVE  Parsed(s, n)'
<1>1. /\ InType(in) /\ DualBank /\ BufferSize \in Nat /\ HeaderSize \in Nat /\ HeaderSize > 0
      /\ BufferSize >= HeaderSize /\ n \in Nat /\ n > BufferSize
  BY UpdateAssumption, TypeParts DEF TypeInv, TwoBanks, Parsing
<1>2. /\ in.state = "HEADER" /\ place = "loop" /\ left # <<>> /\ Room > 0
      /\ left' = After /\ sent' = sent
  BY DEF HeaderWait, HeaderRefused, HeaderAccepted, Processing, Stays
<1>3. in.check = <<>> /\ Buffered(s, 0) /\ in.sum = <<>> /\ in.written = 0
  BY <1>2 DEF Parsing, Parsed, TypeInv, Shape, InShape
<1>4. /\ Ahead(s)' /\ got' = 0 + Len(Filled) /\ got' <= HeaderSize + n + TagSize
      /\ Filled \in Seq(Units) /\ Len(Filled) \in Nat /\ Len(Filled) <= BufferSize
      /\ \A i \in 1 .. Len(Filled) : Filled[i] = Unit(s, 0 + i)
  BY <1>2, <1>3, PassUnits
<1>5. PICK f \in Seq(Units), k \in Nat : f = Filled /\ k = Len(f) /\ k <= BufferSize
  BY <1>4
<1>6. got' = k /\ \A i \in 1 .. k : f[i] = Unit(s, i)
  BY <1>4, <1>5
<1>7. CASE HeaderWait
  <2>1. /\ in' = [in EXCEPT !.buffer = f] /\ k < HeaderSize /\ place' = "loop"
    BY <1>2, <1>5, <1>7 DEF HeaderWait
  <2>2. in'.state = "HEADER" /\ in'.buffer = f /\ in'.check = <<>>
    BY <1>1, <1>2, <1>3, <2>1 DEF InType
  <2>3. Buffered(s, 0)'
    BY <1>5, <1>6, <2>2 DEF Buffered
  <2> QED BY <1>4, <1>6, <2>1, <2>2, <2>3 DEF Parsed, Receiving
<1>8. HeaderRefused => FALSE
  <2>1. Len(Filled) >= HeaderSize => HeaderValid
    <3>1. \A i \in 1 .. Len(Filled) : Filled[i] = Unit(s, i)
      BY <1>5, <1>6
    <3> QED BY <1>4, <3>1, SoundHeader
  <2> QED BY <2>1 DEF HeaderRefused
<1>9. CASE HeaderAccepted
  <2> DEFINE i == [in EXCEPT !.buffer = f, !.length = n]
             d == Drop(f, HeaderSize)
  <2>1. in' = HeaderDone(i) /\ place' = "loop" /\ k >= HeaderSize
    BY <1>1, <1>2, <1>5, <1>9 DEF HeaderAccepted, Parsing
  <2>2. i.buffer = f /\ i.sum = <<>> /\ i.check = <<>> /\ i.written = 0 /\ i.length = n
    BY <1>1, <1>3 DEF InType
  <2>3. PICK c : c = f[HeaderSize]
    OBVIOUS
  <2>4. in' = [i EXCEPT !.state = "DATA", !.buffer = d, !.sum = Append(<<>>, c)]
    BY <1>1, <2>1, <2>2, <2>3 DEF HeaderDone, InType
  <2>5. /\ in'.state = "DATA" /\ in'.buffer = d /\ in'.sum = <<c>> /\ in'.check = <<>>
        /\ in'.written = 0
    BY <1>1, <1>3, <2>2, <2>4 DEF InType
  <2>6. /\ Len(d) = k - HeaderSize /\ \A j \in 1 .. k - HeaderSize : d[j] = f[HeaderSize + j]
    <3>1. HeaderSize <= Len(f)
      BY <1>5, <2>1
    <3>2. /\ Len(Drop(f, HeaderSize)) = Len(f) - HeaderSize
          /\ \A j \in 1 .. Len(f) - HeaderSize : Drop(f, HeaderSize)[j] = f[HeaderSize + j]
      BY <1>1, <3>1, DropAt
    <3> QED BY <1>5, <3>2
  <2> HIDE DEF d, i
  <2>7. PICK m \in Nat : m = k - HeaderSize
    <3>1. k - HeaderSize \in Nat
      BY <1>1, <2>1
    <3> QED BY <3>1
  <2>8. Buffered(s, HeaderSize + in.written)'
    <3>1. HeaderSize + m = k /\ Len(d) = m
      BY <1>1, <1>5, <2>1, <2>6, <2>7
    <3>2. \A j \in 1 .. m : d[j] = Unit(s, HeaderSize + j)
      <4>1. \A j \in 1 .. m : HeaderSize + j \in 1 .. k
        BY <1>1, <3>1
      <4> QED BY <1>6, <2>6, <2>7, <4>1
    <3>3. HeaderSize + in'.written = HeaderSize
      BY <1>1, <2>5
    <3> QED BY <1>6, <2>5, <3>1, <3>2, <3>3 DEF Buffered
  <2>9. ~(Len(in'.buffer) = BufferSize \/ in'.written + Len(in'.buffer) >= n)
    BY <1>1, <1>5, <2>5, <2>6, <2>7
  <2>10. DigestedSoFar(s)'
    <3>1. Pending' = 0
      BY <2>1 DEF Pending
    <3>2. c = Unit(s, HeaderSize)
      BY <1>1, <1>6, <2>1, <2>3
    <3>3. Len(in'.sum) = 1 /\ in'.sum[1] = Unit(s, HeaderSize)
      BY <2>5, <3>2
    <3>4. HeaderSize + 1 - 1 = HeaderSize
      BY <1>1
    <3> QED BY <2>5, <3>1, <3>3, <3>4 DEF DigestedSoFar
  <2> QED BY <1>4, <2>1, <2>5, <2>8, <2>9, <2>10 DEF Parsed
<1> QED BY <1>7, <1>8, <1>9

\* Reading the payload.
LEMMA DataSound ==
    ASSUME TwoBanks, TypeInv, TypeInv', NEW s, NEW n, Parsing(s, n), DataWait \/ DataBlock
    PROVE  Parsed(s, n)'
<1>1. /\ InType(in) /\ BufferSize \in Nat /\ HeaderSize \in Nat /\ HeaderSize > 0
      /\ n \in Nat /\ n > BufferSize
  BY UpdateAssumption, TypeParts DEF TypeInv, Parsing
<1>2. /\ in.state = "DATA" /\ place = "loop" /\ left # <<>> /\ Room > 0
      /\ left' = After /\ sent' = sent
  BY DEF DataWait, DataBlock, Processing, Stays
<1>3. PICK w \in Nat : w = in.written
  BY <1>1 DEF InType
<1>4. /\ in.check = <<>> /\ Buffered(s, HeaderSize + w) /\ DigestedSoFar(s)
      /\ in.length = n /\ w < n /\ Pending = 0
  BY <1>2, <1>3 DEF Parsing, Parsed, TypeInv, Shape, InShape, Receiving, Pending
<1>5. /\ Ahead(s)' /\ got' = HeaderSize + w + Len(Filled) /\ got' <= HeaderSize + n + TagSize
      /\ Filled \in Seq(Units) /\ Len(Filled) \in Nat /\ Len(Filled) <= BufferSize
      /\ \A i \in 1 .. Len(Filled) : Filled[i] = Unit(s, HeaderSize + w + i)
      /\ Len(Filled) > 0
  BY <1>1, <1>2, <1>3, <1>4, PassUnits
<1>6. PICK f \in Seq(Units), k \in Nat : f = Filled /\ k = Len(f) /\ k <= BufferSize /\ k > 0
  BY <1>5
<1>7. got' = HeaderSize + w + k /\ \A i \in 1 .. k : f[i] = Unit(s, HeaderSize + w + i)
  BY <1>5, <1>6
<1>8. DataEnough <=> (k = BufferSize \/ w + k >= n)
  BY <1>3, <1>4, <1>6 DEF DataEnough
<1>9. /\ Len(in.sum) = 1 + w
      /\ \A j \in 1 .. Len(in.sum) : in.sum[j] = Unit(s, HeaderSize + j - 1)
  BY <1>3, <1>4 DEF DigestedSoFar
<1>10. CASE DataWait
  <2>1. in' = [in EXCEPT !.buffer = f] /\ place' = "loop" /\ ~(k = BufferSize \/ w + k >= n)
    BY <1>2, <1>6, <1>8, <1>10 DEF DataWait
  <2>2. /\ in'.state = "DATA" /\ in'.buffer = f /\ in'.check = <<>> /\ in'.written = w
        /\ in'.sum = in.sum
    BY <1>1, <1>2, <1>3, <1>4, <2>1 DEF InType
  <2>3. Buffered(s, HeaderSize + in.written)'
    BY <1>6, <1>7, <2>2 DEF Buffered
  <2>4. DigestedSoFar(s)'
    <3>1. Pending' = 0
      BY <2>1 DEF Pending
    <3> QED BY <1>9, <2>2, <3>1 DEF DigestedSoFar
  <2> QED BY <1>5, <1>6, <2>1, <2>2, <2>3, <2>4 DEF Parsed
<1>11. CASE DataBlock
  <2>1. PICK d \in Seq(Units), x \in Nat :
           d = DataIn(Filled) /\ x = Len(d) /\ w + x <= n /\ x <= k
    BY <1>2, <1>3, <1>4, <1>5, <1>6, DataInFacts
  <2>2. \A i \in 1 .. x : d[i] = f[i]
    <3>1. n - w \in Nat
      BY <1>1, <1>4
    <3>2. d = First(f, n - w)
      BY <1>3, <1>4, <1>6, <2>1 DEF DataIn
    <3> QED BY <1>6, <2>1, <3>1, <3>2, FirstFacts
  <2>3. /\ in' = [in EXCEPT !.buffer = f, !.sum = in.sum \o d] /\ place' = "data"
        /\ (k = BufferSize \/ w + k >= n)
    BY <1>1, <1>2, <1>6, <1>8, <1>11, <2>1 DEF DataBlock, InType
  <2>4. /\ in'.state = "DATA" /\ in'.buffer = f /\ in'.check = <<>> /\ in'.written = w
        /\ in'.sum = in.sum \o d /\ in'.length = in.length
    BY <1>1, <1>2, <1>3, <1>4, <2>3 DEF InType
  <2>5. Buffered(s, HeaderSize + in.written)'
    BY <1>6, <1>7, <2>4 DEF Buffered
  <2>6. Pending' = x
    <3>1. DataIn(in.buffer)' = d
      BY <1>3, <1>6, <2>1, <2>4 DEF DataIn
    <3> QED BY <2>1, <2>3, <3>1 DEF Pending
  <2>7. DigestedSoFar(s)'
    <3>1. PICK t \in Seq(Units) : t = in.sum /\ Len(t) = 1 + w
      BY <1>1, <1>9 DEF InType
    <3>2. /\ Len(t \o d) = (1 + w) + x
          /\ \A j \in 1 .. 1 + w : (t \o d)[j] = t[j]
          /\ \A j \in 1 .. x : (t \o d)[(1 + w) + j] = d[j]
      <4>1. /\ Len(t \o d) = Len(t) + Len(d)
            /\ \A j \in 1 .. Len(t) : (t \o d)[j] = t[j]
            /\ \A j \in 1 .. Len(d) : (t \o d)[Len(t) + j] = d[j]
        OBVIOUS
      <4> QED BY <2>1, <3>1, <4>1
    <3>3. PICK u : u = t \o d
      OBVIOUS
    <3>4. ASSUME NEW j \in 1 .. (1 + w) + x PROVE u[j] = Unit(s, HeaderSize + j - 1)
      <4>1. CASE j <= 1 + w
        BY <1>9, <3>1, <3>2, <3>3, <4>1
      <4>2. CASE j > 1 + w
        <5>1. PICK i \in 1 .. x : j = (1 + w) + i
          <6>1. j - (1 + w) \in 1 .. x /\ j = (1 + w) + (j - (1 + w))
            BY <4>2
          <6> QED BY ONLY <6>1
        <5>2. u[j] = f[i] /\ i \in 1 .. k
          BY <2>1, <2>2, <3>2, <3>3, <5>1
        <5>3. f[i] = Unit(s, HeaderSize + w + i)
          BY <1>1, <1>7, <2>1, <5>2
        <5>4. HeaderSize + w + i = HeaderSize + j - 1
          BY <1>1, <5>1
        <5> QED BY <5>2, <5>3, <5>4
      <4> QED BY <4>1, <4>2
    <3>5. in'.sum = u /\ Len(u) = (1 + w) + x
      BY <2>4, <3>1, <3>2, <3>3
    <3>6. Len(in'.sum) = 1 + in'.written + Pending'
      BY <2>4, <2>6, <3>5
    <3> QED BY <3>4, <3>5, <3>6 DEF DigestedSoFar
  <2> QED BY <1>5, <1>6, <2>3, <2>4, <2>5, <2>7 DEF Parsed
<1> QED BY <1>10, <1>11

\* The part q of image s that lies from unit p + 1 on.
UnitsFrom(s, p, q) == \A j \in 1 .. Len(q) : q[j] = Unit(s, p + j)

\* Two parts that join.
LEMMA JoinedUnits ==
    ASSUME NEW s, NEW h \in Nat, NEW p \in Nat, NEW S, NEW a \in Seq(S), NEW b \in Seq(S),
           p = h + Len(a), UnitsFrom(s, h, a), UnitsFrom(s, p, b)
    PROVE  a \o b \in Seq(S) /\ Len(a \o b) = Len(a) + Len(b) /\ UnitsFrom(s, h, a \o b)
<1>1. /\ Len(a \o b) = Len(a) + Len(b) /\ a \o b \in Seq(S) /\ Len(a) \in Nat /\ Len(b) \in Nat
      /\ \A j \in 1 .. Len(a) : (a \o b)[j] = a[j]
      /\ \A j \in 1 .. Len(b) : (a \o b)[Len(a) + j] = b[j]
  OBVIOUS
<1>2. PICK c \in Nat, k \in Nat, t \in Seq(S) : c = Len(a) /\ k = Len(b) /\ t = a \o b
  BY <1>1
<1>3. /\ \A j \in 1 .. c : t[j] = a[j] /\ a[j] = Unit(s, h + j)
      /\ \A j \in 1 .. k : t[c + j] = b[j] /\ b[j] = Unit(s, p + j)
  BY <1>1, <1>2 DEF UnitsFrom
<1>4. ASSUME NEW j \in 1 .. c + k PROVE t[j] = Unit(s, h + j)
  <2>1. CASE j <= c
    BY <1>3, <2>1
  <2>2. CASE j > c
    <3>1. j - c \in 1 .. k /\ c + (j - c) = j
      BY <2>2
    <3>2. p + (j - c) = h + j
      BY <1>2
    <3> QED BY <1>3, <3>1, <3>2
  <2> QED BY <2>1, <2>2
<1>5. Len(t) = c + k
  BY <1>1, <1>2
<1>6. UnitsFrom(s, h, t)
  BY <1>4, <1>5 DEF UnitsFrom
<1> QED BY <1>1, <1>2, <1>6

\* What is left of the tag.
LEMMA TagLeft ==
    ASSUME NEW h \in Nat, NEW m \in Nat, NEW c \in Nat, NEW k \in Nat, h + c + k <= h + m
    PROVE  c + k <= m
  OBVIOUS

\* The input with c units of a tag behind unit h and k more of them in the buffer.
TagParts(s, h, c, k, i) ==
    /\ h \in Nat /\ InType(i) /\ i.state = "CHECK"
    /\ c \in Nat /\ c = Len(i.check) /\ k \in Nat /\ k = Len(i.buffer) /\ c + k <= TagSize
    /\ UnitsFrom(s, h, i.check) /\ UnitsFrom(s, h + c, i.buffer)

\* The tag of a sound image may come in parts.
LEMMA TagSound ==
    ASSUME NEW s, NEW h, NEW c, NEW k, NEW i, TagParts(s, h, c, k, i)
    PROVE  /\ CheckFits(i) /\ InType(Checked(i)) /\ Checked(i).buffer = <<>>
           /\ Len(Checked(i).check) = c + k /\ UnitsFrom(s, h, Checked(i).check)
           /\ Checked(i).state = (IF c + k = TagSize THEN "VALIDATE" ELSE "CHECK")
           /\ Checked(i).sum = i.sum /\ Checked(i).written = i.written
<1>1. /\ i.check \in Seq(Units) /\ i.buffer \in Seq(Units) /\ InType(i) /\ i.state = "CHECK"
      /\ h \in Nat /\ c \in Nat /\ c = Len(i.check) /\ k \in Nat /\ k = Len(i.buffer)
      /\ UnitsFrom(s, h, i.check) /\ UnitsFrom(s, h + c, i.buffer)
  BY DEF InType, TagParts
<1>2. CheckFits(i)
  BY DEF CheckFits, TagParts
<1>3. PICK t \in Seq(Units) :
         t = i.check \o i.buffer /\ Len(t) = c + k /\ UnitsFrom(s, h, t)
  <2>1. PICK a \in Seq(Units), b \in Seq(Units) : a = i.check /\ b = i.buffer
    BY <1>1
  <2>2. PICK p \in Nat : p = h + c
    BY <1>1
  <2>3. p = h + Len(a) /\ UnitsFrom(s, h, a) /\ UnitsFrom(s, p, b) /\ h \in Nat
    BY <1>1, <2>1, <2>2
  <2>4. a \o b \in Seq(Units) /\ Len(a \o b) = Len(a) + Len(b) /\ UnitsFrom(s, h, a \o b)
    BY <2>3, JoinedUnits
  <2> QED BY <1>1, <2>1, <2>4
<1>4. PICK v \in {"VALIDATE", "CHECK"} : v = IF c + k = TagSize THEN "VALIDATE" ELSE "CHECK"
  OBVIOUS
<1>5. Checked(i) = [i EXCEPT !.check = t, !.buffer = <<>>, !.state = v]
  <2>1. Checked(i) = [i EXCEPT !.check = i.check \o i.buffer, !.buffer = <<>>,
                               !.state = IF Len(i.check \o i.buffer) = TagSize
                                         THEN "VALIDATE" ELSE i.state]
    BY <1>1, <1>2 DEF Checked, InType
  <2> QED BY <1>1, <1>3, <1>4, <2>1
<1>6. /\ Checked(i).check = t /\ Checked(i).buffer = <<>> /\ Checked(i).state = v
      /\ Checked(i).sum = i.sum /\ Checked(i).written = i.written
  BY <1>1, <1>5 DEF InType
<1> QED BY <1>1, <1>2, <1>3, <1>4, <1>6, CheckedType

\* A block that has gone to the output is taken off the buffer.
LEMMA FedSound ==
    ASSUME TwoBanks, TypeInv, TypeInv', NEW s, NEW n, Parsing(s, n), FedData
    PROVE  Parsed(s, n)'
<1>1. /\ InType(in) /\ BufferSize \in Nat /\ HeaderSize \in Nat /\ HeaderSize > 0
      /\ n \in Nat /\ n > BufferSize /\ sent \in Nat /\ sent <= HeaderSize + n + TagSize
      /\ TagSize \in Nat /\ TagSize > 0
  BY UpdateAssumption, TypeParts DEF TypeInv, Parsing
<1>2. /\ in.state = "DATA" /\ place = "data" /\ left' = left /\ sent' = sent
  BY DEF FedData, Fed, Stays, TypeInv, Shape
<1>3. PICK w \in Nat, b \in Seq(Units), k \in Nat :
         w = in.written /\ b = in.buffer /\ k = Len(b) /\ k <= BufferSize
  BY <1>1 DEF InType
<1>4. /\ in.check = <<>> /\ Buffered(s, HeaderSize + w) /\ DigestedSoFar(s) /\ Ahead(s)
      /\ in.length = n /\ w < n /\ (k = BufferSize \/ w + k >= n)
  BY <1>2, <1>3 DEF Parsing, Parsed, TypeInv, Shape, InShape, Receiving
<1>5. Ahead(s)' /\ got' = got /\ got = HeaderSize + w + k /\ got <= HeaderSize + n + TagSize
  <2>1. Ahead(s)' /\ got' = got
    BY <1>2, <1>4 DEF Ahead, got
  <2>2. got <= sent
    BY <1>1, <1>4 DEF Ahead, got, TypeInv, TypeOK
  <2>3. got = HeaderSize + w + k
    BY <1>3, <1>4 DEF Buffered
  <2> QED BY <1>1, <2>1, <2>2, <2>3
<1>6. \A i \in 1 .. k : b[i] = Unit(s, HeaderSize + w + i)
  BY <1>3, <1>4 DEF Buffered
<1>7. PICK x \in Nat : x = Len(DataIn(b)) /\ x = (IF n - w < k THEN n - w ELSE k)
  <2>1. n - w \in Nat
    BY <1>1, <1>4
  <2>2. DataIn(b) = First(b, n - w)
    BY <1>3, <1>4 DEF DataIn
  <2>3. Len(First(b, n - w)) = IF n - w < Len(b) THEN n - w ELSE Len(b)
    BY <2>1, FirstFacts
  <2>4. (IF n - w < k THEN n - w ELSE k) \in Nat
    BY <2>1
  <2> QED BY <1>3, <2>2, <2>3, <2>4
<1>8. x <= k /\ w + x <= n
  BY <1>1, <1>4, <1>7
<1>9. Len(in.sum) = 1 + (w + x) /\ \A j \in 1 .. Len(in.sum) : in.sum[j] = Unit(s, HeaderSize + j - 1)
  <2>1. Pending = x
    BY <1>2, <1>3, <1>7 DEF Pending
  <2> QED BY <1>3, <1>4, <2>1 DEF DigestedSoFar
<1>10. PICK d \in Seq(Units), y \in Nat :
          /\ d = Drop(b, x) /\ y = k - x /\ Len(d) = y
          /\ \A i \in 1 .. y : d[i] = b[x + i]
  <2>1. x <= Len(b) /\ k - x \in Nat
    BY <1>3, <1>8
  <2>2. /\ Drop(b, x) \in Seq(Units) /\ Len(Drop(b, x)) = Len(b) - x
        /\ \A i \in 1 .. Len(b) - x : Drop(b, x)[i] = b[x + i]
    BY <2>1, DropAt
  <2> QED BY <1>3, <2>1, <2>2
<1>11. \A i \in 1 .. y : d[i] = Unit(s, HeaderSize + (w + x) + i)
  <2>1. ASSUME NEW i \in 1 .. y PROVE d[i] = Unit(s, HeaderSize + (w + x) + i)
    <3>1. d[i] = b[x + i] /\ x + i \in 1 .. k
      BY <1>8, <1>10
    <3>2. HeaderSize + w + (x + i) = HeaderSize + (w + x) + i
      BY <1>1
    <3> QED BY <1>6, <3>1, <3>2
  <2> QED BY <2>1
<1>12. PICK v \in Nat, t \in {"CHECK", "DATA"} :
          v = w + x /\ t = (IF v = n THEN "CHECK" ELSE "DATA")
  OBVIOUS
<1> DEFINE i == [in EXCEPT !.written = v, !.buffer = d, !.state = t]
<1>13. IF t = "CHECK" /\ d # <<>>
       THEN in' = Checked(i) /\ place' = (IF CheckFits(i) THEN "loop" ELSE "error")
       ELSE in' = i /\ place' = "loop"
  BY <1>1, <1>2, <1>3, <1>4, <1>7, <1>10, <1>12 DEF FedData, InType
<1>14. /\ InType(i) /\ i.state = t /\ i.buffer = d /\ i.written = v /\ i.check = <<>>
       /\ i.sum = in.sum
  <2>1. Len(d) <= BufferSize
    BY <1>1, <1>3, <1>10
  <2> QED BY <1>1, <1>4, <1>10, <1>12, <2>1 DEF InType
<1> HIDE DEF i
<1>15. ASSUME in'.written = v, in'.sum = in.sum, place' # "data" PROVE DigestedSoFar(s)'
  <2>1. Pending' = 0
    BY <1>15 DEF Pending
  <2> QED BY <1>9, <1>12, <1>15, <2>1 DEF DigestedSoFar
<1>16. CASE t = "DATA"
  <2>1. in' = i /\ place' = "loop" /\ v # n
    BY <1>12, <1>13, <1>16
  <2>2. x = k /\ k = BufferSize /\ y = 0
    BY <1>1, <1>4, <1>7, <1>10, <1>12, <2>1
  <2>3. Buffered(s, HeaderSize + in.written)'
    <3>1. HeaderSize + v + y = got'
      BY <1>1, <1>5, <1>12, <2>2
    <3> QED BY <1>10, <1>12, <1>11, <1>14, <2>1, <3>1 DEF Buffered
  <2>4. ~(Len(in'.buffer) = BufferSize \/ in'.written + Len(in'.buffer) >= n)
    <3>1. Len(in'.buffer) = 0 /\ in'.written = v /\ v < n
      BY <1>1, <1>8, <1>10, <1>12, <1>14, <2>1, <2>2
    <3>2. BufferSize # 0 /\ ~(v + 0 >= n)
      BY <1>1, <3>1, UpdateAssumption
    <3> QED BY <3>1, <3>2
  <2> QED BY <1>5, <1>14, <1>15, <1>16, <2>1, <2>3, <2>4 DEF Parsed
<1>17. CASE t = "CHECK" /\ d = <<>>
  <2>1. in' = i /\ place' = "loop" /\ v = n
    BY <1>12, <1>13, <1>17
  <2>2. y = 0
    BY <1>10, <1>17
  <2>3. got' = HeaderSize + n
    BY <1>1, <1>5, <1>10, <1>12, <2>1, <2>2
  <2>4. Len(in'.check) = 0 /\ in'.state = "CHECK" /\ in'.buffer = <<>>
    BY <1>14, <1>17, <2>1
  <2>5. Tagged(s, n)' /\ Len(in'.check) < TagSize
    BY <1>1, <2>3, <2>4 DEF Tagged
  <2> QED BY <1>5, <1>14, <1>15, <2>1, <2>4, <2>5 DEF Parsed
<1>18. CASE t = "CHECK" /\ d # <<>>
  <2>1. v = n /\ y > 0 /\ w + x = n
    BY <1>10, <1>12, <1>18
  <2>2. y <= TagSize /\ got' = HeaderSize + n + y
    <3>1. k = x + y
      BY <1>8, <1>10
    <3>2. got' = HeaderSize + n + y /\ got' <= HeaderSize + n + TagSize
      BY <1>1, <1>5, <2>1, <3>1
    <3> QED BY <1>1, <3>2
  <2>3. PICK c \in Nat, h \in Nat :
           /\ c = 0 /\ c = Len(i.check) /\ y = Len(i.buffer) /\ c + y = y
           /\ h = HeaderSize + n /\ h = h + c /\ h = HeaderSize + (w + x)
    BY <1>1, <1>10, <1>14, <2>1
  <2>4. /\ CheckFits(i) /\ InType(Checked(i)) /\ Checked(i).buffer = <<>>
        /\ Len(Checked(i).check) = c + y /\ UnitsFrom(s, h, Checked(i).check)
        /\ Checked(i).state = (IF c + y = TagSize THEN "VALIDATE" ELSE "CHECK")
        /\ Checked(i).sum = i.sum /\ Checked(i).written = i.written
    <3>1. n \in Nat /\ InType(i) /\ i.state = "CHECK" /\ c + y <= TagSize
      BY <1>1, <1>14, <1>18, <2>2, <2>3
    <3>2. UnitsFrom(s, h, i.check) /\ UnitsFrom(s, h, i.buffer)
      BY <1>11, <1>14, <2>3 DEF UnitsFrom
    <3>3. /\ InType(i) /\ i.state = "CHECK" /\ c = Len(i.check) /\ y = Len(i.buffer)
          /\ c + y <= TagSize /\ h = h + c /\ UnitsFrom(s, h, i.check) /\ UnitsFrom(s, h, i.buffer)
      BY <2>3, <3>1, <3>2
    <3>4. PICK z : z = i
      OBVIOUS
    <3>5. TagParts(s, h, c, y, z)
      BY <2>3, <3>3, <3>4 DEF TagParts
    <3>6. /\ CheckFits(z) /\ InType(Checked(z)) /\ Checked(z).buffer = <<>>
          /\ Len(Checked(z).check) = c + y /\ UnitsFrom(s, h, Checked(z).check)
          /\ Checked(z).state = (IF c + y = TagSize THEN "VALIDATE" ELSE "CHECK")
          /\ Checked(z).sum = z.sum /\ Checked(z).written = z.written
      BY <3>5, TagSound
    <3> QED BY <3>4, <3>6
  <2>5. in' = Checked(i) /\ place' = "loop"
    BY <1>13, <1>18, <2>4
  <2>6. Tagged(s, n)' /\ Len(in'.check) = y /\ in'.buffer = <<>>
        /\ in'.state = (IF y = TagSize THEN "VALIDATE" ELSE "CHECK")
    BY <2>2, <2>3, <2>4, <2>5 DEF Tagged, UnitsFrom
  <2>7. DigestedSoFar(s)'
    BY <1>14, <1>15, <2>4, <2>5
  <2> QED BY <1>1, <1>5, <2>2, <2>5, <2>6, <2>7 DEF Parsed
<1> QED BY <1>12, <1>16, <1>17, <1>18

\* The tag, or the part of it that comes by itself.
LEMMA CheckSound ==
    ASSUME TwoBanks, TypeInv, TypeInv', NEW s, NEW n, Parsing(s, n), CheckBlock
    PROVE  Parsed(s, n)'
<1>1. /\ InType(in) /\ BufferSize \in Nat /\ HeaderSize \in Nat /\ HeaderSize > 0
      /\ n \in Nat /\ in.written \in Nat /\ TagSize \in Nat
  BY UpdateAssumption, TypeParts DEF TypeInv, Parsing, InType
<1>2. /\ in.state = "CHECK" /\ place = "loop" /\ left # <<>> /\ Room > 0
      /\ left' = After /\ sent' = sent
  BY DEF CheckBlock, Processing, Stays
<1>3. /\ Tagged(s, n) /\ in.buffer = <<>> /\ DigestedSoFar(s) /\ Pending = 0
  BY <1>2 DEF Parsing, Parsed, Receiving, Pending
<1>4. PICK c \in Nat, h \in Nat, p \in Nat :
         c = Len(in.check) /\ h = HeaderSize + n /\ p = h + c
  <2>1. Len(in.check) \in Nat
    BY <1>1 DEF InType
  <2> QED BY <1>1, <2>1
<1>5. Buffered(s, p)
  BY <1>3, <1>4 DEF Buffered, Tagged
<1>6. /\ Ahead(s)' /\ got' = p + Len(Filled) /\ got' <= HeaderSize + n + TagSize
      /\ Filled \in Seq(Units) /\ Len(Filled) \in Nat /\ Len(Filled) <= BufferSize
      /\ \A j \in 1 .. Len(Filled) : Filled[j] = Unit(s, p + j)
      /\ Len(Filled) > 0
  BY <1>2, <1>5, PassUnits
<1>7. PICK f \in Seq(Units), k \in Nat : f = Filled /\ k = Len(f)
  BY <1>6
<1>8. PICK i : i = [in EXCEPT !.buffer = f]
  OBVIOUS
<1>9. in' = Checked(i) /\ place' = (IF CheckFits(i) THEN "loop" ELSE "error")
  BY <1>7, <1>8 DEF CheckBlock
<1>10. /\ InType(i) /\ i.state = "CHECK" /\ i.buffer = f /\ i.check = in.check
      /\ i.written = in.written /\ i.sum = in.sum
  BY <1>1, <1>2, <1>6, <1>7, <1>8 DEF InType
<1>11. /\ CheckFits(i) /\ InType(Checked(i)) /\ Checked(i).buffer = <<>>
       /\ Len(Checked(i).check) = c + k /\ UnitsFrom(s, h, Checked(i).check)
       /\ Checked(i).state = (IF c + k = TagSize THEN "VALIDATE" ELSE "CHECK")
       /\ Checked(i).sum = i.sum /\ Checked(i).written = i.written
  <2>1. c + k <= TagSize
    <3>1. h + c + k <= h + TagSize
      BY <1>4, <1>6, <1>7
    <3> QED BY <1>1, <3>1, TagLeft
  <2>2. UnitsFrom(s, h, i.check) /\ UnitsFrom(s, p, i.buffer)
    BY <1>3, <1>4, <1>6, <1>7, <1>10 DEF Tagged, UnitsFrom
  <2>3. InType(i) /\ i.state = "CHECK" /\ c = Len(i.check) /\ k = Len(i.buffer)
    BY <1>4, <1>7, <1>10
  <2>4. TagParts(s, h, c, k, i)
    BY <1>4, <1>7, <2>1, <2>2, <2>3 DEF TagParts
  <2> QED BY <2>4, TagSound
<1>12. DigestedSoFar(s)'
  <2>1. Pending' = 0
    BY <1>9, <1>11 DEF Pending
  <2> QED BY <1>1, <1>3, <1>9, <1>10, <1>11, <2>1 DEF DigestedSoFar
<1>13. Tagged(s, n)' /\ c + k <= TagSize
  <2>1. got' = h + c + k /\ h + c + k <= h + TagSize
    BY <1>4, <1>6, <1>7
  <2>2. got' = h + (c + k)
    BY <2>1
  <2>3. c + k <= TagSize
    BY <1>1, <2>1, TagLeft
  <2> QED BY <1>4, <1>9, <1>11, <2>2, <2>3 DEF Tagged, UnitsFrom
<1> QED BY <1>1, <1>6, <1>9, <1>11, <1>12, <1>13 DEF Parsed

\* What the application receives of a sound image.
LEMMA SoundStream ==
    ASSUME NEW s \in 0 .. MaxSessions, NEW image \in Images, image.damaged = 0,
           NEW n \in Nat, n = image.length
    PROVE  /\ Stream(s, image) \in Seq(Units)
           /\ \A i \in 1 .. HeaderSize + n + TagSize : Stream(s, image)[i] = Unit(s, i)
<1>1. HeaderSize \in Nat /\ TagSize \in Nat /\ Trailing \in Nat
  BY UpdateAssumption
<1>2. UnitsOf(image) = HeaderSize + n + TagSize
  BY DEF UnitsOf
<1>3. ASSUME NEW i \in 1 .. HeaderSize + n + TagSize PROVE Stream(s, image)[i] = Unit(s, i)
  <2>1. i \in 1 .. (HeaderSize + n + TagSize) + Trailing /\ i # 0 /\ ~(i > HeaderSize + n + TagSize)
    BY <1>1
  <2> QED BY <1>2, <2>1 DEF Stream
<1> QED BY <1>3, StreamUnits

\* What is handed over continues the image.
LEMMA ProcessSound ==
    ASSUME TwoBanks, TypeInv, TypeInv', NEW s, NEW n, Parsing(s, n), left = <<>>,
           images[session].damaged = 0,
           NEW k \in Lengths, UpdateProcess(k), sent' <= HeaderSize + n + TagSize
    PROVE  Parsed(s, n)'
<1>1. /\ k \in Nat /\ sent \in Nat /\ n \in Nat /\ s \in 0 .. MaxSessions /\ HeaderSize \in Nat
      /\ TagSize \in Nat
      /\ images[session] \in Images /\ n = images[session].length /\ s = session
  <2>1. in.state # "NONE" /\ n \in Nat /\ n = images[session].length /\ s = session
    BY DEF Parsing
  <2>2. images[session] \in Images /\ session \in 1 .. MaxSessions
    BY <2>1, PayloadLength
  <2>3. HeaderSize \in Nat /\ TagSize \in Nat /\ k \in Nat /\ MaxSessions \in Nat
    BY UpdateAssumption
  <2>4. sent \in Nat
    BY DEF TypeInv, TypeOK
  <2> QED BY <2>1, <2>2, <2>3, <2>4
<1>2. PICK t \in Seq(Units) :
         /\ t = Stream(session, images[session])
         /\ \A i \in 1 .. HeaderSize + n + TagSize : t[i] = Unit(s, i)
  BY <1>1, SoundStream
<1>3. /\ sent + k <= Len(t) /\ left' = SubSeq(t, sent + 1, sent + k) /\ sent' = sent + k
      /\ place = "app" /\ place' = "loop" /\ in' = in
  BY <1>2 DEF UpdateProcess
<1>4. PICK a \in Nat : a = sent
  BY <1>1
<1>5. /\ Len(SubSeq(t, a + 1, a + k)) = k
      /\ \A i \in 1 .. k : SubSeq(t, a + 1, a + k)[i] = t[a + i]
  <2>1. a + k <= Len(t) /\ k \in Nat /\ a \in Nat /\ t \in Seq(Units)
    BY <1>1, <1>3, <1>4
  <2>2. a + 1 \in 1 .. Len(t) + 1 /\ a + k \in a .. Len(t) /\ Len(t) \in Nat
    BY <2>1
  <2> QED BY ONLY <2>1, <2>2
<1>6. Len(left') = k /\ sent' = a + k /\ \A i \in 1 .. k : left'[i] = t[a + i]
  BY <1>3, <1>4, <1>5
<1>7. got = a /\ got' = a
  <2>1. Len(left) = 0
    OBVIOUS
  <2> QED BY <1>1, <1>4, <1>6, <2>1 DEF got
<1>8. Ahead(s)'
  <2>1. ASSUME NEW i \in 1 .. k PROVE left'[i] = Unit(s, a + i)
    <3>1. a + i \in 1 .. HeaderSize + n + TagSize
      BY <1>1, <1>6
    <3> QED BY <1>2, <1>6, <3>1
  <2>2. Len(left') <= sent'
    BY <1>1, <1>6
  <2> QED BY <1>6, <1>7, <2>1, <2>2 DEF Ahead
<1>9. \A p : Buffered(s, p) => Buffered(s, p)'
  BY <1>3, <1>7 DEF Buffered
<1>10. DigestedSoFar(s) => DigestedSoFar(s)'
  <2>1. Pending' = Pending
    BY <1>3 DEF Pending
  <2> QED BY <1>3, <2>1 DEF DigestedSoFar
<1> QED BY <1>3, <1>7, <1>8, <1>9, <1>10 DEF Parsing, Parsed, Buffered, Tagged

\* The digest of a sound image that has been received is that of updateFinalize.
LEMMA SoundIsValid ==
    ASSUME TwoBanks, TypeInv, NEW s, NEW n, Parsing(s, n), in.state = "VALIDATE", place = "app"
    PROVE  Valid
<1>1. /\ n \in Nat /\ HeaderSize \in Nat /\ HeaderSize > 0 /\ in.written = n
      /\ in.check = Tag(s, n) /\ DigestedSoFar(s) /\ in.sum \in Seq(Units) /\ s = session
      /\ Pending = 0 /\ n = images[session].length
  <2>1. HeaderSize \in Nat /\ HeaderSize > 0
    BY UpdateAssumption
  <2>2. n \in Nat /\ s = session /\ n = images[session].length /\ Parsed(s, n)
    BY DEF Parsing
  <2>3. Tagged(s, n) /\ Len(in.check) = TagSize /\ DigestedSoFar(s)
    BY <2>2 DEF Parsed, Receiving
  <2>7. in.check = Tag(s, n)
    <3>1. PICK c \in Seq(Units) : c = in.check
      BY TypeParts DEF TypeInv, InType
    <3>2. Len(c) = TagSize /\ \A j \in 1 .. TagSize : c[j] = Unit(s, HeaderSize + n + j)
      BY <2>3, <3>1 DEF Tagged
    <3>3. c = [j \in 1 .. TagSize |-> Unit(s, HeaderSize + n + j)]
      BY <3>2
    <3> QED BY <3>1, <3>3 DEF Tag
  <2>4. in.written = n
    BY <2>2 DEF TypeInv, Shape, InShape, Receiving
  <2>5. in.sum \in Seq(Units)
    BY TypeParts DEF TypeInv, InType
  <2>6. Pending = 0
    BY DEF Pending
  <2> QED BY <2>1, <2>2, <2>3, <2>4, <2>5, <2>6, <2>7
<1>2. PICK t \in Seq(Units) : t = in.sum
  BY <1>1
<1>3. Len(t) = 1 + n /\ \A j \in 1 .. 1 + n : t[j] = Unit(s, HeaderSize + j - 1)
  BY <1>1, <1>2 DEF DigestedSoFar
<1>4. PICK p \in Seq(Units) : /\ p = PayloadOf(s, n) /\ Len(p) = n
                              /\ \A i \in 1 .. n : p[i] = Unit(s, HeaderSize + i)
  <2>1. ASSUME NEW i \in 1 .. n PROVE Unit(s, HeaderSize + i) \in Units
    <3>1. t[i + 1] = Unit(s, HeaderSize + i) /\ i + 1 \in 1 .. Len(t)
      <4>1. i + 1 \in 1 .. 1 + n /\ HeaderSize + (i + 1) - 1 = HeaderSize + i
        BY <1>1
      <4> QED BY <1>3, <4>1
    <3> QED BY <3>1
  <2>2. PayloadOf(s, n) = [i \in 1 .. n |-> Unit(s, HeaderSize + i)]
    BY DEF PayloadOf
  <2>3. PayloadOf(s, n) \in Seq(Units) /\ Len(PayloadOf(s, n)) = n
    <3>1. n \in Nat /\ \A i \in 1 .. n : Unit(s, HeaderSize + i) \in Units
      BY <1>1, <2>1
    <3>2. [i \in 1 .. n |-> Unit(s, HeaderSize + i)] \in Seq(Units)
      BY ONLY <3>1
    <3>3. Len([i \in 1 .. n |-> Unit(s, HeaderSize + i)]) = n
      BY ONLY <3>1
    <3> QED BY <2>2, <3>2, <3>3
  <2>4. \A i \in 1 .. n : PayloadOf(s, n)[i] = Unit(s, HeaderSize + i)
    BY <2>2
  <2> QED BY ONLY <2>3, <2>4
<1>5. PICK u \in Units : u = Unit(s, HeaderSize)
  <2>1. t[1] = Unit(s, HeaderSize + 1 - 1) /\ HeaderSize + 1 - 1 = HeaderSize /\ 1 \in 1 .. Len(t)
    BY <1>1, <1>3
  <2> QED BY <2>1
<1>6. Digested(Header(session), session, images[session].length) = <<u>> \o p
  <2>1. Header(s)[HeaderSize] = Unit(s, HeaderSize)
    BY <1>1 DEF Header
  <2> QED BY <1>1, <1>4, <1>5, <2>1 DEF Digested
<1>7. t = <<u>> \o p
  <2>1. PICK q : q = <<u>> \o p
    OBVIOUS
  <2>2. q \in Seq(Units) /\ Len(q) = 1 + n /\ q[1] = u /\ \A i \in 1 .. n : q[1 + i] = p[i]
    BY <1>4, <2>1
  <2>3. ASSUME NEW j \in 1 .. 1 + n PROVE t[j] = q[j]
    <3>1. CASE j = 1
      <4>1. HeaderSize + j - 1 = HeaderSize
        BY <1>1, <3>1
      <4> QED BY <1>3, <1>5, <2>2, <3>1, <4>1
    <3>2. CASE j > 1
      <4>1. PICK i \in 1 .. n : j = 1 + i
        <5>1. j - 1 \in 1 .. n /\ j = 1 + (j - 1)
          BY <1>1, <3>2
        <5> QED BY ONLY <5>1
      <4>2. HeaderSize + j - 1 = HeaderSize + i
        BY <1>1, <4>1
      <4> QED BY <1>3, <1>4, <2>2, <4>1, <4>2
    <3> QED BY <3>1, <3>2
  <2>4. t = q
    BY <1>3, <2>2, <2>3
  <2> QED BY <2>1, <2>4
<1> QED BY <1>1, <1>2, <1>6, <1>7 DEF Valid

\* Between two calls nothing is left of the last one.
LEMMA NothingLeft ==
    ASSUME TwoBanks, TypeInv, [Next]_vars, place = "app" => left = <<>>
    PROVE  (place = "app" => left = <<>>)'
<1>1. CASE Calls
  BY <1>1 DEF Calls, UpdateInit, UpdateProcess, FinalizeValid, FinalizeSwapFails,
              FinalizeInvalid, FinalizeNotReady, Reset, Return
<1>2. CASE Reads
  BY <1>2 DEF Reads, LoopEnds, LoopOverflows, HeaderWait, HeaderRefused, HeaderAccepted, FedHeader,
              DataWait, DataBlock, FedData, CheckBlock, WrongState, ReturnError, Return, Processing,
              Fed
<1>3. CASE BinaryFirst \/ BinaryData
  BY <1>3 DEF BinaryFirst, BinaryData, Feeding, WriteOut
<1>4. CASE UNCHANGED vars
  BY <1>4 DEF vars
<1> QED BY <1>1, <1>2, <1>3, <1>4, StepCases

\* Within an update the image stays, and nothing handed over is taken back.
LEMMA SameUpdate ==
    ASSUME TwoBanks, TypeInv, [Next]_vars, ~UpdateInit
    PROVE  /\ images' = images /\ sent' >= sent /\ faults' >= faults
           /\ in.state = "NONE" => in'.state = "NONE"
<1>1. DualBank /\ sent \in Nat /\ faults \in Nat
  BY UpdateAssumption DEF TwoBanks, TypeInv, TypeOK
<1>2. CASE \E k \in Lengths : UpdateProcess(k)
  <2>1. PICK k \in Nat : UpdateProcess(k)
    BY <1>2, UpdateAssumption
  <2> QED BY <1>1, <2>1 DEF UpdateProcess
<1>3. CASE FinalizeValid \/ FinalizeSwapFails \/ FinalizeInvalid \/ FinalizeNotReady \/ Reset
  BY <1>1, <1>3 DEF FinalizeValid, FinalizeSwapFails, FinalizeInvalid, FinalizeNotReady,
                    MayFinalize, DropHeader, Reset, NoInput
<1>4. CASE Reads
  <2>1. /\ UNCHANGED <<images, sent, faults>>
        /\ \/ in' = in
           \/ \E state \in {"HEADER", "DATA", "CHECK", "VALIDATE", "REBOOT", "IDLE"} : in.state = state
           \/ place \in {"header", "data"}
    BY <1>4 DEF Reads, LoopEnds, LoopOverflows, HeaderWait, HeaderRefused, HeaderAccepted, FedHeader,
                DataWait, DataBlock, FedData, CheckBlock, WrongState, ReturnError, Processing, Stays,
                Fed
  <2> QED BY <1>1, <2>1 DEF TypeInv, Shape
<1>5. CASE BinaryFirst \/ BinaryData
  BY <1>1, <1>5 DEF BinaryFirst, BinaryData, WriteOut
<1>6. CASE UNCHANGED vars
  BY <1>1, <1>6 DEF vars
<1> QED BY <1>2, <1>3, <1>4, <1>5, <1>6, StepCases DEF Calls

\* The loop of updateProcess.
LEMMA ReadsSound ==
    ASSUME TwoBanks, TypeInv, TypeInv', NEW s, NEW n, Parsing(s, n), Reads
    PROVE  Parsed(s, n)'
<1>1. Parsed(s, n) /\ place # "error" /\ place # "header"
  BY DEF Parsing, Parsed, TypeInv, Shape
<1>2. ~LoopOverflows /\ ~WrongState
  BY UnitsHaveRoom DEF LoopOverflows, WrongState, Processing
<1>3. ~ReturnError /\ ~FedHeader
  BY <1>1 DEF ReturnError, FedHeader, Fed
<1>4. CASE LoopEnds
  <2>1. in' = in /\ left' = left /\ sent' = sent /\ place' = "app" /\ place = "loop"
    BY <1>4 DEF LoopEnds, Return
  <2> QED BY <1>1, <2>1, ParsedKept
<1>5. CASE HeaderWait \/ HeaderRefused \/ HeaderAccepted
  BY <1>5, HeaderSound
<1>6. CASE DataWait \/ DataBlock
  BY <1>6, DataSound
<1>7. CASE FedData
  BY <1>7, FedSound
<1>8. CASE CheckBlock
  BY <1>8, CheckSound
<1> QED BY <1>2, <1>3, <1>4, <1>5, <1>6, <1>7, <1>8 DEF Reads

\* A write that succeeds leaves the input alone, and none is refused.
LEMMA WritesSound ==
    ASSUME TwoBanks, TypeInv, Flow, NEW s, NEW n, Parsing(s, n), BinaryFirst \/ BinaryData,
           faults' = 0
    PROVE  Parsed(s, n)'
<1>1. Parsed(s, n) /\ place # "error" /\ faults = 0
  BY DEF Parsing, Parsed
<1>2. place' # "error"
  <2>1. Live
    BY <1>1, WritesType DEF Flow, Receiving, Lost
  <2> QED BY <1>1, <2>1, NotRefused
<1>3. in' = in /\ left' = left /\ sent' = sent /\ place' = place
  BY <1>1, <1>2 DEF BinaryFirst, BinaryData, WriteOut
<1> QED BY <1>1, <1>3, ParsedKept

\* A new update begins with nothing.
LEMMA BeginSound ==
    ASSUME NEW s, NEW n, UpdateInit, left = <<>>
    PROVE  Parsed(s, n)'
<1>1. HeaderSize \in Nat /\ HeaderSize > 0
  BY UpdateAssumption
<1>2. sent' = 0 /\ left' = <<>> /\ place' = "app"
  BY DEF UpdateInit
<1>3. in'.state = "HEADER" /\ in'.buffer = <<>> /\ in'.check = <<>>
  BY DEF UpdateInit, NoInput
<1>4. got' = 0
  <2>1. PICK l \in Seq(Units), t \in Nat : l = <<>> /\ Len(l) = 0 /\ t = 0
    <3>1. <<>> \in Seq(Units) /\ Len(<<>>) = 0
      OBVIOUS
    <3> QED BY ONLY <3>1
  <2>2. left' = l /\ sent' = t
    BY <1>2, <2>1
  <2>3. got' = t - Len(l)
    BY <2>2 DEF got
  <2> QED BY <2>1, <2>3
<1>5. Ahead(s)'
  BY <1>2 DEF Ahead
<1>6. Buffered(s, 0)'
  BY <1>3, <1>4 DEF Buffered
<1> QED BY <1>1, <1>2, <1>3, <1>4, <1>5, <1>6 DEF Parsed, Receiving

\* The other calls.
LEMMA CallsSound ==
    ASSUME TwoBanks, TypeInv, TypeInv', NEW s, NEW n, Parsing(s, n), Calls, ~UpdateInit,
           place = "app" => left = <<>>, images[session].damaged = 0,
           sent' <= HeaderSize + n + TagSize, faults' = 0, in'.state # "NONE"
    PROVE  Parsed(s, n)'
<1>1. Parsed(s, n) /\ place # "error" /\ faults = 0 /\ DualBank
  BY DEF Parsing, Parsed, TwoBanks
<1>2. CASE \E k \in Lengths : UpdateProcess(k)
  <2>1. PICK k \in Lengths : UpdateProcess(k)
    BY <1>2
  <2>2. left = <<>>
    BY <2>1 DEF UpdateProcess
  <2> QED BY <2>1, <2>2, ProcessSound
<1>3. CASE FinalizeNotReady
  <2>1. in' = in /\ left' = left /\ sent' = sent /\ place' = "app" /\ place = "app"
    BY <1>3 DEF FinalizeNotReady, MayFinalize, Return
  <2> QED BY <1>1, <2>1, ParsedKept
<1>4. CASE FinalizeValid
  <2>1. /\ place = "app" /\ in.state = "VALIDATE" /\ in' = [in EXCEPT !.state = "REBOOT"]
        /\ left' = left /\ sent' = sent /\ place' = "app"
    BY <1>4 DEF FinalizeValid, MayFinalize, Return
  <2>2. InType(in)
    BY TypeParts DEF TypeInv
  <2>3. /\ in'.state = "REBOOT" /\ in'.check = in.check /\ in'.written = in.written
        /\ in'.sum = in.sum
    BY <2>1, <2>2 DEF InType
  <2>4. Ahead(s)' /\ got' = got
    BY <1>1, <2>1 DEF Parsed, Ahead, got
  <2>5. Tagged(s, n) /\ Len(in.check) = TagSize /\ DigestedSoFar(s)
    BY <1>1, <2>1 DEF Parsed, Receiving
  <2>7. Tagged(s, n)' /\ Len(in'.check) = TagSize
    BY <2>3, <2>4, <2>5 DEF Tagged
  <2>6. DigestedSoFar(s)'
    <3>1. Pending = 0 /\ Pending' = 0
      BY <2>1 DEF Pending
    <3> QED BY <2>3, <2>5, <3>1 DEF DigestedSoFar
  <2> QED BY <2>1, <2>3, <2>4, <2>6, <2>7 DEF Parsed
<1>5. ~FinalizeSwapFails
  BY <1>1 DEF FinalizeSwapFails
<1>6. ~FinalizeInvalid
  BY SoundIsValid DEF FinalizeInvalid, MayFinalize
<1>7. ~Reset
  BY DEF Reset, NoInput
<1> QED BY <1>2, <1>3, <1>4, <1>5, <1>6, <1>7 DEF Calls

\* Every step keeps the place of the parser in a sound image.
LEMMA SoundStep ==
    ASSUME TwoBanks, TypeInv, TypeInv', Flow, SoundInv, [Next]_vars
    PROVE  SoundInv'
<1>1. (place = "app" => left = <<>>)'
  BY NothingLeft DEF SoundInv
<1>2. ASSUME NEW s \in Nat, NEW n \in Nat, Sound', s = session', n = images'[session'].length
      PROVE  Parsed(s, n)'
  <2>1. CASE UpdateInit
    <3>1. left = <<>>
      BY <2>1 DEF UpdateInit, SoundInv
    <3> QED BY <2>1, <3>1, BeginSound
  <2>2. CASE ~UpdateInit
    <3>1. /\ images' = images /\ sent' >= sent /\ faults' >= faults
          /\ in.state = "NONE" => in'.state = "NONE"
      BY <2>2, SameUpdate
    <3>2. session' = session
      BY <3>1 DEF session
    <3>3. /\ s = session /\ n = images[session].length /\ images[session].damaged = 0
          /\ n <= UpdateSlot.size /\ in'.state # "NONE" /\ faults' = 0
          /\ sent' <= HeaderSize + n + TagSize
      BY <1>2, <3>1, <3>2 DEF Sound, ImageLength, UnitsOf
    <3>4. in.state # "NONE" /\ faults = 0 /\ sent <= HeaderSize + n + TagSize
      <4>1. faults \in Nat /\ sent \in Nat /\ sent' \in Nat /\ HeaderSize \in Nat /\ TagSize \in Nat
        BY UpdateAssumption DEF TypeInv, TypeOK
      <4> QED BY <3>1, <3>3, <4>1
    <3>5. Parsed(s, n)
      BY <3>3, <3>4 DEF SoundInv, Sound, ImageLength, UnitsOf
    <3>6. n > BufferSize
      BY <3>3, <3>4, PayloadLength
    <3>7. Parsing(s, n)
      BY <3>3, <3>4, <3>5, <3>6 DEF Parsing
    <3>8. CASE Calls
      BY <2>2, <3>3, <3>7, <3>8, CallsSound DEF SoundInv
    <3>9. CASE Reads
      BY <3>7, <3>9, ReadsSound
    <3>10. CASE BinaryFirst \/ BinaryData
      BY <3>3, <3>7, <3>10, WritesSound
    <3>11. CASE UNCHANGED vars
      <4>1. in' = in /\ left' = left /\ sent' = sent /\ place' = place /\ place # "error"
        BY <3>5, <3>11 DEF vars, Parsed
      <4> QED BY <3>5, <4>1, ParsedKept
    <3> QED BY <3>8, <3>9, <3>10, <3>11, StepCases
  <2> QED BY <2>1, <2>2
<1> QED BY <1>1, <1>2 DEF SoundInv

\* image_utils.c:76-187, 203-349, 360-405: with two banks an image that arrives
\* as it was made is accepted, however the calls cut it, once all of it has been
\* handed over and when it is longer than the buffer.
THEOREM SoundIsAcceptedHolds == TwoBanks => (Spec => []SoundIsAccepted)
<1> SUFFICES ASSUME TwoBanks PROVE Spec => []SoundIsAccepted
  OBVIOUS
<1>1. Init => SoundInv
  BY DEF Init, SoundInv, Sound, NoInput
<1>2. UpdateInv => TypeInv /\ Flow
  BY DEF UpdateInv
<1>3. TypeInv /\ TypeInv' /\ Flow /\ SoundInv /\ [Next]_vars => SoundInv'
  BY SoundStep
<1>4. TypeInv /\ SoundInv => SoundIsAccepted
  <2> SUFFICES ASSUME TypeInv, SoundInv, session > 0, place = "app", sent = ImageLength,
                      faults = 0, images[session].damaged = 0,
                      images[session].length + (IF DualBank THEN 0 ELSE HeaderSize + TagSize)
                         <= UpdateSlot.size,
                      in.state # "NONE"
               PROVE  in.state \in {"VALIDATE", "REBOOT"}
    BY DEF SoundIsAccepted
  <2>1. PICK s \in Nat, n \in Nat : s = session /\ n = images[session].length
    BY PayloadLength
  <2>2. Parsed(s, n) /\ left = <<>>
    <3>1. Sound
      BY <2>1 DEF Sound, TwoBanks, TypeInv, TypeOK
    <3> QED BY <2>1, <3>1 DEF SoundInv
  <2>3. got = HeaderSize + n + TagSize
    <3>1. Len(left) = 0 /\ HeaderSize \in Nat /\ TagSize \in Nat
      BY <2>2, UpdateAssumption
    <3> QED BY <2>1, <3>1 DEF got, ImageLength, UnitsOf
  <2>4. HeaderSize \in Nat /\ TagSize \in Nat /\ BufferSize \in Nat /\ InType(in)
    BY UpdateAssumption, TypeParts DEF TypeInv
  <2>5. in.state \notin {"HEADER", "CHECK", "IDLE"}
    BY <2>2, <2>3, <2>4 DEF Parsed, Tagged, InType
  <2>6. in.state # "DATA"
    <3>1. SUFFICES ASSUME in.state = "DATA" PROVE FALSE
      OBVIOUS
    <3>2. PICK w \in Nat, k \in Nat : w = in.written /\ k = Len(in.buffer)
      BY <2>4 DEF InType
    <3>3. HeaderSize + w + k = HeaderSize + n + TagSize /\ ~(w + k >= n)
      BY <2>2, <2>3, <3>1, <3>2 DEF Parsed, Buffered
    <3> QED BY <2>4, <3>3
  <2> QED BY <2>4, <2>5, <2>6 DEF InType
<1> QED BY <1>1, <1>2, <1>3, <1>4, UpdateInvHolds, PTL DEF Spec

-------------------------------------------------------------------------------
(* One bank: what updateFinalize has refused stays without a header        *)

\* What the configuration with one bank keeps to.
OneBank == ~DualBank /\ UpdateSlot.size > 0

\* The slot has no header.
NoHeader == flash[BankOf(UpdateSlot.half)][UpdateSlot.base] = Erased

\* Output is written while a header or a block is received, never behind a
\* refusal.
RefusedInv ==
    /\ mapped \in Banks /\ option \in Banks /\ faults \in Nat
    /\ DOMAIN in = DOMAIN NoInput
    /\ place = "header" => in.state = "HEADER"
    /\ place = "data" => in.state = "DATA"
    /\ (in.state = "IDLE" /\ faults = 0) => NoHeader

\* The erasure of the header takes its first byte.
LEMMA HeaderIsErased ==
    ASSUME OneBank, mapped \in Banks, EraseHeader
    PROVE  NoHeader' /\ UNCHANGED <<mapped, option, faults>>
<1>1. /\ UpdateSlot.base \in Nat /\ UpdateSlot.size \in Nat /\ UpdateSlot.half \in Halves
      /\ UpdateSlot.base + UpdateSlot.size <= BankSize /\ IsSectorAddress(UpdateSlot.base)
      /\ HeaderSize \in Nat /\ HeaderSize > 0
  BY UpdateAssumption DEF Slot
<1>2. UpdateSlot.base \in Offsets /\ SectorStart(UpdateSlot.base) = UpdateSlot.base
  BY <1>1, GeometryAssumption DEF OneBank, Offsets, SectorStart, IsSectorAddress
<1>3. BankOf(UpdateSlot.half) \in Banks
  BY DEF BankOf, Banks
<1>4. /\ flash' = EraseRange(flash, UpdateSlot.half, UpdateSlot.base, HeaderSize)
      /\ UNCHANGED <<mapped, option, faults>>
  BY <1>1 DEF EraseHeader, EraseSlot
<1>5. flash'[BankOf(UpdateSlot.half)][UpdateSlot.base] = Erased
  BY <1>1, <1>2, <1>3, <1>4 DEF EraseRange
<1> QED BY <1>4, <1>5 DEF NoHeader, BankOf

\* Erased or not, updateFinalize or the loop of updateProcess leaves the rest.
LEMMA HeaderIsDropped ==
    ASSUME OneBank, mapped \in Banks, faults \in Nat, DropHeader
    PROVE  /\ UNCHANGED <<mapped, option>> /\ faults' \in Nat
           /\ faults' = 0 => NoHeader'
<1>1. CASE EraseHeader
  BY <1>1, HeaderIsErased
<1>2. CASE EraseHeaderFails
  BY <1>2 DEF EraseHeaderFails, banks
<1> QED BY <1>1, <1>2 DEF DropHeader, OneBank

\* Steps that leave the flash alone.
LEMMA RefusedKept ==
    ASSUME RefusedInv, UNCHANGED <<flash, mapped, option>>, faults' \in Nat, faults' >= faults,
           DOMAIN in' = DOMAIN NoInput, in'.state = "IDLE" => in.state = "IDLE",
           place' = "header" => in'.state = "HEADER", place' = "data" => in'.state = "DATA"
    PROVE  RefusedInv'
<1>1. faults' = 0 => faults = 0
  BY DEF RefusedInv
<1> QED BY <1>1 DEF RefusedInv, NoHeader, BankOf

\* The calls of the application, and a reset.
LEMMA CallsRefused ==
    ASSUME OneBank, RefusedInv,
           \/ UpdateInit \/ \E n \in Lengths : UpdateProcess(n)
           \/ FinalizeValid \/ FinalizeSwapFails \/ FinalizeInvalid \/ FinalizeNotReady \/ Reset
    PROVE  RefusedInv'
<1> USE DEF RefusedInv
<1>1. CASE UpdateInit
  <2>1. DOMAIN in' = DOMAIN NoInput /\ in'.state = "HEADER"
    BY <1>1 DEF UpdateInit, NoInput
  <2> QED BY <1>1, <2>1, RefusedKept DEF UpdateInit, memory, banks
<1>2. CASE \E n \in Lengths : UpdateProcess(n)
  BY <1>2, RefusedKept DEF UpdateProcess, memory, banks
<1>3. CASE FinalizeValid
  <2>1. DOMAIN in' = DOMAIN NoInput /\ in'.state = "REBOOT"
    BY <1>3 DEF FinalizeValid, NoInput
  <2> QED BY <1>3, <2>1, RefusedKept DEF FinalizeValid, Return, OneBank
<1>4. CASE FinalizeSwapFails
  BY <1>4 DEF FinalizeSwapFails, OneBank
<1>5. CASE FinalizeInvalid
  <2>1. DOMAIN in' = DOMAIN NoInput /\ place' = "app" /\ DropHeader
    BY <1>5 DEF FinalizeInvalid, Return
  <2> QED BY <2>1, HeaderIsDropped
<1>6. CASE FinalizeNotReady
  <2>1. UNCHANGED in /\ place' = "app" /\ DropHeader
    BY <1>6 DEF FinalizeNotReady, Return
  <2> QED BY <2>1, HeaderIsDropped
<1>7. CASE Reset
  <2>1. in' = NoInput /\ in'.state = "NONE" /\ place' = "app" /\ UNCHANGED <<option, faults>> /\ mapped' = option
    BY <1>7 DEF Reset, NoInput, Return, ResetMemory, ResetBanks
  <2> QED BY <2>1
<1> QED BY <1>1, <1>2, <1>3, <1>4, <1>5, <1>6, <1>7

\* memoryWriteSlot is called for a header or a block.
LEMMA OutputRefused ==
    ASSUME RefusedInv, place \in {"header", "data"}, UNCHANGED in,
           NEW at, NEW data, NEW flag, NEW rest, NEW o, NEW f,
           WriteOut(at, data, flag, rest, o, f)
    PROVE  RefusedInv'
<1>1. in'.state # "IDLE" /\ (place' = place \/ place' = "error") /\ faults' \in Nat
  BY DEF RefusedInv, WriteOut
<1>2. UNCHANGED <<mapped, option>>
  BY DEF WriteOut, WriteSlot, WriteSlotFails, WriteSlotRefused, WriteSlotStops
<1> QED BY <1>1, <1>2 DEF RefusedInv

\* What imageProcessAppCheck leaves is no refusal.
LEMMA CheckedState ==
    ASSUME NEW i, DOMAIN i = DOMAIN NoInput, i.state # "IDLE"
    PROVE  DOMAIN Checked(i) = DOMAIN NoInput /\ Checked(i).state # "IDLE"
  BY DEF Checked, NoInput

\* The steps of a call.
LEMMA StepRefused ==
    ASSUME OneBank, RefusedInv, Step
    PROVE  RefusedInv'
<1> USE DEF RefusedInv
<1>1. CASE LoopEnds \/ LoopOverflows
  BY <1>1, RefusedKept DEF LoopEnds, LoopOverflows, Return, memory, banks
<1>2. CASE HeaderWait \/ HeaderRefused \/ DataWait \/ WrongState
  <2>1. /\ in' = [in EXCEPT !.buffer = Filled] /\ Stays
        /\ place' \in {"loop", "error"}
    BY <1>2 DEF HeaderWait, HeaderRefused, DataWait, WrongState, Processing
  <2>2. DOMAIN in' = DOMAIN NoInput /\ in'.state = in.state
    BY <2>1 DEF NoInput
  <2> QED BY <2>1, <2>2, RefusedKept DEF Stays, memory, banks
<1>3. CASE HeaderAccepted
  <2>1. in.state = "HEADER" /\ Stays /\ place' = "header"
    BY <1>3 DEF HeaderAccepted, Processing, OneBank
  <2>2. in' = [in EXCEPT !.buffer = Filled, !.length = images[session].length]
    BY <1>3 DEF HeaderAccepted, OneBank
  <2>3. DOMAIN in' = DOMAIN NoInput /\ in'.state = in.state
    BY <2>2 DEF NoInput
  <2> QED BY <2>1, <2>3, RefusedKept DEF Stays, memory, banks
<1>4. CASE DataBlock
  <2>1. in.state = "DATA" /\ Stays
    BY <1>4 DEF DataBlock, Processing
  <2>2. DOMAIN in' = DOMAIN NoInput /\ in'.state = in.state /\ place' = "data"
    BY <1>4 DEF DataBlock, NoInput
  <2> QED BY <2>1, <2>2, RefusedKept DEF Stays, memory, banks
<1>5. CASE FedHeader
  <2>1. Stays /\ place' = "loop" /\ in' = HeaderDone(in)
    BY <1>5 DEF FedHeader
  <2>2. DOMAIN in' = DOMAIN NoInput /\ in'.state = "DATA"
    BY <2>1 DEF HeaderDone, NoInput
  <2> QED BY <2>1, <2>2, RefusedKept DEF Stays, memory, banks
<1>6. CASE CheckBlock
  <2>1. Stays /\ place' \in {"loop", "error"} /\ in.state = "CHECK"
    BY <1>6 DEF CheckBlock, Processing
  <2>2. in' = Checked([in EXCEPT !.buffer = Filled])
    BY <1>6 DEF CheckBlock
  <2>3. DOMAIN [in EXCEPT !.buffer = Filled] = DOMAIN NoInput
        /\ [in EXCEPT !.buffer = Filled].state # "IDLE"
    BY <2>1 DEF NoInput
  <2>4. DOMAIN in' = DOMAIN NoInput /\ in'.state # "IDLE"
    BY <2>2, <2>3, CheckedState
  <2> QED BY <2>1, <2>4, RefusedKept DEF Stays, memory, banks
<1>7. CASE FedData
  <2> DEFINE n == Len(DataIn(in.buffer))
             i == [in EXCEPT !.written = in.written + n, !.buffer = Drop(in.buffer, n),
                             !.state = IF in.written + n = in.length THEN "CHECK" ELSE in.state]
  <2>1. Stays /\ place' \in {"loop", "error"} /\ in.state = "DATA"
    BY <1>7 DEF FedData, Fed
  <2>2. in' = Checked(i) \/ in' = i
    BY <1>7 DEF FedData
  <2>3. DOMAIN i = DOMAIN NoInput /\ i.state # "IDLE"
    BY <2>1 DEF NoInput
  <2> HIDE DEF i
  <2>4. DOMAIN in' = DOMAIN NoInput /\ in'.state # "IDLE"
    BY <2>2, <2>3, CheckedState
  <2> QED BY <2>1, <2>4, RefusedKept DEF Stays, memory, banks
<1>8. CASE ReturnError
  BY <1>8, RefusedKept DEF ReturnError, Return, memory, banks
<1>9. CASE ErrorErased
  <2>1. EraseHeader /\ UNCHANGED in /\ place' = "loop"
    BY <1>9 DEF ErrorErased
  <2> QED BY <2>1, HeaderIsErased
<1>10. CASE ErrorEraseFails
  <2>1. EraseHeaderFails /\ UNCHANGED in /\ place' = "app"
    BY <1>10 DEF ErrorEraseFails, Return
  <2> QED BY <2>1, RefusedKept DEF EraseHeaderFails, banks
<1>11. CASE BinaryFirst \/ BinaryData
  BY <1>11, OutputRefused DEF BinaryFirst, BinaryData, Feeding
<1>12. CASE ImageHeader
  BY <1>12, OutputRefused DEF ImageHeader, Feeding
<1>13. CASE ImageData \/ ImageLast
  BY <1>13, OutputRefused DEF ImageData, ImageLast, Feeding
<1>14. CASE ImageDigest
  BY <1>14, OutputRefused DEF ImageDigest
<1>15. CASE ImageOverruns
  BY <1>15, RefusedKept DEF ImageOverruns, Stays, memory, banks
<1> QED BY <1>1, <1>2, <1>3, <1>4, <1>5, <1>6, <1>7, <1>8, <1>9, <1>10, <1>11, <1>12,
           <1>13, <1>14, <1>15 DEF Step

\* update.c:374-376: with one bank, an image that updateFinalize has refused
\* has no header in the slot, however the calls cut it and whatever is handed
\* over behind the refusal, as long as no operation of the flash has failed.
THEOREM RefusedHasNoHeaderHolds == OneBank => (Spec => []RefusedHasNoHeader)
<1> SUFFICES ASSUME OneBank PROVE Spec => []RefusedHasNoHeader
  OBVIOUS
<1>1. Init => RefusedInv
  BY DEF Init, RefusedInv, NoInput
<1>2. RefusedInv /\ [Next]_vars => RefusedInv'
  <2> SUFFICES ASSUME RefusedInv, [Next]_vars PROVE RefusedInv'
    OBVIOUS
  <2>1. CASE UNCHANGED vars
    BY <2>1 DEF vars, memory, banks, RefusedInv, NoHeader, BankOf
  <2> QED BY <2>1, CallsRefused, StepRefused DEF Next
<1>3. RefusedInv => RefusedHasNoHeader
  BY DEF RefusedInv, NoHeader, RefusedHasNoHeader
<1> QED BY <1>1, <1>2, <1>3, PTL DEF Spec
===============================================================================
