--------------------------- MODULE FirstStageProofs ---------------------------
(***************************************************************************)
(* As long as downloads are whole, the first stage never jumps to anything *)
(* but a whole second stage, and never destroys the last one: for any      *)
(* number of chunks, downloads, power losses and flash errors.  As long as *)
(* the indices fit the uint8_t they are compared in, it installs newer     *)
(* ones only, and jumps to none while a newer one is downloaded.           *)
(***************************************************************************)
EXTENDS FirstStage, TLAPS

BootHeaders == {h \in Headers : h.imgType = "BOOT"}

Copying == place \in {"header", "copy", "remove"}

ImagesOK ==
    /\ bl \in Image /\ app \in Headers /\ slots \in [Slots -> Image]
    /\ downloads \in Nat /\ done \in 0 .. Chunks

\* What a slot announces it has.
SlotsWhole == \A s \in Slots : slots[s].head = NoHeader \/ slots[s] = Whole(slots[s].head)

\* A digest in the slot of the second stage is that of a whole second stage:
\* what updateSecondStageBl computes is the digest of an image in a slot.
DigestSound == bl.crc = NoDigest \/ \E h \in BootHeaders : bl.crc = Digest(h, PayloadOf(h))

\* The copy: what is done of it, and where it comes from.
CopyOK ==
    /\ Copying => update \in Slots /\ slots[update].head.imgType = "BOOT"
    /\ place = "copy" => /\ bl.head = slots[update].head
                         /\ \A c \in 1 .. done : bl.data[c] = slots[update].data[c]

SomeWhole == IsWhole(bl) \/ \E s \in Slots : IsWhole(slots[s])

\* JumpsOnlyWhole is not inductive: the check of the digest says something of
\* the data only because of what the digest was computed from.
FirstInv ==
    /\ ImagesOK /\ SlotsWhole /\ DigestSound /\ CopyOK
    /\ place \in {"remove", "second", "app"} => IsWhole(bl)
    /\ SomeWhole

\* Whole images are images (image.h:160-192), and NoHeader is no header of one.
LEMMA WholeImages ==
    /\ NoHeader \in Headers
    /\ \A h \in Headers : Whole(h) \in Image /\ Whole(h).head = h
    /\ \A h \in Headers : PayloadOf(h) \in [1 .. Chunks -> Cells]
    /\ NoDigest \in [head : Headers, data : [1 .. Chunks -> Cells]]
    /\ Empty \in Image
<1>1. NoHeader \in Headers
  BY DEF NoHeader, Header, Headers
<1>2. \A h \in Headers : PayloadOf(h) \in [1 .. Chunks -> Cells]
  BY FirstStageAssumption DEF PayloadOf, Cells, Headers
<1>3. \A h \in Headers : Whole(h) \in Image /\ Whole(h).head = h
  BY <1>2 DEF Whole, Image, Digest
<1>4. [c \in 1 .. Chunks |-> Blank] \in [1 .. Chunks -> Cells]
  BY DEF Cells
<1> QED BY <1>1, <1>2, <1>3, <1>4 DEF NoDigest, Empty, Digest, Image

\* The erasure of the first sector leaves an image without a header.
LEMMA FirstErasedFacts ==
    ASSUME NEW slot \in Image
    PROVE  /\ FirstErased(slot) \in Image
           /\ FirstErased(slot).head = NoHeader
           /\ FirstErased(slot).crc = slot.crc
<1>1. [c \in 1 .. Chunks |-> IF c <= FirstChunks THEN Blank ELSE slot.data[c]]
        \in [1 .. Chunks -> Cells]
  BY DEF Image, Cells
<1> QED BY <1>1, WholeImages DEF FirstErased, Image

\* checkForSecondStageBlUpdate (boot.c:196-233): what it finds is a slot with a
\* second stage, or none.
LEMMA FoundIsBoot ==
    Found # 0 => Found \in Slots /\ slots[Found].head.imgType = "BOOT"
<1>1. 1 \in Slots /\ (NbSlots = 2 => 2 \in Slots)
  BY FirstStageAssumption DEF Slots
<1> QED BY <1>1 DEF Found, FoundFirst, Newer

\* The initial states.
LEMMA FirstInit == Init => FirstInv
<1> SUFFICES ASSUME Init PROVE FirstInv
  OBVIOUS
<1>1. PICK i \in FirstIndices, j \in FirstIndices :
         bl = Whole(Header(1, i, "BOOT")) /\ app = Header(2, j, "APP")
  BY DEF Init
<1>2. /\ slots = [s \in Slots |-> Empty] /\ place = "reset" /\ done = 0 /\ downloads = 0
  BY DEF Init
<1> DEFINE h == Header(1, i, "BOOT")
<1>3. h \in BootHeaders /\ h \in Headers /\ app \in Headers
  <2>1. i \in Int /\ j \in Int
    BY FirstStageAssumption
  <2> QED BY <1>1, <2>1 DEF Header, Headers, BootHeaders
<1>4. bl.head = h /\ bl.crc = Digest(h, PayloadOf(h)) /\ h.imgType = "BOOT"
  BY <1>1 DEF Whole, Header
<1>5. IsWhole(bl)
  BY <1>1, <1>4 DEF IsWhole
<1>6. ImagesOK
  BY <1>1, <1>2, <1>3, WholeImages, FirstStageAssumption DEF ImagesOK
<1>7. SlotsWhole
  BY <1>2 DEF SlotsWhole, Empty
<1> HIDE DEF h
<1> QED BY <1>2, <1>3, <1>4, <1>5, <1>6, <1>7
        DEF FirstInv, DigestSound, CopyOK, Copying, SomeWhole

\* bootFsm, up to the jump: reading headers, the copy, the check.
LEMMA FirstStageSteps ==
    ASSUME FirstInv
    PROVE  /\ NoSecondStage => FirstInv'
           /\ CheckForUpdate => FirstInv'
           /\ CopyHeader => FirstInv'
           /\ CopyChunk => FirstInv'
           /\ CopyDigest => FirstInv'
           /\ RemoveHeader => FirstInv'
           /\ CheckImage => FirstInv'
<1> USE DEF FirstInv
<1>1. ASSUME NoSecondStage PROVE FirstInv'
  BY <1>1 DEF NoSecondStage, ImagesOK, SlotsWhole, DigestSound, CopyOK, Copying,
              SomeWhole, IsWhole
<1>2. ASSUME CheckForUpdate PROVE FirstInv'
  <2>1. /\ update' = Found /\ place' = IF Found = 0 THEN "check" ELSE "header"
        /\ UNCHANGED <<bl, app, slots, done, downloads, cut, faults>>
    BY <1>2 DEF CheckForUpdate
  <2>2. CopyOK'
    BY <2>1, FoundIsBoot DEF CopyOK, Copying
  <2> QED BY <2>1, <2>2 DEF ImagesOK, SlotsWhole, DigestSound, SomeWhole, IsWhole
\* While it is copied the image in the slot is a whole second stage.
<1>3. ASSUME Copying
      PROVE  /\ update \in Slots /\ slots[update] \in Image
             /\ slots[update].head \in BootHeaders
             /\ slots[update] = Whole(slots[update].head)
             /\ IsWhole(slots[update])
  <2>1. update \in Slots /\ slots[update].head.imgType = "BOOT" /\ slots[update] \in Image
    BY <1>3 DEF CopyOK, ImagesOK
  <2>2. slots[update].head # NoHeader
    BY <2>1 DEF NoHeader, Header
  <2> QED BY <2>1, <2>2 DEF SlotsWhole, IsWhole, BootHeaders, Image
<1>4. ASSUME CopyHeader PROVE FirstInv'
  <2>1. PICK e : e = FirstErased(bl)
    OBVIOUS
  <2>2. e \in Image /\ e.crc = bl.crc
    BY <2>1, FirstErasedFacts DEF ImagesOK
  <2>3. /\ bl' = [e EXCEPT !.head = slots[update].head] /\ done' = 0 /\ place' = "copy"
        /\ Copying /\ UNCHANGED <<app, slots, update, downloads, cut, faults>>
    BY <1>4, <2>1 DEF CopyHeader, Copying
  <2>4. bl' \in Image /\ bl'.head = slots[update].head /\ bl'.crc = bl.crc
    BY <1>3, <2>2, <2>3 DEF Image, BootHeaders
  <2>5. ImagesOK'
    BY <2>3, <2>4, FirstStageAssumption DEF ImagesOK
  <2>6. CopyOK'
    BY <1>3, <2>3, <2>4 DEF CopyOK, Copying
  <2>7. SomeWhole'
    BY <1>3, <2>3 DEF SomeWhole, IsWhole
  <2> QED BY <2>3, <2>4, <2>5, <2>6, <2>7 DEF SlotsWhole, DigestSound
<1>5. ASSUME CopyChunk PROVE FirstInv'
  <2>1. /\ done < LoopChunks /\ Copying /\ place = "copy"
        /\ bl' = [bl EXCEPT !.data[done + 1] = slots[update].data[done + 1]]
        /\ done' = done + 1
        /\ UNCHANGED <<app, slots, place, update, downloads, cut, faults>>
    BY <1>5 DEF CopyChunk, Copying
  <2>2. done + 1 \in 1 .. Chunks
    BY <2>1, FirstStageAssumption DEF ImagesOK, LoopChunks
  <2>3. slots[update].data[done + 1] \in Cells
    BY <1>3, <2>1, <2>2 DEF Image
  <2>4. bl' \in Image /\ bl'.head = bl.head /\ bl'.crc = bl.crc
    BY <2>1, <2>2, <2>3 DEF ImagesOK, Image
  <2>5. ImagesOK'
    BY <2>1, <2>2, <2>4 DEF ImagesOK
  <2>6. ASSUME NEW c \in 1 .. done + 1 PROVE bl'.data[c] = slots[update].data[c]
    <3>0. done \in Nat /\ Chunks \in Nat
      BY FirstStageAssumption DEF ImagesOK
    <3>1. c \in 1 .. Chunks /\ (c = done + 1 \/ c \in 1 .. done)
      <4>1. c \in Int /\ 1 <= c /\ c <= done + 1 /\ done + 1 <= Chunks
        BY <2>2, <2>6, <3>0
      <4> QED BY <3>0, <4>1
    <3>2. bl'.data[c] = IF c = done + 1 THEN slots[update].data[done + 1] ELSE bl.data[c]
      BY <2>1, <3>1 DEF ImagesOK, Image
    <3> QED BY <2>1, <3>1, <3>2 DEF CopyOK
  <2>7. CopyOK'
    BY <1>3, <2>1, <2>4, <2>6 DEF CopyOK, Copying
  <2>8. SomeWhole'
    BY <1>3, <2>1 DEF SomeWhole, IsWhole
  <2> QED BY <2>1, <2>4, <2>5, <2>7, <2>8 DEF SlotsWhole, DigestSound
<1>6. ASSUME CopyDigest PROVE FirstInv'
  <2> DEFINE u == slots[update]
  <2>1. /\ done = LoopChunks /\ Copying /\ place = "copy" /\ place' = "remove"
        /\ bl' = [bl EXCEPT !.data[Chunks] = u.data[Chunks], !.crc = Digest(u.head, u.data)]
        /\ UNCHANGED <<app, slots, update, done, downloads, cut, faults>>
    BY <1>6 DEF CopyDigest, NewDigest, Copying
  <2>2. /\ u \in Image /\ u.head \in BootHeaders /\ u.head \in Headers
        /\ u = Whole(u.head) /\ u.data = PayloadOf(u.head)
    BY <1>3, <2>1 DEF BootHeaders, Whole
  <2>3. bl.head = u.head /\ \A c \in 1 .. done : bl.data[c] = u.data[c]
    BY <2>1 DEF CopyOK
  <2> HIDE DEF u
  <2>4. Chunks \in 1 .. Chunks /\ done >= Chunks - 1 /\ done \in Nat
    BY <2>1, FirstStageAssumption DEF LoopChunks
  <2>5. bl.data \in [1 .. Chunks -> Cells] /\ u.data \in [1 .. Chunks -> Cells]
    BY <2>2 DEF ImagesOK, Image
  <2>6. bl'.head = u.head /\ bl'.crc = Digest(u.head, u.data)
        /\ bl'.data = [bl.data EXCEPT ![Chunks] = u.data[Chunks]]
    BY <2>1, <2>3 DEF ImagesOK, Image
  <2>7. bl'.data = u.data
    <3>1. \A c \in 1 .. Chunks : bl'.data[c] = u.data[c]
      BY <2>3, <2>4, <2>5, <2>6
    <3> QED BY <2>5, <2>6, <3>1
  <2>8. bl' = Whole(u.head)
    BY <2>1, <2>2, <2>6, <2>7 DEF Whole, ImagesOK, Image
  <2>9. bl' \in Image /\ IsWhole(bl')
    BY <2>2, <2>6, <2>8, WholeImages DEF IsWhole, BootHeaders
  <2>10. ImagesOK'
    BY <2>1, <2>9 DEF ImagesOK
  <2>11. DigestSound'
    BY <2>2, <2>6 DEF DigestSound
  <2>12. CopyOK'
    BY <1>3, <2>1 DEF CopyOK, Copying, BootHeaders
  <2> QED BY <2>1, <2>9, <2>10, <2>11, <2>12 DEF SlotsWhole, SomeWhole
<1>7. ASSUME RemoveHeader PROVE FirstInv'
  <2>1. PICK e : e = FirstErased(slots[update])
    OBVIOUS
  <2>2. /\ slots' = [slots EXCEPT ![update] = e] /\ place' = "check" /\ place = "remove"
        /\ Copying /\ UNCHANGED <<bl, app, update, done, downloads, cut, faults>>
    BY <1>7, <2>1 DEF RemoveHeader, Copying
  <2>3. e \in Image /\ e.head = NoHeader
    BY <1>3, <2>1, <2>2, FirstErasedFacts
  <2>4. ImagesOK' /\ SlotsWhole'
    BY <2>2, <2>3 DEF ImagesOK, SlotsWhole
  <2>5. IsWhole(bl)'
    BY <2>2 DEF IsWhole
  <2> QED BY <2>2, <2>4, <2>5 DEF DigestSound, CopyOK, Copying, SomeWhole
<1>8. ASSUME CheckImage PROVE FirstInv'
  <2>1. /\ place' = IF Checked THEN "second" ELSE "failed"
        /\ UNCHANGED <<bl, app, slots, update, done, downloads, cut, faults>>
    BY <1>8 DEF CheckImage
  <2>2. Checked => IsWhole(bl)
    <3> SUFFICES ASSUME Checked PROVE IsWhole(bl)
      OBVIOUS
    <3>1. bl.head # NoHeader /\ bl.crc = Digest(bl.head, bl.data)
      BY DEF Checked
    <3>2. bl.crc.head = bl.head /\ bl.crc.data = bl.data
      BY <3>1 DEF Digest
    <3>3. bl.crc # NoDigest
      BY <3>1, <3>2 DEF NoDigest, Digest
    <3>4. PICK h \in BootHeaders : bl.crc = Digest(h, PayloadOf(h))
      BY <3>3 DEF DigestSound
    <3>5. h = bl.head /\ PayloadOf(h) = bl.data
      BY <3>2, <3>4 DEF Digest
    <3>6. bl = Whole(bl.head)
      BY <3>1, <3>5 DEF Whole, ImagesOK, Image
    <3> QED BY <3>4, <3>5, <3>6 DEF IsWhole, BootHeaders
  <2> QED BY <2>1, <2>2 DEF ImagesOK, SlotsWhole, DigestSound, CopyOK, Copying,
              SomeWhole, IsWhole
<1> QED BY <1>1, <1>2, <1>4, <1>5, <1>6, <1>7, <1>8

\* A fault in the middle of a write; the second stage and the application.
LEMMA OtherSteps ==
    ASSUME FirstInv
    PROVE  /\ \A to \in {"failed", "reset"} : Fault(to) => FirstInv'
           /\ RunApp => FirstInv'
           /\ UpdateApp => FirstInv'
           /\ \A type \in {"BOOT", "APP"} : Download(type, Chunks) => FirstInv'
           /\ Reset => FirstInv'
           /\ UNCHANGED vars => FirstInv'
<1> USE DEF FirstInv
<1>1. ASSUME NEW to \in {"failed", "reset"}, Fault(to) PROVE FirstInv'
  <2>1. /\ Copying /\ TornCopy /\ place' = to /\ UNCHANGED <<app, update, done, downloads, cut>>
    BY <1>1 DEF Fault, Copying
  <2>2. /\ update \in Slots /\ slots[update] \in Image /\ IsWhole(slots[update])
    <3>1. update \in Slots /\ slots[update].head.imgType = "BOOT" /\ slots[update] \in Image
      BY <2>1 DEF CopyOK, ImagesOK
    <3>2. slots[update].head # NoHeader
      BY <3>1 DEF NoHeader, Header
    <3> QED BY <3>1, <3>2 DEF SlotsWhole, IsWhole
  <2>3. ~Copying' /\ place' \notin {"copy", "remove", "second", "app"}
    BY <2>1 DEF Copying
  <2>4. CASE UNCHANGED <<bl, slots>>
    BY <2>1, <2>3, <2>4 DEF ImagesOK, SlotsWhole, DigestSound, CopyOK, SomeWhole, IsWhole
  <2>5. CASE place = "header" /\ bl' = FirstErased(bl) /\ UNCHANGED slots
    <3>1. bl' \in Image /\ bl'.crc = bl.crc
      BY <2>5, FirstErasedFacts DEF ImagesOK
    <3>2. SomeWhole'
      BY <2>2, <2>5 DEF SomeWhole, IsWhole
    <3> QED BY <2>1, <2>3, <2>5, <3>1, <3>2 DEF ImagesOK, SlotsWhole, DigestSound, CopyOK
  <2>6. CASE /\ place = "copy"
             /\ bl' = IF done < LoopChunks THEN [bl EXCEPT !.data[done + 1] = Blank]
                      ELSE [bl EXCEPT !.data[Chunks] = Blank, !.crc = NoDigest]
             /\ UNCHANGED slots
    <3>1. bl' \in Image /\ bl'.crc \in {bl.crc, NoDigest}
      <4>1. Blank \in Cells
        BY DEF Cells
      <4>2. CASE done < LoopChunks
        <5>1. bl' = [bl EXCEPT !.data[done + 1] = Blank]
          BY <2>6, <4>2
        <5> QED BY <4>1, <5>1 DEF ImagesOK, Image
      <4>3. CASE ~(done < LoopChunks)
        <5>1. bl' = [bl EXCEPT !.data[Chunks] = Blank, !.crc = NoDigest]
          BY <2>6, <4>3
        <5> QED BY <4>1, <5>1, WholeImages DEF ImagesOK, Image
      <4> QED BY <4>2, <4>3
    <3>2. SomeWhole'
      BY <2>2, <2>6 DEF SomeWhole, IsWhole
    <3> QED BY <2>1, <2>3, <2>6, <3>1, <3>2 DEF ImagesOK, SlotsWhole, DigestSound, CopyOK
  <2>7. CASE place = "remove" /\ slots' = [slots EXCEPT ![update] = FirstErased(@)] /\ UNCHANGED bl
    <3>1. PICK e : e = FirstErased(slots[update])
      OBVIOUS
    <3>2. e \in Image /\ e.head = NoHeader /\ slots' = [slots EXCEPT ![update] = e]
      BY <2>2, <2>7, <3>1, FirstErasedFacts
    <3>3. ImagesOK' /\ SlotsWhole'
      BY <2>1, <2>7, <3>2 DEF ImagesOK, SlotsWhole
    <3> QED BY <2>1, <2>3, <2>7, <3>3 DEF DigestSound, CopyOK, SomeWhole, IsWhole
  <2> QED BY <2>1, <2>4, <2>5, <2>6, <2>7 DEF TornCopy
<1>2. ASSUME RunApp PROVE FirstInv'
  BY <1>2 DEF RunApp, ImagesOK, SlotsWhole, DigestSound, CopyOK, Copying,
              SomeWhole, IsWhole
<1>3. ASSUME UpdateApp PROVE FirstInv'
  <2>1. PICK s \in Slots : app' = slots[s].head
    BY <1>3 DEF UpdateApp, Preferred
  <2>2. app' \in Headers
    BY <2>1 DEF ImagesOK, Image
  <2> QED BY <1>3, <2>2 DEF UpdateApp, ImagesOK, SlotsWhole, DigestSound, CopyOK, Copying,
              SomeWhole, IsWhole
<1>4. ASSUME NEW type \in {"BOOT", "APP"}, Download(type, Chunks) PROVE FirstInv'
  <2>1. PICK h : h = Header(downloads + 3, app.imgIndex + 1, type)
    OBVIOUS
  <2>2. h \in Headers
    BY <2>1 DEF Header, Headers, ImagesOK
  <2>3. PICK image : image = Whole(h)
    OBVIOUS
  <2>4. image \in Image /\ image.head = h /\ image = Whole(image.head)
    BY <2>2, <2>3, WholeImages
  <2>5. /\ slots' = [slots EXCEPT ![UpdateSlot] = image] /\ place = "app" /\ place' = "reset"
        /\ downloads' = downloads + 1 /\ UNCHANGED <<bl, app, update, done, faults>>
    BY <1>4, <2>1, <2>3 DEF Download
  <2>6. /\ slots' \in [Slots -> Image]
        /\ \A s \in Slots : slots'[s] = image \/ slots'[s] = slots[s]
    BY <2>4, <2>5 DEF ImagesOK
  <2>7. ImagesOK'
    <3>1. downloads' \in Nat
      BY <2>5 DEF ImagesOK
    <3> QED BY <2>5, <2>6, <3>1 DEF ImagesOK
  <2>8. SlotsWhole'
    BY <2>4, <2>6 DEF SlotsWhole
  <2> QED BY <2>5, <2>7, <2>8 DEF DigestSound, CopyOK, Copying, SomeWhole, IsWhole
<1>5. ASSUME Reset PROVE FirstInv'
  BY <1>5 DEF Reset, ImagesOK, SlotsWhole, DigestSound, CopyOK, Copying,
              SomeWhole, IsWhole
<1>6. ASSUME UNCHANGED vars PROVE FirstInv'
  BY <1>6 DEF vars, ImagesOK, SlotsWhole, DigestSound, CopyOK, Copying,
              SomeWhole, IsWhole
<1> QED BY <1>1, <1>2, <1>3, <1>4, <1>5, <1>6

\* Once a download has been cut off it stays on record.
LEMMA CutStays == [Next]_vars /\ ~cut' => ~cut
BY DEF Next, Boot, NoSecondStage, CheckForUpdate, CopyHeader, CopyChunk, CopyDigest,
       RemoveHeader, CheckImage, RunApp, UpdateApp, Download, Reset, FlashError,
       PowerLoss, Fault, vars

\* The invariant holds as long as no download is cut off.
LEMMA FirstInvariant == Spec => [](~cut => FirstInv)
<1>1. Init => (~cut => FirstInv)
  BY FirstInit
<1>2. (~cut => FirstInv) /\ [Next]_vars => (~cut => FirstInv)'
  <2> SUFFICES ASSUME ~cut => FirstInv, [Next]_vars, ~cut' PROVE FirstInv'
    OBVIOUS
  <2>1. ~cut /\ FirstInv
    BY CutStays
  <2>2. ASSUME NEW type \in {"BOOT", "APP"}, NEW n \in 0 .. Chunks, Download(type, n)
        PROVE  FirstInv'
    <3>1. cut' = (cut \/ n < Chunks)
      BY <2>2 DEF Download
    <3>2. ~(n < Chunks)
      BY <3>1, Zenon
    <3>3. n = Chunks
      BY <3>2, FirstStageAssumption
    <3> QED BY <2>1, <2>2, <3>3, OtherSteps
  <2> QED BY <2>1, <2>2, FirstStageSteps, OtherSteps
          DEF Next, Boot, FlashError, PowerLoss
<1> QED BY <1>1, <1>2, PTL DEF Spec

\* boot.c:106-117: unless a download was cut off, the first stage jumps to a
\* whole second stage only, for any number of power losses and flash errors.
THEOREM FirstStageJumpsOnlyWhole == Spec => []JumpsOnlyWhole
<1>1. (~cut => FirstInv) => JumpsOnlyWhole
  BY DEF FirstInv, JumpsOnlyWhole
<1> QED BY <1>1, FirstInvariant, PTL

\* boot.c:384-390: unless a download was cut off, the last whole second stage is
\* never destroyed.
THEOREM FirstStageKeepsOne == Spec => []SecondStageSomewhere
<1>1. (~cut => FirstInv) => SecondStageSomewhere
  BY DEF FirstInv, SomeWhole, SecondStageSomewhere
<1> QED BY <1>1, FirstInvariant, PTL

-------------------------------------------------------------------------------
(* Types, and the order of the indices, whatever is downloaded.            *)

\* bootFsm, up to the jump, keeps the types.
LEMMA FirstStageTypeSteps ==
    ASSUME TypeOK
    PROVE  /\ NoSecondStage => TypeOK'
           /\ CheckForUpdate => TypeOK'
           /\ CopyHeader => TypeOK'
           /\ CopyChunk => TypeOK'
           /\ CopyDigest => TypeOK'
           /\ RemoveHeader => TypeOK'
           /\ CheckImage => TypeOK'
<1>1. NoSecondStage => TypeOK'
  BY DEF NoSecondStage, TypeOK
<1>2. CheckForUpdate => TypeOK'
  <2>1. Found \in 0 .. NbSlots
    BY FirstStageAssumption DEF Found, FoundFirst
  <2> QED BY <2>1 DEF CheckForUpdate, TypeOK
\* What is copied is in a slot.
<1>3. ASSUME place \in {"header", "copy", "remove"}
      PROVE  update \in Slots /\ slots[update] \in Image
  BY <1>3, FirstStageAssumption DEF TypeOK, Slots
<1>4. ASSUME CopyHeader PROVE TypeOK'
  <2>1. PICK e : e = FirstErased(bl)
    OBVIOUS
  <2>2. e \in Image
    BY <2>1, FirstErasedFacts DEF TypeOK
  <2>3. /\ bl' = [e EXCEPT !.head = slots[update].head] /\ done' = 0
        /\ place = "header" /\ place' = "copy"
        /\ UNCHANGED <<app, slots, update, downloads, cut, faults>>
    BY <1>4, <2>1 DEF CopyHeader
  <2>4. slots[update].head \in Headers
    BY <1>3, <2>3 DEF Image
  <2>5. bl' \in Image
    BY <2>2, <2>3, <2>4 DEF Image
  <2> QED BY <2>3, <2>5, FirstStageAssumption DEF TypeOK
<1>5. ASSUME CopyChunk PROVE TypeOK'
  <2>1. /\ done < LoopChunks /\ place = "copy"
        /\ bl' = [bl EXCEPT !.data[done + 1] = slots[update].data[done + 1]]
        /\ done' = done + 1
        /\ UNCHANGED <<app, slots, place, update, downloads, cut, faults>>
    BY <1>5 DEF CopyChunk
  <2>2. done + 1 \in 1 .. Chunks
    BY <2>1, FirstStageAssumption DEF TypeOK, LoopChunks
  <2>3. slots[update].data[done + 1] \in Cells
    BY <1>3, <2>1, <2>2 DEF Image
  <2>4. bl' \in Image
    BY <2>1, <2>2, <2>3 DEF TypeOK, Image
  <2> QED BY <2>1, <2>2, <2>4 DEF TypeOK
<1>6. ASSUME CopyDigest PROVE TypeOK'
  <2> DEFINE u == slots[update]
  <2>1. /\ place = "copy" /\ place' = "remove"
        /\ bl' = [bl EXCEPT !.data[Chunks] = u.data[Chunks], !.crc = Digest(u.head, u.data)]
        /\ UNCHANGED <<app, slots, update, done, downloads, cut, faults>>
    BY <1>6 DEF CopyDigest, NewDigest
  <2>2. u \in Image
    BY <1>3, <2>1
  <2> HIDE DEF u
  <2>3. Digest(u.head, u.data) \in [head : Headers, data : [1 .. Chunks -> Cells]]
        /\ u.data[Chunks] \in Cells
    BY <2>2, FirstStageAssumption DEF Image, Digest
  <2>4. bl' \in Image
    BY <2>1, <2>3 DEF TypeOK, Image
  <2> QED BY <1>3, <2>1, <2>4 DEF TypeOK
<1>7. ASSUME RemoveHeader PROVE TypeOK'
  <2>1. PICK e : e = FirstErased(slots[update])
    OBVIOUS
  <2>2. /\ slots' = [slots EXCEPT ![update] = e] /\ place' = "check" /\ place = "remove"
        /\ UNCHANGED <<bl, app, update, done, downloads, cut, faults>>
    BY <1>7, <2>1 DEF RemoveHeader
  <2>3. e \in Image
    BY <1>3, <2>1, <2>2, FirstErasedFacts
  <2> QED BY <2>2, <2>3 DEF TypeOK
<1>8. CheckImage => TypeOK'
  BY DEF CheckImage, TypeOK
<1> QED BY <1>1, <1>2, <1>4, <1>5, <1>6, <1>7, <1>8

\* So do the faults, the second stage and the application; a download may be
\* cut off.
LEMMA OtherTypeSteps ==
    ASSUME TypeOK
    PROVE  /\ \A to \in {"failed", "reset"} : Fault(to) => TypeOK'
           /\ RunApp => TypeOK'
           /\ UpdateApp => TypeOK'
           /\ \A type \in {"BOOT", "APP"}, n \in 0 .. Chunks : Download(type, n) => TypeOK'
           /\ Reset => TypeOK'
           /\ UNCHANGED vars => TypeOK'
<1>0. Blank \in Cells
  BY DEF Cells
<1>1. ASSUME NEW to \in {"failed", "reset"}, Fault(to) PROVE TypeOK'
  <2>1. /\ place \in {"header", "copy", "remove"} /\ TornCopy /\ place' = to
        /\ UNCHANGED <<app, update, done, downloads, cut>>
        /\ faults' \in 0 .. MaxFaults
    BY <1>1, FirstStageAssumption DEF Fault, TypeOK
  <2>2. update \in Slots /\ slots[update] \in Image
    BY <2>1, FirstStageAssumption DEF TypeOK, Slots
  <2>3. bl' \in Image /\ slots' \in [Slots -> Image]
    <3>0. bl \in Image /\ slots \in [Slots -> Image]
      BY DEF TypeOK
    <3>1. CASE UNCHANGED <<bl, slots>>
      BY <3>0, <3>1
    <3>2. CASE place = "header" /\ bl' = FirstErased(bl) /\ UNCHANGED slots
      BY <3>0, <3>2, FirstErasedFacts
    <3>3. CASE /\ place = "copy"
               /\ bl' = IF done < LoopChunks THEN [bl EXCEPT !.data[done + 1] = Blank]
                        ELSE [bl EXCEPT !.data[Chunks] = Blank, !.crc = NoDigest]
               /\ UNCHANGED slots
      <4>1. CASE done < LoopChunks
        <5>1. bl' = [bl EXCEPT !.data[done + 1] = Blank]
          BY <3>3, <4>1
        <5>2. slots' = slots
          BY <3>3
        <5>3. bl' \in Image
          BY ONLY <1>0, <3>0, <5>1 DEF Image
        <5> QED BY <3>0, <5>2, <5>3
      <4>2. CASE ~(done < LoopChunks)
        <5>1. bl' = [bl EXCEPT !.data[Chunks] = Blank, !.crc = NoDigest]
          BY <3>3, <4>2
        <5>2. slots' = slots
          BY <3>3
        <5>3. bl' \in Image
          BY ONLY <1>0, <3>0, <5>1, WholeImages DEF Image
        <5> QED BY <3>0, <5>2, <5>3
      <4> QED BY <4>1, <4>2
    <3>4. CASE place = "remove" /\ slots' = [slots EXCEPT ![update] = FirstErased(@)] /\ UNCHANGED bl
      <4>1. PICK e : e = FirstErased(slots[update])
        OBVIOUS
      <4>2. e \in Image /\ slots' = [slots EXCEPT ![update] = e]
        BY <2>2, <3>4, <4>1, FirstErasedFacts
      <4> QED BY <3>0, <3>4, <4>2
    <3> QED BY <2>1, <3>1, <3>2, <3>3, <3>4 DEF TornCopy
  <2> QED BY <2>1, <2>3 DEF TypeOK
<1>2. RunApp => TypeOK'
  BY DEF RunApp, TypeOK
<1>3. ASSUME UpdateApp PROVE TypeOK'
  <2>1. PICK s \in Slots : app' = slots[s].head
    BY <1>3 DEF UpdateApp, Preferred
  <2>2. app' \in Headers
    BY <2>1 DEF TypeOK, Image
  <2> QED BY <1>3, <2>2 DEF UpdateApp, TypeOK
<1>4. ASSUME NEW type \in {"BOOT", "APP"}, NEW n \in 0 .. Chunks, Download(type, n)
      PROVE  TypeOK'
  <2>1. PICK h : h = Header(downloads + 3, app.imgIndex + 1, type)
    OBVIOUS
  <2>2. h \in Headers
    BY <2>1 DEF Header, Headers, TypeOK
  <2>3. PICK whole : whole = Whole(h)
    OBVIOUS
  <2>4. PICK cutOff : cutOff =
            [whole EXCEPT !.crc = NoDigest,
                          !.data = [c \in 1 .. Chunks |-> IF c <= n THEN whole.data[c] ELSE Blank]]
    OBVIOUS
  <2>5. whole \in Image
    BY <2>2, <2>3, WholeImages
  <2>6. cutOff \in Image
    <3>1. [c \in 1 .. Chunks |-> IF c <= n THEN whole.data[c] ELSE Blank] \in [1 .. Chunks -> Cells]
      BY <1>0, <2>5 DEF Image
    <3> QED BY <2>4, <2>5, <3>1, WholeImages DEF Image
  <2>7. /\ slots' = [slots EXCEPT ![UpdateSlot] = IF n = Chunks THEN whole ELSE cutOff]
        /\ downloads < MaxDownloads /\ downloads' = downloads + 1
        /\ cut' = (cut \/ n < Chunks)
        /\ place' = "reset" /\ UNCHANGED <<bl, app, update, done, faults>>
    BY <1>4, <2>1, <2>3, <2>4 DEF Download
  <2>8. slots' \in [Slots -> Image]
    BY <2>5, <2>6, <2>7 DEF TypeOK
  <2>9. cut' \in BOOLEAN
    BY <2>7, Zenon
  <2>10. downloads' \in 0 .. MaxDownloads
    BY <2>7, FirstStageAssumption DEF TypeOK
  <2> QED BY <2>7, <2>8, <2>9, <2>10 DEF TypeOK
<1>5. Reset => TypeOK'
  BY DEF Reset, TypeOK
<1>6. UNCHANGED vars => TypeOK'
  BY DEF vars, TypeOK
<1> QED BY <1>1, <1>2, <1>3, <1>4, <1>5, <1>6

\* The initial states have the types.
LEMMA FirstStageInitTypes == Init => TypeOK
<1> SUFFICES ASSUME Init PROVE TypeOK
  OBVIOUS
<1>1. PICK i \in FirstIndices, j \in FirstIndices :
         bl = Whole(Header(1, i, "BOOT")) /\ app = Header(2, j, "APP")
  BY DEF Init
<1>2. PICK h : h = Header(1, i, "BOOT")
  OBVIOUS
<1>3. h \in Headers /\ app \in Headers
  BY <1>1, <1>2, FirstStageAssumption DEF Header, Headers
<1>4. bl \in Image /\ Empty \in Image
  BY <1>1, <1>2, <1>3, WholeImages
<1>5. /\ slots = [s \in Slots |-> Empty]
      /\ place = "reset" /\ update = 0 /\ done = 0
      /\ downloads = 0 /\ cut = FALSE /\ faults = 0
  BY DEF Init
<1>6. slots \in [Slots -> Image]
  BY <1>4, <1>5
<1>7. 0 \in 0 .. NbSlots /\ 0 \in 0 .. Chunks /\ 0 \in 0 .. MaxDownloads /\ 0 \in 0 .. MaxFaults
  BY FirstStageAssumption
<1> QED BY <1>3, <1>4, <1>5, <1>6, <1>7 DEF TypeOK

\* boot.c:262-275, 300-345: types; update_address is that of a slot while
\* something is copied from it, and the copy stays within the image, whatever
\* is downloaded and wherever it is cut off.
THEOREM FirstStageTypes == Spec => []TypeOK
<1>1. TypeOK /\ [Next]_vars => TypeOK'
  BY FirstStageTypeSteps, OtherTypeSteps DEF Next, Boot, FlashError, PowerLoss
<1> QED BY <1>1, FirstStageInitTypes, PTL DEF Spec

-------------------------------------------------------------------------------
(* The newest second stage, as long as no index overflows.                 *)

\* The index of no image the updater makes outgrows the uint8_t that getSecondStageBlIndex
\* and checkForSecondStageBlUpdate (boot.c:160, 191-199) compare with.
IndicesFit == \A i \in FirstIndices : i + MaxDownloads < IndexSize

\* The index of a header leaves room for those of the downloads to come.
Leaves(h) == h.imgIndex + (MaxDownloads - downloads) < IndexSize

\* No image has outgrown it so far.
RoomLeft ==
    /\ app.imgIndex >= 0 /\ Leaves(app)
    /\ bl.head = NoHeader \/ (bl.head.imgIndex >= 0 /\ Leaves(bl.head))
    /\ \A s \in Slots : slots[s].head = NoHeader
                        \/ (slots[s].head.imgIndex >= 0 /\ Leaves(slots[s].head))

\* No second stage in a download slot has an index above i.
NoneAbove(i) ==
    \A s \in Slots : slots[s].head.imgType = "BOOT" => slots[s].head.imgIndex <= i

\* RunsNewest, on the way to the jump: what is copied is newer than what is in
\* place, and nothing is newer than what is copied.
NewestInv ==
    /\ TypeOK /\ RoomLeft
    /\ place = "header" => /\ slots[update].head.imgIndex > bl.head.imgIndex
                           /\ NoneAbove(slots[update].head.imgIndex)
    /\ place \in {"copy", "remove"} => bl.head = slots[update].head
    /\ place \in {"copy", "remove", "check", "second"} => NoneAbove(bl.head.imgIndex)

\* An index that fits goes through the uint8_t unchanged.
LEMMA FitsUnchanged == ASSUME NEW i \in 0 .. IndexSize - 1 PROVE i % IndexSize = i
<1>1. IndexSize \in Nat \ {0}
  BY FirstStageAssumption
<1>2. i = IndexSize * (i \div IndexSize) + (i % IndexSize) /\ i % IndexSize \in 0 .. IndexSize - 1
      /\ i \div IndexSize \in Int
  BY <1>1
<1>3. PICK q \in Int, r \in 0 .. IndexSize - 1 : i = IndexSize * q + r /\ r = i % IndexSize
  BY <1>2
<1>4. q = 0
  <2>1. CASE q >= 1
    <3>1. IndexSize * q >= IndexSize
      BY <1>1, <2>1
    <3> QED BY <1>1, <1>3, <3>1
  <2>2. CASE q <= -1
    <3>1. IndexSize * q <= -IndexSize
      BY <1>1, <2>2
    <3> QED BY <1>1, <1>3, <3>1
  <2> QED BY <2>1, <2>2
<1> QED BY <1>1, <1>3, <1>4

\* checkForSecondStageBlUpdate (boot.c:196-233) finds the newest of the second
\* stages in the slots, if one is newer than that in place.
LEMMA FoundIsNewest ==
    ASSUME NewestInv, bl.head # NoHeader
    PROVE  /\ Found = 0 => NoneAbove(bl.head.imgIndex)
           /\ Found # 0 => /\ slots[Found].head.imgIndex > bl.head.imgIndex
                           /\ NoneAbove(slots[Found].head.imgIndex)
<1>1. 1 \in Slots /\ \A s \in Slots : s = 1 \/ (NbSlots = 2 /\ s = 2)
  BY FirstStageAssumption DEF Slots
<1>2. NbSlots = 2 => 2 \in Slots
  BY DEF Slots
<1>3. \A s \in Slots : slots[s].head \in Headers
  BY DEF NewestInv, TypeOK, Image
<1>4. ASSUME NEW s \in Slots, slots[s].head.imgType = "BOOT"
      PROVE  slots[s].head.imgIndex \in 0 .. IndexSize - 1
  <2>1. slots[s].head # NoHeader
    BY <1>4 DEF NoHeader, Header
  <2>2. slots[s].head.imgIndex >= 0 /\ slots[s].head.imgIndex + (MaxDownloads - downloads) < IndexSize
    BY <2>1 DEF NewestInv, RoomLeft, Leaves
  <2>3. slots[s].head.imgIndex \in Int /\ downloads \in 0 .. MaxDownloads
    BY <1>3 DEF NewestInv, TypeOK, Headers
  <2> QED BY <2>2, <2>3, FirstStageAssumption
<1>5. bl.head.imgIndex \in 0 .. IndexSize - 1
  <2>1. bl.head.imgIndex >= 0 /\ bl.head.imgIndex + (MaxDownloads - downloads) < IndexSize
    BY DEF NewestInv, RoomLeft, Leaves
  <2>2. bl.head.imgIndex \in Int /\ downloads \in 0 .. MaxDownloads
    BY DEF NewestInv, TypeOK, Image, Headers
  <2> QED BY <2>1, <2>2, FirstStageAssumption
<1>6. BlImageIndex = bl.head.imgIndex
  BY <1>5, FitsUnchanged DEF BlImageIndex
<1>7. PICK b \in 0 .. IndexSize - 1 : b = bl.head.imgIndex
  BY <1>5
\* After the first slot: what was found, and the best index.
<1>8. /\ FoundFirst = 0 => /\ BestIndex = b
                           /\ slots[1].head.imgType = "BOOT" => slots[1].head.imgIndex <= b
      /\ FoundFirst # 0 => /\ FoundFirst = 1 /\ slots[1].head.imgType = "BOOT"
                           /\ slots[1].head.imgIndex > b /\ BestIndex = slots[1].head.imgIndex
  <2>1. CASE Newer(1, b)
    <3>1. FoundFirst = 1
      BY <1>6, <1>7, <2>1 DEF FoundFirst
    <3>2. slots[1].head.imgType = "BOOT" /\ slots[1].head.imgIndex > b
      BY <2>1 DEF Newer
    <3>3. slots[1].head.imgIndex % IndexSize = slots[1].head.imgIndex
      BY <1>1, <1>4, <3>2, FitsUnchanged
    <3> QED BY <3>1, <3>2, <3>3 DEF BestIndex
  <2>2. CASE ~Newer(1, b)
    <3>1. FoundFirst = 0
      BY <1>6, <1>7, <2>2 DEF FoundFirst
    <3>2. slots[1].head.imgType = "BOOT" => slots[1].head.imgIndex <= b
      BY <1>1, <1>4, <1>7, <2>2 DEF Newer
    <3> QED BY <1>6, <1>7, <3>1, <3>2 DEF BestIndex
  <2> QED BY <2>1, <2>2
<1>9. CASE NbSlots = 2 /\ Newer(2, BestIndex)
  <2>1. Found = 2 /\ slots[2].head.imgType = "BOOT" /\ slots[2].head.imgIndex > BestIndex
    BY <1>9 DEF Found, Newer
  <2>2. PICK m \in Int : m = slots[2].head.imgIndex
    BY <1>2, <1>4, <1>9, <2>1
  <2>3. m > b /\ (slots[1].head.imgType = "BOOT" => slots[1].head.imgIndex <= m)
    BY <1>1, <1>4, <1>7, <1>8, <2>1, <2>2
  <2>4. NoneAbove(m)
    BY <1>1, <2>2, <2>3 DEF NoneAbove
  <2> QED BY <1>7, <2>1, <2>2, <2>3, <2>4
<1>10. CASE ~(NbSlots = 2 /\ Newer(2, BestIndex))
  <2>1. Found = FoundFirst
    BY <1>10 DEF Found
  <2>2. BestIndex \in Int
    BY <1>1, <1>4, <1>7, <1>8
  <2>3. ASSUME NbSlots = 2, slots[2].head.imgType = "BOOT" PROVE slots[2].head.imgIndex <= BestIndex
    BY <1>2, <1>4, <1>10, <2>2, <2>3 DEF Newer
  <2>4. NoneAbove(BestIndex)
    BY <1>1, <1>4, <1>7, <1>8, <2>2, <2>3 DEF NoneAbove
  <2> QED BY <1>7, <1>8, <2>1, <2>4
<1> QED BY <1>9, <1>10

\* What a header may announce, n downloads being left.
FitHeader(h, n) == h = NoHeader \/ (h.imgIndex >= 0 /\ h.imgIndex + n < IndexSize)

\* Every step leaves room for the indices of the downloads to come: what is
\* copied and installed comes out of the slots, and the updater takes the index
\* behind that of the application for every download (update.c:609-616).
LEMMA RoomStays ==
    ASSUME TypeOK, RoomLeft, [Next]_vars PROVE RoomLeft'
<1> DEFINE n == MaxDownloads - downloads
<1>1. n \in Nat /\ downloads \in Nat /\ MaxDownloads \in Nat
  BY FirstStageAssumption DEF TypeOK
<1>2. /\ app.imgIndex \in Nat /\ app.imgIndex + n < IndexSize
      /\ FitHeader(bl.head, n)
      /\ \A s \in Slots : FitHeader(slots[s].head, n)
  BY DEF RoomLeft, Leaves, FitHeader, TypeOK, Headers
<1>3. \A s \in Slots : slots[s].head \in Headers /\ slots[s].head.imgIndex \in Int
  BY DEF TypeOK, Image, Headers
\* A step that downloads nothing moves headers about.
<1>4. ASSUME downloads' = downloads,
             app' = app \/ \E s \in Slots : app' = slots[s].head /\ slots[s].head.imgIndex > app.imgIndex,
             bl'.head \in {bl.head, NoHeader} \cup {slots[s].head : s \in Slots},
             \A s \in Slots : slots'[s].head \in {slots[s].head, NoHeader}
      PROVE  RoomLeft'
  <2>1. app'.imgIndex >= 0 /\ app'.imgIndex + n < IndexSize
    <3>1. CASE app' = app
      BY <1>2, <3>1
    <3>2. ASSUME NEW s \in Slots, app' = slots[s].head, slots[s].head.imgIndex > app.imgIndex
          PROVE  app'.imgIndex >= 0 /\ app'.imgIndex + n < IndexSize
      <4>1. NoHeader.imgIndex = -1
        BY DEF NoHeader, Header
      <4>2. slots[s].head.imgIndex >= 0
        BY <1>2, <1>3, <3>2
      <4> QED BY <1>2, <3>2, <4>1, <4>2 DEF FitHeader
    <3> QED BY <1>4, <3>1, <3>2
  <2>2. FitHeader(NoHeader, n)
    BY DEF FitHeader
  <2>3. FitHeader(bl'.head, n) /\ \A s \in Slots : FitHeader(slots'[s].head, n)
    BY <1>2, <1>4, <2>2
  <2> QED BY <1>4, <2>1, <2>3 DEF RoomLeft, Leaves, FitHeader
<1>5. ASSUME NEW to \in {"failed", "reset"}, Fault(to) PROVE RoomLeft'
  <2>1. /\ TornCopy /\ app' = app /\ downloads' = downloads /\ update \in Slots
    BY <1>5, FirstStageAssumption DEF Fault, TypeOK, Slots
  <2>2. bl \in Image /\ slots \in [Slots -> Image] /\ slots[update] \in Image
    BY <2>1 DEF TypeOK
  <2>3. bl'.head \in {bl.head, NoHeader}
    <3>1. CASE UNCHANGED bl
      BY <3>1
    <3>2. CASE bl' = FirstErased(bl)
      BY <2>2, <3>2, FirstErasedFacts
    <3>3. CASE bl' = IF done < LoopChunks THEN [bl EXCEPT !.data[done + 1] = Blank]
                     ELSE [bl EXCEPT !.data[Chunks] = Blank, !.crc = NoDigest]
      BY <2>2, <3>3 DEF Image
    <3> QED BY <2>1, <3>1, <3>2, <3>3 DEF TornCopy
  <2>4. \A s \in Slots : slots'[s].head \in {slots[s].head, NoHeader}
    <3>1. CASE UNCHANGED slots
      BY <3>1
    <3>2. CASE slots' = [slots EXCEPT ![update] = FirstErased(@)]
      <4>1. PICK e : e = FirstErased(slots[update])
        OBVIOUS
      <4>2. e.head = NoHeader /\ slots' = [slots EXCEPT ![update] = e]
        BY <2>2, <3>2, <4>1, FirstErasedFacts
      <4> QED BY <2>2, <4>2
    <3> QED BY <2>1, <3>1, <3>2 DEF TornCopy
  <2> QED BY <1>4, <2>1, <2>3, <2>4
<1>6. ASSUME CopyHeader PROVE RoomLeft'
  <2>1. PICK e : e = FirstErased(bl)
    OBVIOUS
  <2>2. e \in Image
    BY <2>1, FirstErasedFacts DEF TypeOK
  <2>3. /\ bl' = [e EXCEPT !.head = slots[update].head] /\ update \in Slots
        /\ UNCHANGED <<app, slots, downloads>>
    BY <1>6, <2>1, FirstStageAssumption DEF CopyHeader, TypeOK, Slots
  <2>4. bl'.head = slots[update].head
    BY <2>2, <2>3 DEF Image
  <2> QED BY <1>4, <2>3, <2>4
<1>7. ASSUME CopyChunk \/ CopyDigest PROVE RoomLeft'
  <2>1. bl'.head = bl.head
    BY <1>7 DEF CopyChunk, CopyDigest, TypeOK, Image
  <2> QED BY <1>4, <1>7, <2>1 DEF CopyChunk, CopyDigest
<1>8. ASSUME RemoveHeader PROVE RoomLeft'
  <2>1. PICK e : e = FirstErased(slots[update])
    OBVIOUS
  <2>2. /\ slots' = [slots EXCEPT ![update] = e] /\ update \in Slots
        /\ UNCHANGED <<bl, app, downloads>>
    BY <1>8, <2>1, FirstStageAssumption DEF RemoveHeader, TypeOK, Slots
  <2>3. e.head = NoHeader
    BY <2>1, <2>2, FirstErasedFacts DEF TypeOK
  <2>4. \A s \in Slots : slots'[s].head \in {slots[s].head, NoHeader}
    BY <2>2, <2>3 DEF TypeOK
  <2> QED BY <1>4, <2>2, <2>4
<1>9. ASSUME UpdateApp PROVE RoomLeft'
  <2>1. \E s \in Slots : app' = slots[s].head /\ slots[s].head.imgIndex > app.imgIndex
    BY <1>9 DEF UpdateApp, Preferred
  <2>2. UNCHANGED <<bl, slots, downloads>>
    BY <1>9 DEF UpdateApp
  <2> QED BY <1>4, <2>1, <2>2
<1>10. ASSUME NEW type \in {"BOOT", "APP"}, NEW k \in 0 .. Chunks, Download(type, k)
       PROVE  RoomLeft'
  <2>1. PICK h : h = Header(downloads + 3, app.imgIndex + 1, type)
    OBVIOUS
  <2>2. PICK image : /\ slots' = [slots EXCEPT ![UpdateSlot] = image] /\ image.head = h
    <3>1. PICK whole : whole = Whole(h)
      OBVIOUS
    <3>2. whole.head = h
      BY <3>1 DEF Whole
    <3>3. PICK cutOff : cutOff =
              [whole EXCEPT !.crc = NoDigest,
                            !.data = [c \in 1 .. Chunks |-> IF c <= k THEN whole.data[c] ELSE Blank]]
      OBVIOUS
    <3>4. cutOff.head = h
      BY <3>1, <3>2, <3>3 DEF Whole
    <3>5. slots' = [slots EXCEPT ![UpdateSlot] = IF k = Chunks THEN whole ELSE cutOff]
      BY <1>10, <2>1, <3>1, <3>3 DEF Download
    <3> QED BY <3>2, <3>4, <3>5
  <2>3. downloads < MaxDownloads /\ downloads' = downloads + 1 /\ UNCHANGED <<bl, app>>
    BY <1>10 DEF Download
  <2>4. PICK m \in Nat : m = MaxDownloads - downloads' /\ n = m + 1
    <3>1. MaxDownloads - downloads' \in Nat /\ n = (MaxDownloads - downloads') + 1
      BY <1>1, <2>3
    <3> QED BY <3>1
  <2>5. h.imgIndex = app.imgIndex + 1
    BY <2>1 DEF Header
  <2>6. h.imgIndex >= 0 /\ h.imgIndex + m < IndexSize
    BY <1>2, <2>4, <2>5, FirstStageAssumption
  <2> HIDE DEF n
  <2>7. ASSUME NEW g \in Headers, FitHeader(g, n) PROVE FitHeader(g, m)
    BY <2>4, <2>7, FirstStageAssumption DEF FitHeader, Headers
  <2>8. /\ FitHeader(bl.head, m) /\ \A s \in Slots : FitHeader(slots[s].head, m)
    BY <1>2, <1>3, <2>7 DEF TypeOK, Image
  <2>9. \A s \in Slots : FitHeader(slots'[s].head, m)
    <3>1. FitHeader(h, m)
      BY <2>6 DEF FitHeader
    <3> QED BY <2>2, <2>8, <3>1 DEF TypeOK
  <2>10. app.imgIndex + m < IndexSize
    BY <1>2, <2>4, FirstStageAssumption
  <2> QED BY <1>2, <2>3, <2>4, <2>8, <2>9, <2>10 DEF RoomLeft, Leaves, FitHeader
<1>11. CASE UNCHANGED <<bl, app, slots, downloads>>
  BY <1>4, <1>11
<1> HIDE DEF n
<1> QED BY <1>5, <1>6, <1>7, <1>8, <1>9, <1>10, <1>11
        DEF Next, Boot, FlashError, PowerLoss, NoSecondStage, CheckForUpdate, CheckImage,
            RunApp, Reset, vars

\* NewestInv is inductive, and what it says when the copy begins is OnlyNewer.
LEMMA NewestSteps ==
    ASSUME NewestInv, [Next]_vars PROVE NewestInv'
<1>0. TypeOK' /\ RoomLeft'
  <2>1. TypeOK /\ RoomLeft
    BY DEF NewestInv
  <2>2. TypeOK'
    BY <2>1, FirstStageTypeSteps, OtherTypeSteps DEF Next, Boot, FlashError, PowerLoss
  <2> QED BY <2>1, <2>2, RoomStays
<1>1. /\ bl \in Image /\ slots \in [Slots -> Image]
      /\ place \in {"header", "copy", "remove"} => update \in Slots /\ slots[update] \in Image
  BY FirstStageAssumption DEF NewestInv, TypeOK, Slots
\* The last three parts; they speak of the first stage only.
<1> DEFINE Later ==
       /\ place = "header" => /\ slots[update].head.imgIndex > bl.head.imgIndex
                              /\ NoneAbove(slots[update].head.imgIndex)
       /\ place \in {"copy", "remove"} => bl.head = slots[update].head
       /\ place \in {"copy", "remove", "check", "second"} => NoneAbove(bl.head.imgIndex)
<1>2. SUFFICES Later'
  BY <1>0 DEF NewestInv
<1>3. Later
  BY DEF NewestInv
<1>4. CASE place' \in {"reset", "failed", "app"}
  BY <1>4
<1>5. ASSUME CheckForUpdate PROVE Later'
  <2>1. /\ bl.head # NoHeader /\ update' = Found
        /\ place' = IF Found = 0 THEN "check" ELSE "header"
        /\ bl' = bl /\ slots' = slots
    BY <1>5 DEF CheckForUpdate
  <2> QED BY <2>1, FoundIsNewest DEF NoneAbove
<1>6. ASSUME CopyHeader PROVE Later'
  <2>1. PICK e : e = FirstErased(bl)
    OBVIOUS
  <2>2. e \in Image
    BY <1>1, <2>1, FirstErasedFacts
  <2>3. /\ bl' = [e EXCEPT !.head = slots[update].head]
        /\ place = "header" /\ place' = "copy" /\ slots' = slots /\ update' = update
    BY <1>6, <2>1 DEF CopyHeader
  <2>4. bl'.head = slots[update].head
    BY <2>2, <2>3 DEF Image
  <2> QED BY <1>3, <2>3, <2>4 DEF NoneAbove
<1>7. ASSUME CopyChunk \/ CopyDigest PROVE Later'
  <2>1. bl'.head = bl.head
    BY <1>1, <1>7 DEF CopyChunk, CopyDigest, Image
  <2>2. /\ place = "copy" /\ place' \in {"copy", "remove"} /\ slots' = slots /\ update' = update
    BY <1>7 DEF CopyChunk, CopyDigest
  <2> QED BY <1>3, <2>1, <2>2 DEF NoneAbove
<1>8. ASSUME RemoveHeader PROVE Later'
  <2>1. PICK e : e = FirstErased(slots[update])
    OBVIOUS
  <2>2. /\ slots' = [slots EXCEPT ![update] = e] /\ place = "remove" /\ place' = "check" /\ bl' = bl
    BY <1>8, <2>1 DEF RemoveHeader
  <2>3. e.head = NoHeader /\ NoHeader.imgType = "NONE"
    BY <1>1, <2>1, <2>2, FirstErasedFacts DEF NoHeader, Header
  <2>4. \A s \in Slots : slots'[s].head.imgType = "BOOT" => slots'[s] = slots[s]
    BY <1>1, <2>2, <2>3
  <2> QED BY <1>3, <2>2, <2>4 DEF NoneAbove
<1>9. ASSUME CheckImage PROVE Later'
  <2>1. /\ place = "check" /\ place' \in {"second", "failed"} /\ UNCHANGED <<bl, slots>>
    BY <1>9 DEF CheckImage
  <2> QED BY <1>3, <2>1 DEF NoneAbove
<1>10. CASE UNCHANGED vars
  BY <1>3, <1>10 DEF vars, NoneAbove
<1> HIDE DEF Later
<1>11. NoSecondStage \/ RunApp \/ UpdateApp \/ Reset \/ FlashError \/ PowerLoss
       \/ (\E type \in {"BOOT", "APP"}, n \in 0 .. Chunks : Download(type, n))
         => place' \in {"reset", "failed", "app"}
  BY DEF NoSecondStage, RunApp, UpdateApp, Reset, FlashError, PowerLoss, Fault, Download
<1> QED BY <1>4, <1>5, <1>6, <1>7, <1>8, <1>9, <1>10, <1>11 DEF Next, Boot

\* As long as the indices fit, nothing newer than what is copied is left behind.
LEMMA NewestInvariant == IndicesFit => (Spec => []NewestInv)
<1> SUFFICES ASSUME IndicesFit PROVE Spec => []NewestInv
  OBVIOUS
<1>1. Init => NewestInv
  <2> SUFFICES ASSUME Init PROVE NewestInv
    OBVIOUS
  <2>1. TypeOK
    BY FirstStageInitTypes
  <2>2. PICK i \in FirstIndices, j \in FirstIndices :
           bl = Whole(Header(1, i, "BOOT")) /\ app = Header(2, j, "APP")
    BY DEF Init
  <2>3. place = "reset" /\ downloads = 0 /\ slots = [s \in Slots |-> Empty]
    BY DEF Init
  <2>4. i \in Nat /\ j \in Nat /\ i + MaxDownloads < IndexSize /\ j + MaxDownloads < IndexSize
    BY FirstStageAssumption DEF IndicesFit
  <2>5. bl.head.imgIndex = i /\ app.imgIndex = j
    BY <2>2 DEF Whole, Header
  <2>6. \A s \in Slots : slots[s].head = NoHeader
    BY <2>3 DEF Empty
  <2>7. MaxDownloads - downloads = MaxDownloads
    BY <2>3, FirstStageAssumption
  <2>8. RoomLeft
    BY <2>4, <2>5, <2>6, <2>7 DEF RoomLeft, Leaves
  <2> QED BY <2>1, <2>3, <2>8 DEF NewestInv
<1> QED BY <1>1, NewestSteps, PTL DEF Spec

\* boot.c:191-236: as long as the indices of the updates fit, no second stage
\* runs while a newer one is downloaded.
THEOREM FirstStageRunsNewest == IndicesFit => (Spec => []RunsNewest)
<1> SUFFICES ASSUME IndicesFit PROVE Spec => []RunsNewest
  OBVIOUS
<1>1. NewestInv => RunsNewest
  BY DEF NewestInv, RunsNewest, NoneAbove
<1> QED BY <1>1, NewestInvariant, PTL

\* boot.c:222-228: as long as the indices of the updates fit, what is installed
\* over a second stage is newer.
THEOREM FirstStageOnlyNewer == IndicesFit => (Spec => OnlyNewer)
<1> SUFFICES ASSUME IndicesFit PROVE Spec => OnlyNewer
  OBVIOUS
<1> DEFINE NewerCopied == (place = "header" /\ place' = "copy") =>
                              slots[update].head.imgIndex > bl.head.imgIndex
<1>1. NewestInv => NewerCopied
  BY DEF NewestInv
<1>2. NewestInv /\ [Next]_vars => [NewerCopied]_vars
  BY <1>1
<1> QED BY <1>2, NewestInvariant, PTL DEF Spec, OnlyNewer
===============================================================================
