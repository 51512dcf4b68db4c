--------------------------- MODULE ImageOrderProofs ---------------------------
(***************************************************************************)
(* With the updater's version gate no boot goes back to an older version,  *)
(* whatever the bootloader's own comparison of versions says, for any      *)
(* versions, indices and width of the index.  As long as the indices fit   *)
(* that width, the next boot installs an accepted update, and no update    *)
(* overwrites the copy of the application.                                 *)
(***************************************************************************)
EXTENDS ImageOrder, TLAPS

\* updateAcceptUpdateImageCallback (update.c:579-601) accepts no version against
\* itself, and of two versions at most one against the other.
LEMMA AboveIsStrict ==
    ASSUME NEW v \in Version, NEW w \in Version
    PROVE  ~(Above(v, w) /\ Above(w, v))
<1>1. /\ v.major \in Int /\ v.minor \in Int /\ v.revision \in Int /\ v.buildNum \in Int
      /\ w.major \in Int /\ w.minor \in Int /\ w.revision \in Int /\ w.buildNum \in Int
  <2>1. /\ v.major \in Fields /\ v.minor \in Fields /\ v.revision \in Fields /\ v.buildNum \in Fields
        /\ w.major \in Fields /\ w.minor \in Fields /\ w.revision \in Fields /\ w.buildNum \in Fields
    BY DEF Version
  <2>2. \A n \in Fields : n \in Int
    BY OrderAssumption
  <2> QED BY <2>1, <2>2
<1> QED BY <1>1 DEF Above

\* An image with a higher index than that of the application is newer too, and
\* its index is the next one: so a boot leaves no other image to prefer.
OrderInv ==
    /\ app \in Header
    /\ slots \in [Slots -> Header \cup {NoImage}]
    /\ \A s \in Slots : slots[s] # NoImage =>
          /\ slots[s].imgIndex <= app.imgIndex + 1
          /\ slots[s].imgIndex > app.imgIndex => Above(slots[s].dataVers, app.dataVers)

\* bootSelectUpdateImageSlot (boot_common.c:361-405) keeps the application, or
\* takes an image of another slot with a higher index.
LEMMA SelectFacts ==
    ASSUME app \in Header, slots \in [Slots -> Header \cup {NoImage}]
    PROVE  \/ Select = app
           \/ \E s \in Slots : /\ slots[s] # NoImage /\ Select = slots[s]
                               /\ slots[s].imgIndex > app.imgIndex
<1>1. 1 \in Slots /\ (NbSlots = 2 => 2 \in Slots)
  BY OrderAssumption DEF Slots
<1> DEFINE first == IF Preferred(slots[1], app) THEN slots[1] ELSE app
<1>2. first = app \/ (slots[1] # NoImage /\ first = slots[1] /\ slots[1].imgIndex > app.imgIndex)
  BY DEF Preferred
<1>3. Select = IF NbSlots = 2 /\ Preferred(slots[2], first) THEN slots[2] ELSE first
  BY DEF Select
<1>4. app.imgIndex \in Int /\ first.imgIndex \in Int
  BY <1>1, <1>2 DEF Header
<1> HIDE DEF first
<1>5. CASE NbSlots = 2 /\ Preferred(slots[2], first)
  <2>1. slots[2] # NoImage /\ slots[2].imgIndex > first.imgIndex
    BY <1>5 DEF Preferred
  <2>2. slots[2].imgIndex \in Int
    BY <1>1, <1>5, <2>1 DEF Header
  <2>3. first.imgIndex >= app.imgIndex
    BY <1>2, <1>4
  <2>4. slots[2].imgIndex > app.imgIndex
    BY <1>4, <2>1, <2>2, <2>3
  <2> QED BY <1>1, <1>3, <1>5, <2>1, <2>4
<1>6. CASE ~(NbSlots = 2 /\ Preferred(slots[2], first))
  BY <1>1, <1>2, <1>3, <1>6
<1> QED BY <1>5, <1>6

\* update.c:567-573: with UPDATE_ANTI_ROLLBACK_SUPPORT a boot never puts an older
\* version into the place of the application.
THEOREM UpdatesOnlyForward == UpdateGate => (Spec => NoRollback)
<1> SUFFICES ASSUME UpdateGate PROVE Spec => NoRollback
  OBVIOUS
<1> DEFINE Forward == ~Above(app.dataVers, app'.dataVers)
<1>1. Init => OrderInv
  <2> SUFFICES ASSUME Init PROVE OrderInv
    OBVIOUS
  <2>1. app \in Header
    BY OrderAssumption DEF Init, Header
  <2>2. \A s \in Slots : slots[s] = NoImage \/ slots[s] = app
    BY DEF Init
  <2>3. slots \in [Slots -> Header \cup {NoImage}]
    BY <2>1 DEF Init
  <2>4. app.imgIndex \in Nat
    BY <2>1 DEF Header
  <2> QED BY <2>1, <2>2, <2>3, <2>4 DEF OrderInv
<1>2. OrderInv /\ [Next]_vars => OrderInv' /\ Forward
  <2> SUFFICES ASSUME OrderInv, [Next]_vars PROVE OrderInv' /\ Forward
    OBVIOUS
  <2>1. app \in Header /\ app.imgIndex \in Nat /\ app.dataVers \in Version
    BY DEF OrderInv, Header
  <2>2. ~Above(app.dataVers, app.dataVers)
    BY <2>1, AboveIsStrict
  <2>3. ASSUME NEW v \in Version, Accept(v) PROVE OrderInv' /\ Forward
    <3>1. PICK i : i = OutputImageIdx
      OBVIOUS
    <3>2. i \in Nat /\ i <= app.imgIndex + 1
      BY <2>1, <3>1, OrderAssumption DEF OutputImageIdx
    <3>3. PICK new : new = [imgIndex |-> i, dataVers |-> v]
      OBVIOUS
    <3>4. new \in Header /\ new.imgIndex = i /\ new.dataVers = v
      BY <3>2, <3>3 DEF Header
    <3>5. /\ app' = app /\ Above(v, app.dataVers)
          /\ slots' = [slots EXCEPT ![UpdateSlot] = new]
      BY <2>3, <3>1, <3>3 DEF Accept
    <3>6. slots' \in [Slots -> Header \cup {NoImage}]
      BY <3>4, <3>5 DEF OrderInv
    <3>7. \A s \in Slots : slots'[s] = new \/ slots'[s] = slots[s]
      BY <3>5 DEF OrderInv
    <3> QED BY <2>1, <2>2, <3>2, <3>4, <3>5, <3>6, <3>7 DEF OrderInv
  <2>4. ASSUME Boot PROVE OrderInv' /\ Forward
    <3>1. app' = Select /\ slots' = slots
      BY <2>4 DEF Boot
    <3>2. CASE Select = app
      BY <2>2, <3>1, <3>2 DEF OrderInv
    <3>3. ASSUME NEW s \in Slots, slots[s] # NoImage, Select = slots[s],
                 slots[s].imgIndex > app.imgIndex
          PROVE  OrderInv' /\ Forward
      <4>1. slots[s] \in Header
        BY <3>3 DEF OrderInv
      <4>2. app'.imgIndex \in Nat /\ app'.dataVers \in Version /\ app' = slots[s]
        BY <3>1, <3>3, <4>1 DEF Header
      <4>3. app'.imgIndex = app.imgIndex + 1 /\ Above(app'.dataVers, app.dataVers)
        BY <2>1, <3>1, <3>3, <4>2 DEF OrderInv
      <4>4. Forward
        BY <2>1, <4>2, <4>3, AboveIsStrict
      <4>5. ASSUME NEW t \in Slots, slots[t] # NoImage
            PROVE  slots[t].imgIndex \in Nat /\ slots[t].imgIndex <= app.imgIndex + 1
        BY <4>5 DEF OrderInv, Header
      <4> QED BY <2>1, <3>1, <4>1, <4>2, <4>3, <4>4, <4>5 DEF OrderInv
    <3> QED BY <3>2, <3>3, SelectFacts DEF OrderInv
  <2>5. CASE UNCHANGED vars
    BY <2>2, <2>5 DEF vars, OrderInv
  <2> QED BY <2>3, <2>4, <2>5 DEF Next
<1>3. OrderInv /\ [Next]_vars => [Forward]_vars
  BY <1>2
<1> QED BY <1>1, <1>2, <1>3, PTL DEF Spec, NoRollback

-------------------------------------------------------------------------------
(* Accepted updates and the copy of the application, as long as no index   *)
(* goes round.                                                             *)

\* The index of no image the updater makes outgrows the uint16_t of newImageIdx.
IndexFits == MaxIndex < IndexSize

\* What AcceptedIsInstalled and CopyKept rest on: no two slots have an image to
\* prefer, one with the index of the application is its copy, and an accepted
\* update waits in a slot, its index behind that of the application.
CopyInv ==
    /\ app \in Header
    /\ slots \in [Slots -> Header \cup {NoImage}]
    /\ NbSlots = 2 => slots[1].imgIndex = app.imgIndex \/ slots[2].imgIndex <= app.imgIndex
    /\ slots[1].imgIndex = app.imgIndex => slots[1] = app
    /\ accepted # NoImage => /\ accepted.imgIndex = app.imgIndex + 1
                             /\ \E s \in Slots : slots[s] = accepted

\* Indices are integers, that of the application a natural one.
LEMMA IndexTypes ==
    ASSUME CopyInv
    PROVE  /\ 1 \in Slots /\ \A s \in Slots : s = 1 \/ (NbSlots = 2 /\ s = 2)
           /\ NbSlots = 2 => 2 \in Slots
           /\ app.imgIndex \in Nat
           /\ \A s \in Slots : slots[s].imgIndex \in Int
           /\ \A s \in Slots : slots[s].imgIndex >= 0 => slots[s] # NoImage
<1>1. \A h \in Header \cup {NoImage} : h.imgIndex \in Int
  BY DEF Header, NoImage
<1>2. \A s \in Slots : slots[s] \in Header \cup {NoImage}
  BY DEF CopyInv
<1>3. app.imgIndex \in Nat
  BY DEF CopyInv, Header
<1>4. /\ 1 \in Slots /\ \A s \in Slots : s = 1 \/ (NbSlots = 2 /\ s = 2)
      /\ NbSlots = 2 => 2 \in Slots
  BY OrderAssumption DEF Slots
<1>5. ~(NoImage.imgIndex >= 0)
  BY DEF NoImage
<1> QED BY <1>1, <1>2, <1>3, <1>4, <1>5

\* An index that fits goes through the uint16_t unchanged.
LEMMA FitsUnchanged == ASSUME NEW i \in 0 .. IndexSize - 1 PROVE i % IndexSize = i
<1>1. IndexSize \in Nat \ {0}
  BY OrderAssumption
<1>2. i = IndexSize * (i \div IndexSize) + (i % IndexSize) /\ i % IndexSize \in 0 .. IndexSize - 1
      /\ i \div IndexSize \in Int
  BY <1>1
<1>3. PICK q \in Int, r \in 0 .. IndexSize - 1 : i = IndexSize * q + r /\ r = i % IndexSize
  BY <1>2
<1>4. q = 0
  <2>1. CASE q >= 1
    <3>1. IndexSize * q >= IndexSize
      BY <1>1, <2>1
    <3> QED BY <1>1, <1>3, <3>1
  <2>2. CASE q <= -1
    <3>1. IndexSize * q <= -IndexSize
      BY <1>1, <2>2
    <3> QED BY <1>1, <1>3, <3>1
  <2> QED BY <2>1, <2>2
<1> QED BY <1>1, <1>3, <1>4

\* bootSelectUpdateImageSlot (boot_common.c:361-405) without anti-rollback takes
\* the one image with a higher index.
LEMMA OneToPrefer ==
    ASSUME CopyInv, ~BootGate, NEW s \in Slots, slots[s].imgIndex > app.imgIndex
    PROVE  Select = slots[s]
<1> DEFINE first == IF Preferred(slots[1], app) THEN slots[1] ELSE app
<1>1. Select = IF NbSlots = 2 /\ Preferred(slots[2], first) THEN slots[2] ELSE first
  BY DEF Select
<1>2. /\ slots[s] # NoImage /\ slots[s].imgIndex \in Int /\ app.imgIndex \in Nat
      /\ slots[1].imgIndex \in Int
  BY IndexTypes
<1>3. CASE s = 1
  <2>1. first = slots[1]
    BY <1>2, <1>3 DEF Preferred
  <2>2. NbSlots = 2 => slots[2].imgIndex \in Int /\ slots[2].imgIndex <= app.imgIndex
    BY <1>2, <1>3, IndexTypes DEF CopyInv
  <2>3. ~(NbSlots = 2 /\ slots[2].imgIndex > slots[1].imgIndex)
    BY <1>2, <1>3, <2>2
  <2> HIDE DEF first
  <2> QED BY <1>1, <1>3, <2>1, <2>3 DEF Preferred
<1>4. CASE NbSlots = 2 /\ s = 2
  <2>1. slots[1].imgIndex = app.imgIndex
    BY <1>2, <1>4 DEF CopyInv
  <2>2. first = app
    BY <1>2, <2>1 DEF Preferred
  <2> HIDE DEF first
  <2>3. Preferred(slots[2], first)
    BY <1>2, <1>4, <2>2 DEF Preferred
  <2> QED BY <1>1, <1>4, <2>3
<1> QED BY <1>3, <1>4, IndexTypes

\* The updater (update.c:609-616, 747-778) puts the image into the slot that
\* does not hold the copy, with the index behind that of the application.
LEMMA AcceptKeeps ==
    ASSUME CopyInv, IndexFits, NEW v \in Version, Accept(v)
    PROVE  /\ CopyInv'
           /\ app' = app
           /\ NbSlots = 2 /\ (\E s \in Slots : slots[s] = app)
                => \E s \in Slots : slots'[s] = app
<1>1. PICK a \in Nat : a = app.imgIndex
  BY IndexTypes
<1>2. app.imgIndex < MaxIndex /\ app' = app
  BY DEF Accept
<1>3. a % IndexSize = a /\ (a + 1) % IndexSize = a + 1
  <2>1. a \in 0 .. IndexSize - 1 /\ a + 1 \in 0 .. IndexSize - 1
    BY <1>1, <1>2, OrderAssumption DEF IndexFits
  <2> QED BY <2>1, FitsUnchanged
<1>4. OutputImageIdx = a + 1
  BY <1>1, <1>3 DEF OutputImageIdx
<1>5. UpdateSlot = IF NbSlots = 2 /\ slots[1].imgIndex = a THEN 2 ELSE 1
  BY <1>1, <1>3 DEF UpdateSlot
<1>6. PICK new : new = [imgIndex |-> a + 1, dataVers |-> v]
  OBVIOUS
<1>7. new \in Header /\ new.imgIndex = a + 1
  BY <1>6 DEF Header
<1>8. accepted' = new /\ slots' = [slots EXCEPT ![UpdateSlot] = new]
  BY <1>4, <1>6 DEF Accept
<1>9. slots' \in [Slots -> Header \cup {NoImage}]
  BY <1>7, <1>8 DEF CopyInv
<1>10. CASE NbSlots = 2 /\ slots[1].imgIndex = a
  <2>1. slots' = [slots EXCEPT ![2] = new] /\ 2 \in Slots /\ 1 \in Slots
    BY <1>5, <1>8, <1>10, IndexTypes
  <2>2. slots'[2] = new /\ slots'[1] = slots[1] /\ slots[1] = app
    BY <1>1, <1>10, <2>1 DEF CopyInv
  <2> QED BY <1>1, <1>2, <1>7, <1>8, <1>9, <1>10, <2>1, <2>2 DEF CopyInv
<1>11. CASE ~(NbSlots = 2 /\ slots[1].imgIndex = a)
  <2>1. slots' = [slots EXCEPT ![1] = new] /\ 1 \in Slots
    BY <1>5, <1>8, <1>11, IndexTypes
  <2>2. slots'[1] = new /\ (NbSlots = 2 => slots'[2] = slots[2])
    BY <2>1, IndexTypes DEF CopyInv
  <2>3. new.imgIndex # app.imgIndex
    BY <1>1, <1>7
  <2>4. CopyInv'
    BY <1>1, <1>2, <1>7, <1>8, <1>9, <1>11, <2>1, <2>2, <2>3 DEF CopyInv
  <2>5. NbSlots = 2 => slots[1] # app
    BY <1>1, <1>11
  <2> QED BY <1>2, <2>2, <2>4, <2>5, IndexTypes
<1> QED BY <1>10, <1>11

\* A boot installs what a slot has, and leaves the slots alone.
LEMMA BootKeeps ==
    ASSUME CopyInv, Boot
    PROVE  /\ CopyInv'
           /\ app' = app \/ \E s \in Slots : slots'[s] = app'
           /\ slots' = slots
<1>1. app' = Select /\ slots' = slots /\ accepted' = NoImage
  BY DEF Boot
<1>2. CASE Select = app
  BY <1>1, <1>2 DEF CopyInv
<1>3. ASSUME NEW s \in Slots, slots[s] # NoImage, Select = slots[s],
             slots[s].imgIndex > app.imgIndex
      PROVE  CopyInv' /\ slots'[s] = app'
  <2>1. app' = slots[s] /\ app' \in Header
    BY <1>1, <1>3 DEF CopyInv
  <2>2. PICK a \in Nat, b \in Int : a = app.imgIndex /\ b = slots[1].imgIndex
    BY IndexTypes
  <2>3. PICK n \in Int : n = slots[s].imgIndex
    BY IndexTypes
  <2>4. CASE s = 1
    <3>1. NbSlots = 2 => slots[2].imgIndex <= n
      <4> SUFFICES ASSUME NbSlots = 2 PROVE slots[2].imgIndex <= n
        OBVIOUS
      <4>1. PICK c \in Int : c = slots[2].imgIndex
        BY IndexTypes
      <4> QED BY <1>3, <2>2, <2>3, <2>4, <4>1 DEF CopyInv
    <3> QED BY <1>1, <2>1, <2>3, <2>4, <3>1 DEF CopyInv
  <2>5. CASE NbSlots = 2 /\ s = 2
    <3>1. b = a
      BY <1>3, <2>2, <2>3, <2>5 DEF CopyInv
    <3>2. slots[1].imgIndex # n /\ slots[2].imgIndex <= n
      BY <1>3, <2>2, <2>3, <2>5, <3>1
    <3> QED BY <1>1, <2>1, <2>3, <2>5, <3>2 DEF CopyInv
  <2> QED BY <1>1, <2>1, <2>4, <2>5, IndexTypes
<1> QED BY <1>1, <1>2, <1>3, SelectFacts DEF CopyInv

\* CopyInv holds in every state in which the indices fit.
LEMMA CopyInvariant == IndexFits => (Spec => []CopyInv)
<1> SUFFICES ASSUME IndexFits PROVE Spec => []CopyInv
  OBVIOUS
<1>1. Init => CopyInv
  <2> SUFFICES ASSUME Init PROVE CopyInv
    OBVIOUS
  <2>1. app \in Header /\ app.imgIndex \in Nat /\ accepted = NoImage
    BY OrderAssumption DEF Init, Header
  <2>2. slots \in [Slots -> Header \cup {NoImage}] /\ 1 \in Slots /\ (NbSlots = 2 => 2 \in Slots)
    BY <2>1, OrderAssumption DEF Init, Slots
  <2>3. slots[1] \in {app, NoImage} /\ (NbSlots = 2 => slots[2] = NoImage)
    BY <2>2 DEF Init
  <2>4. NoImage.imgIndex = -1
    BY DEF NoImage
  <2> QED BY <2>1, <2>2, <2>3, <2>4 DEF CopyInv
<1>2. CopyInv /\ [Next]_vars => CopyInv'
  <2>1. CopyInv /\ UNCHANGED vars => CopyInv'
    BY DEF vars, CopyInv
  <2> QED BY <2>1, AcceptKeeps, BootKeeps DEF Next
<1> QED BY <1>1, <1>2, PTL DEF Spec

\* update.c:609-616, boot_common.c:386-405: without the bootloader's own
\* comparison of versions, and as long as the indices fit, an accepted update is
\* what the next boot installs.
THEOREM NextBootInstalls == IndexFits /\ ~BootGate => (Spec => AcceptedIsInstalled)
<1> SUFFICES ASSUME IndexFits, ~BootGate PROVE Spec => AcceptedIsInstalled
  OBVIOUS
<1> DEFINE Installs == (Boot /\ accepted # NoImage) => app' = accepted
<1>1. CopyInv => Installs
  <2> SUFFICES ASSUME CopyInv, Boot, accepted # NoImage PROVE app' = accepted
    OBVIOUS
  <2>1. PICK s \in Slots : slots[s] = accepted /\ slots[s].imgIndex = app.imgIndex + 1
    BY DEF CopyInv
  <2>2. slots[s].imgIndex > app.imgIndex
    BY <2>1, IndexTypes
  <2>3. Select = slots[s]
    BY <2>2, OneToPrefer
  <2> QED BY <2>1, <2>3 DEF Boot
<1>2. CopyInv /\ [Next]_vars => [Installs]_vars
  BY <1>1
<1> QED BY <1>2, CopyInvariant, PTL DEF Spec, AcceptedIsInstalled

\* update.c:752-760: with two slots, and as long as the indices fit, the copy of
\* the application that fallback needs is never overwritten, with or without
\* anti-rollback.
THEOREM CopyIsKept == IndexFits /\ NbSlots = 2 => (Spec => CopyKept)
<1> SUFFICES ASSUME IndexFits, NbSlots = 2 PROVE Spec => CopyKept
  OBVIOUS
<1> DEFINE Kept == (\E s \in Slots : slots[s] = app) => \E s \in Slots : slots'[s] = app'
<1>1. CopyInv /\ Next => Kept
  BY AcceptKeeps, BootKeeps DEF Next
<1>2. CopyInv /\ [Next]_vars => [Kept]_vars
  BY <1>1
<1> QED BY <1>2, CopyInvariant, PTL DEF Spec, CopyKept

\* imageCompareFirmwareVersions (image_utils.c:522-564), against its own comments
\* "The major version numbers are equal, continue comparison" (536) and the like:
\* whatever two values the fields can take, some version with the lower one as its
\* major number is superior to one with the higher, and bootSelectUpdateImageSlot
\* with anti-rollback prefers it when its index is higher (boot_common.c:386-405).
THEOREM LowerMajorIsSuperior ==
    ASSUME NEW m \in Fields, NEW n \in Fields, m < n, NEW image \in Header, NEW best \in Header,
           image.imgIndex > best.imgIndex,
           image.dataVers = [major |-> m, minor |-> n, revision |-> n, buildNum |-> n],
           best.dataVers = [major |-> n, minor |-> n, revision |-> n, buildNum |-> m]
    PROVE  /\ Above(best.dataVers, image.dataVers)
           /\ Preferred(image, best)
<1>1. m \in Nat /\ n \in Nat
  BY OrderAssumption
<1>2. Above(best.dataVers, image.dataVers)
  BY <1>1 DEF Above
<1>3. Superior(image.dataVers, best.dataVers)
  BY <1>1 DEF Superior
<1>4. image # NoImage
  BY DEF Header, NoImage
<1> QED BY <1>2, <1>3, <1>4 DEF Preferred
===============================================================================
