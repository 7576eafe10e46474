---------------------------- MODULE StrRing_proofs ----------------------------
(***************************************************************************)
(* Proofs about StrRing, for every ring size and every set of films.       *)
(*                                                                         *)
(* RingInv strengthens the type invariant: where the live frames lie, that *)
(* the slots start .. tail-1 are those of the frame being received, and    *)
(* what the busy flag stands for.  OrderInv adds that the receiver is in   *)
(* step with the drive when the host gates delivery.                       *)
(***************************************************************************)
EXTENDS StrRing, TLAPS

IsLive(i) == state[i] \in {Complete, Acquired}
InProgress == start .. tail - 1

OnDisc(s) == s.frame \in FrameNumbers /\ s.part < Count(s)

DeviceInv ==
  /\ next.frame \in FrameNumbers => next.part < Count(next)
  /\ cd # "idle" => OnDisc(sector)
  /\ dma.busy => cd = "owned" /\ dma.to = tail - 1 /\ start < tail
  /\ dma.last => dma.busy
  /\ lastInFlight <=> (dma.busy /\ dma.last) \/ dmaIrq
  /\ dmaIrq => ~dma.busy

ReceiverInv ==
  /\ start <= tail
  /\ \A i \in InProgress : state[i] = Partial
  /\ expected > 0 =>
       /\ start < tail /\ ~lastInFlight
       /\ frame \in FrameNumbers /\ frame = head[start].frame
       /\ head[start].part = 0
       /\ tail = start + expected
       /\ expected < film[frame]
       /\ start + film[frame] <= Slots - 1
  /\ lastInFlight =>
       /\ start < tail
       /\ head[start].frame \in FrameNumbers /\ head[start].part = 0
       /\ tail = start + Count(head[start])

LiveInv ==
  /\ \A i \in Index : IsLive(i) =>
       /\ head[i].frame \in FrameNumbers /\ head[i].part = 0
       /\ i + Count(head[i]) <= Slots - 1
       /\ \A j \in Extent(i) : j # i => state[j] = Partial
       /\ \A j \in Extent(i) : j \notin InProgress
  /\ acquired => state[read] = Acquired
  /\ \A i \in Index : state[i] = Acquired => acquired /\ i = read

RingInv == TypeOK /\ DeviceInv /\ ReceiverInv /\ LiveInv

(* The sector Receive80039670 will be given next.                          *)
Upcoming == IF cd \in {"held", "ready"} THEN sector ELSE next
FirstSector == [frame |-> 1, part |-> 0]

OrderInv ==
  /\ result = 10
  /\ ~stream => cd = "idle" /\ next = FirstSector
  /\ cd # "idle" => next = Following(sector)
  /\ expected = Upcoming.part
  /\ expected = 0 => frame = 0
  /\ expected > 0 => frame = Upcoming.frame
  /\ seek => Upcoming = FirstSector
  /\ cd = "ready" => CanAccept(sector)

(* Frame sizes are between one and Slots - 1. *)
LEMMA FilmSizes ==
  ASSUME film \in Films
  PROVE  /\ Len(film) \in Nat
         /\ \A f \in FrameNumbers : film[f] \in 1 .. Slots - 1
<1>1. film \in Seq(1 .. Slots - 1)
  BY FilmsAssumption
<1>2. Len(film) \in Nat /\ DOMAIN film = 1 .. Len(film)
  BY <1>1
<1>3. ASSUME NEW S, NEW s \in Seq(S), NEW f \in 1 .. Len(s)
      PROVE  s[f] \in S
  OBVIOUS
<1>4. \A f \in 1 .. Len(film) : film[f] \in 1 .. Slots - 1
  BY <1>1, <1>3
<1> QED
  BY <1>2, <1>4 DEF FrameNumbers

(* The slots of a live frame lie in the ring.                              *)
LEMMA LiveExtent ==
  ASSUME RingInv, NEW i \in Index, IsLive(i)
  PROVE  /\ Count(head[i]) \in 1 .. Slots - 1
         /\ i + Count(head[i]) <= Slots - 1
         /\ i \in Extent(i)
         /\ Extent(i) \subseteq Index
<1>1. \A f \in FrameNumbers : film[f] \in 1 .. Slots - 1
  BY FilmSizes DEF RingInv, TypeOK
<1>2. Count(head[i]) \in 1 .. Slots - 1 /\ i + Count(head[i]) <= Slots - 1
  BY <1>1 DEF RingInv, LiveInv, Count
<1>3. i \in Nat /\ Slots \in Nat
  BY SlotsAssumption DEF Index
<1> QED
  BY <1>2, <1>3 DEF Extent, Index

LEMMA RingInit == Init => RingInv
<1> SUFFICES ASSUME Init PROVE RingInv
  OBVIOUS
<1> USE SlotsAssumption DEF Init, Index, Free, Wrap, Complete, Partial, Acquired
<1>0. \A f \in FrameNumbers : film[f] \in 1 .. Slots - 1
  BY FilmSizes
<1>1. TypeOK
  <2>1. NoSector \in Sector /\ next \in Sector
    BY DEF NoSector, Sector
  <2>2. dma \in [busy : BOOLEAN, to : Index, last : BOOLEAN]
    BY DEF Idle
  <2>3. decoded \in Seq(Seq(Sector))
    OBVIOUS
  <2> QED
    BY <2>1, <2>2, <2>3 DEF TypeOK
<1>2. DeviceInv
  BY <1>0 DEF DeviceInv, Idle, Count
<1>3. ReceiverInv
  BY DEF ReceiverInv, InProgress
<1>4. LiveInv
  BY DEF LiveInv, IsLive
<1> QED
  BY <1>1, <1>2, <1>3, <1>4 DEF RingInv

(* The foreground's SetStream touches none of it: expected becomes 0.      *)
LEMMA RingSetStream == RingInv /\ SetStream => RingInv'
<1> SUFFICES ASSUME RingInv, SetStream PROVE RingInv'
  OBVIOUS
<1> USE DEF RingInv, SetStream, deviceVars
<1>1. TypeOK'
  BY DEF TypeOK
<1>2. DeviceInv'
  BY DEF DeviceInv, OnDisc, Count, FrameNumbers
<1>3. ReceiverInv'
  BY DEF ReceiverInv, InProgress, Count, FrameNumbers
<1>4. LiveInv'
  BY DEF LiveInv, IsLive, Extent, InProgress, Count, FrameNumbers
<1> QED
  BY <1>1, <1>2, <1>3, <1>4

(* The drive keeps part < count for every frame of the film.               *)
LEMMA RingReadSector == RingInv /\ (ReadSector \/ PublishVideo) => RingInv'
<1> SUFFICES ASSUME RingInv, ReadSector \/ PublishVideo PROVE RingInv'
  OBVIOUS
<1> USE DEF RingInv, ReadSector, PublishVideo, ringVars
<1>0. \A f \in FrameNumbers : film[f] \in 1 .. Slots - 1
  BY FilmSizes DEF TypeOK
<1>1. Following(next) \in Sector
  <2>1. next.frame \in Nat /\ next.part \in Nat
    BY DEF TypeOK, Sector
  <2>2. CASE IsLast(next)
    BY <2>1, <2>2 DEF Following, Sector
  <2>3. CASE ~IsLast(next)
    BY <2>1, <2>3 DEF Following, Sector
  <2> QED
    BY <2>2, <2>3
<1>2. TypeOK'
  BY <1>1 DEF TypeOK
<1>3. DeviceInv'
  <2>1. CASE ReadSector
    <3>1. next.frame \in FrameNumbers /\ next.part < Count(next)
      BY <2>1 DEF DeviceInv
    <3>2. Following(next).frame \in FrameNumbers =>
            Following(next).part < film[Following(next).frame]
      <4>1. next.frame \in Nat /\ next.part \in Nat
        BY DEF TypeOK, Sector
      <4>2. CASE IsLast(next)
        BY <1>0, <4>1, <4>2, SlotsAssumption DEF Following
      <4>3. CASE ~IsLast(next)
        BY <1>0, <3>1, <4>1, <4>3, SlotsAssumption DEF Following, IsLast, Count
      <4> QED
        BY <4>2, <4>3
    <3> QED
      BY <2>1, <3>1, <3>2 DEF DeviceInv, OnDisc, Count, FrameNumbers
  <2>2. CASE PublishVideo
    BY <2>2 DEF DeviceInv, OnDisc, Count, FrameNumbers
  <2> QED
    BY <2>1, <2>2
<1>4. ReceiverInv'
  BY DEF ReceiverInv, InProgress, Count, FrameNumbers
<1>5. LiveInv'
  BY DEF LiveInv, IsLive, Extent, InProgress, Count, FrameNumbers
<1> QED
  BY <1>2, <1>3, <1>4, <1>5

(* Acquiring moves over a marker or turns one announced frame into the     *)
(* acquired one; nothing else in the ring moves.                           *)
LEMMA RingAcquire == RingInv /\ Acquire => RingInv'
<1> SUFFICES ASSUME RingInv, Acquire PROVE RingInv'
  OBVIOUS
<1> USE SlotsAssumption DEF RingInv, Acquire, deviceVars
<1> DEFINE at == IF state[read] = Wrap THEN 0 ELSE read
           passed == IF state[read] = Wrap THEN [state EXCEPT ![read] = Free]
                                           ELSE state
<1>1. at \in Index /\ passed \in [Index -> Free .. Acquired]
  BY DEF TypeOK, Index, Free, Acquired
<1>2. read' = at
  OBVIOUS
<1>3. \A i \in Index : passed[i] # Free => passed[i] = state[i]
  BY DEF TypeOK, Free
<1>4. \A i \in Index : state[i] # Wrap => passed[i] = state[i]
  BY DEF TypeOK
<1>5. \/ state' = passed /\ acquired' = acquired
      \/ /\ passed[at] = Complete /\ acquired' = TRUE
         /\ state' = [passed EXCEPT ![at] = Acquired]
  BY DEF Available, Claim
<1>6. ~acquired
  OBVIOUS
<1>7. state' \in [Index -> Free .. Acquired]
  BY <1>1, <1>5 DEF Free, Acquired
<1> HIDE DEF at, passed
<1>8. \A i \in Index : state[i] = Partial => state'[i] = Partial
  BY <1>1, <1>3, <1>4, <1>5 DEF Partial, Wrap, Complete
<1>9. \A i \in Index : state'[i] = Acquired => acquired' /\ i = read'
  <2>1. \A i \in Index : passed[i] # Acquired
    BY <1>3, <1>6 DEF LiveInv, Free, Acquired
  <2> QED
    BY <1>1, <1>2, <1>5, <2>1
<1>10. \A i \in Index : IsLive(i)' => IsLive(i)
  BY <1>1, <1>3, <1>5 DEF IsLive, Free, Complete, Acquired
<1>11. acquired' => state'[read'] = Acquired
  BY <1>1, <1>2, <1>5, <1>6
<1>12. TypeOK'
  BY <1>1, <1>2, <1>5, <1>7 DEF TypeOK
<1>13. DeviceInv'
  BY DEF DeviceInv, OnDisc, Count, FrameNumbers
<1>14. ReceiverInv'
  BY <1>8 DEF ReceiverInv, InProgress, Count, FrameNumbers, TypeOK, Index
<1>15. LiveInv'
  <2>1. ASSUME NEW i \in Index, IsLive(i)'
        PROVE  /\ head[i].frame \in FrameNumbers /\ head[i].part = 0
               /\ i + Count(head[i]) <= Slots - 1
               /\ \A j \in Extent(i) : j # i => state'[j] = Partial
               /\ \A j \in Extent(i) : j \notin InProgress
    <3>1. IsLive(i)
      BY <1>10, <2>1
    <3>2. Extent(i) \subseteq Index
      BY <3>1, LiveExtent
    <3> QED
      BY <1>8, <3>1, <3>2 DEF LiveInv
  <2> QED
    BY <1>9, <1>11, <2>1
    DEF LiveInv, Extent, InProgress, Count, FrameNumbers, IsLive
<1> QED
  BY <1>12, <1>13, <1>14, <1>15

(* The completed transfer becomes the owed interrupt.                      *)
LEMMA RingDmaService == RingInv /\ DmaService => RingInv'
<1> SUFFICES ASSUME RingInv, DmaService PROVE RingInv'
  OBVIOUS
<1> USE DEF RingInv, DmaService, Latch, Idle
<1>1. TypeOK'
  BY SlotsAssumption DEF TypeOK, Index
<1>2. DeviceInv'
  BY DEF DeviceInv, OnDisc, Count, FrameNumbers
<1>3. ReceiverInv'
  BY DEF ReceiverInv, InProgress, Count, FrameNumbers
<1>4. LiveInv'
  BY DEF LiveInv, IsLive, Extent, InProgress, Count, FrameNumbers
<1> QED
  BY <1>1, <1>2, <1>3, <1>4

(* The slots received become the extent of a new live frame. *)
LEMMA RingDmaCallback == RingInv /\ DmaCallback => RingInv'
<1> SUFFICES ASSUME RingInv, DmaCallback PROVE RingInv'
  OBVIOUS
<1> USE SlotsAssumption DEF RingInv, DmaCallback
<1>0. \A f \in FrameNumbers : film[f] \in 1 .. Slots - 1
  BY FilmSizes DEF TypeOK
<1>1. lastInFlight /\ expected = 0 /\ start < tail /\ ~dma.busy
  BY DEF DeviceInv, ReceiverInv, TypeOK
<1>n. start \in Nat /\ tail \in Nat /\ start \in Index /\ tail \in Index
  BY DEF TypeOK, Index
<1>2. state' = [state EXCEPT ![start] = Complete] /\ state[start] = Partial
  <2>1. start \in InProgress
    BY <1>1, <1>n DEF InProgress
  <2> QED
    BY <2>1 DEF ReceiverInv
<1>3. TypeOK'
  <2>1. state' \in [Index -> Free .. Acquired]
    BY <1>2 DEF TypeOK, Free, Acquired, Complete
  <2> QED
    BY <1>n, <2>1 DEF TypeOK
<1>4. DeviceInv'
  <2>1. ~dma.busy
    BY <1>1
  <2> QED
    BY <1>1, <2>1 DEF DeviceInv, OnDisc, Count, FrameNumbers
<1>5. ReceiverInv'
  BY <1>1 DEF ReceiverInv, InProgress, TypeOK, Index
<1>6. LiveInv'
  <2>1. ASSUME NEW i \in Index, IsLive(i)'
        PROVE  /\ head[i].frame \in FrameNumbers /\ head[i].part = 0
               /\ i + Count(head[i]) <= Slots - 1
               /\ \A j \in Extent(i) : j # i => state'[j] = Partial
    <3>1. CASE i = start
      <4>1. Extent(i) = InProgress
        <5>1. tail = start + Count(head[start]) /\ Count(head[start]) \in Nat
          BY <1>0, <1>1 DEF ReceiverInv, Count
        <5> QED
          BY <1>n, <3>1, <5>1 DEF Extent, InProgress
      <4>2. \A j \in InProgress : j # i => state'[j] = Partial
        BY <1>2, <3>1 DEF ReceiverInv, InProgress, TypeOK, Index
      <4> QED
        BY <1>0, <1>1, <3>1, <4>1, <4>2 DEF ReceiverInv, Count, TypeOK, Index
    <3>2. CASE i # start
      <4>1. IsLive(i)
        BY <1>2, <2>1, <3>2 DEF IsLive, TypeOK
      <4>2. start \in InProgress
        BY <1>1 DEF InProgress, TypeOK, Index
      <4>3. Extent(i) \subseteq Index
        BY <1>0, <4>1 DEF LiveInv, Extent, Index, Count
      <4> QED
        BY <1>2, <4>1, <4>2, <4>3 DEF LiveInv, TypeOK
    <3> QED
      BY <3>1, <3>2
  <2>2. InProgress' = {}
    BY DEF InProgress, TypeOK, Index
  <2>3. acquired' => state'[read'] = Acquired
    BY <1>2 DEF LiveInv, TypeOK, Partial, Acquired
  <2>4. \A i \in Index : state'[i] = Acquired => acquired' /\ i = read'
    BY <1>2 DEF LiveInv, TypeOK, Complete, Acquired
  <2> QED
    BY <2>1, <2>2, <2>3, <2>4 DEF LiveInv, Extent, Count, FrameNumbers, IsLive
<1> QED
  BY <1>3, <1>4, <1>5, <1>6

(* Live frames occupy disjoint slots: a slot of one is Partial unless it   *)
(* is the first, and the first is not Partial.                             *)
LEMMA ExtentsDisjoint ==
  ASSUME RingInv, NEW i \in Index, NEW j \in Index,
         IsLive(i), IsLive(j), i # j
  PROVE  Extent(i) \cap Extent(j) = {}
<1>2. Count(head[i]) \in Nat /\ Count(head[j]) \in Nat
  BY LiveExtent
<1>3. i \notin Extent(j) /\ j \notin Extent(i)
  BY DEF RingInv, LiveInv, IsLive, Complete, Partial, Acquired
<1>4. i \in Nat /\ j \in Nat
  BY SlotsAssumption DEF Index
<1> QED
  BY <1>2, <1>3, <1>4 DEF Extent

(* Releasing frees the slots of the acquired frame and of no other.        *)
LEMMA RingReleaseFrame == RingInv /\ ReleaseFrame => RingInv'
<1> SUFFICES ASSUME RingInv, ReleaseFrame PROVE RingInv'
  OBVIOUS
<1> USE SlotsAssumption DEF RingInv, ReleaseFrame, deviceVars
<1>1. state[read] = Acquired /\ read \in Index /\ IsLive(read)
  BY DEF LiveInv, TypeOK, IsLive
<1>2. /\ Count(head[read]) \in 1 .. Slots - 1
      /\ read + Count(head[read]) <= Slots - 1
      /\ read \in Extent(read)
  BY <1>1, LiveExtent
<1>3. /\ state' = Released(read, state)
      /\ read' = read + Count(head[read])
  BY <1>1 DEF Freed
<1>5. TypeOK'
  <2>1. state' \in [Index -> Free .. Acquired]
    BY <1>3 DEF TypeOK, Released, Free, Acquired
  <2>2. read' \in Index
    BY <1>1, <1>2, <1>3 DEF Index
  <2>3. [j \in 1 .. Count(head[read]) |-> data[read + j - 1]] \in Seq(Sector)
    <3>1. Count(head[read]) \in Nat
      BY <1>2
    <3>2. \A j \in 1 .. Count(head[read]) : read + j - 1 \in Index
      BY <1>1, <1>2 DEF Index
    <3>3. \A j \in 1 .. Count(head[read]) : data[read + j - 1] \in Sector
      BY <3>2 DEF TypeOK
    <3> QED
      BY <3>1, <3>3
  <2>4. decoded' \in Seq(Seq(Sector))
    BY <2>3 DEF TypeOK
  <2> QED
    BY <2>1, <2>2, <2>4 DEF TypeOK
<1>6. DeviceInv'
  BY DEF DeviceInv, OnDisc, Count, FrameNumbers
<1>7. ReceiverInv'
  <2>1. \A i \in InProgress : state'[i] = Partial
    <3>1. ASSUME NEW i \in InProgress PROVE i \in Index /\ i \notin Extent(read)
      <4>1. start \in Nat /\ tail \in Index
        BY DEF TypeOK, Index
      <4> QED
        BY <1>1, <4>1 DEF InProgress, LiveInv, Index
    <3> QED
      BY <1>3, <3>1 DEF ReceiverInv, Released
  <2> QED
    BY <2>1 DEF ReceiverInv, InProgress, Count, FrameNumbers
<1>8. LiveInv'
  <2>1. ASSUME NEW i \in Index, IsLive(i)'
        PROVE  /\ IsLive(i) /\ i # read /\ state'[i] # Acquired
               /\ \A j \in Extent(i) : j # i => state'[j] = Partial
    <3>1. i \notin Extent(read) /\ state'[i] = state[i]
      BY <1>3, <2>1 DEF IsLive, Released, Free, Complete, Acquired
    <3>2. IsLive(i) /\ i # read /\ state'[i] # Acquired
      BY <1>2, <2>1, <3>1 DEF IsLive, LiveInv
    <3>3. Extent(i) \cap Extent(read) = {}
      BY <1>1, <3>2, ExtentsDisjoint
    <3>4. Extent(i) \subseteq Index
      BY <3>2, LiveExtent
    <3> QED
      BY <1>3, <3>2, <3>3, <3>4 DEF LiveInv, Released
  <2>2. \A i \in Index : state'[i] # Acquired
    BY <2>1 DEF IsLive
  <2> QED
    BY <2>1, <2>2 DEF LiveInv, Extent, InProgress, Count, FrameNumbers, IsLive
<1> QED
  BY <1>5, <1>6, <1>7, <1>8

(* A sector the receiver refuses before asking for its data leaves the     *)
(* ring alone.                                                             *)
LEMMA RingRefused ==
  RingInv /\ Receive /\ (RejectBusy \/ RejectOccupied) => RingInv'
<1> SUFFICES ASSUME RingInv, Receive, RejectBusy \/ RejectOccupied PROVE RingInv'
  OBVIOUS
<1>1. /\ UNCHANGED <<ringVars, sector, next, dma, dmaIrq, decoded, film, session>>
      /\ cd = "ready" /\ cd' = "idle" /\ result' \in {1, 4}
  BY DEF Receive, RejectBusy, RejectOccupied
<1> USE <1>1 DEF RingInv, ringVars
<1>2. TypeOK'
  BY DEF TypeOK
<1>3. DeviceInv'
  BY DEF DeviceInv, OnDisc, Count, FrameNumbers
<1>4. ReceiverInv'
  BY DEF ReceiverInv, InProgress, Count, FrameNumbers
<1>5. LiveInv'
  BY DEF LiveInv, IsLive, Extent, InProgress, Count, FrameNumbers
<1> QED
  BY <1>2, <1>3, <1>4, <1>5

(* Copying a header to the free slot `tail` disturbs no frame: neither a   *)
(* live one nor the one being received begins there.                       *)
LEMMA HeadAtTail ==
  ASSUME RingInv, Requested, head' = [head EXCEPT ![tail] = sector]
  PROVE  /\ \A i \in Index : IsLive(i) => head'[i] = head[i]
         /\ start < tail => head'[start] = head[start]
         /\ head' \in [Index -> Sector]
<1>1. \A i \in Index : IsLive(i) => i # tail
  BY DEF Requested, IsLive, Free, Complete, Acquired
<1>2. start < tail => start # tail
  BY SlotsAssumption DEF RingInv, TypeOK, Index
<1> QED
  BY <1>1, <1>2 DEF RingInv, TypeOK

(* A sector whose data was requested and which is then rejected.           *)
LEMMA RingRejected ==
  RingInv /\ Receive /\ (SkipUntilTarget \/ RejectMismatch \/ RejectFull)
    => RingInv'
<1> SUFFICES ASSUME RingInv, Receive,
                    SkipUntilTarget \/ RejectMismatch \/ RejectFull
             PROVE RingInv'
  OBVIOUS
<1>1. /\ Requested /\ cd = "ready" /\ cd' = "owned"
      /\ head' = [head EXCEPT ![tail] = sector]
      /\ result' \in {0, 6, 9}
      /\ UNCHANGED <<data, start, read, lastInFlight, stream, acquired, dma,
                     sector, next, dmaIrq, decoded, film, session>>
      /\ seek' \in {seek, FALSE}
  BY DEF Receive, SkipUntilTarget, RejectMismatch, RejectFull
<1>2. \/ UNCHANGED <<state, tail, expected, frame>>
      \/ UNCHANGED <<state, tail>> /\ expected' = 0 /\ frame' = sector.frame
      \/ state' = PartialFreed /\ tail' = start /\ expected' = 0 /\ frame' = 0
  BY DEF SkipUntilTarget, RejectMismatch, RejectFull
<1>3. /\ \A i \in Index : IsLive(i) => head'[i] = head[i]
      /\ start < tail => head'[start] = head[start]
      /\ head' \in [Index -> Sector]
  BY <1>1, HeadAtTail
<1>n. /\ start \in Index /\ tail \in Index /\ start <= tail
      /\ Index \subseteq Nat
  BY SlotsAssumption DEF RingInv, ReceiverInv, TypeOK, Index
<1>4. TypeOK'
  <2>1. state' \in [Index -> Free .. Acquired]
    BY <1>2, <1>n DEF RingInv, TypeOK, PartialFreed, Free, Acquired
  <2>2. tail' \in Index /\ expected' \in Nat /\ frame' \in Nat
    <3>1. sector.frame \in Nat
      BY DEF RingInv, TypeOK, Sector
    <3> QED
      BY <1>2, <1>n, <3>1 DEF RingInv, TypeOK
  <2> QED
    BY <1>1, <1>3, <2>1, <2>2 DEF RingInv, TypeOK
<1>5. DeviceInv'
  BY <1>1 DEF RingInv, DeviceInv, OnDisc, Count, FrameNumbers
<1>6. /\ InProgress' \subseteq InProgress
      /\ \A i \in Index : i \notin InProgress => state'[i] = state[i]
      /\ \A i \in Index : IsLive(i)' => IsLive(i) /\ state'[i] = state[i]
  <2>1. CASE UNCHANGED <<state, tail>>
    BY <1>1, <2>1 DEF InProgress, IsLive
  <2>2. CASE state' = PartialFreed /\ tail' = start
    <3>1. InProgress' = {}
      BY <1>1, <1>n, <2>2 DEF InProgress
    <3>2. \A i \in Index : state'[i] = IF i \in InProgress THEN Free ELSE state[i]
      BY <1>n, <2>2 DEF PartialFreed, InProgress
    <3> QED
      BY <3>1, <3>2 DEF IsLive, Free, Complete, Acquired
  <2> QED
    BY <1>2, <2>1, <2>2
<1>7. ReceiverInv'
  <2>1. CASE UNCHANGED <<state, tail>>
    <3>1. start <= tail /\ \A i \in InProgress' : state'[i] = Partial
      BY <1>1, <2>1 DEF RingInv, ReceiverInv, InProgress
    <3>2. expected' > 0 => UNCHANGED <<expected, frame>>
      BY <1>2
    <3> QED
      BY <1>1, <1>3, <2>1, <3>1, <3>2
      DEF RingInv, ReceiverInv, Count, FrameNumbers
  <2>2. CASE tail' = start /\ expected' = 0
    BY <1>1, <1>n, <2>2 DEF ReceiverInv, InProgress, Requested
  <2> QED
    BY <1>2, <2>1, <2>2
<1>8. LiveInv'
  <2>1. ASSUME NEW i \in Index, IsLive(i)'
        PROVE  /\ head[i].frame \in FrameNumbers /\ head[i].part = 0
               /\ i + Count(head[i]) <= Slots - 1
               /\ \A j \in Extent(i) : j # i => state'[j] = Partial
               /\ \A j \in Extent(i) : j \notin InProgress'
               /\ head'[i] = head[i]
    <3>1. IsLive(i)
      BY <1>6, <2>1
    <3>2. Extent(i) \subseteq Index
      BY <3>1, LiveExtent
    <3> QED
      BY <1>3, <1>6, <3>1, <3>2 DEF RingInv, LiveInv
  <2>2. acquired' => state'[read'] = Acquired
    <3>1. read \in Index
      BY DEF RingInv, TypeOK
    <3>2. acquired => read \in Extent(read) /\ IsLive(read)
      <4>1. acquired => IsLive(read)
        BY <3>1 DEF RingInv, LiveInv, IsLive
      <4> QED
        BY <3>1, <4>1, LiveExtent
    <3> QED
      BY <1>1, <1>6, <3>1, <3>2 DEF RingInv, LiveInv
  <2>3. \A i \in Index : state'[i] = Acquired => acquired' /\ i = read'
    BY <1>1, <1>6 DEF RingInv, LiveInv, IsLive
  <2> QED
    BY <1>1, <2>1, <2>2, <2>3
    DEF LiveInv, Extent, Count, FrameNumbers, IsLive
<1> QED
  BY <1>4, <1>5, <1>7, <1>8 DEF RingInv

(* Where an accepted sector goes: `at` is free, the frame being received   *)
(* then ends at `at`, and what remains of the frame fits.                  *)
LEMMA AcceptedSlot ==
  ASSUME RingInv, Receive, Accept
  PROVE  LET at == IF WrapsAt(sector) THEN 0 ELSE tail
         IN  /\ at \in Index /\ state[at] = Free /\ state[tail] = Free
             /\ tail' = at + 1
             /\ start' \in Index /\ start' <= at
             /\ sector.part = 0 => start' = at
             /\ sector.part > 0 =>
                  /\ at = tail /\ start' = start /\ start < tail
                  /\ head[start].frame = sector.frame /\ head[start].part = 0
             /\ at = start' + sector.part
             /\ start' + Count(sector) <= Slots - 1
<1> DEFINE at == IF WrapsAt(sector) THEN 0 ELSE tail
<1>0. \A f \in FrameNumbers : film[f] \in 1 .. Slots - 1
  BY FilmSizes DEF RingInv, TypeOK
<1>1. /\ sector.frame \in FrameNumbers /\ sector.part < Count(sector)
      /\ Count(sector) \in 1 .. Slots - 1
      /\ sector.part \in Nat
  BY <1>0 DEF RingInv, DeviceInv, TypeOK, Receive, OnDisc, Count, Sector
<1>2. /\ tail \in Index /\ start \in Index /\ 0 \in Index
      /\ state[tail] = Free /\ state[at] = Free
  BY SlotsAssumption DEF RingInv, TypeOK, Index, Accept, Requested
<1>3. tail' = at + 1 /\ start' = IF sector.part = 0 THEN at ELSE start
  BY DEF Accept
<1>4. CASE sector.part = 0
  <2>1. at + Count(sector) <= Slots - 1
    BY <1>1, <1>2, <1>4, SlotsAssumption DEF WrapsAt, Index
  <2> QED
    BY <1>1, <1>2, <1>3, <1>4, <2>1, SlotsAssumption DEF Index
<1>5. CASE sector.part > 0
  <2>1. expected = sector.part /\ (frame = 0 \/ frame = sector.frame)
    BY DEF Accept, Mismatch
  <2>2. /\ start < tail /\ frame \in FrameNumbers /\ frame = head[start].frame
        /\ head[start].part = 0 /\ tail = start + expected
        /\ start + film[frame] <= Slots - 1
    BY <1>5, <2>1 DEF RingInv, ReceiverInv
  <2>3. frame = sector.frame
    BY <2>1, <2>2 DEF FrameNumbers
  <2>4. at = tail /\ start' = start
    BY <1>1, <1>3, <1>5 DEF WrapsAt
  <2> QED
    BY <1>2, <1>3, <1>5, <2>1, <2>2, <2>3, <2>4, SlotsAssumption
    DEF Index, Count
<1> QED
  BY <1>1, <1>4, <1>5

LEMMA RingAccept == RingInv /\ Receive /\ Accept => RingInv'
<1> SUFFICES ASSUME RingInv, Receive, Accept PROVE RingInv'
  OBVIOUS
<1> DEFINE at == IF WrapsAt(sector) THEN 0 ELSE tail
           marked == IF WrapsAt(sector) THEN [state EXCEPT ![tail] = Wrap]
                                        ELSE state
<1>0. \A f \in FrameNumbers : film[f] \in 1 .. Slots - 1
  BY FilmSizes DEF RingInv, TypeOK
<1>1. /\ at \in Index /\ state[at] = Free /\ state[tail] = Free
      /\ tail' = at + 1
      /\ start' \in Index /\ start' <= at
      /\ sector.part = 0 => start' = at
      /\ sector.part > 0 =>
           /\ at = tail /\ start' = start /\ start < tail
           /\ head[start].frame = sector.frame /\ head[start].part = 0
      /\ at = start' + sector.part
      /\ start' + Count(sector) <= Slots - 1
  BY AcceptedSlot
<1>2. /\ sector.frame \in FrameNumbers /\ sector.part < Count(sector)
      /\ Count(sector) \in 1 .. Slots - 1
      /\ sector \in Sector /\ sector.part \in Nat /\ sector.frame \in Nat
  BY <1>0 DEF RingInv, DeviceInv, TypeOK, Receive, OnDisc, Count, Sector
<1>3. /\ tail \in Index /\ start \in Nat /\ read \in Index /\ start <= tail
      /\ Index \subseteq Nat /\ at \in Nat /\ start' \in Nat
      /\ state \in [Index -> Free .. Acquired] /\ head \in [Index -> Sector]
  BY <1>1, SlotsAssumption DEF RingInv, ReceiverInv, TypeOK, Index
<1>4. /\ state' = [marked EXCEPT ![at] = Partial]
      /\ head' = [head EXCEPT ![tail] = sector, ![at] = sector]
      /\ expected' = IF IsLast(sector) THEN 0 ELSE sector.part + 1
      /\ frame' = IF IsLast(sector) THEN 0
                  ELSE IF sector.part = 0 THEN sector.frame ELSE frame
      /\ lastInFlight' = IsLast(sector)
      /\ dma' = [busy |-> TRUE, to |-> at, last |-> Interrupts(sector)]
      /\ seek' = FALSE /\ result' = 10 /\ cd' = "owned"
      /\ UNCHANGED <<data, read, stream, acquired, sector, next, dmaIrq,
                     decoded, film, session>>
      /\ ~lastInFlight
  BY DEF Accept, Receive, Requested
<1>5. /\ state' \in [Index -> Free .. Acquired]
      /\ head' \in [Index -> Sector]
      /\ state'[at] = Partial /\ head'[at] = sector
      /\ \A i \in Index : state[i] # Free => state'[i] = state[i] /\ head'[i] = head[i]
      /\ \A i \in Index : IsLive(i)' => IsLive(i)
  <2>1. marked \in [Index -> Free .. Acquired]
    BY <1>3 DEF Free, Wrap, Acquired
  <2>2. \A i \in Index : state[i] # Free => marked[i] = state[i]
    BY <1>1, <1>3
  <2>3. \A i \in Index : marked[i] \in {state[i], Wrap}
    BY <1>3
  <2> HIDE DEF at, marked
  <2> QED
    BY <1>1, <1>2, <1>3, <1>4, <2>1, <2>2, <2>3
    DEF IsLive, Free, Wrap, Complete, Partial, Acquired
<1>6. \A i \in Index : IsLive(i) => state[i] # Free
  BY DEF IsLive, Free, Complete, Acquired
<1> HIDE DEF at, marked
<1>n. /\ at \in Nat /\ start' \in Nat /\ start \in Nat /\ tail \in Nat
      /\ Slots \in Nat /\ at + 1 <= Slots - 1 /\ start' <= at /\ tail' = at + 1
  <2>1. start' \in Nat /\ Slots \in Nat /\ Count(sector) \in Nat
    BY <1>2, <1>3, SlotsAssumption
  <2> QED
    BY <1>1, <1>2, <1>3, <2>1
<1>7. InProgress' = start' .. at
  BY <1>n DEF InProgress
<1>8. \A i \in InProgress' : i = at \/ i \in InProgress
  <2>1. CASE sector.part = 0
    <3>1. start' = at
      BY <1>1, <2>1
    <3> QED
      BY <1>n, <1>7, <3>1
  <2>2. CASE sector.part > 0
    <3>1. start' = start /\ at = tail
      BY <1>1, <2>2
    <3> QED
      BY <1>n, <1>7, <3>1 DEF InProgress
  <2> QED
    BY <1>2, <2>1, <2>2
<1>9. TypeOK'
  <2>1. tail' \in Index
    BY <1>n DEF Index
  <2>2. expected' \in Nat /\ frame' \in Nat
    BY <1>2, <1>4 DEF RingInv, TypeOK
  <2>3. lastInFlight' \in BOOLEAN
    BY <1>4 DEF IsLast
  <2>4. dma' \in [busy : BOOLEAN, to : Index, last : BOOLEAN]
    BY <1>1, <1>4 DEF Interrupts, IsLast
  <2> QED
    BY <1>1, <1>4, <1>5, <2>1, <2>2, <2>3, <2>4 DEF RingInv, TypeOK
<1>10. DeviceInv'
  <2>1. ~dmaIrq
    BY <1>4 DEF RingInv, DeviceInv
  <2>2. OnDisc(sector)'
    BY <1>2, <1>4 DEF OnDisc, Count, FrameNumbers
  <2>3. dma'.busy /\ dma'.to = tail' - 1 /\ start' < tail'
    BY <1>1, <1>3, <1>4
  <2>4. dma'.last = lastInFlight'
    BY <1>4 DEF Interrupts
  <2>5. (next.frame \in FrameNumbers => next.part < Count(next))'
    BY <1>4 DEF RingInv, DeviceInv, Count, FrameNumbers
  <2> QED
    BY <1>4, <2>1, <2>2, <2>3, <2>4, <2>5 DEF DeviceInv
<1>11. /\ head'[start'].frame = sector.frame /\ head'[start'].part = 0
  <2>1. CASE sector.part = 0
    BY <1>1, <1>5, <2>1
  <2>2. CASE sector.part > 0
    <3>1. state[start] = Partial /\ start \in Index
      BY <1>1, <1>3, <2>2 DEF RingInv, ReceiverInv, InProgress, TypeOK
    <3> QED
      BY <1>1, <1>5, <2>2, <3>1 DEF Partial, Free
  <2> QED
    BY <1>2, <2>1, <2>2
<1>12. ReceiverInv'
  <2>1. start' <= tail'
    BY <1>1, <1>3
  <2>2. \A i \in InProgress' : state'[i] = Partial
    <3>1. ASSUME NEW i \in InProgress PROVE i \in Index /\ state[i] = Partial
      <4>1. i \in Index
        BY <1>3, <1>n DEF InProgress, Index
      <4> QED
        BY <4>1 DEF RingInv, ReceiverInv
    <3> QED
      BY <1>5, <1>8, <3>1 DEF Partial, Free
  <2>3. CASE IsLast(sector)
    <3>1. Count(sector)' = Count(sector) /\ FrameNumbers' = FrameNumbers
      BY <1>4 DEF Count, FrameNumbers
    <3>2. Count(head[start])' = Count(sector)
      BY <1>4, <1>11 DEF Count
    <3>3. tail' = start' + Count(sector)
      BY <1>1, <1>2, <1>3, <2>3 DEF IsLast
    <3>4. start' < tail'
      BY <1>1, <1>3
    <3> QED
      BY <1>2, <1>4, <1>11, <2>1, <2>2, <2>3, <3>1, <3>2, <3>3, <3>4
      DEF ReceiverInv
  <2>4. CASE ~IsLast(sector)
    <3>1. frame' = sector.frame
      <4>1. CASE sector.part > 0
        <5>1. expected > 0 /\ (frame = 0 \/ frame = sector.frame)
          BY <4>1 DEF Accept, Mismatch
        <5>2. frame \in FrameNumbers
          BY <5>1 DEF RingInv, ReceiverInv
        <5> QED
          BY <1>4, <2>4, <4>1, <5>1, <5>2 DEF FrameNumbers
      <4> QED
        BY <1>2, <1>4, <2>4, <4>1
    <3>2. sector.part + 1 < Count(sector)
      BY <1>2, <2>4 DEF IsLast
    <3>3. FrameNumbers' = FrameNumbers /\ film' = film
      BY <1>4 DEF FrameNumbers
    <3> QED
      BY <1>1, <1>2, <1>3, <1>4, <1>11, <2>1, <2>2, <2>4, <3>1, <3>2, <3>3
      DEF ReceiverInv, Count
  <2> QED
    BY <2>3, <2>4
<1>13. LiveInv'
  <2>1. ASSUME NEW i \in Index, IsLive(i)'
        PROVE  /\ head[i].frame \in FrameNumbers /\ head[i].part = 0
               /\ i + Count(head[i]) <= Slots - 1
               /\ \A j \in Extent(i) : j # i => state'[j] = Partial
               /\ \A j \in Extent(i) : j \notin InProgress'
               /\ head'[i] = head[i]
    <3>1. IsLive(i) /\ head'[i] = head[i]
      BY <1>5, <1>6, <2>1
    <3>2. Extent(i) \subseteq Index
      BY <3>1, LiveExtent
    <3>3. at \notin Extent(i)
      BY <1>1, <1>6, <3>1 DEF RingInv, LiveInv, Partial, Free
    <3> QED
      BY <1>5, <1>8, <3>1, <3>2, <3>3 DEF RingInv, LiveInv, Partial, Free
  <2>2. acquired' => state'[read'] = Acquired
    BY <1>3, <1>4, <1>5 DEF RingInv, LiveInv, Acquired, Free
  <2>3. \A i \in Index : state'[i] = Acquired => acquired' /\ i = read'
    <3>1. \A i \in Index : state'[i] = Acquired => state[i] = Acquired
      BY <1>5, <1>6 DEF IsLive, Free, Acquired
    <3> QED
      BY <1>4, <3>1 DEF RingInv, LiveInv
  <2> QED
    BY <1>4, <2>1, <2>2, <2>3 DEF LiveInv, Extent, Count, FrameNumbers, IsLive
<1> QED
  BY <1>9, <1>10, <1>12, <1>13 DEF RingInv

LEMMA RingNext == RingInv /\ [Next]_vars => RingInv'
<1> SUFFICES ASSUME RingInv, [Next]_vars PROVE RingInv'
  OBVIOUS
<1>1. CASE SetStream
  BY <1>1, RingSetStream
<1>2. CASE Acquire
  BY <1>2, RingAcquire
<1>3. CASE ReleaseFrame
  BY <1>3, RingReleaseFrame
<1>4. CASE ReadSector \/ PublishVideo
  BY <1>4, RingReadSector
<1>5. CASE Receive
  BY <1>5, RingRefused, RingRejected, RingAccept DEF Receive
<1>6. CASE DmaService
  BY <1>6, RingDmaService
<1>7. CASE DmaCallback
  BY <1>7, RingDmaCallback
<1>8. CASE UNCHANGED vars
  <2> USE <1>8 DEF vars, ringVars, deviceVars, RingInv
  <2>1. TypeOK'
    BY DEF TypeOK
  <2>2. DeviceInv'
    BY DEF DeviceInv, OnDisc, Count, FrameNumbers
  <2>3. ReceiverInv'
    BY DEF ReceiverInv, InProgress, Count, FrameNumbers
  <2>4. LiveInv'
    BY DEF LiveInv, IsLive, Extent, InProgress, Count, FrameNumbers
  <2> QED
    BY <2>1, <2>2, <2>3, <2>4
<1> QED
  BY <1>1, <1>2, <1>3, <1>4, <1>5, <1>6, <1>7, <1>8 DEF Next, Finished

THEOREM RingInvariant == Spec => []RingInv
<1> QED
  BY RingInit, RingNext, PTL DEF Spec

(* Every variable keeps its type, whatever the ring size and the film: in  *)
(* particular tail (80095C50) and read (80095C58) never leave the ring.    *)
THEOREM TypeCorrect == Spec => []TypeOK
<1>1. RingInv => TypeOK
  BY DEF RingInv
<1> QED
  BY <1>1, RingInvariant, PTL

(* The busy flag 80092858 is set exactly while a frame's last payload is   *)
(* in flight or its completion interrupt is owed.                          *)
THEOREM CompletionIsOwed == Spec => []CompletionOwed
<1>1. RingInv => CompletionOwed
  BY DEF RingInv, DeviceInv, CompletionOwed
<1> QED
  BY <1>1, RingInvariant, PTL

(* A step moves no slot of a frame that is live before and after it.       *)
LEMMA LiveSlotKept ==
  ASSUME RingInv, [Next]_vars, NEW i \in Live \cap Live', NEW j \in Extent(i)
  PROVE  data'[j] = data[j] /\ head'[j] = head[j]
<1>1. i \in Index /\ IsLive(i)
  BY DEF Live, IsLive, RingInv, LiveInv
<1>2. j \in Index /\ state[j] # Free /\ j \notin InProgress
  BY <1>1, LiveExtent
  DEF RingInv, LiveInv, IsLive, Free, Complete, Partial, Acquired
<1>3. CASE DmaService
  <2>1. /\ data' = [data EXCEPT ![dma.to] = sector] /\ head' = head
        /\ dma.to = tail - 1 /\ start < tail
    BY <1>3 DEF DmaService, RingInv, DeviceInv
  <2>2. tail - 1 \in InProgress
    BY <2>1, SlotsAssumption DEF InProgress, RingInv, TypeOK, Index
  <2> QED
    BY <1>2, <2>1, <2>2 DEF RingInv, TypeOK
<1>4. CASE Receive
  <2>1. CASE RejectBusy \/ RejectOccupied
    BY <2>1 DEF RejectBusy, RejectOccupied, ringVars
  <2>2. CASE SkipUntilTarget \/ RejectMismatch \/ RejectFull
    BY <1>2, <2>2 DEF SkipUntilTarget, RejectMismatch, RejectFull,
       Requested, RingInv, TypeOK
  <2>3. CASE Accept
    <3> DEFINE at == IF WrapsAt(sector) THEN 0 ELSE tail
    <3>1. state[at] = Free /\ state[tail] = Free
      BY <1>4, <2>3, AcceptedSlot
    <3>2. /\ head' = [head EXCEPT ![tail] = sector, ![at] = sector]
          /\ data' = data
      BY <2>3 DEF Accept
    <3> HIDE DEF at
    <3> QED
      BY <1>2, <3>1, <3>2 DEF RingInv, TypeOK
  <2> QED
    BY <1>4, <2>1, <2>2, <2>3 DEF Receive
<1>5. CASE ~DmaService /\ ~Receive
  <2>1. UNCHANGED <<head, data>>
    BY <1>5 DEF Next, vars, ringVars, SetStream, Acquire, ReleaseFrame,
       ReadSector, PublishVideo, DmaCallback, Finished
  <2> QED
    BY <2>1
<1> QED
  BY <1>3, <1>4, <1>5

(* No transfer and no header copy lands in a frame that is announced and   *)
(* not yet released.                                                       *)
THEOREM LiveFramesKept == Spec => NoLiveOverwrite
<1>1. RingInv /\ [Next]_vars =>
        [\A i \in Live \cap Live' :
           \A j \in Extent(i) : data'[j] = data[j] /\ head'[j] = head[j]]_vars
  BY LiveSlotKept
<1> QED
  BY <1>1, RingInvariant, PTL DEF Spec, NoLiveOverwrite

(***************************************************************************)
(* The first movie of a session with the host's readiness predicate.       *)
(***************************************************************************)
LEMMA OrderInit == Init => OrderInv
BY DEF Init, OrderInv, Upcoming, FirstSector

LEMMA OrderReceive ==
  ASSUME session.readiness, RingInv, OrderInv, Receive
  PROVE  OrderInv'
<1>1. /\ cd = "ready" /\ Upcoming = sector /\ stream
      /\ next = Following(sector) /\ CanAccept(sector)
  BY DEF Receive, OrderInv, Upcoming
<1>2. ~lastInFlight /\ state[tail] = Free /\ (WrapsAt(sector) => state[0] = Free)
  BY <1>1 DEF CanAccept
<1>3. sector.frame \in Nat /\ sector.part \in Nat /\ sector.frame \in FrameNumbers
  BY <1>1 DEF RingInv, TypeOK, Sector, DeviceInv, OnDisc
<1>4. ~Misses /\ ~Mismatch
  BY <1>1, <1>3 DEF OrderInv, Misses, Mismatch, FirstSector, TargetFrame
<1>5. Accept
  BY <1>2, <1>4 DEF Receive, RejectBusy, RejectOccupied, SkipUntilTarget,
     RejectMismatch, RejectFull
<1>6. /\ expected' = IF IsLast(sector) THEN 0 ELSE sector.part + 1
      /\ frame' = IF IsLast(sector) THEN 0
                  ELSE IF sector.part = 0 THEN sector.frame ELSE frame
      /\ seek' = FALSE /\ result' = 10 /\ cd' = "owned"
      /\ UNCHANGED <<stream, sector, next, film, session>>
  BY <1>5 DEF Accept, Receive
<1>7. Upcoming' = next /\ Following(sector)' = Following(sector)
  BY <1>6 DEF Upcoming, Following, IsLast, Count
<1>8. CASE IsLast(sector)
  <2>1. next.part = 0
    BY <1>1, <1>8 DEF Following
  <2> QED
    BY <1>1, <1>6, <1>7, <1>8, <2>1 DEF OrderInv
<1>9. CASE ~IsLast(sector)
  <2>1. next.part = sector.part + 1 /\ next.frame = sector.frame
    BY <1>1, <1>9 DEF Following
  <2>2. sector.part > 0 => frame = sector.frame
    BY <1>1 DEF OrderInv
  <2> QED
    BY <1>1, <1>3, <1>6, <1>7, <1>9, <2>1, <2>2 DEF OrderInv
<1> QED
  BY <1>8, <1>9

LEMMA OrderNext ==
  ASSUME Gated, RingInv, OrderInv, [Next]_vars
  PROVE  OrderInv'
<1> USE DEF RingInv, Gated
<1>1. CASE SetStream
  <2>1. cd = "idle" /\ next = FirstSector /\ cd' = cd /\ next' = next
    BY <1>1 DEF SetStream, OrderInv, deviceVars
  <2> QED
    BY <1>1, <2>1 DEF SetStream, deviceVars, OrderInv, Upcoming, FirstSector
<1>2. CASE Acquire
  <2>1. UNCHANGED <<result, stream, deviceVars, expected, frame, seek, film,
                    session, lastInFlight, tail>>
    BY <1>2 DEF Acquire
  <2>2. \A i \in Index : state[i] = Free => state'[i] = Free
    BY <1>2 DEF Acquire, Available, Claim, TypeOK, Free, Wrap, Complete
  <2>3. CanAccept(sector) => CanAccept(sector)'
    BY <2>1, <2>2, SlotsAssumption
    DEF CanAccept, WrapsAt, Count, TypeOK, Index, deviceVars
  <2> QED
    BY <2>1, <2>3
    DEF OrderInv, Upcoming, FirstSector, Following, IsLast, Count, deviceVars
<1>3. CASE ReleaseFrame
  <2>1. UNCHANGED <<result, stream, deviceVars, expected, frame, seek, film,
                    session, lastInFlight, tail>>
    BY <1>3 DEF ReleaseFrame
  <2>2. \A i \in Index : state[i] = Free => state'[i] = Free
    BY <1>3 DEF ReleaseFrame, Freed, Released, Free
  <2>3. CanAccept(sector) => CanAccept(sector)'
    BY <2>1, <2>2, SlotsAssumption
    DEF CanAccept, WrapsAt, Count, TypeOK, Index, deviceVars
  <2> QED
    BY <2>1, <2>3
    DEF OrderInv, Upcoming, FirstSector, Following, IsLast, Count, deviceVars
<1>4. CASE ReadSector
  <2>1. /\ stream /\ cd = "idle" /\ sector' = next /\ next' = Following(next)
        /\ cd' = IF CanAccept(next) THEN "ready" ELSE "held"
        /\ UNCHANGED <<ringVars, film, session, result>>
    BY <1>4 DEF ReadSector, AllowNewStreamSector
  <2>2. Upcoming = next /\ Upcoming' = next
    BY <2>1 DEF Upcoming
  <2>3. (CanAccept(sector))' = CanAccept(next) /\ next' = Following(sector)'
    BY <2>1 DEF CanAccept, WrapsAt, Following, IsLast, Count, ringVars
  <2> QED
    BY <2>1, <2>2, <2>3 DEF OrderInv, ringVars
<1>5. CASE PublishVideo
  <2>1. /\ stream /\ cd = "held" /\ cd' = "ready" /\ CanAccept(sector)
        /\ UNCHANGED <<ringVars, film, session, result, sector, next>>
    BY <1>5 DEF PublishVideo, AllowNewStreamSector
  <2>2. Upcoming' = Upcoming
    BY <2>1 DEF Upcoming
  <2>3. CanAccept(sector)' /\ Following(sector)' = Following(sector)
    BY <2>1 DEF CanAccept, WrapsAt, Following, IsLast, Count, ringVars
  <2> QED
    BY <2>1, <2>2, <2>3 DEF OrderInv, ringVars
<1>6. CASE Receive
  BY <1>6, OrderReceive
<1>7. CASE DmaService
  <2>1. cd = "owned" /\ cd' = "idle"
    BY <1>7 DEF DmaService, DeviceInv
  <2> QED
    BY <1>7, <2>1 DEF DmaService, OrderInv, Upcoming, FirstSector
<1>8. CASE DmaCallback
  <2>1. cd # "ready"
    BY <1>8 DEF DmaCallback, OrderInv, CanAccept, DeviceInv
  <2> QED
    BY <1>8, <2>1
    DEF DmaCallback, OrderInv, Upcoming, FirstSector, Following, IsLast, Count
<1>9. CASE UNCHANGED vars
  BY <1>9 DEF vars, ringVars, deviceVars, OrderInv, Upcoming, FirstSector,
     Following, IsLast, Count, CanAccept, WrapsAt
<1> QED
  BY <1>1, <1>2, <1>3, <1>4, <1>5, <1>6, <1>7, <1>8, <1>9 DEF Next, Finished

(* A movie stays in its session. *)
LEMMA SessionKept == [Next]_vars => session' = session
BY DEF Next, vars, SetStream, Acquire, ReleaseFrame, ReadSector, PublishVideo,
   Receive, DmaService, DmaCallback, Finished

(* In the session's first movie, with the readiness predicate bound,       *)
(* Receive80039670 accepts every sector it is given.                       *)
THEOREM NeverRejects == Spec => []NoRejection
<1>1. Init => RingInv /\ (Gated => OrderInv)
  BY RingInit, OrderInit
<1>2. RingInv /\ (Gated => OrderInv) /\ [Next]_vars => (RingInv /\ (Gated => OrderInv))'
  BY RingNext, OrderNext, SessionKept DEF Gated
<1>3. RingInv /\ (Gated => OrderInv) => NoRejection
  BY DEF OrderInv, NoRejection
<1> QED
  BY <1>1, <1>2, <1>3, PTL DEF Spec

==============================================================================
