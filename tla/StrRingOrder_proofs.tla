------------------------- MODULE StrRingOrder_proofs -------------------------
(***************************************************************************)
(* What the decoder gets from StrRing, for every ring size, every film and *)
(* every session, also one whose receiver rejects sectors.                 *)
(*                                                                         *)
(* Five facts carry the argument, on top of RingInv.  DriveInv: a part     *)
(* received is behind the drive.  DataInv: every live slot, and every slot *)
(* being received, holds its own sector.  ShapeInv: where the occupied     *)
(* slots lie, the ring being straight or wrapped at a marker.  OrderedInv: *)
(* along the ring the frames ascend.  DecodedInv: what was decoded is      *)
(* whole, ascending, and precedes all the rest.                            *)
(*                                                                         *)
(* In the session's first movie there is more: the frames decoded are all  *)
(* the frames of the film, and drive and movie loop never wait for each    *)
(* other.                                                                  *)
(***************************************************************************)
EXTENDS StrRing_proofs, FiniteSetTheorems

Part(f, k) == [frame |-> f, part |-> k]

DriveInv ==
  /\ cd # "idle" => next = Following(sector)
  /\ start < tail => Upcoming # FirstSector
  /\ start < tail /\ ~lastInFlight /\ expected = 0 => seek

DataInv ==
  /\ \A i \in Index : IsLive(i) =>
       \A j \in Extent(i) : data[j] = Part(head[i].frame, j - i)
  /\ \A j \in InProgress :
       (IF dma.busy /\ j = dma.to THEN sector ELSE data[j])
         = Part(head[start].frame, j - start)

Covered(k) == \E i \in Index : IsLive(i) /\ k \in Extent(i)

(* The frames lie between read and start, the one being received after.    *)
Straight ==
  /\ read <= start
  /\ \A i \in Index : IsLive(i) => read <= i /\ i + Count(head[i]) <= start
  /\ \A k \in read .. start - 1 : Covered(k)
  /\ \A k \in Index : state[k] # Free => state[k] # Wrap /\ read <= k /\ k < tail

(* The older frames lie between read and the marker, the younger ones and  *)
(* the one being received from slot 0 on.                                  *)
Wrapped(w) ==
  /\ state[w] = Wrap
  /\ tail <= read /\ read <= w
  /\ \A i \in Index : IsLive(i) =>
       i + Count(head[i]) <= start \/ (read <= i /\ i + Count(head[i]) <= w)
  /\ \A k \in 0 .. start - 1 : Covered(k)
  /\ \A k \in read .. w - 1 : Covered(k)
  /\ \A k \in Index : state[k] # Free => k < tail \/ (read <= k /\ k <= w)
  /\ \A k \in Index : state[k] = Wrap => k = w

ShapeInv == Straight \/ \E w \in Index : Wrapped(w)

(* How far slot i lies from read along the ring. *)
Position(i) == IF read <= i THEN i ELSE i + Slots
Receiving == expected > 0 \/ lastInFlight

OrderedInv ==
  /\ \A i, j \in Index : IsLive(i) /\ IsLive(j) /\ Position(i) < Position(j)
       => head[i].frame < head[j].frame
  /\ \A i \in Index : IsLive(i) =>
       /\ head[i].frame < Upcoming.frame
       /\ Receiving => head[i].frame < head[start].frame
  /\ lastInFlight => head[start].frame < Upcoming.frame

LastDecoded == decoded[Len(decoded)][1].frame

DecodedInv ==
  /\ NeverTorn
  /\ decoded # <<>> =>
       /\ LastDecoded \in Nat
       /\ LastDecoded < Upcoming.frame
       /\ Receiving => LastDecoded < head[start].frame
       /\ \A i \in Index : IsLive(i) => LastDecoded < head[i].frame

StreamInv == DriveInv /\ DataInv /\ ShapeInv /\ OrderedInv /\ DecodedInv

(***************************************************************************)
(* What the actions do to all this.                                        *)
(***************************************************************************)
(* The numbers the arguments below compute with.                           *)
LEMMA RingNumbers ==
  ASSUME RingInv
  PROVE  /\ Slots \in Nat /\ Slots >= 2 /\ Index \subseteq Nat
         /\ read \in Nat /\ start \in Nat /\ tail \in Nat /\ start <= tail
         /\ read < Slots /\ start < Slots /\ tail < Slots
         /\ read \in Index /\ start \in Index /\ tail \in Index
         /\ expected \in Nat
         /\ sector \in Sector /\ next \in Sector /\ Upcoming \in Sector
         /\ \A i \in Index : head[i] \in Sector
BY SlotsAssumption DEF RingInv, ReceiverInv, TypeOK, Index, Upcoming

(* A step that leaves the frames and their places alone.                   *)
Still == UNCHANGED <<state, head, tail, start, read, film, lastInFlight>>

LEMMA StillSteps ==
  ASSUME RingInv,
         \/ SetStream \/ ReadSector \/ PublishVideo \/ DmaService
         \/ Receive /\ (RejectBusy \/ RejectOccupied)
         \/ UNCHANGED vars
  PROVE  Still /\ UNCHANGED decoded /\ expected' \in {0, expected}
BY DEF Still, SetStream, ReadSector, PublishVideo, DmaService, Receive,
   RejectBusy, RejectOccupied, vars, ringVars

LEMMA StillShape == ShapeInv /\ Still => ShapeInv'
BY DEF ShapeInv, Still, Straight, Wrapped, Covered, IsLive, Extent, Count

(* A rejected sector may free the slots of the frame being received.       *)
LEMMA RejectedSteps ==
  ASSUME RingInv, Receive, SkipUntilTarget \/ RejectMismatch \/ RejectFull
  PROVE  /\ UNCHANGED <<start, read, film, data, dma, sector, next, decoded,
                        lastInFlight>>
         /\ ~lastInFlight /\ cd = "ready" /\ cd' = "owned"
         /\ \A i \in Index : IsLive(i)' <=> IsLive(i)
         /\ \A i \in Index : IsLive(i) => head'[i] = head[i]
         /\ start < tail => head'[start] = head[start]
         /\ \/ UNCHANGED <<state, tail>>
            \/ /\ tail' = start
               /\ \A i \in Index :
                    state'[i] = IF i \in InProgress THEN Free ELSE state[i]
         /\ \/ UNCHANGED <<expected, seek>> /\ ~RejectFull
            \/ expected' = 0 /\ tail' = start
            \/ expected' = 0 /\ expected = 0 /\ sector.part = 0 /\ ~Misses
<1> USE DEF Receive, SkipUntilTarget, RejectMismatch, RejectFull
<1>1. /\ UNCHANGED <<start, read, film, data, dma, sector, next, decoded,
                     lastInFlight>>
      /\ cd = "ready" /\ cd' = "owned" /\ Requested
      /\ head' = [head EXCEPT ![tail] = sector]
  OBVIOUS
<1>2. /\ \A i \in Index : IsLive(i) => head'[i] = head[i]
      /\ start < tail => head'[start] = head[start]
  BY <1>1, HeadAtTail
<1>3. \/ UNCHANGED <<state, tail>>
      \/ /\ tail' = start
         /\ \A i \in Index :
              state'[i] = IF i \in InProgress THEN Free ELSE state[i]
  BY RingNumbers DEF PartialFreed, InProgress
<1>4. \A i \in Index : IsLive(i)' <=> IsLive(i)
  BY <1>3 DEF IsLive, Free, Complete, Acquired, Partial, RingInv, ReceiverInv
<1>5. \/ UNCHANGED <<expected, seek>> /\ ~RejectFull
      \/ expected' = 0 /\ tail' = start
      \/ expected' = 0 /\ expected = 0 /\ sector.part = 0 /\ ~Misses
  <2>1. CASE SkipUntilTarget
    BY <2>1
  <2>2. CASE RejectMismatch
    BY <2>2
  <2>3. CASE RejectFull
    BY <2>3 DEF WrapsAt, Mismatch
  <2> QED
    BY <2>1, <2>2, <2>3
<1> QED
  BY <1>1, <1>2, <1>3, <1>4, <1>5 DEF Requested

LEMMA RejectedShape ==
  ASSUME RingInv, ShapeInv,
         Receive, SkipUntilTarget \/ RejectMismatch \/ RejectFull
  PROVE  ShapeInv'
<1>1. /\ UNCHANGED <<start, read, film>>
      /\ \A i \in Index : IsLive(i)' <=> IsLive(i)
      /\ \A i \in Index : IsLive(i) => head'[i] = head[i]
      /\ \/ UNCHANGED <<state, tail>>
         \/ /\ tail' = start
            /\ \A i \in Index :
                 state'[i] = IF i \in InProgress THEN Free ELSE state[i]
  BY RejectedSteps
<1>2. \A k : Covered(k) => Covered(k)'
  BY <1>1 DEF Covered, Extent, Count
<1>3. /\ \A k \in Index : state'[k] # Free => state[k] = state'[k]
      /\ \A k \in Index : state'[k] # Free /\ k < tail => k < tail'
      /\ tail' <= tail
      /\ \A k \in Index : state[k] = Wrap => state'[k] = Wrap
  BY <1>1, RingNumbers DEF InProgress, RingInv, ReceiverInv, Partial, Wrap
<1>4. CASE Straight
  BY <1>1, <1>2, <1>3, <1>4, RingNumbers DEF ShapeInv, Straight, Count
<1>5. ASSUME NEW w \in Index, Wrapped(w) PROVE Wrapped(w)'
  <2>1. tail' <= read' /\ read' <= w /\ state'[w] = Wrap
    BY <1>1, <1>3, <1>5, RingNumbers DEF Wrapped
  <2>2. \A k \in Index : state'[k] # Free => k < tail' \/ (read' <= k /\ k <= w)
    BY <1>1, <1>3, <1>5 DEF Wrapped
  <2>3. \A k \in Index : state'[k] = Wrap => k = w
    BY <1>1, <1>3, <1>5 DEF Wrapped, Free, Wrap
  <2> QED
    BY <1>1, <1>2, <1>5, <2>1, <2>2, <2>3 DEF Wrapped, Count
<1> QED
  BY <1>4, <1>5 DEF ShapeInv

(* An accepted sector takes the next slot; the first of a frame that does  *)
(* not fit behind leaves a marker there and takes slot 0.                  *)
LEMMA AcceptSteps ==
  ASSUME RingInv, DriveInv, Receive, Accept
  PROVE  LET at == IF WrapsAt(sector) THEN 0 ELSE tail
         IN  /\ UNCHANGED <<read, film, data, sector, next, decoded, acquired>>
             /\ ~lastInFlight /\ cd = "ready" /\ cd' = "owned" /\ ~dma.busy
             /\ expected = sector.part
             /\ expected = 0 => start = tail
             /\ at \in Index /\ state[at] = Free /\ state[tail] = Free
             /\ state'[at] = Partial
             /\ \A i \in Index : i # at =>
                  state'[i] = IF i = tail THEN Wrap ELSE state[i]
             /\ \A i \in Index : IsLive(i)' <=> IsLive(i)
             /\ \A i \in Index : IsLive(i) => head'[i] = head[i]
             /\ head'[start'].frame = sector.frame
             /\ tail' = at + 1
             /\ IF sector.part = 0 THEN start' = at
                                   ELSE at = tail /\ start' = start /\ start < tail
             /\ at = start' + sector.part
             /\ dma'.busy /\ dma'.to = at
             /\ lastInFlight' = IsLast(sector)
             /\ Receiving' /\ (expected' = 0 => lastInFlight')
             /\ sector.frame \in FrameNumbers /\ sector.part < Count(sector)
<1> DEFINE at == IF WrapsAt(sector) THEN 0 ELSE tail
           marked == IF WrapsAt(sector) THEN [state EXCEPT ![tail] = Wrap]
                                        ELSE state
<1>1. /\ at \in Index /\ state[at] = Free /\ state[tail] = Free
      /\ tail' = at + 1
      /\ start' \in Index /\ start' <= at
      /\ sector.part = 0 => start' = at
      /\ sector.part > 0 =>
           /\ at = tail /\ start' = start /\ start < tail
           /\ head[start].frame = sector.frame /\ head[start].part = 0
      /\ at = start' + sector.part
  BY AcceptedSlot
<1>2. /\ UNCHANGED <<read, film, data, sector, next, decoded, acquired>>
      /\ ~lastInFlight /\ cd = "ready" /\ cd' = "owned"
      /\ dma'.busy /\ dma'.to = at
      /\ lastInFlight' = IsLast(sector)
      /\ expected' = IF IsLast(sector) THEN 0 ELSE sector.part + 1
      /\ state' = [marked EXCEPT ![at] = Partial]
      /\ head' = [head EXCEPT ![tail] = sector, ![at] = sector]
      /\ expected = sector.part /\ ~Misses
  BY DEF Accept, Receive, Requested, Mismatch
<1>3. sector \in Sector /\ sector.part \in Nat /\ sector.frame \in Nat
  BY RingNumbers DEF Sector
<1>4. ~dma.busy /\ sector.frame \in FrameNumbers /\ sector.part < Count(sector)
  BY <1>2 DEF RingInv, DeviceInv, OnDisc
<1>5. expected = 0 => start = tail
  <2>1. SUFFICES ASSUME expected = 0, start < tail PROVE FALSE
    BY RingNumbers
  <2>2. seek /\ Upcoming # FirstSector /\ Upcoming = sector
    BY <1>2, <2>1 DEF DriveInv, Upcoming
  <2>3. sector.frame = 1 /\ sector.part = 0
    BY <1>2, <2>1, <2>2 DEF Misses, TargetFrame
  <2>4. sector = [frame |-> 1, part |-> 0]
    BY <1>3, <2>3 DEF Sector
  <2> QED
    BY <2>2, <2>4 DEF FirstSector
<1>6. /\ state'[at] = Partial
      /\ \A i \in Index : i # at =>
           state'[i] = IF i = tail THEN Wrap ELSE state[i]
  BY <1>1, <1>2 DEF RingInv, TypeOK
<1>7. \A i \in Index : i # at /\ i # tail => head'[i] = head[i]
  BY <1>1, <1>2 DEF RingInv, TypeOK
<1>8. \A i \in Index : IsLive(i) => i # at /\ i # tail
  BY <1>1 DEF IsLive, Free, Complete, Acquired
<1>9. \A i \in Index : IsLive(i)' <=> IsLive(i)
  BY <1>1, <1>6 DEF IsLive, Free, Wrap, Complete, Partial, Acquired
<1>10. head'[start'].frame = sector.frame
  <2>1. CASE sector.part = 0
    BY <1>1, <1>2, <2>1 DEF RingInv, TypeOK
  <2>2. CASE sector.part > 0
    <3>1. start # tail /\ start # at /\ start \in Index
      BY <1>1, <2>2, RingNumbers
    <3> QED
      BY <1>1, <1>7, <2>2, <3>1
  <2> QED
    BY <1>3, <2>1, <2>2
<1>11. Receiving' /\ (expected' = 0 => lastInFlight')
  BY <1>2, <1>3 DEF Receiving
<1> HIDE DEF at, marked
<1>12. IF sector.part = 0 THEN start' = at
       ELSE at = tail /\ start' = start /\ start < tail
  BY <1>1, <1>3
<1> QED
  BY <1>1, <1>2, <1>4, <1>5, <1>6, <1>7, <1>8, <1>9, <1>10, <1>11, <1>12 DEF at

(***************************************************************************)
(* The drive stays ahead of what was received.                             *)
(***************************************************************************)
(* What follows a sector is not the first one.                             *)
LEMMA FollowingLater ==
  ASSUME film \in Films, NEW s \in Sector, s.frame \in FrameNumbers
  PROVE  /\ Following(s) # FirstSector
         /\ s.frame <= Following(s).frame
         /\ IsLast(s) => s.frame < Following(s).frame
<1>1. s.frame \in Nat /\ s.frame >= 1 /\ s.part \in Nat
  BY FilmSizes DEF Sector, FrameNumbers
<1>2. /\ IsLast(s) => Following(s) = [frame |-> s.frame + 1, part |-> 0]
      /\ ~IsLast(s) => Following(s) = [frame |-> s.frame, part |-> s.part + 1]
  BY DEF Following
<1>3. CASE IsLast(s)
  <2>1. Following(s).frame = s.frame + 1
    BY <1>2, <1>3
  <2>2. Following(s).frame # FirstSector.frame
    BY <1>1, <2>1 DEF FirstSector
  <2> QED
    BY <1>1, <2>1, <2>2
<1>4. CASE ~IsLast(s)
  <2>1. Following(s).frame = s.frame /\ Following(s).part = s.part + 1
    BY <1>2, <1>4
  <2>2. Following(s).part # FirstSector.part
    BY <1>1, <2>1 DEF FirstSector
  <2> QED
    BY <1>1, <1>4, <2>1, <2>2
<1> QED
  BY <1>3, <1>4

(* The next sector the receiver sees is this one, or the one after it.     *)
LEMMA UpcomingAdvances ==
  ASSUME RingInv, DriveInv, [Next]_vars
  PROVE  /\ cd' # "idle" => next' = Following(sector)'
         /\ Upcoming' = Upcoming \/ (Receive /\ Upcoming' = Following(Upcoming))
         /\ Receive => Upcoming = sector /\ Upcoming' = Following(sector)
         /\ Receive => sector.frame \in FrameNumbers
<1>0. film' = film
  BY DEF Next, vars, SetStream, Acquire, ReleaseFrame, ReadSector, PublishVideo,
     Receive, DmaService, DmaCallback, Finished
<1>2. CASE Receive
  <2>1. cd = "ready" /\ cd' \in {"idle", "owned"} /\ UNCHANGED <<sector, next>>
    BY <1>2 DEF Receive, RejectBusy, RejectOccupied, SkipUntilTarget,
       RejectMismatch, RejectFull, Accept
  <2>2. next = Following(sector)
    BY <2>1 DEF DriveInv
  <2>3. Upcoming = sector /\ Upcoming' = next
    BY <2>1 DEF Upcoming
  <2>4. sector.frame \in FrameNumbers
    BY <2>1 DEF RingInv, DeviceInv, OnDisc
  <2>5. next' = Following(sector)'
    BY <1>0, <2>1, <2>2 DEF Following, IsLast, Count
  <2> QED
    BY <1>2, <2>2, <2>3, <2>4, <2>5
<1>3. CASE ReadSector
  <2>1. /\ sector' = next /\ next' = Following(next) /\ cd = "idle"
        /\ cd' \in {"ready", "held"}
    BY <1>3 DEF ReadSector
  <2>2. Upcoming = next /\ Upcoming' = next
    BY <2>1 DEF Upcoming
  <2>3. next' = Following(sector)'
    BY <1>0, <2>1 DEF Following, IsLast, Count
  <2> QED
    BY <1>3, <2>2, <2>3 DEF ReadSector, Receive
<1>4. CASE PublishVideo \/ DmaService
  <2>1. UNCHANGED <<sector, next>> /\ (cd' # "idle" => cd # "idle")
    BY <1>4 DEF PublishVideo, DmaService
  <2>2. Upcoming' = Upcoming
    BY <1>4 DEF PublishVideo, DmaService, Upcoming, RingInv, DeviceInv
  <2>3. Following(sector)' = Following(sector)
    BY <1>0, <2>1 DEF Following, IsLast, Count
  <2>4. ~Receive
    BY <1>4 DEF PublishVideo, DmaService, Receive, RingInv, DeviceInv
  <2> QED
    BY <2>1, <2>2, <2>3, <2>4 DEF DriveInv
<1>5. CASE /\ ~Receive /\ ~ReadSector /\ ~PublishVideo /\ ~DmaService
  <2>1. UNCHANGED <<sector, next, cd>>
    BY <1>5 DEF Next, vars, deviceVars, SetStream, Acquire, ReleaseFrame,
       DmaCallback, Finished
  <2>2. Following(sector)' = Following(sector)
    BY <1>0, <2>1 DEF Following, IsLast, Count
  <2> QED
    BY <1>5, <2>1, <2>2 DEF DriveInv, Upcoming
<1> QED
  BY <1>2, <1>3, <1>4, <1>5

LEMMA UpcomingLater ==
  ASSUME RingInv, DriveInv, [Next]_vars
  PROVE  /\ Upcoming.frame \in Nat /\ Upcoming'.frame \in Nat
         /\ Upcoming.frame <= Upcoming'.frame
         /\ Upcoming # FirstSector => Upcoming' # FirstSector
         /\ Receive => Upcoming' # FirstSector
         /\ Receive /\ IsLast(sector) => sector.frame < Upcoming'.frame
<1>1. film \in Films /\ RingInv'
  BY RingNext DEF RingInv, TypeOK
<1>2. Upcoming \in Sector /\ sector \in Sector
  BY RingNumbers
<1>3. Upcoming' \in Sector
  BY <1>1 DEF RingInv, TypeOK, Upcoming
<1>4. Upcoming.frame \in Nat /\ Upcoming'.frame \in Nat
  BY <1>2, <1>3 DEF Sector
<1>5. CASE Upcoming' = Upcoming /\ ~Receive
  BY <1>4, <1>5
<1>6. CASE Receive
  <2>1. /\ Upcoming = sector /\ Upcoming' = Following(sector)
        /\ sector.frame \in FrameNumbers
    BY <1>6, UpcomingAdvances
  <2> QED
    BY <1>1, <1>2, <1>4, <2>1, FollowingLater
<1> QED
  BY <1>5, <1>6, UpcomingAdvances

LEMMA DriveNext ==
  ASSUME RingInv, DriveInv, [Next]_vars
  PROVE  DriveInv'
<1>1. /\ cd' # "idle" => next' = Following(sector)'
      /\ Upcoming # FirstSector => Upcoming' # FirstSector
      /\ Receive => Upcoming' # FirstSector
  BY UpcomingAdvances, UpcomingLater
<1>2. start' < tail' => Upcoming' # FirstSector
  <2>1. CASE Receive
    BY <1>1, <2>1
  <2>2. CASE UNCHANGED <<start, tail>>
    BY <1>1, <2>2 DEF DriveInv
  <2>3. CASE DmaCallback
    BY <2>3, RingNumbers DEF DmaCallback
  <2> QED
    BY <2>1, <2>2, <2>3 DEF Next, vars, ringVars, SetStream, Acquire,
       ReleaseFrame, ReadSector, PublishVideo, DmaService, Finished
<1>3. start' < tail' /\ ~lastInFlight' /\ expected' = 0 => seek'
  <2>1. CASE SetStream
    BY <2>1 DEF SetStream
  <2>2. CASE UNCHANGED <<start, tail, lastInFlight, expected, seek>>
    BY <2>2 DEF DriveInv
  <2>3. CASE DmaCallback
    BY <2>3, RingNumbers DEF DmaCallback
  <2>4. CASE Receive /\ Accept
    BY <2>4, AcceptSteps
  <2>5. CASE Receive /\ (SkipUntilTarget \/ RejectMismatch \/ RejectFull)
    <3>1. /\ UNCHANGED <<start, lastInFlight>>
          /\ tail' = start \/ tail' = tail
          /\ \/ UNCHANGED <<expected, seek>> /\ ~RejectFull
             \/ expected' = 0 /\ tail' = start
             \/ expected' = 0 /\ expected = 0 /\ sector.part = 0 /\ ~Misses
          /\ cd = "ready"
      BY <2>5, RejectedSteps
    <3>2. CASE UNCHANGED <<expected, seek>> \/ tail' = start
      BY <3>1, <3>2, RingNumbers DEF DriveInv
    <3>3. CASE expected = 0 /\ sector.part = 0 /\ ~Misses /\ tail' = tail
      <4>1. SUFFICES ASSUME start < tail, ~lastInFlight PROVE FALSE
        BY <3>1, <3>3
      <4>2. seek /\ sector # FirstSector
        BY <3>1, <3>3, <4>1 DEF DriveInv, Upcoming
      <4>3. sector = [frame |-> 1, part |-> 0]
        BY <3>3, <4>2, RingNumbers DEF Misses, TargetFrame, Sector
      <4> QED
        BY <4>2, <4>3 DEF FirstSector
    <3> QED
      BY <3>1, <3>2, <3>3
  <2>6. CASE Receive /\ (RejectBusy \/ RejectOccupied)
    BY <2>6 DEF RejectBusy, RejectOccupied, ringVars, DriveInv
  <2> QED
    BY <2>1, <2>2, <2>3, <2>4, <2>5, <2>6 DEF Next, vars, ringVars, Receive,
       Acquire, ReleaseFrame, ReadSector, PublishVideo, DmaService, Finished
<1> QED
  BY <1>1, <1>2, <1>3 DEF DriveInv

(***************************************************************************)
(* The shape of the ring.                                                  *)
(***************************************************************************)
LEMMA AcceptShape ==
  ASSUME RingInv, DriveInv, ShapeInv, Receive, Accept
  PROVE  ShapeInv'
<1> DEFINE at == IF WrapsAt(sector) THEN 0 ELSE tail
<1>1. /\ UNCHANGED <<read, film>>
      /\ expected = sector.part /\ (expected = 0 => start = tail)
      /\ at \in Index /\ state[at] = Free /\ state[tail] = Free
      /\ state'[at] = Partial
      /\ \A i \in Index : i # at =>
           state'[i] = IF i = tail THEN Wrap ELSE state[i]
      /\ \A i \in Index : IsLive(i)' <=> IsLive(i)
      /\ \A i \in Index : IsLive(i) => head'[i] = head[i]
      /\ tail' = at + 1
      /\ IF sector.part = 0 THEN start' = at
                            ELSE at = tail /\ start' = start /\ start < tail
  BY AcceptSteps
<1>2. \A k : Covered(k) => Covered(k)'
  BY <1>1 DEF Covered, Extent, Count
<1>3. \A k \in Index : state[k] = Free => ~IsLive(k) /\ ~Covered(k)
  <2>1. \A i \in Index : IsLive(i) => \A j \in Extent(i) : state[j] # Free
    BY DEF RingInv, LiveInv, IsLive, Free, Complete, Partial, Acquired
  <2> QED
    BY <2>1 DEF Covered, IsLive, Free, Complete, Acquired
<1>n. RingInv
  OBVIOUS
<1>4. CASE ~WrapsAt(sector)
  <2>1. /\ at = tail /\ tail' = tail + 1 /\ state'[tail] = Partial
        /\ start' \in {start, tail} /\ (start' = tail => start = tail)
        /\ \A i \in Index : i # tail => state'[i] = state[i]
    BY <1>1, <1>4, RingNumbers
  <2>2. start' = start
    BY <2>1
  <2>3. CASE Straight
    <3>1. read <= tail
      BY <2>3, RingNumbers DEF Straight
    <3>2. \A k \in Index : state'[k] # Free =>
            state'[k] # Wrap /\ read' <= k /\ k < tail'
      BY <1>1, <2>1, <2>3, <3>1, RingNumbers DEF Straight, Partial, Wrap
    <3>3. Straight'
      BY <1>1, <1>2, <2>2, <2>3, <3>2 DEF Straight, Count
    <3> QED
      BY <3>3 DEF ShapeInv
  <2>4. ASSUME NEW w \in Index, Wrapped(w) PROVE Wrapped(w)'
    <3>1. tail # read
      <4>1. read = w \/ Covered(read)
        BY <2>4, RingNumbers DEF Wrapped
      <4>2. state[read] # Free
        BY <1>3, <2>4, <4>1, RingNumbers DEF Wrapped, Wrap, Free
      <4> QED
        BY <1>1, <4>2
    <3>2. tail' <= read' /\ read' <= w /\ tail # w /\ state'[w] = Wrap
      BY <1>1, <2>1, <2>4, <3>1, RingNumbers DEF Wrapped, Wrap, Free
    <3>3. \A k \in Index : state'[k] # Free => k < tail' \/ (read' <= k /\ k <= w)
      BY <1>1, <2>1, <2>4, RingNumbers DEF Wrapped
    <3>4. \A k \in Index : state'[k] = Wrap => k = w
      BY <2>1, <2>4 DEF Wrapped, Wrap, Partial
    <3> QED
      BY <1>1, <1>2, <2>2, <2>4, <3>2, <3>3, <3>4 DEF Wrapped, Count
  <2> QED
    BY <2>3, <2>4 DEF ShapeInv
<1>5. CASE WrapsAt(sector)
  <2>1. at = 0 /\ start = tail /\ start' = 0 /\ tail' = 1 /\ state[0] = Free
    BY <1>1, <1>5 DEF WrapsAt
  <2>2. tail > 0
    <3>1. sector.frame \in FrameNumbers
      BY AcceptSteps
    <3>2. Count(sector) \in 1 .. Slots - 1
      BY <3>1, FilmSizes DEF RingInv, TypeOK, Count
    <3> QED
      BY <1>5, <3>2, RingNumbers DEF WrapsAt
  <2>3. /\ state'[0] = Partial /\ state'[tail] = Wrap
        /\ \A i \in Index : i # 0 /\ i # tail => state'[i] = state[i]
    BY <1>1, <2>1, <2>2, RingNumbers
  <2>4. ~Covered(0) /\ 0 \in Index
    BY <1>1, <1>3, <2>1
  <2>5. CASE Straight
    <3>1. read > 0
      BY <2>1, <2>2, <2>4, <2>5, RingNumbers DEF Straight
    <3>2. \A k \in Index : state'[k] # Free =>
            k < tail' \/ (read' <= k /\ k <= tail)
      BY <1>1, <2>1, <2>3, <2>5, RingNumbers DEF Straight
    <3>3. \A k \in Index : state'[k] = Wrap => k = tail
      BY <2>3, <2>5 DEF Straight, Wrap, Free, Partial
    <3>4. PICK w \in Index : w = tail
      BY RingNumbers
    <3>5. Wrapped(w)'
      <4>1. /\ state'[w] = Wrap /\ tail' <= read' /\ read' <= w
            /\ \A k \in 0 .. start' - 1 : Covered(k)'
        BY <1>1, <2>1, <2>3, <2>5, <3>1, <3>4, RingNumbers DEF Straight
      <4>2. /\ \A i \in Index : IsLive(i)' =>
                 read' <= i /\ i + Count(head[i])' <= w
            /\ \A k \in read' .. w - 1 : Covered(k)'
        BY <1>1, <1>2, <2>1, <2>5, <3>4 DEF Straight, Count
      <4> QED
        BY <3>2, <3>3, <3>4, <4>1, <4>2 DEF Wrapped
    <3> QED
      BY <3>5 DEF ShapeInv
  <2>6. ASSUME NEW w \in Index, Wrapped(w) PROVE FALSE
    BY <2>1, <2>2, <2>4, <2>6, RingNumbers DEF Wrapped
  <2> QED
    BY <2>5, <2>6 DEF ShapeInv
<1> QED
  BY <1>4, <1>5

(* The slots of the frame announced.                                       *)
LEMMA AnnouncedFrame ==
  ASSUME RingInv, DmaCallback
  PROVE  /\ UNCHANGED <<head, tail, read, film, data, decoded, expected, dma>>
         /\ start' = tail /\ ~lastInFlight' /\ lastInFlight /\ expected = 0
         /\ ~dma.busy
         /\ state' = [state EXCEPT ![start] = Complete]
         /\ \A i \in Index : state'[i] = IF i = start THEN Complete ELSE state[i]
         /\ \A i \in Index : IsLive(i)' <=> IsLive(i) \/ i = start
         /\ ~IsLive(start)
         /\ start < tail /\ tail = start + Count(head[start])
         /\ Extent(start) = InProgress
<1>1. lastInFlight /\ expected = 0 /\ start < tail /\ ~dma.busy
  BY DEF RingInv, DeviceInv, ReceiverInv, TypeOK, DmaCallback
<1>2. tail = start + Count(head[start]) /\ head[start].frame \in FrameNumbers
  BY <1>1 DEF RingInv, ReceiverInv
<1>3. Count(head[start]) \in Nat
  BY <1>2, FilmSizes, SlotsAssumption DEF RingInv, TypeOK, Count
<1>4. Extent(start) = InProgress
  BY <1>2, <1>3, RingNumbers DEF Extent, InProgress
<1>5. state[start] = Partial
  BY <1>1, RingNumbers DEF RingInv, ReceiverInv, InProgress
<1>6. \A i \in Index : state'[i] = IF i = start THEN Complete ELSE state[i]
  BY DEF DmaCallback, RingInv, TypeOK
<1>7. \A i \in Index : IsLive(i)' <=> IsLive(i) \/ i = start
  BY <1>6 DEF IsLive
<1>8. ~IsLive(start)
  BY <1>5 DEF IsLive, Partial, Complete, Acquired
<1> QED
  BY <1>1, <1>2, <1>4, <1>6, <1>7, <1>8 DEF DmaCallback

LEMMA AnnouncedShape ==
  ASSUME RingInv, ShapeInv, DmaCallback
  PROVE  ShapeInv'
<1>1. /\ UNCHANGED <<head, tail, read, film>> /\ start' = tail
      /\ \A i \in Index : state'[i] = IF i = start THEN Complete ELSE state[i]
      /\ \A i \in Index : IsLive(i)' <=> IsLive(i) \/ i = start
      /\ start < tail /\ tail = start + Count(head[start])
      /\ Extent(start) = InProgress
  BY AnnouncedFrame
<1>2. \A i : Extent(i)' = Extent(i)
  BY <1>1 DEF Extent, Count
<1>3. \A k : Covered(k) => Covered(k)'
  BY <1>1, <1>2 DEF Covered
<1>4. \A k \in start .. tail - 1 : Covered(k)'
  BY <1>1, <1>2, RingNumbers DEF Covered, InProgress
<1>5. state[start] = Partial
  BY <1>1, RingNumbers DEF RingInv, ReceiverInv, InProgress
<1>6. CASE Straight
  <2>1. \A i \in Index : IsLive(i)' => read' <= i /\ i + Count(head[i])' <= start'
    <3>1. ASSUME NEW i \in Index, IsLive(i)
          PROVE  read <= i /\ i + Count(head[i]) <= tail
      BY <1>1, <1>6, <3>1, LiveExtent, RingNumbers DEF Straight
    <3>2. read <= start
      BY <1>6 DEF Straight
    <3> QED
      BY <1>1, <3>1, <3>2, RingNumbers DEF Count
  <2>2. \A k \in read' .. start' - 1 : Covered(k)'
    BY <1>1, <1>3, <1>4, <1>6, RingNumbers DEF Straight
  <2>3. read' <= start'
    BY <1>1, <1>6, RingNumbers DEF Straight
  <2>4. \A k \in Index : state'[k] # Free =>
          state'[k] # Wrap /\ read' <= k /\ k < tail'
    BY <1>1, <1>5, <1>6 DEF Straight, Complete, Partial, Wrap, Free
  <2>5. Straight'
    BY <2>1, <2>2, <2>3, <2>4 DEF Straight
  <2> QED
    BY <2>5 DEF ShapeInv
<1>7. ASSUME NEW w \in Index, Wrapped(w) PROVE Wrapped(w)'
  <2>1. /\ w # start /\ state'[w] = Wrap /\ tail' <= read' /\ read' <= w
        /\ \A k \in Index : state'[k] = Wrap => k = w
    BY <1>1, <1>5, <1>7 DEF Wrapped, Partial, Complete, Wrap
  <2>2. \A i \in Index : IsLive(i)' =>
          \/ i + Count(head[i])' <= start'
          \/ read' <= i /\ i + Count(head[i])' <= w
    <3>1. ASSUME NEW i \in Index, IsLive(i)
          PROVE  i + Count(head[i]) <= tail \/ (read <= i /\ i + Count(head[i]) <= w)
      BY <1>1, <1>7, <3>1, LiveExtent, RingNumbers DEF Wrapped
    <3> QED
      BY <1>1, <3>1, RingNumbers DEF Count
  <2>3. /\ \A k \in 0 .. start' - 1 : Covered(k)'
        /\ \A k \in read' .. w - 1 : Covered(k)'
    BY <1>1, <1>3, <1>4, <1>7, RingNumbers DEF Wrapped
  <2>4. \A k \in Index : state'[k] # Free => k < tail' \/ (read' <= k /\ k <= w)
    BY <1>1, <1>5, <1>7 DEF Wrapped, Partial, Free
  <2> QED
    BY <2>1, <2>2, <2>3, <2>4 DEF Wrapped
<1> QED
  BY <1>6, <1>7 DEF ShapeInv

(* Acquiring takes the frame at read, past a marker if one lies there.     *)
LEMMA AcquireSteps ==
  ASSUME RingInv, Acquire
  PROVE  /\ UNCHANGED <<head, data, tail, start, film, decoded, expected,
                        lastInFlight, dma, sector>>
         /\ read' = IF state[read] = Wrap THEN 0 ELSE read
         /\ \A i \in Index : IsLive(i)' <=> IsLive(i)
         /\ \A i \in Index : state'[i] # Free => state[i] # Free
         /\ \A i \in Index : state'[i] = Wrap <=> state[i] = Wrap /\ i # read
         /\ state[read] = Wrap => state'[read] = Free
<1> DEFINE at == IF state[read] = Wrap THEN 0 ELSE read
           passed == IF state[read] = Wrap THEN [state EXCEPT ![read] = Free]
                                           ELSE state
<1>1. at \in Index /\ read \in Index /\ state \in [Index -> Free .. Acquired]
  BY RingNumbers DEF RingInv, TypeOK, Index
<1>2. \A i \in Index : passed[i] = IF i = read /\ state[i] = Wrap THEN Free
                                                                  ELSE state[i]
  BY <1>1
<1>3. passed \in [Index -> Free .. Acquired]
  BY <1>1 DEF Free, Acquired
<1>4. \/ state' = passed
      \/ passed[at] = Complete /\ state' = [passed EXCEPT ![at] = Acquired]
  BY DEF Acquire, Available, Claim
<1>5. /\ UNCHANGED <<head, data, tail, start, film, decoded, expected,
                     lastInFlight, dma, sector>>
      /\ read' = at
  BY DEF Acquire, deviceVars
<1> HIDE DEF passed, at
<1>6. \A i \in Index :
        state'[i] = passed[i] \/ (passed[i] = Complete /\ state'[i] = Acquired)
  BY <1>1, <1>3, <1>4
<1> QED
  BY <1>1, <1>2, <1>5, <1>6
  DEF at, IsLive, Free, Wrap, Complete, Partial, Acquired

LEMMA AcquireShape ==
  ASSUME RingInv, ShapeInv, Acquire
  PROVE  ShapeInv'
<1>1. /\ UNCHANGED <<head, tail, start, film>>
      /\ read' = IF state[read] = Wrap THEN 0 ELSE read
      /\ \A i \in Index : IsLive(i)' <=> IsLive(i)
      /\ \A i \in Index : state'[i] # Free => state[i] # Free
      /\ \A i \in Index : state'[i] = Wrap <=> state[i] = Wrap /\ i # read
      /\ state[read] = Wrap => state'[read] = Free
  BY AcquireSteps
<1>2. \A k : Covered(k)' <=> Covered(k)
  BY <1>1 DEF Covered, Extent, Count
<1>3. CASE Straight
  <2>1. read' = read
    BY <1>1, <1>3, RingNumbers DEF Straight, Wrap, Free
  <2>2. Straight'
    BY <1>1, <1>2, <1>3, <2>1 DEF Straight, Count
  <2> QED
    BY <2>2 DEF ShapeInv
<1>4. ASSUME NEW w \in Index, Wrapped(w), w # read PROVE Wrapped(w)'
  <2>1. state[read] # Wrap /\ read' = read
    BY <1>1, <1>4, RingNumbers DEF Wrapped
  <2> QED
    BY <1>1, <1>2, <1>4, <2>1 DEF Wrapped, Count
<1>5. ASSUME Wrapped(read) PROVE Straight'
  <2>1. state[read] = Wrap /\ read' = 0 /\ state'[read] = Free
    BY <1>1, <1>5 DEF Wrapped
  <2>2. \A i \in Index : IsLive(i)' => read' <= i /\ i + Count(head[i])' <= start'
    <3>1. ASSUME NEW i \in Index, IsLive(i) PROVE i + Count(head[i]) <= start
      BY <1>5, <3>1, LiveExtent, RingNumbers DEF Wrapped
    <3> QED
      BY <1>1, <2>1, <3>1, RingNumbers DEF Count
  <2>3. \A k \in Index : state'[k] # Free =>
          state'[k] # Wrap /\ read' <= k /\ k < tail'
    <3>1. ASSUME NEW k \in Index, state'[k] # Free
          PROVE  k # read /\ state[k] # Free
      BY <1>1, <2>1, <3>1
    <3> QED
      BY <1>1, <1>5, <2>1, <3>1, RingNumbers DEF Wrapped
  <2> QED
    BY <1>1, <1>2, <1>5, <2>1, <2>2, <2>3, RingNumbers DEF Straight, Wrapped
<1> QED
  BY <1>3, <1>4, <1>5 DEF ShapeInv

(* Releasing takes the frame at read out of the ring.                      *)
LEMMA ReleaseSteps ==
  ASSUME RingInv, ReleaseFrame
  PROVE  /\ UNCHANGED <<head, data, tail, start, film, expected, lastInFlight,
                        dma, sector>>
         /\ IsLive(read) /\ state[read] = Acquired
         /\ read' = read + Count(head[read])
         /\ Count(head[read]) \in Nat /\ Count(head[read]) >= 1
         /\ read \in Extent(read)
         /\ \A i \in Index : state'[i] = IF i \in Extent(read) THEN Free ELSE state[i]
         /\ \A i \in Index : IsLive(i)' <=> IsLive(i) /\ i # read
         /\ \A i \in Index : IsLive(i) /\ i # read =>
              Extent(i) \cap Extent(read) = {} /\ i \in Extent(i)
<1>1. state[read] = Acquired /\ read \in Index /\ IsLive(read)
  BY DEF ReleaseFrame, RingInv, LiveInv, TypeOK, IsLive
<1>2. /\ Count(head[read]) \in Nat /\ Count(head[read]) >= 1
      /\ read \in Extent(read)
  BY <1>1, LiveExtent
<1>3. /\ UNCHANGED <<head, data, tail, start, film, expected, lastInFlight,
                     dma, sector>>
      /\ read' = read + Count(head[read])
      /\ \A i \in Index : state'[i] = IF i \in Extent(read) THEN Free ELSE state[i]
  BY <1>1 DEF ReleaseFrame, Freed, Released, deviceVars
<1>4. \A i \in Index : IsLive(i) /\ i # read =>
        Extent(i) \cap Extent(read) = {} /\ i \in Extent(i)
  BY <1>1, ExtentsDisjoint, LiveExtent
<1>5. \A i \in Index : IsLive(i)' <=> IsLive(i) /\ i # read
  BY <1>2, <1>3, <1>4 DEF IsLive, Free, Complete, Acquired
<1> QED
  BY <1>1, <1>2, <1>3, <1>4, <1>5

LEMMA ReleaseShape ==
  ASSUME RingInv, ShapeInv, ReleaseFrame
  PROVE  ShapeInv'
<1>1. /\ UNCHANGED <<head, tail, start, film>>
      /\ IsLive(read) /\ state[read] = Acquired
      /\ read' = read + Count(head[read])
      /\ Count(head[read]) \in Nat /\ Count(head[read]) >= 1
      /\ \A i \in Index : state'[i] = IF i \in Extent(read) THEN Free ELSE state[i]
      /\ \A i \in Index : IsLive(i)' <=> IsLive(i) /\ i # read
      /\ \A i \in Index : IsLive(i) /\ i # read =>
           Extent(i) \cap Extent(read) = {} /\ i \in Extent(i)
  BY ReleaseSteps
<1>2. Extent(read) = read .. read' - 1 /\ read' \in Nat
  BY <1>1, RingNumbers DEF Extent
<1>3. \A i \in Index : IsLive(i)' => IsLive(i) /\ (read <= i => read' <= i)
  BY <1>1, <1>2, RingNumbers
<1>4. \A k : Covered(k) /\ k \notin Extent(read) => Covered(k)'
  BY <1>1 DEF Covered, Extent, Count
<1>5. \A k \in Index : state'[k] # Free =>
        state[k] = state'[k] /\ (read <= k => read' <= k)
  BY <1>1, <1>2, RingNumbers
<1>6. CASE Straight
  <2>1. read' <= start'
    BY <1>1, <1>6, RingNumbers DEF Straight
  <2>2. \A k \in read' .. start' - 1 : Covered(k)'
    <3>1. ASSUME NEW k \in read' .. start - 1 PROVE Covered(k)'
      <4>1. k \in read .. start - 1 /\ k \notin Extent(read)
        BY <1>1, <1>2, RingNumbers
      <4> QED
        BY <1>4, <1>6, <4>1 DEF Straight
    <3> QED
      BY <1>1, <3>1
  <2>3. Straight'
    BY <1>1, <1>3, <1>5, <1>6, <2>1, <2>2 DEF Straight, Count
  <2> QED
    BY <2>3 DEF ShapeInv
<1>7. ASSUME NEW w \in Index, Wrapped(w) PROVE Wrapped(w)'
  <2>1. tail' <= read' /\ read' <= w
    <3>1. tail <= read /\ tail \in Nat /\ read \in Nat /\ start \in Nat /\ start <= tail
      BY <1>7, RingNumbers DEF Wrapped
    <3>2. read + Count(head[read]) <= start \/ read + Count(head[read]) <= w
      BY <1>1, <1>7, RingNumbers DEF Wrapped
    <3> QED
      BY <1>1, <3>1, <3>2
  <2>2. /\ \A k \in 0 .. start' - 1 : Covered(k)'
        /\ \A k \in read' .. w - 1 : Covered(k)'
    <3>1. ASSUME NEW k \in 0 .. start - 1 PROVE Covered(k)'
      <4>1. Covered(k) /\ k < read
        BY <1>7, RingNumbers DEF Wrapped
      <4> QED
        BY <1>2, <1>4, <4>1, RingNumbers
    <3>2. ASSUME NEW k \in read' .. w - 1 PROVE Covered(k)'
      <4>1. k \in read .. w - 1 /\ k \notin Extent(read)
        BY <1>1, <1>2, <1>7, RingNumbers DEF Wrapped
      <4> QED
        BY <1>4, <1>7, <4>1 DEF Wrapped
    <3> QED
      BY <1>1, <3>1, <3>2
  <2>3. w \notin Extent(read) /\ state'[w] = Wrap
    BY <1>1, <1>2, <1>7, <2>1, RingNumbers DEF Wrapped
  <2>4. \A i \in Index : IsLive(i)' =>
          \/ i + Count(head[i])' <= start'
          \/ read' <= i /\ i + Count(head[i])' <= w
    BY <1>1, <1>3, <1>7 DEF Wrapped, Count
  <2>5. \A k \in Index : state'[k] # Free => k < tail' \/ (read' <= k /\ k <= w)
    BY <1>1, <1>5, <1>7 DEF Wrapped
  <2>6. \A k \in Index : state'[k] = Wrap => k = w
    BY <1>5, <1>7 DEF Wrapped, Wrap, Free
  <2> QED
    BY <2>1, <2>2, <2>3, <2>4, <2>5, <2>6 DEF Wrapped
<1> QED
  BY <1>6, <1>7 DEF ShapeInv

LEMMA ShapeNext ==
  ASSUME RingInv, DriveInv, ShapeInv, [Next]_vars
  PROVE  ShapeInv'
<1>1. CASE \/ SetStream \/ ReadSector \/ PublishVideo \/ DmaService
           \/ Receive /\ (RejectBusy \/ RejectOccupied)
           \/ UNCHANGED vars
  BY <1>1, StillSteps, StillShape
<1>2. CASE Receive /\ (SkipUntilTarget \/ RejectMismatch \/ RejectFull)
  BY <1>2, RejectedShape
<1>3. CASE Receive /\ Accept
  BY <1>3, AcceptShape
<1> QED
  BY <1>1, <1>2, <1>3, AnnouncedShape, AcquireShape, ReleaseShape
  DEF Next, Receive, Finished

(***************************************************************************)
(* The contents of the ring.                                               *)
(***************************************************************************)
LEMMA DataNext ==
  ASSUME RingInv, DriveInv, DataInv, [Next]_vars
  PROVE  DataInv'
<1>1. CASE DmaService
  <2>1. /\ dma.busy /\ ~dma'.busy /\ dma.to = tail - 1 /\ start < tail
        /\ data' = [data EXCEPT ![dma.to] = sector]
        /\ UNCHANGED <<state, head, tail, start, film>>
    BY <1>1 DEF DmaService, Idle, RingInv, DeviceInv
  <2>2. dma.to \in InProgress /\ dma.to \in Index
    BY <2>1, RingNumbers DEF InProgress, Index
  <2>3. \A j \in Index : data'[j] = IF j = dma.to THEN sector ELSE data[j]
    BY <2>1, <2>2 DEF RingInv, TypeOK
  <2>4. \A i \in Index : IsLive(i) => \A j \in Extent(i) : data'[j] = data[j]
    BY <2>2, <2>3, LiveExtent DEF RingInv, LiveInv
  <2>5. InProgress \subseteq Index
    BY RingNumbers DEF InProgress, Index
  <2> QED
    BY <2>1, <2>3, <2>4, <2>5 DEF DataInv, IsLive, Extent, Count, InProgress
<1>2. CASE \/ SetStream \/ ReadSector \/ PublishVideo \/ UNCHANGED vars
           \/ Receive /\ (RejectBusy \/ RejectOccupied)
  <2>1. Still /\ UNCHANGED <<data, dma>>
    BY <1>2, StillSteps DEF SetStream, ReadSector, PublishVideo, vars, deviceVars,
       Receive, RejectBusy, RejectOccupied, ringVars
  <2>2. dma.busy => sector' = sector
    BY <1>2 DEF SetStream, ReadSector, PublishVideo, vars, deviceVars, Receive,
       RingInv, DeviceInv
  <2> QED
    BY <2>1, <2>2 DEF DataInv, Still, IsLive, Extent, Count, InProgress
<1>3. CASE Receive /\ (SkipUntilTarget \/ RejectMismatch \/ RejectFull)
  <2>1. /\ UNCHANGED <<start, film, data, dma, sector>>
        /\ \A i \in Index : IsLive(i)' <=> IsLive(i)
        /\ \A i \in Index : IsLive(i) => head'[i] = head[i]
        /\ start < tail => head'[start] = head[start]
        /\ tail' = tail \/ tail' = start
    BY <1>3, RejectedSteps
  <2>2. \A j \in InProgress' : j \in InProgress /\ start < tail
    BY <2>1, RingNumbers DEF InProgress
  <2> QED
    BY <2>1, <2>2 DEF DataInv, Extent, Count
<1>4. CASE Receive /\ Accept
  <2> DEFINE at == IF WrapsAt(sector) THEN 0 ELSE tail
  <2>1. /\ UNCHANGED <<film, data, sector>> /\ ~dma.busy
        /\ at \in Index
        /\ \A i \in Index : IsLive(i)' <=> IsLive(i)
        /\ \A i \in Index : IsLive(i) => head'[i] = head[i]
        /\ head'[start'].frame = sector.frame
        /\ tail' = at + 1
        /\ IF sector.part = 0 THEN start' = at
                              ELSE at = tail /\ start' = start /\ start < tail
        /\ at = start' + sector.part
        /\ dma'.busy /\ dma'.to = at
    BY <1>4, AcceptSteps
  <2>2. sector.part > 0 => head[start].frame = sector.frame
    BY <1>4, AcceptedSlot
  <2>3. /\ sector = Part(sector.frame, sector.part)
        /\ sector.part \in Nat
    BY RingNumbers DEF Sector, Part
  <2> HIDE DEF at
  <2>4. ASSUME NEW j \in InProgress'
        PROVE  (IF dma'.busy /\ j = dma'.to THEN sector' ELSE data'[j])
                 = Part(head'[start'].frame, j - start')
    <3>1. CASE j = at
      <4>1. j - start' = sector.part
        <5>1. at \in Nat /\ start' \in Nat
          BY <2>1, <2>3, RingNumbers
        <5> QED
          BY <2>1, <2>3, <3>1, <5>1
      <4> QED
        BY <2>1, <2>3, <3>1, <4>1
    <3>2. CASE j # at
      <4>1. sector.part > 0 /\ at = tail /\ start' = start /\ j \in InProgress
        BY <2>1, <2>3, <3>2, RingNumbers DEF InProgress
      <4> QED
        BY <2>1, <2>2, <3>2, <4>1 DEF DataInv
    <3> QED
      BY <3>1, <3>2
  <2> QED
    BY <2>1, <2>4 DEF DataInv, Extent, Count
<1>5. CASE DmaCallback
  <2>1. /\ UNCHANGED <<head, tail, film, data, dma>> /\ start' = tail
        /\ ~dma.busy
        /\ \A i \in Index : IsLive(i)' <=> IsLive(i) \/ i = start
        /\ Extent(start) = InProgress
    BY <1>5, AnnouncedFrame
  <2>2. InProgress' = {}
    BY <2>1, RingNumbers DEF InProgress
  <2> QED
    BY <2>1, <2>2 DEF DataInv, Extent, Count
<1>6. CASE Acquire
  <2>1. /\ UNCHANGED <<head, data, tail, start, film, dma, sector>>
        /\ \A i \in Index : IsLive(i)' <=> IsLive(i)
    BY <1>6, AcquireSteps
  <2> QED
    BY <2>1 DEF DataInv, Extent, Count, InProgress
<1>7. CASE ReleaseFrame
  <2>1. /\ UNCHANGED <<head, data, tail, start, film, dma, sector>>
        /\ \A i \in Index : IsLive(i)' => IsLive(i)
    BY <1>7, ReleaseSteps
  <2> QED
    BY <2>1 DEF DataInv, Extent, Count, InProgress
<1> QED
  BY <1>1, <1>2, <1>3, <1>4, <1>5, <1>6, <1>7 DEF Next, Receive, Finished

(***************************************************************************)
(* The order of the frames.                                                *)
(***************************************************************************)
(* The older a live frame, the nearer to read.                             *)
LEMMA Nearest ==
  ASSUME RingInv, NEW i \in Index, i # read
  PROVE  Position(read) < Position(i)
BY RingNumbers, SlotsAssumption DEF Position, Index

LEMMA StillOrder ==
  ASSUME RingInv, DriveInv, OrderedInv, [Next]_vars,
         UNCHANGED <<read, film, lastInFlight>>,
         \A i \in Index : IsLive(i)' <=> IsLive(i),
         \A i \in Index : IsLive(i) => head'[i] = head[i],
         Receiving' => Receiving /\ UNCHANGED start /\ head'[start] = head[start]
  PROVE  OrderedInv'
<1>1. /\ Upcoming.frame \in Nat /\ Upcoming'.frame \in Nat
      /\ Upcoming.frame <= Upcoming'.frame
  BY UpcomingLater
<1>2. \A i \in Index : Position(i)' = Position(i)
  BY DEF Position
<1>3. \A i \in Index : head[i].frame \in Nat
  BY RingNumbers DEF Sector
<1>4. \A i \in Index : IsLive(i)' =>
        /\ head'[i].frame < Upcoming'.frame
        /\ Receiving' => head'[i].frame < head'[start'].frame
  BY <1>1, <1>3 DEF OrderedInv
<1>5. lastInFlight' => head'[start'].frame < Upcoming'.frame
  <2>1. SUFFICES ASSUME lastInFlight' PROVE head'[start'].frame < Upcoming'.frame
    OBVIOUS
  <2>2. Receiving'
    BY <2>1 DEF Receiving
  <2> QED
    BY <1>1, <1>3, <2>1, <2>2, RingNumbers DEF OrderedInv
<1> QED
  BY <1>2, <1>4, <1>5 DEF OrderedInv

LEMMA AnnouncedOrder ==
  ASSUME RingInv, DriveInv, ShapeInv, OrderedInv, DmaCallback
  PROVE  OrderedInv'
<1>1. /\ UNCHANGED <<head, read, film, expected>>
      /\ ~lastInFlight' /\ lastInFlight /\ expected = 0
      /\ \A i \in Index : IsLive(i)' <=> IsLive(i) \/ i = start
      /\ start < tail
  BY AnnouncedFrame
<1>2. Upcoming' = Upcoming /\ ~Receiving' /\ Receiving
  BY <1>1 DEF Upcoming, Receiving, DmaCallback
<1>3. \A j \in Index : IsLive(j) => Position(j) < Position(start)
  <2>1. CASE Straight
    BY <2>1, LiveExtent, RingNumbers DEF Straight, Position
  <2>2. ASSUME NEW w \in Index, Wrapped(w), NEW j \in Index, IsLive(j)
        PROVE  Position(j) < Position(start)
    <3>1. start < read
      BY <1>1, <2>2, RingNumbers DEF Wrapped
    <3>2. j < start \/ read <= j
      BY <2>2, LiveExtent, RingNumbers DEF Wrapped
    <3>3. j < Slots
      BY SlotsAssumption DEF Index
    <3> QED
      BY <3>1, <3>2, <3>3, RingNumbers DEF Position
  <2> QED
    BY <2>1, <2>2 DEF ShapeInv
<1>4. /\ \A i \in Index : Position(i)' = Position(i) /\ Position(i) \in Nat
      /\ \A i \in Index : head[i].frame \in Nat
  BY <1>1, RingNumbers DEF Position, Sector
<1>5. \A i, j \in Index :
        IsLive(i)' /\ IsLive(j)' /\ Position(i) < Position(j)
          => head[i].frame < head[j].frame
  BY <1>1, <1>2, <1>3, <1>4, RingNumbers DEF OrderedInv
<1> QED
  BY <1>1, <1>2, <1>4, <1>5 DEF OrderedInv

LEMMA AcquireOrder ==
  ASSUME RingInv, ShapeInv, OrderedInv, Acquire
  PROVE  OrderedInv'
<1>1. /\ UNCHANGED <<head, tail, start, film, expected, lastInFlight>>
      /\ read' = IF state[read] = Wrap THEN 0 ELSE read
      /\ \A i \in Index : IsLive(i)' <=> IsLive(i)
  BY AcquireSteps
<1>2. Upcoming' = Upcoming /\ (Receiving' <=> Receiving)
  BY <1>1 DEF Upcoming, Receiving, Acquire, deviceVars
<1>3. \A i, j \in Index :
        IsLive(i) /\ IsLive(j) /\ Position(i)' < Position(j)'
          => Position(i) < Position(j)
  <2>1. CASE state[read] # Wrap
    BY <1>1, <2>1 DEF Position
  <2>2. CASE state[read] = Wrap
    <3>1. \A i \in Index : IsLive(i) => i < read
      <4>1. ~Straight
        BY <2>2, RingNumbers DEF Straight, Wrap, Free
      <4>2. PICK w \in Index : Wrapped(w)
        BY <4>1 DEF ShapeInv
      <4>3. w = read
        BY <2>2, <4>2, RingNumbers DEF Wrapped
      <4> QED
        BY <4>2, <4>3, LiveExtent, RingNumbers DEF Wrapped
    <3>2. read' = 0
      BY <1>1, <2>2
    <3> QED
      BY <3>1, <3>2, RingNumbers DEF Position
  <2> QED
    BY <2>1, <2>2
<1> QED
  BY <1>1, <1>2, <1>3 DEF OrderedInv

LEMMA ReleaseOrder ==
  ASSUME RingInv, OrderedInv, ReleaseFrame
  PROVE  OrderedInv'
<1>1. /\ UNCHANGED <<head, tail, start, film, expected, lastInFlight>>
      /\ read' = read + Count(head[read])
      /\ Count(head[read]) \in Nat /\ Count(head[read]) >= 1
      /\ \A i \in Index : IsLive(i)' <=> IsLive(i) /\ i # read
      /\ \A i \in Index : IsLive(i) /\ i # read =>
           Extent(i) \cap Extent(read) = {} /\ i \in Extent(i)
  BY ReleaseSteps
<1>2. Upcoming' = Upcoming /\ (Receiving' <=> Receiving)
  BY <1>1 DEF Upcoming, Receiving, ReleaseFrame, deviceVars
<1>3. \A i \in Index : IsLive(i)' => IsLive(i) /\ Position(i)' = Position(i)
  <2>1. ASSUME NEW i \in Index, IsLive(i), i # read
        PROVE  read <= i <=> read' <= i
    <3>1. i \notin read .. read + Count(head[read]) - 1
      BY <1>1, <2>1 DEF Extent
    <3> QED
      BY <1>1, <3>1, RingNumbers
  <2> QED
    BY <1>1, <2>1 DEF Position
<1> QED
  BY <1>1, <1>2, <1>3 DEF OrderedInv

LEMMA AcceptOrder ==
  ASSUME RingInv, DriveInv, OrderedInv, Receive, Accept
  PROVE  OrderedInv'
<1>1. /\ UNCHANGED <<read, film>>
      /\ \A i \in Index : IsLive(i)' <=> IsLive(i)
      /\ \A i \in Index : IsLive(i) => head'[i] = head[i]
      /\ head'[start'].frame = sector.frame
      /\ lastInFlight' = IsLast(sector)
  BY AcceptSteps
<1>2. /\ Upcoming.frame \in Nat /\ Upcoming'.frame \in Nat
      /\ Upcoming.frame <= Upcoming'.frame
      /\ IsLast(sector) => sector.frame < Upcoming'.frame
      /\ Upcoming = sector
  BY UpcomingLater, UpcomingAdvances DEF Next
<1>3. \A i \in Index : head[i].frame \in Nat
  BY RingNumbers DEF Sector
<1>4. \A i \in Index : IsLive(i)' =>
        head'[i].frame < Upcoming'.frame /\ head'[i].frame < sector.frame
  BY <1>1, <1>2, <1>3 DEF OrderedInv
<1>5. \A i \in Index : Position(i)' = Position(i)
  BY <1>1 DEF Position
<1> QED
  BY <1>1, <1>2, <1>4, <1>5 DEF OrderedInv

LEMMA OrderedNext ==
  ASSUME RingInv, DriveInv, ShapeInv, OrderedInv, [Next]_vars
  PROVE  OrderedInv'
<1>1. CASE \/ SetStream \/ ReadSector \/ PublishVideo \/ DmaService
           \/ Receive /\ (RejectBusy \/ RejectOccupied)
           \/ UNCHANGED vars
  <2>1. Still /\ expected' \in {0, expected}
    BY <1>1, StillSteps
  <2>2. Receiving' => Receiving
    BY <2>1 DEF Still, Receiving
  <2>3. \A i \in Index : IsLive(i)' <=> IsLive(i)
    BY <2>1 DEF Still, IsLive
  <2> QED
    BY <2>1, <2>2, <2>3, StillOrder DEF Still
<1>2. CASE Receive /\ (SkipUntilTarget \/ RejectMismatch \/ RejectFull)
  <2>1. /\ UNCHANGED <<start, read, film, lastInFlight>>
        /\ \A i \in Index : IsLive(i)' <=> IsLive(i)
        /\ \A i \in Index : IsLive(i) => head'[i] = head[i]
        /\ start < tail => head'[start] = head[start]
        /\ expected' \in {0, expected}
    BY <1>2, RejectedSteps
  <2>2. Receiving' => Receiving /\ start < tail
    BY <2>1, RingNumbers DEF Receiving, RingInv, ReceiverInv
  <2> QED
    BY <2>1, <2>2, StillOrder
<1> QED
  BY <1>1, <1>2, AcceptOrder, AnnouncedOrder, AcquireOrder, ReleaseOrder
  DEF Next, Receive, Finished

(***************************************************************************)
(* What was decoded.                                                       *)
(***************************************************************************)
LEMMA KeptDecoded ==
  ASSUME RingInv, DriveInv, DecodedInv, [Next]_vars,
         UNCHANGED <<decoded, film>>,
         Receiving' /\ decoded # <<>> => LastDecoded < head'[start'].frame,
         \A i \in Index : IsLive(i)' /\ decoded # <<>> =>
           LastDecoded < head'[i].frame
  PROVE  DecodedInv'
<1>1. NeverTorn' /\ LastDecoded' = LastDecoded
  BY DEF DecodedInv, NeverTorn, LastDecoded, FrameNumbers, Payload
<1>2. decoded # <<>> => LastDecoded < Upcoming'.frame
  BY UpcomingLater DEF DecodedInv
<1> QED
  BY <1>1, <1>2 DEF DecodedInv

(* The decoder is given the payloads of the frame released.                *)
LEMMA ReleaseGives ==
  ASSUME RingInv, DataInv, ReleaseFrame
  PROVE  decoded' = Append(decoded, Payload(head[read].frame))
<1> DEFINE f == head[read].frame
<1>1. /\ IsLive(read) /\ read \in Index
      /\ Count(head[read]) \in Nat /\ Count(head[read]) = film[f]
  BY ReleaseSteps, RingNumbers DEF Count
<1>2. ASSUME NEW j \in 1 .. film[f]
      PROVE  data[read + j - 1] = [frame |-> f, part |-> j - 1]
  <2>1. read + j - 1 \in Extent(read)
    BY <1>1, <1>2, RingNumbers DEF Extent
  <2>2. (read + j - 1) - read = j - 1
    BY <1>1, <1>2, RingNumbers
  <2> QED
    BY <1>1, <2>1, <2>2 DEF DataInv, Part
<1>3. [j \in 1 .. Count(head[read]) |-> data[read + j - 1]] = Payload(f)
  BY <1>1, <1>2 DEF Payload
<1> QED
  BY <1>3 DEF ReleaseFrame

(* The frame released is handed over whole, after all the earlier ones.    *)
LEMMA ReleaseDecoded ==
  ASSUME RingInv, DataInv, OrderedInv, DecodedInv, ReleaseFrame
  PROVE  DecodedInv'
<1> DEFINE f == head[read].frame
<1>1. /\ UNCHANGED <<head, tail, start, film, expected, lastInFlight>>
      /\ IsLive(read) /\ read \in Index
      /\ Count(head[read]) \in Nat /\ Count(head[read]) >= 1
      /\ \A i \in Index : IsLive(i)' <=> IsLive(i) /\ i # read
  BY ReleaseSteps, RingNumbers
<1>2. /\ f \in FrameNumbers /\ f \in Nat /\ Count(head[read]) = film[f]
  BY <1>1, RingNumbers DEF RingInv, LiveInv, Sector, Count
<1>4. decoded' = Append(decoded, Payload(f)) /\ decoded \in Seq(Seq(Sector))
  BY ReleaseGives DEF RingInv, TypeOK
<1>5. Payload(f)[1].frame = f
  <2>1. 1 \in 1 .. film[f]
    BY <1>1, <1>2
  <2> QED
    BY <2>1 DEF Payload
<1> HIDE DEF f
<1>6. /\ Len(decoded') = Len(decoded) + 1 /\ Len(decoded) \in Nat
      /\ decoded'[Len(decoded) + 1] = Payload(f)
      /\ \A k \in 1 .. Len(decoded) : decoded'[k] = decoded[k]
      /\ decoded' # <<>>
      /\ decoded # <<>> => Len(decoded) >= 1
  BY <1>4
<1>7. LastDecoded' = f
  BY <1>5, <1>6 DEF LastDecoded
<1>8. decoded # <<>> => LastDecoded < f
  BY <1>1 DEF DecodedInv, f
<1>9. NeverTorn'
  <2>1. \A g \in FrameNumbers : Payload(g)' = Payload(g)
    BY <1>1 DEF Payload
  <2>2. ASSUME NEW k \in 1 .. Len(decoded')
        PROVE  /\ \E g \in FrameNumbers : decoded'[k] = Payload(g)
               /\ k > 1 => decoded'[k - 1][1].frame < decoded'[k][1].frame
    <3>1. CASE k \in 1 .. Len(decoded)
      <4>1. k > 1 => k - 1 \in 1 .. Len(decoded)
        BY <3>1
      <4> QED
        BY <1>6, <3>1, <4>1 DEF DecodedInv, NeverTorn
    <3>2. CASE k = Len(decoded) + 1
      <4>1. k > 1 => /\ k - 1 \in 1 .. Len(decoded) /\ k - 1 = Len(decoded)
                     /\ decoded # <<>>
        BY <1>6, <3>2
      <4>2. k > 1 => decoded'[k - 1][1].frame < f
        BY <1>6, <1>8, <4>1 DEF LastDecoded
      <4> QED
        BY <1>2, <1>5, <1>6, <3>2, <4>2
    <3> QED
      BY <1>6, <2>2, <3>1, <3>2
  <2> QED
    BY <1>1, <2>1, <2>2 DEF NeverTorn, FrameNumbers
<1>10. \A i \in Index : IsLive(i)' => f < head'[i].frame
  BY <1>1, Nearest DEF OrderedInv, f
<1>11. f < Upcoming'.frame /\ (Receiving' => f < head'[start'].frame)
  <2>1. Upcoming' = Upcoming /\ (Receiving' <=> Receiving)
    BY <1>1 DEF Upcoming, Receiving, ReleaseFrame, deviceVars
  <2> QED
    BY <1>1, <2>1 DEF OrderedInv, f
<1> QED
  BY <1>2, <1>7, <1>9, <1>10, <1>11 DEF DecodedInv

LEMMA DecodedNext ==
  ASSUME RingInv, DriveInv, DataInv, OrderedInv, DecodedInv, [Next]_vars
  PROVE  DecodedInv'
<1>1. CASE \/ SetStream \/ ReadSector \/ PublishVideo \/ DmaService
           \/ Receive /\ (RejectBusy \/ RejectOccupied)
           \/ UNCHANGED vars
  <2>1. Still /\ expected' \in {0, expected} /\ decoded' = decoded
    BY <1>1, StillSteps
  <2>2. /\ Receiving' => Receiving
        /\ \A i \in Index : IsLive(i)' <=> IsLive(i)
    BY <2>1 DEF Still, Receiving, IsLive
  <2>3. /\ Receiving' /\ decoded # <<>> => LastDecoded < head'[start'].frame
        /\ \A i \in Index : IsLive(i)' /\ decoded # <<>> =>
             LastDecoded < head'[i].frame
    BY <2>1, <2>2 DEF DecodedInv, Still
  <2> QED
    BY <2>1, <2>3, KeptDecoded DEF Still
<1>2. CASE Receive /\ (SkipUntilTarget \/ RejectMismatch \/ RejectFull)
  <2>1. /\ UNCHANGED <<start, film, lastInFlight, decoded>>
        /\ \A i \in Index : IsLive(i)' <=> IsLive(i)
        /\ \A i \in Index : IsLive(i) => head'[i] = head[i]
        /\ start < tail => head'[start] = head[start]
        /\ expected' \in {0, expected}
    BY <1>2, RejectedSteps
  <2>2. Receiving' => Receiving /\ start < tail
    BY <2>1, RingNumbers DEF Receiving, RingInv, ReceiverInv
  <2>3. /\ Receiving' /\ decoded # <<>> => LastDecoded < head'[start'].frame
        /\ \A i \in Index : IsLive(i)' /\ decoded # <<>> =>
             LastDecoded < head'[i].frame
    BY <2>1, <2>2 DEF DecodedInv
  <2> QED
    BY <2>1, <2>3, KeptDecoded
<1>3. CASE Receive /\ Accept
  <2>1. /\ UNCHANGED <<film, decoded>>
        /\ \A i \in Index : IsLive(i)' <=> IsLive(i)
        /\ \A i \in Index : IsLive(i) => head'[i] = head[i]
        /\ head'[start'].frame = sector.frame
        /\ sector = Upcoming
    BY <1>3, AcceptSteps, UpcomingAdvances
  <2>2. /\ Receiving' /\ decoded # <<>> => LastDecoded < head'[start'].frame
        /\ \A i \in Index : IsLive(i)' /\ decoded # <<>> =>
             LastDecoded < head'[i].frame
    BY <2>1 DEF DecodedInv
  <2> QED
    BY <2>1, <2>2, KeptDecoded
<1>4. CASE DmaCallback
  <2>1. /\ UNCHANGED <<head, film, decoded, expected>>
        /\ ~lastInFlight' /\ lastInFlight /\ expected = 0
        /\ \A i \in Index : IsLive(i)' <=> IsLive(i) \/ i = start
    BY <1>4, AnnouncedFrame
  <2>2. ~Receiving' /\ Receiving
    BY <2>1 DEF Receiving
  <2>3. \A i \in Index : IsLive(i)' /\ decoded # <<>> =>
          LastDecoded < head'[i].frame
    BY <2>1, <2>2 DEF DecodedInv
  <2> QED
    BY <2>1, <2>2, <2>3, KeptDecoded
<1>5. CASE Acquire
  <2>1. /\ UNCHANGED <<head, start, film, decoded, expected, lastInFlight>>
        /\ \A i \in Index : IsLive(i)' <=> IsLive(i)
    BY <1>5, AcquireSteps
  <2>2. /\ Receiving' /\ decoded # <<>> => LastDecoded < head'[start'].frame
        /\ \A i \in Index : IsLive(i)' /\ decoded # <<>> =>
             LastDecoded < head'[i].frame
    BY <2>1 DEF DecodedInv, Receiving
  <2> QED
    BY <2>1, <2>2, KeptDecoded
<1>6. CASE ReleaseFrame
  BY <1>6, ReleaseDecoded
<1> QED
  BY <1>1, <1>2, <1>3, <1>4, <1>5, <1>6 DEF Next, Receive, Finished

LEMMA StreamInit == Init => StreamInv
<1> SUFFICES ASSUME Init PROVE StreamInv
  OBVIOUS
<1> USE SlotsAssumption DEF Init, Index, Free, Wrap, Complete, Partial, Acquired
<1>1. DriveInv
  BY DEF DriveInv
<1>2. DataInv
  BY DEF DataInv, IsLive, InProgress
<1>3. ShapeInv
  BY DEF ShapeInv, Straight, IsLive
<1>4. OrderedInv
  BY DEF OrderedInv, IsLive
<1>5. DecodedInv
  BY DEF DecodedInv, NeverTorn
<1> QED
  BY <1>1, <1>2, <1>3, <1>4, <1>5 DEF StreamInv

(* The five facts hold in every reachable state, whatever the receiver     *)
(* (Receive80039670) rejects and in whatever order frames are released.    *)
THEOREM StreamInvariant == Spec => [](RingInv /\ StreamInv)
<1>1. Init => RingInv /\ StreamInv
  BY RingInit, StreamInit
<1>2. RingInv /\ StreamInv /\ [Next]_vars => (RingInv /\ StreamInv)'
  BY RingNext, DriveNext, DataNext, ShapeNext, OrderedNext, DecodedNext
  DEF StreamInv
<1> QED
  BY <1>1, <1>2, PTL DEF Spec

(* Whatever the receiver rejects and however the callbacks, the transfers  *)
(* and the movie loop interleave, Decode80047B30 is handed whole frames    *)
(* only, each made of its own sectors, in the order of the film.           *)
THEOREM FramesNeverTorn == Spec => []NeverTorn
<1>1. StreamInv => NeverTorn
  BY DEF StreamInv, DecodedInv
<1> QED
  BY <1>1, StreamInvariant, PTL

(* Every occupied slot has an owner that will free it: ResetPartial, the   *)
(* release of its frame, or the consumer's pass over the marker.           *)
THEOREM EverySlotOwned == Spec => []NoOrphanSlot
<1>1. ASSUME RingInv, ShapeInv PROVE NoOrphanSlot
  <2>1. ASSUME NEW i \in Index, state[i] = Partial, ~(start <= i /\ i < tail)
        PROVE  \E j \in Index : state[j] \in {Complete, Acquired} /\ i \in Extent(j)
    <3>1. Covered(i)
      <4>1. CASE Straight
        BY <1>1, <2>1, <4>1, RingNumbers DEF Straight, Free, Partial
      <4>2. ASSUME NEW w \in Index, Wrapped(w) PROVE Covered(i)
        <5>1. i # w /\ (i < tail \/ (read <= i /\ i <= w))
          BY <2>1, <4>2 DEF Wrapped, Free, Wrap, Partial
        <5> QED
          BY <1>1, <2>1, <4>2, <5>1, RingNumbers DEF Wrapped
      <4> QED
        BY <1>1, <4>1, <4>2 DEF ShapeInv
    <3> QED
      BY <3>1 DEF Covered, IsLive
  <2>2. ASSUME NEW i \in Index, state[i] = Wrap, i # read
        PROVE  \E j \in Index : /\ state[j] \in {Complete, Acquired}
                                /\ j + Count(head[j]) = i
    <3>1. Wrapped(i)
      BY <1>1, <2>2 DEF ShapeInv, Straight, Wrapped, Wrap, Free
    <3>2. read <= i - 1 /\ i - 1 \in Index /\ Covered(i - 1)
      BY <1>1, <2>2, <3>1, RingNumbers, SlotsAssumption DEF Wrapped, Index
    <3>3. PICK j \in Index : IsLive(j) /\ i - 1 \in Extent(j)
      BY <3>2 DEF Covered
    <3>4. Count(head[j]) \in Nat /\ j \in Nat /\ i \in Nat
      BY <1>1, <3>3, LiveExtent, RingNumbers
    <3>5. j <= i - 1 /\ i <= j + Count(head[j])
      BY <3>3, <3>4 DEF Extent
    <3>6. j + Count(head[j]) <= i
      <4>1. j + Count(head[j]) <= start \/ j + Count(head[j]) <= i
        BY <3>1, <3>3 DEF Wrapped
      <4> QED
        BY <1>1, <3>1, <3>4, <4>1, RingNumbers DEF Wrapped
    <3> QED
      BY <3>3, <3>4, <3>5, <3>6 DEF IsLive
  <2> QED
    BY <2>1, <2>2 DEF NoOrphanSlot
<1>2. RingInv /\ StreamInv => NoOrphanSlot
  BY <1>1 DEF StreamInv
<1> QED
  BY <1>2, StreamInvariant, PTL

(***************************************************************************)
(* The ring is the frame queue of FrameFifo.                               *)
(***************************************************************************)
LiveSet == {i \in Index : state[i] \in {Complete, Acquired}}
Announced == Len(decoded) + Cardinality(LiveSet)

(* In step with the drive, the frames announced are those before the one   *)
(* being announced, or before the next one.                                *)
CountInv ==
  /\ Announced = IF lastInFlight THEN head[start].frame - 1 ELSE Upcoming.frame - 1
  /\ lastInFlight => Upcoming.frame = head[start].frame + 1

(* Sets of first slots: a frame never begins in the ring's last slot.      *)
LEMMA FirstSlots ==
  ASSUME NEW S \in SUBSET (0 .. Slots - 2)
  PROVE  /\ IsFiniteSet(S) /\ Cardinality(S) \in Nat
         /\ Cardinality(S) <= Slots - 1
<1>1. 0 \in Int /\ Slots - 2 \in Int /\ 0 <= Slots - 2
  BY SlotsAssumption
<1>2. IsFiniteSet(0 .. Slots - 2)
  BY <1>1, FS_Interval
<1>3. Cardinality(0 .. Slots - 2) =
        IF 0 > Slots - 2 THEN 0 ELSE (Slots - 2) - 0 + 1
  BY <1>1, FS_Interval
<1>4. Cardinality(0 .. Slots - 2) = Slots - 1
  BY <1>3, SlotsAssumption
<1>5. IsFiniteSet(S) /\ Cardinality(S) <= Cardinality(0 .. Slots - 2)
  BY <1>2, FS_Subset
<1>6. Cardinality(S) \in Nat
  BY <1>5, FS_CardinalityType
<1> QED
  BY <1>4, <1>5, <1>6

LEMMA LiveSetFinite ==
  ASSUME RingInv
  PROVE  /\ LiveSet \subseteq 0 .. Slots - 2
         /\ IsFiniteSet(LiveSet) /\ Cardinality(LiveSet) \in Nat
         /\ Len(decoded) \in Nat
<1>1. ASSUME NEW i \in LiveSet PROVE i \in 0 .. Slots - 2
  BY <1>1, LiveExtent, RingNumbers, SlotsAssumption DEF LiveSet, IsLive, Index
<1>2. LiveSet \subseteq 0 .. Slots - 2
  BY <1>1
<1> QED
  BY <1>2, FirstSlots DEF RingInv, TypeOK

LEMMA CountInit == Init => CountInv
<1> SUFFICES ASSUME Init PROVE CountInv
  OBVIOUS
<1>1. LiveSet = {}
  BY DEF Init, LiveSet, Free, Complete, Acquired
<1>2. Announced = 0
  BY <1>1, FS_EmptySet DEF Announced, Init
<1> QED
  BY <1>2 DEF CountInv, Init, Upcoming

(* Without rejections the receiver accepts what it is given.               *)
LEMMA GatedReceive ==
  ASSUME Gated, RingInv, OrderInv, [Next]_vars, Receive
  PROVE  Accept
<1>1. result' = 10
  BY OrderNext DEF OrderInv
<1> QED
  BY <1>1 DEF Receive, RejectBusy, RejectOccupied, SkipUntilTarget,
     RejectMismatch, RejectFull

LEMMA CountNext ==
  ASSUME Gated, RingInv, OrderInv, DriveInv, CountInv, [Next]_vars
  PROVE  CountInv'
<1>0. /\ Cardinality(LiveSet) \in Nat /\ IsFiniteSet(LiveSet)
      /\ Len(decoded) \in Nat
      /\ Upcoming.frame \in Nat
  BY LiveSetFinite, RingNumbers DEF Sector
<1>1. CASE /\ ~Receive
           /\ \/ SetStream \/ ReadSector \/ PublishVideo \/ DmaService
              \/ UNCHANGED vars
  <2>1. Still /\ decoded' = decoded
    BY <1>1, StillSteps
  <2>2. Upcoming' = Upcoming
    BY <1>1, UpcomingAdvances
  <2> QED
    BY <2>1, <2>2 DEF CountInv, Announced, LiveSet, Still
<1>2. CASE Receive
  <2>1. Accept
    BY <1>2, GatedReceive
  <2>2. /\ UNCHANGED <<film, decoded>> /\ ~lastInFlight
        /\ \A i \in Index : IsLive(i)' <=> IsLive(i)
        /\ head'[start'].frame = sector.frame
        /\ lastInFlight' = IsLast(sector)
    BY <1>2, <2>1, AcceptSteps
  <2>3. Upcoming = sector /\ Upcoming' = Following(sector)
    BY <1>2, UpcomingAdvances
  <2>4. LiveSet' = LiveSet
    BY <2>2 DEF LiveSet, IsLive
  <2>5. IF IsLast(sector) THEN Upcoming'.frame = sector.frame + 1
                          ELSE Upcoming'.frame = sector.frame
    BY <2>3 DEF Following
  <2> QED
    BY <2>2, <2>3, <2>4, <2>5 DEF CountInv, Announced
<1>3. CASE DmaCallback
  <2>1. /\ UNCHANGED <<head, decoded>>
        /\ ~lastInFlight' /\ lastInFlight
        /\ \A i \in Index : IsLive(i)' <=> IsLive(i) \/ i = start
        /\ ~IsLive(start)
    BY <1>3, AnnouncedFrame
  <2>2. LiveSet' = LiveSet \cup {start} /\ start \notin LiveSet
    BY <2>1, RingNumbers DEF LiveSet, IsLive
  <2>3. Cardinality(LiveSet') = Cardinality(LiveSet) + 1
    BY <1>0, <2>2, FS_AddElement
  <2>4. Upcoming' = Upcoming
    BY <1>3 DEF DmaCallback, Upcoming
  <2>5. head[start].frame \in Nat
    BY RingNumbers DEF Sector
  <2>6. Announced' = Announced + 1 /\ Announced \in Nat
    BY <1>0, <2>1, <2>3 DEF Announced
  <2>7. /\ Announced = head[start].frame - 1
        /\ Upcoming.frame = head[start].frame + 1
    BY <2>1 DEF CountInv
  <2>8. Announced' = Upcoming'.frame - 1
    BY <2>4, <2>5, <2>6, <2>7
  <2> QED
    BY <2>1, <2>8 DEF CountInv
<1>4. CASE Acquire
  <2>1. /\ UNCHANGED <<head, start, decoded, lastInFlight>>
        /\ \A i \in Index : IsLive(i)' <=> IsLive(i)
    BY <1>4, AcquireSteps
  <2>2. LiveSet' = LiveSet
    BY <2>1 DEF LiveSet, IsLive
  <2>3. Upcoming' = Upcoming
    BY <1>4 DEF Acquire, Upcoming, deviceVars
  <2> QED
    BY <2>1, <2>2, <2>3 DEF CountInv, Announced
<1>5. CASE ReleaseFrame
  <2>1. /\ UNCHANGED <<head, start, lastInFlight>>
        /\ IsLive(read)
        /\ \A i \in Index : IsLive(i)' <=> IsLive(i) /\ i # read
    BY <1>5, ReleaseSteps
  <2>2. LiveSet' = LiveSet \ {read} /\ read \in LiveSet
    BY <2>1, RingNumbers DEF LiveSet, IsLive
  <2>3. Cardinality(LiveSet') = Cardinality(LiveSet) - 1
    BY <1>0, <2>2, FS_RemoveElement
  <2>4. Len(decoded') = Len(decoded) + 1
    BY <1>5 DEF ReleaseFrame, RingInv, TypeOK
  <2>5. Upcoming' = Upcoming
    BY <1>5 DEF ReleaseFrame, Upcoming, deviceVars
  <2> QED
    BY <1>0, <2>1, <2>3, <2>4, <2>5 DEF CountInv, Announced
<1> QED
  BY <1>1, <1>2, <1>3, <1>4, <1>5 DEF Next, Finished

(* Every step of the ring is a step of the queue, or none.                 *)
LEMMA FifoStep ==
  ASSUME RingInv, DriveInv, Gated => OrderInv /\ CountInv, [Next]_vars
  PROVE  [Fifo!Next]_(Fifo!vars)
<1>0. /\ Cardinality(LiveSet) \in Nat /\ IsFiniteSet(LiveSet)
      /\ Len(decoded) \in Nat /\ Len(film) \in Nat /\ Slots \in Nat
      /\ session' = session /\ film' = film
  BY LiveSetFinite, FilmSizes, RingNumbers, SessionKept
  DEF RingInv, TypeOK, Next, vars, SetStream, Acquire, ReleaseFrame, ReadSector,
      PublishVideo, Receive, DmaService, DmaCallback, Finished
<1>1. CASE ~Gated
  <2>1. ~Gated'
    BY <1>0, <1>1 DEF Gated
  <2> QED
    BY <1>1, <2>1 DEF Fifo!vars
<1>2. CASE Gated
  <2>0. Gated'
    BY <1>0, <1>2 DEF Gated
  <2>1. CASE DmaCallback
    <3>1. /\ UNCHANGED decoded /\ lastInFlight
          /\ \A i \in Index : IsLive(i)' <=> IsLive(i) \/ i = start
          /\ ~IsLive(start)
      BY <2>1, AnnouncedFrame
    <3>2. LiveSet' = LiveSet \cup {start} /\ start \notin LiveSet
      BY <3>1, RingNumbers DEF LiveSet, IsLive
    <3>3. Cardinality(LiveSet') = Cardinality(LiveSet) + 1
      BY <1>0, <3>2, FS_AddElement
    <3>4. Announced < Len(film)
      <4>1. head[start].frame \in FrameNumbers
        BY <3>1 DEF RingInv, ReceiverInv
      <4> QED
        BY <1>0, <1>2, <3>1, <4>1 DEF CountInv, FrameNumbers
    <3>5. Cardinality(LiveSet) < Slots - 1
      <4>1. start \in 0 .. Slots - 2
        BY <2>1, AnnouncedFrame, RingNumbers
      <4>2. LiveSet \cup {start} \subseteq 0 .. Slots - 2
        BY <4>1, LiveSetFinite
      <4>3. Cardinality(LiveSet \cup {start}) <= Slots - 1
        BY <4>2, FirstSlots
      <4> QED
        BY <1>0, <3>2, <3>3, <4>3
    <3>6. Fifo!Complete
      BY <1>0, <1>2, <2>0, <3>1, <3>3, <3>4, <3>5
      DEF Fifo!Complete, Announced, LiveSet
    <3> QED
      BY <3>6 DEF Fifo!Next
  <2>2. CASE ReleaseFrame
    <3>1. /\ IsLive(read)
          /\ \A i \in Index : IsLive(i)' <=> IsLive(i) /\ i # read
      BY <2>2, ReleaseSteps
    <3>2. LiveSet' = LiveSet \ {read} /\ read \in LiveSet
      BY <3>1, RingNumbers DEF LiveSet, IsLive
    <3>3. Cardinality(LiveSet') = Cardinality(LiveSet) - 1
      BY <1>0, <3>2, FS_RemoveElement
    <3>4. Cardinality(LiveSet) # 0
      BY <1>0, <3>2, FS_EmptySet
    <3>5. Len(decoded') = Len(decoded) + 1
      BY <2>2 DEF ReleaseFrame, RingInv, TypeOK
    <3>6. Fifo!Take
      BY <1>0, <1>2, <2>0, <3>3, <3>4, <3>5 DEF Fifo!Take, LiveSet
    <3> QED
      BY <3>6 DEF Fifo!Next
  <2>3. CASE ~DmaCallback /\ ~ReleaseFrame
    <3>1. /\ decoded' = decoded
          /\ \A i \in Index : IsLive(i)' <=> IsLive(i)
      <4>1. CASE Receive
        BY <1>2, <4>1, GatedReceive, AcceptSteps
      <4>2. CASE Acquire
        BY <4>2, AcquireSteps
      <4>3. CASE \/ SetStream \/ ReadSector \/ PublishVideo \/ DmaService
                 \/ UNCHANGED vars
        BY <4>3, StillSteps DEF Still, IsLive
      <4> QED
        BY <2>3, <4>1, <4>2, <4>3 DEF Next, Finished
    <3>2. LiveSet' = LiveSet
      BY <3>1 DEF LiveSet, IsLive
    <3> QED
      BY <1>0, <1>2, <2>0, <3>1, <3>2 DEF Fifo!vars, LiveSet
  <2> QED
    BY <2>1, <2>2, <2>3
<1> QED
  BY <1>1, <1>2

(* The ring of the session's first movie is a queue of Slots - 1 frames:   *)
(* its initial states are the queue's, and each of its steps announces one *)
(* more frame of the film, hands over the oldest, or changes neither.      *)
THEOREM RingIsFrameQueue == Spec => Fifo!Init /\ [][Fifo!Next]_(Fifo!vars)
<1> DEFINE Inv == /\ RingInv /\ DriveInv
                  /\ Gated => OrderInv /\ CountInv
<1>1. Init => Inv
  BY RingInit, StreamInit, OrderInit, CountInit DEF StreamInv
<1>2. Inv /\ [Next]_vars => Inv'
  BY RingNext, DriveNext, OrderNext, CountNext, SessionKept DEF Gated
<1>3. Inv /\ [Next]_vars => [Fifo!Next]_(Fifo!vars)
  BY FifoStep
<1>4. Init => Fifo!Init
  <2> SUFFICES ASSUME Init PROVE Fifo!Init
    OBVIOUS
  <2>1. LiveSet = {}
    BY DEF Init, LiveSet, Free, Complete, Acquired
  <2>2. Cardinality(LiveSet) = 0
    BY <2>1, FS_EmptySet
  <2>3. Len(film) \in Nat /\ Len(decoded) = 0
    BY FilmSizes DEF Init
  <2> QED
    BY <2>2, <2>3 DEF Fifo!Init, LiveSet
<1> QED
  BY <1>1, <1>2, <1>3, <1>4, PTL DEF Spec

(***************************************************************************)
(* The session's first movie, whole.                                       *)
(***************************************************************************)
(* In the session's first movie the decoder misses no frame: the frames    *)
(* it was given are the first ones of the film, each once (the movie loop  *)
(* takes whatever Acquire8003958C finds and never looks at its number).    *)
FilmInOrder == Gated => \A k \in 1 .. Len(decoded) : decoded[k] = Payload(k)

(* No two live frames are the same one, and the frames announced leave no  *)
(* gap: the oldest is the one the decoder wants.                           *)
LEMMA OldestIsNext ==
  ASSUME RingInv, OrderedInv, CountInv, IsLive(read),
         \A i \in Index : IsLive(i) => Len(decoded) < head[i].frame
  PROVE  head[read].frame = Len(decoded) + 1
<1> DEFINE d == Len(decoded)
           F == (d + 2) .. Announced
           f == [i \in LiveSet |-> head[i].frame]
<1>1. /\ LiveSet \subseteq Index /\ read \in LiveSet
      /\ IsFiniteSet(LiveSet) /\ Cardinality(LiveSet) \in Nat /\ d \in Nat
      /\ \A i \in Index : i \in LiveSet <=> IsLive(i)
  BY LiveSetFinite, RingNumbers DEF LiveSet, IsLive
<1>2. Cardinality(LiveSet) # 0 /\ Announced = d + Cardinality(LiveSet)
  BY <1>1, FS_EmptySet DEF Announced
<1>3. \A i \in Index : head[i].frame \in Nat /\ Position(i) \in Nat
  BY RingNumbers DEF Sector, Position
<1>4. ASSUME NEW i \in LiveSet
      PROVE  d < head[i].frame /\ head[i].frame <= Announced
  <2>1. IsLive(i) /\ i \in Index /\ head[i].frame \in Nat
    BY <1>1, <1>3
  <2>2. /\ head[i].frame < Upcoming.frame
        /\ lastInFlight => head[i].frame < head[start].frame
    BY <2>1 DEF OrderedInv, Receiving
  <2>3. Upcoming.frame \in Nat /\ head[start].frame \in Nat
    BY <1>3, RingNumbers DEF Sector
  <2>4. CASE lastInFlight
    <3>1. Announced = head[start].frame - 1
      BY <2>4 DEF CountInv
    <3> QED
      BY <2>1, <2>2, <2>3, <2>4, <3>1
  <2>5. CASE ~lastInFlight
    <3>1. Announced = Upcoming.frame - 1
      BY <2>5 DEF CountInv
    <3> QED
      BY <2>1, <2>2, <2>3, <3>1
  <2> QED
    BY <2>4, <2>5
<1>5. \A i \in LiveSet : head[read].frame <= head[i].frame
  BY <1>1, <1>3, Nearest DEF OrderedInv
<1>6. \A i, j \in LiveSet : i # j => head[i].frame # head[j].frame
  <2>1. \A i, j \in LiveSet : i # j => Position(i) # Position(j)
    BY <1>1, RingNumbers, SlotsAssumption DEF Position, Index
  <2>2. \A i, j \in LiveSet : Position(i) < Position(j) => head[i].frame < head[j].frame
    BY <1>1 DEF OrderedInv
  <2> QED
    BY <1>1, <1>3, <2>1, <2>2
<1>7. IsFiniteSet(F) /\ Cardinality(F) < Cardinality(LiveSet)
  <2>1. d + 2 \in Int /\ Announced \in Int
    BY <1>1, <1>2
  <2>2. IsFiniteSet(F) /\ Cardinality(F) = IF d + 2 > Announced THEN 0
                                           ELSE Announced - (d + 2) + 1
    BY <2>1, FS_Interval
  <2> HIDE DEF F, d
  <2> QED
    BY <1>1, <1>2, <2>2
<1>8. ASSUME head[read].frame # d + 1 PROVE FALSE
  <2>1. f \in [LiveSet -> F]
    <3>1. ASSUME NEW i \in LiveSet PROVE head[i].frame \in F
      <4>1. head[i].frame \in Nat /\ head[read].frame \in Nat /\ Announced \in Int
        BY <1>1, <1>2, <1>3
      <4>2. d < head[read].frame /\ head[read].frame <= head[i].frame
            /\ head[i].frame <= Announced
        BY <1>1, <1>4, <1>5
      <4> QED
        BY <1>1, <1>8, <4>1, <4>2
    <3> QED
      BY <3>1
  <2> HIDE DEF F, d
  <2>2. \E i, j \in LiveSet : i # j /\ f[i] = f[j]
    <3> HIDE DEF f
    <3> QED
      BY <1>1, <1>7, <2>1, FS_PigeonHole
  <2> QED
    BY <1>6, <2>2
<1> QED
  BY <1>8

LEMMA FilmNext ==
  ASSUME RingInv, StreamInv, FilmInOrder, Gated, CountInv, [Next]_vars
  PROVE  FilmInOrder'
<1>1. film' = film
  BY DEF Next, vars, SetStream, Acquire, ReleaseFrame, ReadSector,
     PublishVideo, Receive, DmaService, DmaCallback, Finished
<1>2. \A k : Payload(k)' = Payload(k)
  BY <1>1 DEF Payload
<1>3. CASE ReleaseFrame
  <2>1. IsLive(read) /\ decoded' = Append(decoded, Payload(head[read].frame))
    BY <1>3, ReleaseSteps, ReleaseGives DEF StreamInv
  <2>2. decoded \in Seq(Seq(Sector)) /\ Len(decoded) \in Nat
    BY DEF RingInv, TypeOK
  <2>3. \A i \in Index : IsLive(i) => Len(decoded) < head[i].frame
    <3>1. CASE decoded = <<>>
      <4>1. \A i \in Index : IsLive(i) => head[i].frame \in FrameNumbers
        BY DEF RingInv, LiveInv
      <4>2. Len(decoded) = 0
        BY <3>1
      <4> QED
        BY <4>1, <4>2, RingNumbers DEF FrameNumbers, Sector
    <3>2. CASE decoded # <<>>
      <4>1. Len(decoded) \in 1 .. Len(decoded)
        BY <2>2, <3>2
      <4>2. PICK g \in FrameNumbers : decoded[Len(decoded)] = Payload(g)
        BY <4>1 DEF StreamInv, DecodedInv, NeverTorn
      <4>3. decoded[Len(decoded)] = Payload(Len(decoded))
        BY <4>1 DEF FilmInOrder
      <4>4. film[g] \in 1 .. Slots - 1 /\ Slots \in Nat
        BY FilmSizes, SlotsAssumption DEF RingInv, TypeOK
      <4>5. 1 \in 1 .. film[g] /\ 1 .. film[g] = DOMAIN Payload(g)
        BY <4>4 DEF Payload
      <4>6. 1 \in DOMAIN Payload(Len(decoded))
        BY <4>2, <4>3, <4>5
      <4>7. Payload(Len(decoded))[1].frame = Len(decoded)
        BY <4>6 DEF Payload
      <4>8. LastDecoded = Len(decoded)
        BY <4>3, <4>7 DEF LastDecoded
      <4> QED
        BY <3>2, <4>8 DEF StreamInv, DecodedInv
    <3> QED
      BY <3>1, <3>2
  <2>4. head[read].frame = Len(decoded) + 1
    BY <2>1, <2>3, OldestIsNext DEF StreamInv
  <2>5. /\ Len(decoded') = Len(decoded) + 1
        /\ decoded'[Len(decoded) + 1] = Payload(Len(decoded) + 1)
        /\ \A k \in 1 .. Len(decoded) : decoded'[k] = decoded[k]
    BY <2>1, <2>2, <2>4
  <2>6. ASSUME NEW k \in 1 .. Len(decoded') PROVE decoded'[k] = Payload(k)'
    <3>1. CASE k \in 1 .. Len(decoded)
      BY <1>2, <2>5, <3>1 DEF FilmInOrder
    <3>2. CASE k = Len(decoded) + 1
      BY <1>2, <2>5, <3>2
    <3> QED
      BY <2>2, <2>5, <2>6, <3>1, <3>2
  <2> QED
    BY <2>6 DEF FilmInOrder
<1>4. CASE ~ReleaseFrame
  <2>1. decoded' = decoded
    BY <1>4 DEF Next, vars, SetStream, Acquire, ReadSector, PublishVideo,
       Receive, DmaService, DmaCallback, Finished
  <2> QED
    BY <1>2, <2>1 DEF FilmInOrder
<1> QED
  BY <1>3, <1>4

(* In the session's first movie every frame of the film is decoded, once   *)
(* and in order, as far as the movie is played.                            *)
THEOREM FilmIsWhole == Spec => []FilmInOrder
<1> DEFINE Inv == /\ RingInv /\ StreamInv
                  /\ Gated => OrderInv /\ CountInv
                  /\ FilmInOrder
<1>1. Init => Inv
  BY RingInit, StreamInit, OrderInit, CountInit DEF FilmInOrder, Init
<1>2. ASSUME Inv, [Next]_vars PROVE Inv'
  <2>1. (RingInv /\ StreamInv)'
    BY <1>2, RingNext, DriveNext, DataNext, ShapeNext, OrderedNext, DecodedNext
    DEF StreamInv
  <2>2. Gated' <=> Gated
    BY <1>2, SessionKept DEF Gated
  <2>3. Gated => OrderInv' /\ CountInv'
    BY <1>2, OrderNext, CountNext DEF StreamInv
  <2>4. FilmInOrder'
    BY <1>2, <2>2, FilmNext DEF FilmInOrder
  <2> QED
    BY <2>1, <2>2, <2>3, <2>4
<1>3. Inv => FilmInOrder
  OBVIOUS
<1> QED
  BY <1>1, <1>2, <1>3, PTL DEF Spec

(* In the session's first movie no sector reaches the receiver before      *)
(* SetStream80039408 (comment at pr_stage2_vlc_session.h:80-82): what a    *)
(* later movie may see is due to movieStreamConfigured_ alone.             *)
THEOREM FirstDelivery == Spec => [](Gated => DeliveryAfterSetStream)
<1> DEFINE Inv == RingInv /\ (Gated => OrderInv)
<1>1. Init => Inv
  BY RingInit, OrderInit
<1>2. Inv /\ [Next]_vars => Inv'
  BY RingNext, OrderNext, SessionKept DEF Gated
<1>3. Inv => (Gated => DeliveryAfterSetStream)
  BY DEF OrderInv, DeliveryAfterSetStream
<1> QED
  BY <1>1, <1>2, <1>3, PTL DEF Spec

(* Who can go on: the movie loop, which sets the stream, releases the      *)
(* frame it holds or finds a frame or a wrap marker; the drive, which has  *)
(* a sector to read or room to publish the one it kept; an interrupt or a  *)
(* transfer that is due.                                                   *)
SourceMoves == ~stream \/ acquired \/ state[read] \in {Wrap, Complete}
DriveMoves ==
  /\ AllowNewStreamSector
  /\ \/ cd = "idle" /\ next.frame \in FrameNumbers
     \/ cd = "held" /\ CanAccept(sector)
InterruptMoves == cd = "ready" \/ dma.busy \/ dmaIrq

(* In the session's first movie nobody waits for ever: the drive, which    *)
(* waits for room in the ring (CanAcceptHostVideoSector), and the movie    *)
(* loop, which waits for a complete frame, never wait for each other, for  *)
(* any film whose frames fit the ring, however they fall around its end.   *)
NeverStuck ==
  Gated /\ Len(decoded) < Len(film) => SourceMoves \/ DriveMoves \/ InterruptMoves

(* A sector the receiver owns is being transferred.                        *)
OwnedInv == cd = "owned" => dma.busy

LEMMA OwnedNext ==
  ASSUME Gated, RingInv, OrderInv, OwnedInv, [Next]_vars
  PROVE  OwnedInv'
<1>1. CASE Receive
  <2>1. Accept
    BY <1>1, GatedReceive
  <2> QED
    BY <2>1 DEF Accept, OwnedInv
<1>2. CASE ~Receive
  BY <1>2 DEF OwnedInv, Next, vars, ringVars, deviceVars, SetStream, Acquire,
     ReleaseFrame, ReadSector, PublishVideo, DmaService, DmaCallback, Finished
<1> QED
  BY <1>1, <1>2

(* The slot at read begins a live frame or holds the wrap marker, as soon  *)
(* as there is a live frame.                                               *)
LEMMA LiveAtRead ==
  ASSUME RingInv, ShapeInv, LiveSet # {}
  PROVE  IsLive(read) \/ state[read] = Wrap
<1>1. PICK i \in Index : IsLive(i)
  BY DEF LiveSet, IsLive
<1>2. i \in Extent(i) /\ Count(head[i]) \in Nat /\ Count(head[i]) >= 1
  BY <1>1, LiveExtent
<1>3. ASSUME Covered(read), \A j \in Index : IsLive(j) /\ read \in Extent(j) => read <= j
      PROVE  IsLive(read)
  <2>1. PICK j \in Index : IsLive(j) /\ read \in Extent(j)
    BY <1>3 DEF Covered
  <2>2. j <= read /\ read <= j /\ j \in Nat
    BY <1>3, <2>1, LiveExtent, RingNumbers DEF Extent
  <2> QED
    BY <2>1, <2>2, RingNumbers
<1>4. CASE Straight
  <2>1. read <= i /\ i + Count(head[i]) <= start
    BY <1>1, <1>4 DEF Straight
  <2>2. read \in read .. start - 1
    BY <1>2, <2>1, RingNumbers
  <2> QED
    BY <1>3, <1>4, <2>2 DEF Straight
<1>5. ASSUME NEW w \in Index, Wrapped(w), state[read] # Wrap
      PROVE  IsLive(read)
  <2>1. read <= w /\ read # w /\ tail <= read /\ state[w] = Wrap
    BY <1>5 DEF Wrapped
  <2>2. read \in read .. w - 1
    BY <2>1, RingNumbers
  <2>3. Covered(read)
    BY <1>5, <2>2 DEF Wrapped
  <2>4. ASSUME NEW j \in Index, IsLive(j), read \in Extent(j) PROVE read <= j
    <3>1. read < j + Count(head[j]) /\ Count(head[j]) \in Nat /\ j \in Nat
      BY <2>4, LiveExtent, RingNumbers DEF Extent
    <3>2. j + Count(head[j]) <= start \/ read <= j
      BY <1>5, <2>4 DEF Wrapped
    <3> QED
      BY <2>1, <3>1, <3>2, RingNumbers
  <2> QED
    BY <1>3, <2>3, <2>4
<1> QED
  BY <1>4, <1>5 DEF ShapeInv

(* A sector that has no room while no frame is on its way waits for a      *)
(* frame or a marker that the consumer finds.                              *)
LEMMA WaitingHasFrame ==
  ASSUME RingInv, StreamInv, OrderInv, Gated, cd = "held", ~lastInFlight, ~CanAccept(sector)
  PROVE  IsLive(read) \/ state[read] = Wrap
<1>1. \/ state[tail] # Free
      \/ WrapsAt(sector) /\ state[0] # Free
  BY DEF CanAccept, Gated
<1>2. 0 \in Index /\ Upcoming = sector
  BY SlotsAssumption DEF Index, Upcoming
<1>3. WrapsAt(sector) => tail = start
  <2>1. ASSUME WrapsAt(sector), start < tail PROVE FALSE
    <3>1. expected = 0
      BY <1>2, <2>1 DEF WrapsAt, OrderInv
    <3>2. seek /\ Upcoming # FirstSector
      BY <2>1, <3>1 DEF StreamInv, DriveInv
    <3> QED
      BY <3>2 DEF OrderInv
  <2> QED
    BY <2>1, RingNumbers
<1>4. CASE Straight
  <2>1. state[0] # Free /\ WrapsAt(sector)
    BY <1>1, <1>4, RingNumbers DEF Straight
  <2>2. read = 0 /\ 0 < start
    BY <1>2, <1>3, <1>4, <2>1, RingNumbers DEF Straight
  <2>3. Covered(0)
    BY <1>4, <2>2, RingNumbers DEF Straight
  <2>4. LiveSet # {}
    BY <2>3 DEF Covered, LiveSet, IsLive
  <2> QED
    BY <2>4, LiveAtRead DEF StreamInv
<1>5. ASSUME NEW w \in Index, Wrapped(w), state[read] # Wrap
      PROVE  IsLive(read)
  <2>1. read <= w /\ read # w /\ state[w] = Wrap
    BY <1>5 DEF Wrapped
  <2>2. read \in read .. w - 1
    BY <2>1, RingNumbers
  <2>3. Covered(read)
    BY <1>5, <2>2 DEF Wrapped
  <2>4. LiveSet # {}
    BY <2>3 DEF Covered, LiveSet, IsLive
  <2> QED
    BY <1>5, <2>4, LiveAtRead DEF StreamInv
<1> QED
  BY <1>4, <1>5 DEF StreamInv, ShapeInv

(* Until the film is decoded somebody can go on: there is no state in      *)
(* which the drive and the movie loop wait for each other.                 *)
THEOREM RingNeverStuck == Spec => []NeverStuck
<1> DEFINE Inv == /\ RingInv /\ StreamInv
                  /\ Gated => OrderInv /\ CountInv /\ OwnedInv
<1>1. Init => Inv
  BY RingInit, StreamInit, OrderInit, CountInit DEF OwnedInv, Init
<1>2. ASSUME Inv, [Next]_vars PROVE Inv'
  <2>1. (RingInv /\ StreamInv)'
    BY <1>2, RingNext, DriveNext, DataNext, ShapeNext, OrderedNext, DecodedNext
    DEF StreamInv
  <2>2. Gated' <=> Gated
    BY <1>2, SessionKept DEF Gated
  <2>3. Gated => OrderInv' /\ CountInv' /\ OwnedInv'
    BY <1>2, OrderNext, CountNext, OwnedNext DEF StreamInv
  <2> QED
    BY <2>1, <2>2, <2>3
<1>3. ASSUME Inv, Gated, Len(decoded) < Len(film), ~SourceMoves, ~DriveMoves, ~InterruptMoves
      PROVE  FALSE
  <2>1. stream /\ ~acquired /\ state[read] \notin {Wrap, Complete}
    BY <1>3 DEF SourceMoves
  <2>2. ~IsLive(read) /\ state[read] # Wrap
    BY <1>3, <2>1, RingNumbers DEF IsLive, RingInv, LiveInv
  <2>3. LiveSet = {}
    BY <1>3, <2>2, LiveAtRead DEF StreamInv
  <2>4. ~lastInFlight
    BY <1>3 DEF InterruptMoves, RingInv, DeviceInv
  <2>5. cd # "held"
    BY <1>3, <2>1, <2>2, <2>4, WaitingHasFrame DEF DriveMoves, AllowNewStreamSector
  <2>6. cd = "idle" /\ next.frame \notin FrameNumbers
    BY <1>3, <2>1, <2>5 DEF InterruptMoves, OwnedInv, DriveMoves, AllowNewStreamSector,
       RingInv, TypeOK
  <2>7. Len(decoded) = next.frame - 1
    <3>1. Cardinality(LiveSet) = 0 /\ Len(decoded) \in Nat
      BY <1>3, <2>3, FS_EmptySet DEF RingInv, TypeOK
    <3> QED
      BY <1>3, <2>4, <2>6, <3>1 DEF CountInv, Announced, Upcoming
  <2>8. Len(decoded) \in Nat /\ Len(film) \in Nat /\ next.frame \in Nat
    BY <1>3, FilmSizes DEF RingInv, TypeOK, Sector
  <2> QED
    BY <1>3, <2>6, <2>7, <2>8 DEF FrameNumbers
<1>4. Inv => NeverStuck
  BY <1>3 DEF NeverStuck
<1> QED
  BY <1>1, <1>2, <1>4, PTL DEF Spec

==============================================================================
