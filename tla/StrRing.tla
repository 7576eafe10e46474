------------------------------- MODULE StrRing -------------------------------
(***************************************************************************)
(* The STR movie ring of the Stage 2 runtime.                              *)
(*                                                                         *)
(* The optical device (pr_stage2_cd_command_device.cpp) reads one sector   *)
(* per host pass and publishes it with INT1; the interrupt callback        *)
(* Receive80039670 (pr_stage2_ring_direct.cpp) copies its header and       *)
(* starts DMA channel 3 for its payload; the completion of a frame's last  *)
(* payload raises a DMA interrupt whose callback Dma80039318 marks the     *)
(* frame complete; the foreground acquires a complete frame, decodes it    *)
(* and releases its slots.  The actors interleave freely here, which       *)
(* includes every order the host's event passes can produce.               *)
(*                                                                         *)
(* Time is abstracted: a sector may be due at any pass.  The film is       *)
(* well formed (frames 1, 2, ... in order, their parts in order), the      *)
(* streaming mode is the asynchronous one and the range limit is nonzero,  *)
(* as SetStream80039408(0, 1, 0xFFFFFFFF, 0, 0), the one call of the       *)
(* product, leaves them: the outcomes 5, 7 and 8 of the receiver and its   *)
(* memory-source branches are then unreachable and are not modelled.       *)
(***************************************************************************)
EXTENDS Integers, Sequences, FiniteSets

CONSTANTS Slots,          \* 801C3868, the number of ring slots
          Films,          \* the films considered: film[f] is the number of
                          \* sectors of frame f
          Sessions        \* the sessions the movie may run in: whether one has
                          \* bound CanAcceptHostVideoSector (readiness), and
                          \* whether a movie already ran in it (earlier)

ASSUME SlotsAssumption == Slots \in Nat /\ Slots >= 2
ASSUME FilmsAssumption == Films \subseteq Seq(1 .. Slots - 1)
ASSUME SessionsAssumption == Sessions \subseteq [readiness : BOOLEAN, earlier : BOOLEAN]

VARIABLES
  film,          \* the film on the disc
  session,       \* the session it is played in
  state,         \* first halfword of each slot header
  head,          \* the sector header copied into each slot
  data,          \* the sector payload held by each slot
  tail,          \* 80095C50, slot of the next sector
  start,         \* 80095C54, first slot of the frame being received
  read,          \* 80095C58, slot of the next frame to acquire
  expected,      \* 8008ECD4, part number expected next
  frame,         \* 8008ECA4, number of the frame being received, 0 if none
  lastInFlight,  \* 80092858, a frame's last payload is not yet announced
  seek,          \* 800965A4, waiting for the target frame
  stream,        \* SetStream80039408 has run for this movie
  acquired,      \* the foreground holds the frame at read
  cd,            \* what the optical device holds
  sector,        \* the sector in the device
  next,          \* the sector under the head of the drive
  dma,           \* DMA channel 3
  dmaIrq,        \* a channel 3 completion waits for its callback
  result,        \* return value of the last Receive80039670
  decoded        \* history: the payloads handed to the decoder

ringVars == <<state, head, data, tail, start, read, expected, frame,
              lastInFlight, seek, stream, acquired>>
deviceVars == <<cd, sector, next, dma, dmaIrq>>
vars == <<ringVars, deviceVars, result, decoded, film, session>>

Index == 0 .. Slots - 1

(* Slot states. *)
Free     == 0
Wrap     == 1
Complete == 2
Partial  == 3
Acquired == 4

FrameNumbers == 1 .. Len(film)
Sector == [frame : Nat, part : Nat]
NoSector == [frame |-> 0, part |-> 0]
Count(s) == film[s.frame]
IsLast(s) == s.part = Count(s) - 1
Following(s) == IF IsLast(s) THEN [frame |-> s.frame + 1, part |-> 0]
                             ELSE [frame |-> s.frame, part |-> s.part + 1]
TargetFrame == 1

Idle == [busy |-> FALSE, to |-> 0, last |-> FALSE]

TypeOK ==
  /\ film \in Films
  /\ session \in Sessions
  /\ state \in [Index -> Free .. Acquired]
  /\ head \in [Index -> Sector]
  /\ data \in [Index -> Sector]
  /\ tail \in Index
  /\ start \in Index
  /\ read \in Index
  /\ expected \in Nat
  /\ frame \in Nat
  /\ lastInFlight \in BOOLEAN
  /\ seek \in BOOLEAN
  /\ stream \in BOOLEAN
  /\ acquired \in BOOLEAN
  /\ cd \in {"idle", "held", "ready", "owned"}
  /\ sector \in Sector
  /\ next \in Sector
  /\ dma \in [busy : BOOLEAN, to : Index, last : BOOLEAN]
  /\ dmaIrq \in BOOLEAN
  /\ result \in {0, 1, 4, 6, 9, 10}
  /\ decoded \in Seq(Seq(Sector))

(* The movie's ring has been set (ClearRing80039260), the drive has been   *)
(* told to read and the ready callback is installed (Start800391AC).       *)
Init ==
  /\ film \in Films
  /\ session \in Sessions
  /\ state = [i \in Index |-> Free]
  /\ head = [i \in Index |-> NoSector]
  /\ data = [i \in Index |-> NoSector]
  /\ tail = 0 /\ start = 0 /\ read = 0
  /\ expected = 0 /\ frame = 0
  /\ lastInFlight = FALSE
  /\ seek = FALSE
  /\ stream = FALSE
  /\ acquired = FALSE
  /\ cd = "idle"
  /\ sector = NoSector
  /\ next = [frame |-> 1, part |-> 0]
  /\ dma = Idle
  /\ dmaIrq = FALSE
  /\ result = 10
  /\ decoded = <<>>

(***************************************************************************)
(* The foreground.                                                         *)
(***************************************************************************)
SetStream ==
  /\ ~stream
  /\ stream' = TRUE
  /\ seek' = TRUE
  /\ expected' = 0
  /\ frame' = 0
  /\ UNCHANGED <<state, head, data, tail, start, read, lastInFlight,
                 acquired, deviceVars, result, decoded, film, session>>

(* A slot whose frame may be taken. *)
Available(s) == s = Complete

(* The slots of the frame whose first slot is i. *)
Extent(i) == i .. i + Count(head[i]) - 1

Released(i, s) == [j \in Index |-> IF j \in Extent(i) THEN Free ELSE s[j]]
ClaimFreeing(i, s) == Released(i, s)
Claim(i, s) == [s EXCEPT ![i] = Acquired]

(* Acquire8003958C: step over a wrap marker, then take a complete frame or *)
(* return 1.                                                               *)
Acquire ==
  /\ stream /\ ~acquired
  /\ LET at     == IF state[read] = Wrap THEN 0 ELSE read
         passed == IF state[read] = Wrap THEN [state EXCEPT ![read] = Free]
                                         ELSE state
     IN /\ read' = at
        /\ \/ /\ Available(passed[at])
              /\ state' = Claim(at, passed)
              /\ acquired' = TRUE
           \/ /\ ~Available(passed[at])
              /\ state' = passed
              /\ UNCHANGED acquired
  /\ UNCHANGED <<head, data, tail, start, expected, frame, lastInFlight, seek,
                 stream, deviceVars, result, decoded, film, session>>

(* Decode80047B30 has read the frame's consecutive payloads;               *)
(* ReleaseFrame80039490 frees its slots.  The code runs both right after   *)
(* Acquire; here the other actors may come between.                        *)
FreedFirstOnly(i, s) == [s EXCEPT ![i] = Free]
Freed(i, s) == Released(i, s)

ReleaseFrame ==
  /\ acquired
  /\ decoded' = Append(decoded,
                       [j \in 1 .. Count(head[read]) |-> data[read + j - 1]])
  /\ acquired' = FALSE
  /\ IF state[read] = Acquired
       THEN /\ state' = Freed(read, state)
            /\ read' = read + Count(head[read])
       ELSE UNCHANGED <<state, read>>
  /\ UNCHANGED <<head, data, tail, start, expected, frame, lastInFlight, seek,
                 stream, deviceVars, result, film, session>>

(***************************************************************************)
(* The optical device.                                                     *)
(***************************************************************************)
(* A frame that does not fit before the last slot starts again at slot 0. *)
WrapsTooLate(s) == s.part = 0 /\ Slots - tail < Count(s)
WrapsAt(s) == s.part = 0 /\ Slots - tail - 1 < Count(s)

CanAcceptDespiteInFlight(s) ==
  session.readiness => /\ state[tail] = Free
                       /\ WrapsAt(s) => state[0] = Free
CanAccept(s) ==
  session.readiness => /\ ~lastInFlight
                       /\ state[tail] = Free
                       /\ WrapsAt(s) => state[0] = Free

(* movieStreamConfigured_ is set by InitializeDecoder800274D4 and is never *)
(* reset, so an earlier movie leaves it set.                               *)
AllowNewStreamSector == stream \/ session.earlier

(* Device::Service reads the next sector and publishes it if the receiver  *)
(* has room, else keeps it.  A published sector nobody requested is        *)
(* replaced; a requested one stays until DMA has consumed it.              *)
ReadSector ==
  /\ AllowNewStreamSector
  /\ cd = "idle"
  /\ next.frame \in FrameNumbers
  /\ sector' = next
  /\ next' = Following(next)
  /\ cd' = IF CanAccept(next) THEN "ready" ELSE "held"
  /\ UNCHANGED <<ringVars, dma, dmaIrq, result, decoded, film, session>>

PublishVideo ==
  /\ AllowNewStreamSector
  /\ cd = "held"
  /\ CanAccept(sector)
  /\ cd' = "ready"
  /\ UNCHANGED <<ringVars, sector, next, dma, dmaIrq, result, decoded, film, session>>

(***************************************************************************)
(* The interrupt callback Receive80039670, run when INT1 is dispatched.    *)
(* Outcomes that never request the data leave the device free to read on;  *)
(* the others own the sector until DMA consumes it.                        *)
(***************************************************************************)
RejectBusy ==
  /\ lastInFlight
  /\ result' = 1
  /\ cd' = "idle"
  /\ UNCHANGED <<ringVars, dma>>

RejectOccupied ==
  /\ ~lastInFlight
  /\ state[tail] # Free
  /\ result' = 4
  /\ cd' = "idle"
  /\ UNCHANGED <<ringVars, dma>>

RequestedEvenOccupied == ~lastInFlight
Requested == ~lastInFlight /\ state[tail] = Free
Misses == seek /\ sector.frame # TargetFrame
Mismatch == \/ expected # sector.part
            \/ frame # 0 /\ frame # sector.frame

SkipUntilTarget ==
  /\ Requested /\ Misses
  /\ head' = [head EXCEPT ![tail] = sector]
  /\ result' = 0
  /\ cd' = "owned"
  /\ UNCHANGED <<state, data, tail, start, read, expected, frame,
                 lastInFlight, seek, stream, acquired, dma>>

(* ResetPartial: forget the unfinished frame and its slots. *)
PartialFreed == [i \in Index |-> IF start <= i /\ i < tail THEN Free ELSE state[i]]

RejectMismatch ==
  /\ Requested /\ ~Misses /\ Mismatch
  /\ head' = [head EXCEPT ![tail] = sector]
  /\ state' = PartialFreed
  /\ tail' = start
  /\ expected' = 0 /\ frame' = 0
  /\ seek' = FALSE
  /\ result' = 6
  /\ cd' = "owned"
  /\ UNCHANGED <<data, start, read, lastInFlight, stream, acquired, dma>>

RejectFull ==
  /\ Requested /\ ~Misses /\ ~Mismatch
  /\ WrapsAt(sector) /\ state[0] # Free
  /\ head' = [head EXCEPT ![tail] = sector]
  /\ expected' = 0 /\ frame' = sector.frame
  /\ seek' = FALSE
  /\ result' = 9
  /\ cd' = "owned"
  /\ UNCHANGED <<state, data, tail, start, read, lastInFlight, stream,
                 acquired, dma>>

(* StartDma8003A014 enables the completion interrupt for the last part. *)
InterruptsAlways(s) == TRUE
Interrupts(s) == IsLast(s)

(* Take the sector into slot `at`, leaving a wrap marker behind when the   *)
(* frame starts again at slot 0, and start the payload DMA.                *)
Accept ==
  /\ Requested /\ ~Misses /\ ~Mismatch
  /\ WrapsAt(sector) => state[0] = Free
  /\ LET at == IF WrapsAt(sector) THEN 0 ELSE tail
         marked == IF WrapsAt(sector) THEN [state EXCEPT ![tail] = Wrap]
                                      ELSE state
         last == IsLast(sector)
     IN /\ state' = [marked EXCEPT ![at] = Partial]
        /\ head' = [head EXCEPT ![tail] = sector, ![at] = sector]
        /\ start' = IF sector.part = 0 THEN at ELSE start
        /\ tail' = at + 1
        /\ expected' = IF last THEN 0 ELSE sector.part + 1
        /\ frame' = IF last THEN 0
                    ELSE IF sector.part = 0 THEN sector.frame ELSE frame
        /\ lastInFlight' = last
        /\ dma' = [busy |-> TRUE, to |-> at, last |-> Interrupts(sector)]
  /\ seek' = FALSE
  /\ result' = 10
  /\ cd' = "owned"
  /\ UNCHANGED <<data, read, stream, acquired>>

Receive ==
  /\ cd = "ready"
  /\ \/ RejectBusy
     \/ RejectOccupied
     \/ SkipUntilTarget
     \/ RejectMismatch
     \/ RejectFull
     \/ Accept
  /\ UNCHANGED <<sector, next, dmaIrq, decoded, film, session>>

(***************************************************************************)
(* DMA channel 3: the payload lands, the sector is released and only a     *)
(* frame's last transfer interrupts.  Dma80039318 announces the frame.     *)
(***************************************************************************)
LatchForgotten == dmaIrq
Latch == dmaIrq \/ dma.last

DmaService ==
  /\ dma.busy
  /\ data' = [data EXCEPT ![dma.to] = sector]
  /\ dma' = Idle
  /\ dmaIrq' = Latch
  /\ cd' = "idle"
  /\ UNCHANGED <<state, head, tail, start, read, expected, frame, lastInFlight,
                 seek, stream, acquired, sector, next, result, decoded, film, session>>

DmaCallbackStaysBusy ==
  /\ dmaIrq
  /\ dmaIrq' = FALSE
  /\ state' = [state EXCEPT ![start] = Complete]
  /\ start' = tail
  /\ UNCHANGED <<head, data, tail, read, expected, frame, lastInFlight, seek,
                 stream, acquired, cd, sector, next, dma, result, decoded, film, session>>

DmaCallback ==
  /\ dmaIrq
  /\ dmaIrq' = FALSE
  /\ state' = [state EXCEPT ![start] = Complete]
  /\ start' = tail
  /\ lastInFlight' = FALSE
  /\ UNCHANGED <<head, data, tail, read, expected, frame, seek, stream, acquired,
                 cd, sector, next, dma, result, decoded, film, session>>

(* The whole film has been decoded and the drive has nothing left to read. *)
Finished ==
  /\ next.frame \notin FrameNumbers
  /\ Len(decoded) = Len(film)
  /\ UNCHANGED vars

Next == \/ SetStream \/ Acquire \/ ReleaseFrame
        \/ ReadSector \/ PublishVideo
        \/ Receive \/ DmaService \/ DmaCallback
        \/ Finished

(* Every host pass services the devices and dispatches interrupts; the     *)
(* foreground polls for a frame on every pass of the movie loop.           *)
Fairness == /\ WF_vars(SetStream) /\ WF_vars(Acquire) /\ WF_vars(ReleaseFrame)
            /\ WF_vars(ReadSector) /\ WF_vars(PublishVideo)
            /\ WF_vars(Receive) /\ WF_vars(DmaService) /\ WF_vars(DmaCallback)

Spec == Init /\ [][Next]_vars /\ Fairness

(***************************************************************************)
(* Properties.                                                             *)
(***************************************************************************)
(* The payloads of frame f, as they lie on the disc. *)
Payload(f) == [j \in 1 .. film[f] |-> [frame |-> f, part |-> j - 1]]

(* The decoder is handed whole frames only, each with exactly its own      *)
(* sectors in order, and the frames in film order, whatever the receiver,  *)
(* the DMA channel and the decoder did to the ring meanwhile (lines 89-174 *)
(* of pr_stage2_ring_direct.cpp against 8-20 of the acquire module), even  *)
(* when the receiver is left to itself and rejects sectors.                *)
NeverTorn ==
  \A k \in 1 .. Len(decoded) :
    /\ \E f \in FrameNumbers : decoded[k] = Payload(f)
    /\ k > 1 => decoded[k - 1][1].frame < decoded[k][1].frame

(* The session's first movie, with the readiness predicate bound. *)
Gated == session.readiness /\ ~session.earlier

(* In the session's first movie, waiting before delivery avoids every      *)
(* rejection of the receiver: it is never entered busy, occupied, full or  *)
(* out of step (comment at pr_stage2_movie_foreground_direct.cpp:30-32).   *)
(* A rejected sector that was requested would hold the drive for ever.     *)
NoRejection == Gated => result = 10

(* No sector reaches the receiver before SetStream and the decoder         *)
(* initialisation are done (comment at pr_stage2_vlc_session.h:80-82).     *)
DeliveryAfterSetStream == cd \in {"ready", "owned"} => stream

(* Every occupied slot has an owner that will free it: a complete or       *)
(* acquired frame it belongs to, or the frame being received; a wrap       *)
(* marker lies where the consumer will pass.  Otherwise the ring loses     *)
(* capacity with every such slot.                                          *)
NoOrphanSlot ==
  \A i \in Index :
    /\ state[i] = Partial =>
         \/ start <= i /\ i < tail
         \/ \E j \in Index : /\ state[j] \in {Complete, Acquired}
                             /\ i \in Extent(j)
    /\ state[i] = Wrap => i = read \/ \E j \in Index :
                            /\ state[j] \in {Complete, Acquired}
                            /\ j + Count(head[j]) = i

(* The receiver's busy flag is set exactly while a frame's last payload is *)
(* in flight or its completion interrupt is still owed: the flag can       *)
(* neither block the stream for ever nor let the next frame's first sector *)
(* in before the previous frame is announced.                              *)
CompletionOwed == lastInFlight <=> (dma.busy /\ dma.last) \/ dmaIrq

(* First slots of the frames announced or being decoded. *)
Live == {i \in Index : state[i] = Complete \/ (acquired /\ i = read)}

(* From the moment a frame is announced until it is released, neither its  *)
(* payload nor its sector count changes: no DMA transfer and no header     *)
(* copy lands in a live frame.                                             *)
NoLiveOverwrite ==
  [][\A i \in Live \cap Live' :
        \A j \in Extent(i) : data'[j] = data[j] /\ head'[j] = head[j]]_vars

(* Every frame of the session's first movie is eventually decoded. *)
FilmDecoded == Gated => <>(Len(decoded) = Len(film))

(* The ring implements the frame queue: the frames taken are those         *)
(* decoded, the complete ones also those announced and not yet released.   *)
Fifo == INSTANCE FrameFifo WITH
          length <- IF Gated THEN Len(film) ELSE 0,
          Capacity <- Slots - 1,
          taken <- IF Gated THEN Len(decoded) ELSE 0,
          complete <- IF Gated THEN Len(decoded)
             + Cardinality({i \in Index : state[i] \in {Complete, Acquired}})
             ELSE 0
ImplementsFifo == Fifo!Spec
==============================================================================
