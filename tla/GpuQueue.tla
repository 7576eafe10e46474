------------------------------- MODULE GpuQueue -------------------------------
(***************************************************************************)
(* The GPU command queue of the native scenes: the 64-slot ring of         *)
(* pr_stage2_gpu_direct.cpp, filled by the frame code and drained by        *)
(* whoever finds the device idle; the linked-list DMA consumer of           *)
(* pr_stage2_gpu_device.cpp; and the host's poll, which services the        *)
(* device, delivers interrupts on the scene's own stack, resumes the scene  *)
(* and presents a page (pr_stage2_loading_device_session.cpp).              *)
(* Frames are drawn by the VBlank callback while a scene loads and by the   *)
(* scene itself afterwards.  Everything runs on one thread: code runs to    *)
(* its next wait.                                                           *)
(***************************************************************************)
EXTENDS Naturals, Sequences

CONSTANTS Slots,      \* slots of the ring (64); one stays free
          Frame,      \* the kinds of command a frame submits, in order
          Limit,      \* VBlanks a wait may last (240)
          Loading,    \* whether the scene starts by loading
          MaxBlanks   \* bound: scanout edges the host samples

Kinds == {"env", "clear", "table"}

ASSUME GpuAssumption ==
  /\ Slots \in Nat /\ Slots >= 2
  /\ Frame \in Seq(Kinds)
  /\ Limit \in Nat /\ MaxBlanks \in Nat
  /\ Loading \in BOOLEAN

VARIABLES
  queue,      \* the ring, the DMA-2 callback and the transfer in flight
  flag,       \* DICR: a completion of channel 2 not yet dispatched
  env,        \* the shared draw-environment packet: the command it is built for
  table,      \* the ordering table of each buffer: the frame built in it
  frame,      \* frames prepared
  issued,     \* history: commands submitted
  buffer,     \* 80096590: the page being drawn
  work,       \* the buffer whose table the frame in preparation uses
  shown,      \* the page the display registers select
  drawn,      \* 8006ECD4: the callback has prepared a frame and not presented it
  todo,       \* commands the running Present has still to submit
  draw,       \* the frame code: "none", "otc", "submit" or "full"
  at,         \* where the foreground is
  until,      \* the VBlank count the foreground waits for
  previous,   \* 80055F74: the VBlank count at the last frame
  deadline,   \* 8005D84C
  ticks,      \* 80057034
  edges,      \* pendingVBlankEvents_
  requested,  \* presentRequested_
  irq,        \* irqActive_ while the VBlank callback waits
  phase       \* where the host's poll is

scene == <<env, table, frame, issued, buffer, work, shown, drawn, todo, draw>>
wait == <<at, until, previous, deadline>>
clock == <<ticks, edges, requested>>
vars == <<queue, flag, scene, wait, clock, irq, phase>>

Idle == [id |-> 0]
Pages == {0, 1}

-----------------------------------------------------------------------------
(* The ring. *)

\* Variant: an index that is not masked with 63.
SuccUnmasked(i) == i + 1

Succ(i) == IF i + 1 = Slots THEN 0 ELSE i + 1
Empty(q) == q.head = q.tail
Full(q) == Succ(q.head) = q.tail
DmaBusy(q) == q.dma # Idle

\* PutDrawEnvironment and ClearImage have their packet copied into the slot.
Copied(kind) == kind \in {"env", "clear"}

\* Variant: the buffer current after the flip, not the one prepared.
CommandOfDrawPage(kind) ==
  [id |-> issued + 1, kind |-> kind, page |-> buffer, buffer |-> buffer,
   want |-> IF kind = "table" THEN frame ELSE issued + 1,
   copy |-> CASE kind = "env" -> env' [] kind = "clear" -> issued + 1
              [] kind = "table" -> 0]

\* A command carries its number, its page, what it should draw (want) and, when
\* its packet is copied into the slot, the copy.  An ordering table is not
\* copied: the slot holds its address, and so its buffer.
Command(kind) ==
  [id |-> issued + 1, kind |-> kind, page |-> buffer, buffer |-> work,
   want |-> IF kind = "table" THEN frame ELSE issued + 1,
   copy |-> CASE kind = "env" -> env' [] kind = "clear" -> issued + 1
              [] kind = "table" -> 0]

\* Variant: the slot keeps the address of the shared packet.
SourceByAddress(c) ==
  IF c.kind = "env" THEN env ELSE IF Copied(c.kind) THEN c.copy ELSE table[c.buffer]

\* The consumer decodes the packet in the start write itself.
Source(c) == IF Copied(c.kind) THEN c.copy ELSE table[c.buffer]
StartLinkedDma(q, c) == [q EXCEPT !.dma = [id |-> c.id, kind |-> c.kind,
                                           page |-> c.page, want |-> c.want,
                                           got |-> Source(c)]]

\* Variant: the callback is removed before every command.
DrainQueueDisarmed(q) ==
  IF Empty(q) \/ DmaBusy(q) THEN q
  ELSE StartLinkedDma([q EXCEPT !.tail = Succ(@), !.armed = FALSE], q.slots[q.tail])

\* DrainQueue80046BC4: a start makes the device busy, so one call starts one
\* command; the callback is removed before the last one runs.
DrainQueue(q) ==
  IF Empty(q) \/ DmaBusy(q) THEN q
  ELSE StartLinkedDma([q EXCEPT !.tail = Succ(@), !.armed = @ /\ Succ(q.tail) # q.head],
                      q.slots[q.tail])

\* Variant: direct execution asks only whether the device is idle.
EnqueueSourceOvertakes(q, c) ==
  IF ~DmaBusy(q)
  THEN StartLinkedDma(q, c)
  ELSE DrainQueue([q EXCEPT !.slots[q.head] = c, !.head = Succ(@), !.armed = TRUE])

\* EnqueueSource once a slot is free.
EnqueueSource(q, c) ==
  IF Empty(q) /\ ~DmaBusy(q)
  THEN StartLinkedDma(q, c)
  ELSE DrainQueue([q EXCEPT !.slots[q.head] = c, !.head = Succ(@), !.armed = TRUE])

Init ==
  /\ queue = [slots |-> [i \in 0..Slots - 1 |-> Idle], head |-> 0, tail |-> 0,
              armed |-> FALSE, dma |-> Idle]
  /\ flag = FALSE
  /\ env = 0 /\ table = [b \in Pages |-> 0]
  /\ frame = 0 /\ issued = 0
  /\ buffer = 0 /\ work = 0 /\ shown = 1
  /\ drawn = FALSE /\ todo = <<>> /\ draw = "none"
  /\ at = (IF Loading THEN "load" ELSE "frame")
  /\ until = 0 /\ previous = 0 /\ deadline = 0
  /\ ticks = 0 /\ edges = 0 /\ requested = FALSE
  /\ irq = FALSE /\ phase = "run"

-----------------------------------------------------------------------------
(* The frame code, run by the foreground or inside the VBlank callback. *)

Running == phase = "run"
Suspend == phase' = "show"

\* ClearOrderingTable80044FA8: the OTC channel, which the next pass completes.
ClearTable(b) == table' = [table EXCEPT ![b] = frame']

\* Prepare8001EA74: takes the table of the page about to be shown and builds the
\* next frame in it.
Prepare ==
  /\ frame' = frame + 1
  /\ work' = buffer
  /\ ClearTable(buffer)
  /\ draw' = "otc"
  /\ Suspend
  /\ UNCHANGED <<queue, env, issued, buffer, shown, drawn, todo>>

\* SwapBuffers80040370: the page just drawn is shown at once.
SwapBuffers == shown' = buffer /\ buffer' = 1 - buffer

\* Present8001EBF4 submits the draw environments of the new draw page, its clear
\* and the table.
Present ==
  /\ SwapBuffers
  /\ todo' = Frame /\ draw' = "submit"
  /\ UNCHANGED <<queue, env, table, frame, issued, work, drawn>>

\* PutDrawEnvironment80045114 rebuilds the one shared packet before it is
\* enqueued.  A full ring makes the caller drain and wait.
Build == env' = IF Head(todo) = "env" THEN issued + 1 ELSE env

Enqueue ==
  /\ queue' = EnqueueSource(queue, Command(Head(todo)))
  /\ issued' = issued + 1
  /\ todo' = Tail(todo)
  /\ draw' = "submit"

WaitForSlot ==
  /\ queue' = DrainQueue(queue)
  /\ draw' = "full"
  /\ Suspend
  /\ UNCHANGED <<issued, todo>>

Submit ==
  /\ Running /\ draw = "submit" /\ todo # <<>>
  /\ Build
  /\ deadline' = ticks + Limit
  /\ IF Full(queue) THEN WaitForSlot ELSE Enqueue /\ UNCHANGED phase
  /\ UNCHANGED <<flag, table, frame, buffer, work, shown, drawn,
                 at, until, previous, clock, irq>>

\* CheckTimeout80047178.  Discarding the ring writes the DMA control register,
\* and the device refuses that while a transfer is in flight.
Expired == deadline < ticks
Discard ==
  IF DmaBusy(queue) THEN phase' = "failed" /\ UNCHANGED queue
  ELSE queue' = [queue EXCEPT !.head = 0, !.tail = 0] /\ UNCHANGED phase

\* The loop of EnqueueSource, each time it is resumed.  A caller ignores -1.
Retry ==
  /\ Running /\ draw = "full"
  /\ UNCHANGED env
  /\ \/ ~Full(queue) /\ Enqueue /\ UNCHANGED phase
     \/ /\ Full(queue) /\ Expired
        /\ Discard
        /\ todo' = Tail(todo) /\ draw' = "submit" /\ UNCHANGED issued
     \/ Full(queue) /\ ~Expired /\ WaitForSlot
  /\ UNCHANGED <<flag, table, frame, buffer, work, shown, drawn, wait, clock, irq>>

-----------------------------------------------------------------------------
(* LoadingFrame8001537C, the VBlank callback: prepare at one blank, present at  *)
(* the next.                                                                   *)

CallbackReturns ==
  /\ Running /\ irq
  /\ \/ draw = "otc" /\ drawn' = TRUE
     \/ draw = "submit" /\ todo = <<>> /\ drawn' = FALSE
  /\ draw' = "none"
  /\ phase' = "dispatch"
  /\ UNCHANGED <<queue, flag, env, table, frame, issued, buffer, work, shown, todo,
                 wait, clock, irq>>

-----------------------------------------------------------------------------
(* The foreground: the loader, then one Prepare, VSync(2) and Present a frame, *)
(* then DrawSync(0).                                                          *)

Foreground(place) == Running /\ ~irq /\ at = place

LoadWaits ==
  /\ Foreground("load")
  /\ Suspend
  /\ UNCHANGED <<queue, flag, scene, wait, clock, irq>>

\* EndLoading8001545C: the callback goes first; a prepared frame is presented.
LoadEnds ==
  /\ Foreground("load") /\ draw = "none"
  /\ at' = "frame"
  /\ IF drawn THEN Present
     ELSE UNCHANGED <<queue, env, table, frame, issued, buffer, work, shown, drawn,
                      todo, draw>>
  /\ UNCHANGED <<flag, until, previous, deadline, clock, irq, phase>>

BeginFrame ==
  /\ Foreground("frame")
  /\ draw = "none" \/ (draw = "submit" /\ todo = <<>>)
  /\ Prepare
  /\ at' = "vsync"
  /\ UNCHANGED <<flag, until, previous, deadline, clock, irq>>

\* VSync80035560(2): one wait relative to the last frame, then one more blank.
VSync ==
  /\ Foreground("vsync")
  /\ draw' = "none"
  /\ IF ticks < previous + 1
     THEN UNCHANGED <<at, until>>
     ELSE at' = "blank" /\ until' = ticks + 1
  /\ Suspend
  /\ UNCHANGED <<queue, flag, env, table, frame, issued, buffer, work, shown, drawn,
                 todo, previous, deadline, clock, irq>>

BlankWaits ==
  /\ Foreground("blank") /\ ticks < until
  /\ Suspend
  /\ UNCHANGED <<queue, flag, scene, wait, clock, irq>>

EndFrame ==
  /\ Foreground("blank") /\ ticks >= until
  /\ previous' = ticks
  /\ at' = "frame"
  /\ Present
  /\ UNCHANGED <<flag, until, deadline, clock, irq, phase>>

\* The scene returns and the host starts DrawSync80044B3C(0).
SceneReturns ==
  /\ Foreground("frame")
  /\ draw = "none" \/ (draw = "submit" /\ todo = <<>>)
  /\ at' = "sync" /\ draw' = "none"
  /\ deadline' = ticks + Limit
  /\ UNCHANGED <<queue, flag, env, table, frame, issued, buffer, work, shown, drawn,
                 todo, until, previous, clock, irq, phase>>

\* SyncQueue80046FFC(0), the ring: drain, check, wait.
SyncRing ==
  /\ Foreground("sync") /\ ~Empty(queue)
  /\ IF Expired
     THEN queue' = DrainQueue(queue) /\ phase' = "failed"
     ELSE queue' = DrainQueue(queue) /\ Suspend
  /\ UNCHANGED <<flag, scene, wait, clock, irq>>

\* Then the device.  The ring is not looked at again.
SyncDevice ==
  /\ \/ Foreground("sync") /\ Empty(queue)
     \/ Foreground("device")
  /\ \/ ~DmaBusy(queue) /\ at' = "done" /\ phase' = "done"
     \/ DmaBusy(queue) /\ Expired /\ phase' = "failed" /\ UNCHANGED at
     \/ DmaBusy(queue) /\ ~Expired /\ at' = "device" /\ Suspend
  /\ UNCHANGED <<queue, flag, scene, until, previous, deadline, clock, irq>>

-----------------------------------------------------------------------------
(* The host: PresentIfReady ends one poll, Events begins the next. *)

\* Variant: a submitted page may be presented.
PresentableSubmitted == requested

Presentable == requested /\ ~DmaBusy(queue)

Show ==
  /\ phase = "show"
  /\ requested' = (requested /\ ~Presentable)
  /\ phase' = "host"
  /\ UNCHANGED <<queue, flag, scene, wait, ticks, edges, irq>>

SampleEdge ==
  /\ phase = "host"
  /\ ticks + edges < MaxBlanks
  /\ edges' = edges + 1 /\ requested' = TRUE
  /\ phase' = "gpu"
  /\ UNCHANGED <<queue, flag, scene, wait, ticks, irq>>

NoEdge ==
  /\ phase = "host"
  /\ phase' = "gpu"
  /\ UNCHANGED <<queue, flag, scene, wait, clock, irq>>

\* While the callback waits, the pass neither delivers nor dispatches.
Serviced == phase' = IF irq THEN "run" ELSE "deliver"

\* Variant: a completion is reported to a foreground wait only.
GpuCompletesUnflagged ==
  /\ phase = "gpu" /\ DmaBusy(queue)
  /\ queue' = [queue EXCEPT !.dma = Idle]
  /\ flag' = (flag \/ (queue.armed /\ ~irq))
  /\ Serviced
  /\ UNCHANGED <<scene, wait, clock, irq>>

\* Device::Service sees the fence.
GpuCompletes ==
  /\ phase = "gpu" /\ DmaBusy(queue)
  /\ queue' = [queue EXCEPT !.dma = Idle]
  /\ flag' = (flag \/ queue.armed)
  /\ Serviced
  /\ UNCHANGED <<scene, wait, clock, irq>>

GpuWaits ==
  /\ phase = "gpu"
  /\ Serviced
  /\ UNCHANGED <<queue, flag, scene, wait, clock, irq>>

NoDelivery ==
  /\ phase = "deliver" /\ edges = 0
  /\ phase' = "dispatch"
  /\ UNCHANGED <<queue, flag, scene, wait, clock, irq>>

\* One edge a pass; its dispatch runs the callback before any DMA's.
DeliverEdge ==
  /\ phase = "deliver" /\ edges > 0
  /\ edges' = edges - 1 /\ ticks' = ticks + 1
  /\ CASE at # "load" -> phase' = "dispatch" /\ UNCHANGED <<queue, scene, irq>>
       [] at = "load" /\ ~drawn -> Prepare /\ irq' = TRUE
       [] at = "load" /\ drawn -> Present /\ phase' = "run" /\ irq' = TRUE
  /\ UNCHANGED <<flag, wait, requested>>

\* The DMA dispatcher acknowledges the flag and calls the callback; the scene
\* then goes on from its wait.
Dispatch ==
  /\ phase = "dispatch"
  /\ flag' = FALSE
  /\ queue' = IF flag /\ queue.armed THEN DrainQueue(queue) ELSE queue
  /\ irq' = FALSE
  /\ phase' = "run"
  /\ UNCHANGED <<scene, wait, clock>>

Stopped == phase \in {"done", "failed"} /\ UNCHANGED vars

-----------------------------------------------------------------------------
Frames == Submit \/ Retry \/ CallbackReturns \/ LoadEnds \/ BeginFrame \/ VSync
          \/ EndFrame
Waits == LoadWaits \/ BlankWaits \/ SyncRing \/ SyncDevice
Host == Show \/ NoEdge \/ GpuWaits \/ NoDelivery \/ DeliverEdge \/ Dispatch

Next == Frames \/ Waits \/ Host \/ SceneReturns \/ SampleEdge \/ GpuCompletes \/ Stopped

\* The host keeps polling and the code runs to its next wait; a fence that is
\* queried again and again is signalled in the end.
Spec == Init /\ [][Next]_vars /\ WF_vars(Frames \/ Waits \/ Host) /\ SF_vars(GpuCompletes)

-----------------------------------------------------------------------------
Starts == [id : Nat \ {0}, kind : Kinds, page : Pages, want : Nat, got : Nat]
Commands == [id : Nat \ {0}, kind : Kinds, page : Pages, buffer : Pages,
             want : Nat, copy : Nat]
Queues == [slots : [0..Slots - 1 -> Commands \cup {Idle}],
           head : 0..Slots - 1, tail : 0..Slots - 1,
           armed : BOOLEAN, dma : Starts \cup {Idle}]

TypeOK ==
  /\ queue \in Queues
  /\ flag \in BOOLEAN /\ env \in Nat /\ table \in [Pages -> Nat]
  /\ frame \in Nat /\ issued \in Nat
  /\ buffer \in Pages /\ work \in Pages /\ shown \in Pages
  /\ drawn \in BOOLEAN /\ todo \in Seq(Kinds)
  /\ draw \in {"none", "otc", "submit", "full"}
  /\ at \in {"load", "frame", "vsync", "blank", "sync", "device", "done"}
  /\ until \in Nat /\ previous \in Nat /\ deadline \in Nat
  /\ ticks \in Nat /\ edges \in Nat /\ requested \in BOOLEAN /\ irq \in BOOLEAN
  /\ phase \in {"run", "show", "host", "gpu", "deliver", "dispatch", "done", "failed"}

Depth(q) == IF q.tail <= q.head THEN q.head - q.tail ELSE q.head + Slots - q.tail
Place(q, k) == IF q.tail + k < Slots THEN q.tail + k ELSE q.tail + k - Slots
Queued(q) == {q.slots[Place(q, k)] : k \in 0..Depth(q) - 1}

\* Commands begun.
Begun == issued - Depth(queue)

\* Every command is begun, in the order of submission and once, whichever of
\* the enqueuer, the waiting frame code, the DMA callback and DrawSync begins
\* it: a step begins the next one or none, and drops none.  In particular the
\* timeout never discards the ring: where it expires the device refuses.
InOrder ==
  [][\/ Begun' = Begun /\ queue'.dma \in {queue.dma, Idle}
     \/ Begun' = Begun + 1 /\ queue'.dma.id = Begun']_vars

\* The queue is never left alone: while it holds a command the callback is
\* installed, and a transfer is in flight or its completion is flagged.
NoLostWakeup == ~Empty(queue) => queue.armed /\ (DmaBusy(queue) \/ flag)

\* A draw environment or a clear reaches the device as it was submitted, though
\* every draw environment is built in one packet, several times a frame.
DrawnAsSubmitted ==
  queue.dma # Idle /\ Copied(queue.dma.kind) => queue.dma.got = queue.dma.want

\* An ordering table is drawn as built unless the device is so far behind that
\* a second frame has been prepared since: the two buffers alternate although
\* Present flips the page before it submits the frame.
TableOneBehind ==
  queue.dma # Idle /\ queue.dma.kind = "table" /\ queue.dma.got # queue.dma.want
    => frame >= queue.dma.want + 2

\* The page the host presents has no drawing left to do, whatever waits.
PresentsFinishedPage ==
  [][requested /\ ~requested' => \A c \in Queued(queue) : c.page # shown]_vars

\* It has none unless an interrupt callback waits at that moment: then the gate of
\* PresentIfReady, which asks for an idle device only, is enough although the
\* drawing of a page is many commands.
QuietPresentsFinished ==
  [][requested /\ ~requested' /\ ~irq => \A c \in Queued(queue) : c.page # shown]_vars

\* DrawSync returns with the ring empty and the device idle, although it does
\* not look at the ring again once it waits for the device.
HandoffDrained == phase = "done" => Empty(queue) /\ ~DmaBusy(queue)

\* Every command submitted is begun in the end, unless a wait timed out.
CommandsBegun == \A n \in 1..2 * MaxBlanks : issued >= n ~> Begun >= n \/ phase = "failed"
==============================================================================
