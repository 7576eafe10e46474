----------------------------- MODULE IrqDispatch -----------------------------
(***************************************************************************)
(* One scene session as its interrupts see it: the host's event pass       *)
(* (pr_stage2_loading_device_session.cpp, Events), the devices it services, *)
(* the interrupt dispatcher with its DMA sub-dispatcher and CD callback     *)
(* (pr_stage2_callback_init_direct.cpp, pr_stage2_irq_direct.cpp,           *)
(* pr_stage2_cd_command_direct.cpp), all on one thread.  The VBlank callback *)
(* draws and may suspend its fiber in the middle of the dispatch, with      *)
(* other sources still in the dispatcher's copy; the host then runs further *)
(* passes, which sample the clock and service devices but deliver and       *)
(* dispatch nothing.                                                        *)
(***************************************************************************)
EXTENDS Naturals, InterruptDevice

CONSTANTS RingChannel,  \* the DMA channel that carries video sectors (3)
          GpuChannel,   \* the channel of the GPU's command lists (2)
          OtcChannel,   \* the channel that clears ordering tables (6)
          QueueSize,    \* slots of the queue of transfers still to be started
          Submissions,  \* bound: tables and commands one VBlank callback submits
          MaxBlanks     \* bound: scanout edges the host samples

ASSUME IrqAssumption ==
  /\ Channels \subseteq 0..6 /\ {RingChannel, GpuChannel, OtcChannel} \subseteq Channels
  /\ RingChannel \notin {GpuChannel, OtcChannel} /\ GpuChannel # OtcChannel
  /\ QueueSize \in Nat \ {0} /\ Submissions \in Nat /\ MaxBlanks \in Nat

VARIABLES
  ctl,        \* the interrupt controller
  installed,  \* channels with a DMA callback
  busy,       \* channels with a transfer in progress
  queue,      \* transfers waiting to be started by a drain of the queue
  cd,         \* the CD device's interrupt flag: what it reports, or "none"
  replies,    \* replies of the current command the CD device has not published
  edges,      \* pendingVBlankEvents_: edges sampled and not yet delivered
  wall,       \* wallBlanks_: edges delivered
  ticks,      \* 80057034: the VBlank counter the game waits on
  phase,      \* where the host's event pass is
  screen,     \* the task waits for the screen: the host's passes deliver no edge
  irq,        \* where the dispatcher is; "none" when irqActive_ is false
  pending,    \* the dispatcher's copy of the pending sources
  chans,      \* the DMA dispatcher's copy of the pending channels
  left,       \* what the running VBlank callback may still submit
  owed        \* history: flagged completions their callback has not been given

vars == <<ctl, installed, busy, queue, cd, replies, edges, wall, ticks,
          phase, screen, irq, pending, chans, left, owed>>
device == <<busy, queue, cd, replies>>
clock == <<edges, wall, ticks>>
host == <<phase, screen>>
control == <<irq, pending, chans, left>>

\* After InitCallbacks800358DC and the CD library's initialisation.
Init ==
  /\ ctl = PowerOn
  /\ installed = {} /\ busy = {} /\ owed = {}
  /\ queue = 0 /\ cd = "none" /\ replies = 0
  /\ edges = 0 /\ wall = 0 /\ ticks = 0
  /\ phase = "foreground" /\ screen = FALSE
  /\ irq = "none" /\ pending = {} /\ chans = {} /\ left = 0

Foreground == phase = "foreground" /\ irq = "none" /\ ~screen
Servicing == phase = "devices" /\ irq = "none"

\* The VBlank callback has given way to the host: it waits for its table to be
\* cleared, or for a slot of the full queue.
Waiting == irq \in {"table", "full"}

-----------------------------------------------------------------------------
(* The foreground and the callbacks. *)

\* Variant: the register is written back as it was read, its flags included,
\* which acknowledges them.
SetDmaCallbackWriteBack(c) ==
  /\ Foreground \/ irq \in {"vblank", "full", "channel"}
  /\ \/ /\ c \notin installed
        /\ installed' = installed \cup {c}
        /\ ctl' = WriteDicr(ctl, ctl.enabled \cup {c}, ctl.flags)
     \/ /\ c \in installed
        /\ installed' = installed \ {c}
        /\ ctl' = WriteDicr(ctl, ctl.enabled \ {c}, ctl.flags)
  /\ UNCHANGED <<device, clock, host, control, owed>>

SetDmaCallback(c) ==
  /\ Foreground \/ irq \in {"vblank", "full", "channel"}
  /\ \/ /\ c \notin installed
        /\ installed' = installed \cup {c}
        /\ ctl' = WriteDicr(ctl, ctl.enabled \cup {c}, {})
     \/ /\ c \in installed
        /\ installed' = installed \ {c}
        /\ ctl' = WriteDicr(ctl, ctl.enabled \ {c}, {})
  /\ UNCHANGED <<device, clock, host, control, owed>>

\* The VBlank callback submits one thing more.
Submits == irq = "vblank" /\ left > 0 /\ left' = left - 1

Enqueue ==
  /\ queue < QueueSize
  /\ \/ Foreground /\ UNCHANGED left
     \/ Submits
  /\ queue' = queue + 1
  /\ UNCHANGED <<ctl, installed, busy, cd, replies, clock, host, irq, pending, chans, owed>>

\* A transfer is started at once, or by a drain of the queue.
Start(c) ==
  /\ c \notin busy /\ c # RingChannel
  /\ \/ Foreground /\ UNCHANGED <<queue, left>>
     \/ Submits /\ c = GpuChannel /\ UNCHANGED queue
     \/ /\ Foreground \/ irq \in {"vblank", "channel"}
        /\ queue > 0 /\ queue' = queue - 1 /\ UNCHANGED left
  /\ busy' = busy \cup {c}
  /\ UNCHANGED <<ctl, installed, cd, replies, clock, host, irq, pending, chans, owed>>

\* StartOtcDma80045FC4 inside the callback: the transfer, then the wait for it.
ClearTable ==
  /\ Submits
  /\ OtcChannel \notin busy
  /\ busy' = busy \cup {OtcChannel}
  /\ irq' = "table"
  /\ UNCHANGED <<ctl, installed, queue, cd, replies, clock, host, pending, chans, owed>>

TableCleared ==
  /\ irq = "table" /\ OtcChannel \notin busy
  /\ irq' = "vblank"
  /\ UNCHANGED <<ctl, installed, device, clock, host, pending, chans, left, owed>>

\* EnqueueSource inside the callback on a full queue: it drains and waits until
\* there is a slot, while no completion callback can run.
QueueFull ==
  /\ Submits
  /\ queue = QueueSize
  /\ irq' = "full"
  /\ UNCHANGED <<ctl, installed, device, clock, host, pending, chans, owed>>

DrainFull ==
  /\ irq = "full" /\ queue = QueueSize /\ GpuChannel \notin busy
  /\ busy' = busy \cup {GpuChannel} /\ queue' = queue - 1
  /\ UNCHANGED <<ctl, installed, cd, replies, clock, host, control, owed>>

SlotFree ==
  /\ irq = "full" /\ queue < QueueSize
  /\ queue' = queue + 1
  /\ irq' = "vblank"
  /\ UNCHANGED <<ctl, installed, busy, cd, replies, clock, host, pending, chans, left, owed>>

\* A command waits in Sync until the previous one is answered; it is answered
\* by one reply, or by an acknowledgement and a completion.
Command ==
  /\ Foreground
  /\ cd = "none" /\ replies = 0
  /\ replies' \in 1..2
  /\ UNCHANGED <<ctl, installed, busy, queue, cd, clock, host, control, owed>>

\* AwaitTransitionPresentation: the task waits until its page was on the screen.
AwaitScreen ==
  /\ Foreground
  /\ screen' = TRUE
  /\ UNCHANGED <<ctl, installed, device, clock, phase, control, owed>>

-----------------------------------------------------------------------------
(* The host's event pass and the devices it services. *)

BeginPass ==
  /\ phase = "foreground"
  /\ phase' = "begin"
  /\ UNCHANGED <<ctl, installed, device, clock, screen, control, owed>>

\* The wait for the screen is over (SceneSession says when): the next pass,
\* which resumes the task, delivers edges again.
ScreenShown ==
  /\ phase = "foreground" /\ screen
  /\ screen' = FALSE
  /\ phase' = "begin"
  /\ UNCHANGED <<ctl, installed, device, clock, control, owed>>

\* The passes run while a callback waits sample the clock too.
SampleEdge ==
  /\ phase = "begin" \/ Waiting
  /\ wall + edges < MaxBlanks
  /\ edges' = edges + 1
  /\ UNCHANGED <<ctl, installed, device, wall, ticks, host, control, owed>>

Dispatch(next) ==
  /\ phase' = next
  /\ pending' = Pending(ctl')
  /\ irq' = IF pending' = {} THEN "none" ELSE "scan"

\* Variant: every pending edge in one pulse.
DeliverAllEdges ==
  /\ phase = "begin" /\ edges > 0 /\ ~screen
  /\ edges' = 0 /\ wall' = wall + edges
  /\ ctl' = Pulse(ctl, VBlank)
  /\ Dispatch("devices")
  /\ UNCHANGED <<installed, device, ticks, screen, chans, left, owed>>

\* Variant: the delivered edge stays pending.
DeliverEdgeAndKeep ==
  /\ phase = "begin" /\ edges > 0 /\ ~screen
  /\ wall' = wall + 1 /\ UNCHANGED edges
  /\ ctl' = Pulse(ctl, VBlank)
  /\ Dispatch("devices")
  /\ UNCHANGED <<installed, device, ticks, screen, chans, left, owed>>

DeliverEdge ==
  /\ phase = "begin" /\ edges > 0 /\ ~screen
  /\ edges' = edges - 1 /\ wall' = wall + 1
  /\ ctl' = Pulse(ctl, VBlank)
  /\ Dispatch("devices")
  /\ UNCHANGED <<installed, device, ticks, screen, chans, left, owed>>

\* There is no edge, or the pass may deliver none: Events(false), which a task
\* that waits for the screen gets, leaves the edges for later passes.
NoEdge ==
  /\ phase = "begin" /\ (edges = 0 \/ screen)
  /\ phase' = "devices"
  /\ UNCHANGED <<ctl, installed, device, clock, screen, control, owed>>

Notify(c) ==
  /\ busy' = busy \ {c}
  /\ ctl' = NotifyDma(ctl, c)
  /\ owed' = IF Flagged(ctl, c) THEN owed \cup {c} ELSE owed

\* A pass serves the ordering tables and the GPU before it delivers the edge and
\* the other devices after it; a pass run while a callback waits serves them all.
Complete(c) ==
  /\ c \in busy
  /\ \/ phase = "begin" /\ c \in {GpuChannel, OtcChannel}
     \/ Servicing /\ c \notin {GpuChannel, OtcChannel}
     \/ Waiting
  /\ Notify(c)
  /\ UNCHANGED <<installed, queue, cd, replies, clock, host, control>>

Publish(kind) ==
  /\ cd = "none"
  /\ cd' = kind
  /\ ctl' = Raise(ctl, CdRom)

\* Besides the passes, a library wait inside an interrupt serves the drive.
CdReply ==
  /\ Servicing \/ Waiting \/ irq \in {"vblank", "source"}
  /\ replies > 0
  /\ Publish("reply")
  /\ replies' = replies - 1
  /\ UNCHANGED <<installed, busy, queue, clock, host, control, owed>>

\* AllowNewStreamSector: no new sector while an interrupt is being served.
CdSector ==
  /\ Servicing
  /\ replies = 0
  /\ Publish("sector")
  /\ UNCHANGED <<installed, busy, queue, replies, clock, host, control, owed>>

EndPass ==
  /\ Servicing
  /\ UNCHANGED <<ctl, installed, device, clock, screen, chans, left, owed>>
  /\ Dispatch("last")

\* A table whose clearing a callback of the last dispatch began is cleared before
\* the pass returns; its completion is left to the next one.
FinishPass ==
  /\ phase = "last" /\ irq = "none"
  /\ phase' = "foreground"
  /\ IF OtcChannel \in busy THEN Notify(OtcChannel) ELSE UNCHANGED <<busy, ctl, owed>>
  /\ UNCHANGED <<installed, queue, cd, replies, clock, screen, control>>

-----------------------------------------------------------------------------
(* The dispatcher: DispatchInterrupts800359B8. *)

\* Both loops shift a bit word right and so take the lowest number first.
Lowest(n, S) == \A m \in S : n <= m

\* The source is acknowledged BEFORE its callback runs; DispatchVBlank80035EAC
\* counts the edge before it calls the registered callbacks.
ServeSource ==
  /\ irq = "scan"
  /\ \E s \in pending :
       /\ Lowest(s, pending)
       /\ pending' = pending \ {s}
       /\ ctl' = Acknowledge(ctl, s)
       /\ \/ s = VBlank /\ irq' = "vblank" /\ ticks' = ticks + 1 /\ left' = Submissions
             /\ UNCHANGED chans
          \/ s = CdRom /\ irq' = "source" /\ UNCHANGED <<ticks, left, chans>>
          \/ s = Dma /\ irq' = "dma" /\ chans' = ctl.flags /\ UNCHANGED <<ticks, left>>
  /\ UNCHANGED <<installed, device, edges, wall, host, owed>>

VBlankReturn ==
  /\ irq = "vblank"
  /\ irq' = "scan" /\ left' = 0
  /\ UNCHANGED <<ctl, installed, device, clock, host, pending, chans, owed>>

ScanAgain ==
  /\ irq = "scan" /\ pending = {}
  /\ pending' = Pending(ctl)
  /\ irq' = IF pending' = {} THEN "none" ELSE "scan"
  /\ UNCHANGED <<ctl, installed, device, clock, host, chans, left, owed>>

\* Variant: the ring's interrupt is armed by a write of the whole word as read.
ServeCdWholeWord ==
  /\ irq \in {"vblank", "source"} /\ cd # "none"
  /\ cd' = "none"
  /\ LET low == Lower(ctl, CdRom) IN
       \/ ctl' = low /\ UNCHANGED busy
       \/ /\ cd = "sector" /\ RingChannel \in installed
          /\ RingChannel \in busy => RingChannel \notin ctl.enabled
          /\ busy' = busy \cup {RingChannel}
          /\ ctl' = WriteDicr(low, ctl.enabled \cup {RingChannel}, ctl.flags)
  /\ UNCHANGED <<installed, queue, replies, clock, host, control, owed>>

\* Interrupt80036AF8 acknowledges the device, which lowers the line, before the
\* ready callback runs; that callback may start the ring's transfer and, as the
\* transfer ends the frame or not, arm or disarm its interrupt.  It waits for an
\* earlier transfer on the spot, unless that one's interrupt is armed, when the
\* sector is rejected.  A Sync made by the VBlank callback drains the drive too.
ServeCd ==
  /\ irq \in {"vblank", "source"} /\ cd # "none"
  /\ cd' = "none"
  /\ LET low == Lower(ctl, CdRom) IN
       \/ ctl' = low /\ UNCHANGED busy
       \/ /\ cd = "sector" /\ RingChannel \in installed
          /\ RingChannel \in busy => RingChannel \notin ctl.enabled
          /\ busy' = busy \cup {RingChannel}
          /\ \/ ctl' = WriteDicr(low, ctl.enabled \cup {RingChannel}, {})
             \/ ctl' = WriteDicr(low, ctl.enabled \ {RingChannel}, {})
  /\ UNCHANGED <<installed, queue, replies, clock, host, control, owed>>

CdReturn ==
  /\ irq = "source" /\ cd = "none"
  /\ irq' = "scan"
  /\ UNCHANGED <<ctl, installed, device, clock, host, pending, chans, left, owed>>

(* The DMA sub-dispatcher: DispatchDmaInterrupt80035FCC. *)

ServeChannel ==
  /\ irq = "dma"
  /\ \E c \in chans :
       /\ Lowest(c, chans)
       /\ chans' = chans \ {c}
       /\ ctl' = WriteDicr(ctl, ctl.enabled, {c})
       /\ owed' = owed \ {c}
       /\ irq' = IF c \in installed THEN "channel" ELSE "dma"
  /\ UNCHANGED <<installed, device, clock, host, pending, left>>

ChannelReturn ==
  /\ irq = "channel"
  /\ irq' = "dma"
  /\ UNCHANGED <<ctl, installed, device, clock, host, pending, chans, left, owed>>

DmaAgain ==
  /\ irq = "dma" /\ chans = {}
  /\ chans' = ctl.flags
  /\ irq' = IF chans' = {} THEN "scan" ELSE "dma"
  /\ UNCHANGED <<ctl, installed, device, clock, host, pending, left, owed>>

-----------------------------------------------------------------------------
Pass == BeginPass \/ DeliverEdge \/ NoEdge \/ EndPass \/ FinishPass
Dispatcher == ServeSource \/ VBlankReturn \/ TableCleared \/ DrainFull \/ SlotFree
              \/ ScanAgain \/ ServeCd \/ CdReturn
              \/ ServeChannel \/ ChannelReturn \/ DmaAgain

\* The passes run for a callback that waits serve the device it waits for.
ServeWaiting == Waiting /\ (Complete(GpuChannel) \/ Complete(OtcChannel))

Next ==
  \/ \E c \in Channels : SetDmaCallback(c) \/ Start(c) \/ Complete(c)
  \/ Enqueue \/ ClearTable \/ QueueFull \/ Command \/ AwaitScreen \/ ScreenShown
  \/ SampleEdge \/ CdReply \/ CdSector
  \/ Pass \/ Dispatcher

\* The host polls again and again, each poll runs one pass to its end; a
\* callback runs to its end and waits for a device that answers; a page
\* is shown in the end.
Spec == Init /\ [][Next]_vars /\ WF_vars(Pass) /\ WF_vars(Dispatcher)
        /\ WF_vars(ServeWaiting) /\ SF_vars(ScreenShown)

-----------------------------------------------------------------------------
TypeOK ==
  /\ ctl \in Controllers
  /\ installed \subseteq Channels /\ busy \subseteq Channels /\ owed \subseteq Channels
  /\ screen \in BOOLEAN /\ left \in 0..Submissions
  /\ queue \in 0..QueueSize /\ cd \in {"none", "reply", "sector"} /\ replies \in 0..2
  /\ edges \in Nat /\ wall \in Nat /\ ticks \in Nat /\ wall + edges <= MaxBlanks
  /\ phase \in {"foreground", "begin", "devices", "last"}
  /\ irq \in {"none", "scan", "vblank", "table", "full", "source", "dma", "channel"}
  /\ pending \subseteq Sources /\ chans \subseteq Channels

\* No DMA completion is stranded: a completion its callback has not been given
\* keeps its flag, and while any flag is up either the DMA source is latched or
\* the DMA dispatcher, which re-reads the flags, has not left its loop.  The DMA
\* line is a level: a flag raised behind another makes no edge of its own.
NoStrandedDma ==
  /\ owed \subseteq ctl.flags
  /\ ctl.flags # {} => Dma \in ctl.status \/ irq \in {"dma", "channel"}

\* No CD response is stranded: while the drive holds one, its source is latched
\* or the CD callback, which drains the drive, has not returned; the drive
\* publishes nothing more until the response is acknowledged.
NoStrandedCd == cd # "none" => CdRom \in ctl.status \/ irq = "source"

\* Nothing the devices raised is stranded by the acknowledge-before-callback
\* order of the two dispatchers.
NothingStranded == NoStrandedDma /\ NoStrandedCd

\* The game's VBlank counter loses no scanout edge and counts none twice: it is
\* behind the delivered edges by at most the one that is latched.
VBlankCounted == wall = ticks + (IF VBlank \in ctl.status THEN 1 ELSE 0)

\* Every flagged DMA completion is given to its callback.
CompletionServed == \A c \in Channels : c \in owed ~> c \notin owed

\* Every sampled scanout edge is counted in the end, also those sampled while
\* a callback held the dispatcher.
EveryEdgeCounted == \A n \in 1..MaxBlanks : wall + edges >= n ~> ticks >= n

=============================================================================
