----------------------------- MODULE SceneSession -----------------------------
(***************************************************************************)
(* One run of a Stage 2 scene, from the host's side: the phases of the      *)
(* product runtime (pr_stage2_product_runtime.cpp), the tasks it starts one *)
(* after the other on a fiber of their own (pr_stage2_frame_task.cpp), and  *)
(* the poll that resumes them and presents pages                            *)
(* (pr_stage2_loading_device_session.cpp).                                  *)
(* The scene is its program of frames, pr_stage2_lifecycle_direct.cpp and   *)
(* pr_stage2_transition_direct.cpp: a frame is prepared, waits for VBlanks, *)
(* shows the page drawn before it and submits its own.  At three places the *)
(* program waits until the host has put a page on the screen: a transition's*)
(* end, the entry of the game, and the reveal of the game, which lets the   *)
(* drive start.                                                             *)
(* GpuQueue models the commands of a frame; here they are one.              *)
(***************************************************************************)
EXTENDS Naturals, Sequences

CONSTANTS Slots,       \* frames the command ring holds
          Loop,        \* frames of a transition before its last picture
          Final,       \* frames of its last picture (4)
          Tiles,       \* frames of the pre-loop that still show tiles (63)
          PreLoop,     \* frames after which the pre-loop gives up (1800)
          MaxEdges     \* bound: scanout edges kept undelivered

ASSUME SceneAssumption ==
  /\ {Slots, Final, MaxEdges} \subseteq Nat \ {0}
  /\ {Loop, Tiles, PreLoop} \subseteq Nat
  /\ Final >= 2 /\ PreLoop >= Tiles + 2

VARIABLES
  runtime,      \* the phase of the product runtime
  host,         \* where the host's pass is
  started,      \* the task runs for its start, not for a poll
  state,        \* state of the task
  kind,         \* what the waiting task waits for
  at,           \* the part of the scene's program
  step,         \* where its frame is
  left,         \* frames left in the running loop
  tiles,        \* frames of the reveal still to come
  picture,      \* what the frame in preparation will show
  played,       \* the game has been won
  stream,       \* the drive's game stream
  revealed,     \* clearRevealFrames_
  fence,        \* transitionPresentationCompleted_
  queue,        \* frames submitted and not drawn, the first one in flight if busy
  busy,
  flag,         \* a completion not yet dispatched
  pages,        \* what is drawn on each page
  front,        \* the page the display registers select
  ready,        \* graphicsReady_
  screen,       \* the picture presented last
  requested,    \* presentRequested_
  acknowledged, \* presentationEdgePending_
  due,          \* presentationEdgeTarget_ has not been reached
  edges,        \* pendingVBlankEvents_
  until,        \* VBlanks the frame still waits for
  since,        \* whether a VBlank was counted since the last frame
  fenced        \* history: what has happened since the page was asked for

program == <<at, step, left, tiles, picture, played>>
entry == <<stream, revealed, fence>>
gpu == <<queue, busy, flag, pages, front, ready>>
display == <<screen, requested, acknowledged, due, fenced>>
clock == <<edges, until, since>>
task == <<state, kind>>
vars == <<runtime, host, started, task, program, entry, gpu, display, clock>>

Pages == {0, 1}
Pictures == {"none", "part", "last", "tiles", "clear", "game"}

Init ==
  /\ runtime = "created" /\ host = "idle" /\ started = FALSE
  /\ state = "ready" /\ kind = "none"
  /\ at = "none" /\ step = "draw" /\ left = 0 /\ tiles = 0
  /\ picture = "none" /\ played = FALSE
  /\ stream = "off" /\ revealed = 0 /\ fence = FALSE
  /\ queue = <<>> /\ busy = FALSE /\ flag = FALSE
  /\ pages = [p \in Pages |-> "none"] /\ front = 0 /\ ready = FALSE
  /\ screen = "none" /\ requested = FALSE /\ acknowledged = FALSE /\ due = FALSE
  /\ edges = 0 /\ until = 0 /\ since = FALSE
  /\ fenced = "no"

-----------------------------------------------------------------------------
(* The task: code runs to its next wait, and then the poll goes on.           *)

Running == host = "run" /\ state = "running"
Source(place) == Running /\ at = place

\* A start returns to its caller; a poll presents what it can.
Yields == host' = (IF started THEN "pumped" ELSE "show") /\ started' = FALSE

\* Task::Suspend.
Suspend(why) == state' = "waiting" /\ kind' = why /\ Yields

Goes == UNCHANGED <<host, started, task>>

\* Task::Impl::Run: the entry returned.
Complete == state' = "completed" /\ kind' = "none" /\ Yields

\* The entry threw.
Throw ==
  /\ Running
  /\ state' = "failed" /\ kind' = "none"
  /\ host' = "after" /\ started' = FALSE
  /\ UNCHANGED <<runtime, program, entry, gpu, display, clock>>

\* AwaitTransitionPresentation.
Await ==
  /\ requested' = TRUE /\ acknowledged' = FALSE /\ due' = FALSE
  /\ fenced' = "asked" /\ UNCHANGED screen
  /\ step' = "await"
  /\ Suspend("presentation")

-----------------------------------------------------------------------------
(* A frame. *)

\* The pass that enqueues a frame starts the device if it is idle.
Enqueue(p) ==
  /\ queue' = Append(queue, [page |-> p, picture |-> picture])
  /\ busy' = TRUE
  /\ pages' = IF busy THEN pages ELSE [pages EXCEPT ![Head(queue').page] = "none"]

\* The ring's next frame is started; its page is no picture until it is drawn.
StartNext ==
  IF queue = <<>> \/ busy THEN UNCHANGED <<busy, pages>>
  ELSE busy' = TRUE /\ pages' = [pages EXCEPT ![Head(queue).page] = "none"]

\* Prepare8001EA74 or PrepareFrame801CA57C, then the call of VSync80035560(2).
Draw(what) ==
  /\ Running /\ step = "draw"
  /\ picture' = what
  /\ until' = (IF since THEN 1 ELSE 2)
  /\ step' = "blank"
  /\ Suspend("vblank")
  /\ UNCHANGED <<runtime, at, played, entry, gpu, display, edges, since>>

BlankWaits ==
  /\ Running /\ step = "blank" /\ until > 0
  /\ Suspend("vblank")
  /\ UNCHANGED <<runtime, program, entry, gpu, display, clock>>

\* SwapBuffers80040370: the page drawn last is shown at once.
BlankEnds ==
  /\ Running /\ step = "blank" /\ until = 0
  /\ since' = FALSE
  /\ front' = 1 - front
  /\ step' = "submit"
  /\ Goes
  /\ UNCHANGED <<runtime, at, left, tiles, picture, played, entry, queue, busy, flag,
                 pages, ready, display, edges, until>>

SubmitWaits ==
  /\ Running /\ step = "submit" /\ Len(queue) = Slots
  /\ StartNext
  /\ Suspend("device")
  /\ UNCHANGED <<runtime, program, entry, queue, flag, front, ready, display, clock>>

\* Present8001EBF4 or Present801CB170 in the part's own frame loop.
Submits(part) ==
  /\ Source(part) /\ step = "submit" /\ Len(queue) < Slots
  /\ Enqueue(1 - front)
  /\ UNCHANGED <<runtime, at, left, tiles, picture, played, stream, fence, flag, front,
                 ready, clock>>

-----------------------------------------------------------------------------
(* The program. *)

Part(place, frames) == at' = place /\ left' = frames /\ step' = "draw"
Goto(place) == Part(place, 0)
Transition(place) == Part(place, Loop + Final)
Transitions == {"before", "after", "leave"}

\* StartGraphics: the producer's own commands are waited for.
GraphicsWaits ==
  /\ Source("graphics") /\ queue # <<>>
  /\ Suspend("device")
  /\ UNCHANGED <<runtime, program, entry, gpu, display, clock>>

GraphicsReady ==
  /\ Source("graphics") /\ queue = <<>>
  /\ ready' = TRUE
  /\ Complete
  /\ UNCHANGED <<runtime, program, entry, queue, busy, flag, pages, front, display, clock>>

\* Waits whose end is not the host's to say: loading, a movie, the opening of
\* the stream.
Waits ==
  /\ Running /\ at \in {"init", "movie", "open"}
  /\ Suspend("device")
  /\ UNCHANGED <<runtime, program, entry, gpu, display, clock>>

InitReturns ==
  /\ Source("init")
  /\ Complete
  /\ UNCHANGED <<runtime, program, entry, gpu, display, clock>>

\* RunScene801C74E4: a replay or a demo goes to the game at once.
SceneBegins ==
  /\ Source("begin")
  /\ Transition("before") \/ Goto("entry")
  /\ Goes
  /\ UNCHANGED <<runtime, tiles, picture, played, entry, gpu, display, clock>>

\* Transition800201AC and TransitionWithCue80020110.
TransitionDraws ==
  /\ at \in Transitions /\ left > 0
  /\ Draw(IF left > Final THEN "part" ELSE "last")
  /\ left' = left - 1
  /\ UNCHANGED tiles

TransitionSubmits ==
  /\ \E part \in Transitions : Submits(part)
  /\ IF left > 0
     THEN step' = "draw" /\ Goes /\ UNCHANGED display
     ELSE Await
  /\ UNCHANGED revealed

\* Where the program goes from a transition.
Follows(place) ==
  \/ place = "before" /\ Goto("movie")
  \/ place = "after" /\ ~played /\ Goto("entry")
  \/ place = "after" /\ Goto("end")
  \/ place = "leave" /\ played /\ Transition("before")
  \/ place = "leave" /\ ~played /\ Goto("end")

TransitionReturns ==
  /\ Running /\ at \in Transitions /\ step = "await"
  /\ fence' = TRUE
  /\ Follows(at)
  /\ Goes
  /\ UNCHANGED <<runtime, tiles, picture, played, stream, revealed, gpu, display, clock>>

MovieEnds ==
  /\ Source("movie")
  /\ Transition("after")
  /\ Goes
  /\ UNCHANGED <<runtime, tiles, picture, played, entry, gpu, display, clock>>

\* BeginGameStreamStartup, then AwaitGameEntryPresentation.  HoldNextStreamStart
\* refuses a drive that is held or reading: the program would stop here.
EnterGame ==
  /\ Source("entry") /\ step = "draw" /\ stream = "off"
  /\ stream' = "armed" /\ revealed' = 0
  /\ fence' = FALSE
  /\ IF fence THEN Await /\ UNCHANGED <<at, left>>
     ELSE Goto("open") /\ Goes /\ UNCHANGED display
  /\ UNCHANGED <<runtime, tiles, picture, played, gpu, clock>>

EntryPresented ==
  /\ Source("entry") /\ step = "await"
  /\ Goto("open")
  /\ Goes
  /\ UNCHANGED <<runtime, tiles, picture, played, entry, gpu, display, clock>>

\* OpenStream8001A4D0; RunGame801C6D58 up to its pre-loop.
StreamOpens ==
  /\ Source("open")
  /\ stream' = "held"
  /\ Part("preloop", PreLoop)
  /\ tiles' = Tiles
  /\ Goes
  /\ UNCHANGED <<runtime, picture, played, revealed, fence, gpu, display, clock>>

\* RevealTiles8001FC40 takes the frame's tiles off before they are drawn.
PreLoopDraws ==
  /\ at = "preloop" /\ left > 0
  /\ Draw(IF tiles = 0 THEN "clear" ELSE "tiles")
  /\ left' = left - 1
  /\ tiles' = IF tiles = 0 THEN 0 ELSE tiles - 1

\* Variant: one picture without tiles is enough.
RevealAtOnce ==
  IF stream = "held" /\ picture = "clear"
  THEN revealed' = revealed + 1 /\ Await
  ELSE revealed' = revealed /\ step' = "draw" /\ Goes /\ UNCHANGED display

\* GameStartupFramePresented.
Reveal ==
  LET frames == IF picture = "clear" THEN revealed + 1 ELSE 0
  IN IF stream # "held"
     THEN UNCHANGED <<revealed, display>> /\ step' = "draw" /\ Goes
     ELSE /\ revealed' = frames
          /\ IF frames < 2 THEN step' = "draw" /\ Goes /\ UNCHANGED display ELSE Await

PreLoopSubmits == Submits("preloop") /\ Reveal

\* ReleaseStreamStart.
StreamReleased ==
  /\ Source("preloop") /\ step = "await"
  /\ stream' = "running"
  /\ step' = "draw"
  /\ Goes
  /\ UNCHANGED <<runtime, at, left, tiles, picture, played, revealed, fence, gpu, display,
                 clock>>

\* Ready8001A750 sees the first sector, or the loop gives up.
PreLoopEnds ==
  /\ Source("preloop") /\ step = "draw"
  /\ stream = "running" \/ left = 0
  /\ Goto("play")
  /\ Goes
  /\ UNCHANGED <<runtime, tiles, picture, played, entry, gpu, display, clock>>

PlayDraws == at = "play" /\ Draw("game") /\ UNCHANGED <<left, tiles>>

PlaySubmits ==
  /\ Submits("play")
  /\ step' = "draw" /\ Goes
  /\ UNCHANGED <<revealed, display>>

\* WaitCleanup8001A694 stops the drive, held or not.
GameEnds ==
  /\ Source("play") /\ step = "draw"
  /\ stream' = "off"
  /\ \/ Goto("entry") /\ UNCHANGED played
     \/ Transition("leave") /\ played' \in BOOLEAN
  /\ Goes
  /\ UNCHANGED <<runtime, tiles, picture, revealed, fence, gpu, display, clock>>

SceneReturns ==
  /\ Source("end")
  /\ Complete
  /\ UNCHANGED <<runtime, program, entry, gpu, display, clock>>

\* DrawSync80044B3C(0), the hand-off's only call.  The transition that ends every
\* scene has waited for an idle device: a wait here (GpuQueue) would stop the model.
SyncReturns ==
  /\ Source("sync") /\ queue = <<>>
  /\ Complete
  /\ UNCHANGED <<runtime, program, entry, gpu, display, clock>>

-----------------------------------------------------------------------------
(* Presentation. *)

Presentable == ~acknowledged /\ requested /\ ready /\ ~busy

\* PresentIfReady, to a host position.
PresentIfReady(next) ==
  /\ host' = next
  /\ IF Presentable
     THEN /\ screen' = pages[front] /\ requested' = FALSE
          /\ fenced' = IF fenced = "asked" THEN "shown" ELSE fenced
     ELSE UNCHANGED <<screen, requested, fenced>>

-----------------------------------------------------------------------------
(* Poll and Events.  A wait for the screen is served by a pass of its own, on  *)
(* the host's stack, which delivers no edge; every other wait is resumed and   *)
(* makes the pass itself.                                                      *)

Quiet == state = "waiting" /\ kind = "presentation"

Resume == state' = "running" /\ kind' = "none"

Poll ==
  /\ host = "idle" /\ state = "waiting"
  /\ IF Quiet THEN UNCHANGED task ELSE Resume
  /\ host' = "sample"
  /\ UNCHANGED <<runtime, started, program, entry, gpu, display, clock>>

\* Edges beyond the bound are dropped from the model.
SampleEdge ==
  /\ host = "sample"
  /\ edges' = IF edges < MaxEdges THEN edges + 1 ELSE edges
  /\ requested' = TRUE /\ due' = FALSE
  /\ fenced' = IF fenced = "shown" THEN "passed" ELSE fenced
  /\ host' = "service"
  /\ UNCHANGED <<runtime, started, task, program, entry, gpu, screen, acknowledged,
                 until, since>>

NoEdge ==
  /\ host = "sample"
  /\ host' = "service"
  /\ UNCHANGED <<runtime, started, task, program, entry, gpu, display, clock>>

\* Variant: the frame drawn stays in the ring, with nothing in flight left to it.
GpuCompletesTwice ==
  /\ host = "service" /\ busy
  /\ queue' = Tail(queue)
  /\ flag' = TRUE
  /\ pages' = [pages EXCEPT ![Head(queue).page] = Head(queue).picture]
  /\ host' = "deliver"
  /\ UNCHANGED <<runtime, started, task, program, entry, busy, front, ready, display, clock>>

\* Device::Service: the fence of the frame in flight.
GpuCompletes ==
  /\ host = "service" /\ busy
  /\ queue' = Tail(queue)
  /\ busy' = FALSE /\ flag' = TRUE
  /\ pages' = [pages EXCEPT ![Head(queue).page] = Head(queue).picture]
  /\ host' = "deliver"
  /\ UNCHANGED <<runtime, started, task, program, entry, front, ready, display, clock>>

GpuWaits ==
  /\ host = "service"
  /\ host' = "deliver"
  /\ UNCHANGED <<runtime, started, task, program, entry, gpu, display, clock>>

Deliver ==
  /\ host = "deliver"
  /\ IF edges > 0 /\ ~Quiet
     THEN /\ edges' = edges - 1 /\ since' = TRUE
          /\ until' = IF until > 0 THEN until - 1 ELSE 0
     ELSE UNCHANGED clock
  /\ host' = "dispatch"
  /\ UNCHANGED <<runtime, started, task, program, entry, gpu, display>>

Dispatch ==
  /\ host = "dispatch"
  /\ flag' = FALSE
  /\ IF flag THEN StartNext ELSE UNCHANGED <<busy, pages>>
  /\ host' = IF Quiet THEN "fence" ELSE "run"
  /\ UNCHANGED <<runtime, started, task, program, entry, queue, front, ready, display,
                 clock>>

\* Variant: the next edge is counted from every pass that could present.
FencePresentsAgain ==
  /\ host = "fence"
  /\ PresentIfReady("after")
  /\ acknowledged' = Presentable
  /\ due' = (due \/ Presentable)
  /\ UNCHANGED <<runtime, started, task, program, entry, gpu, clock>>

\* The page is put on the screen, and the wait goes on to the next edge.
FencePresents ==
  /\ host = "fence" /\ ~acknowledged
  /\ PresentIfReady("after")
  /\ acknowledged' = Presentable
  /\ due' = (due \/ Presentable)
  /\ UNCHANGED <<runtime, started, task, program, entry, gpu, clock>>

FenceWaits ==
  /\ host = "fence" /\ acknowledged /\ due
  /\ host' = "after"
  /\ UNCHANGED <<runtime, started, task, program, entry, gpu, display, clock>>

\* Variant: the page on the screen is enough.
FencePassesAtOnce ==
  /\ host = "fence" /\ acknowledged
  /\ acknowledged' = FALSE /\ due' = FALSE
  /\ Resume
  /\ host' = "sample"
  /\ UNCHANGED <<runtime, started, program, entry, gpu, screen, requested, fenced, clock>>

\* The task makes its own pass when it is resumed.
FencePasses ==
  /\ host = "fence" /\ acknowledged /\ ~due
  /\ acknowledged' = FALSE
  /\ Resume
  /\ host' = "sample"
  /\ UNCHANGED <<runtime, started, program, entry, gpu, screen, requested, due, fenced,
                 clock>>

\* The end of Poll.
Show ==
  /\ host = "show"
  /\ PresentIfReady("after")
  /\ UNCHANGED <<runtime, started, task, program, entry, gpu, acknowledged, due, clock>>

-----------------------------------------------------------------------------
(* The product runtime. *)

\* A new task runs its part of the program at once.
Start(place) ==
  /\ at' = place /\ step' = "draw"
  /\ state' = "running" /\ kind' = "none"
  /\ host' = "run" /\ started' = TRUE
  /\ UNCHANGED <<left, tiles, picture, played, entry, display, clock>>

\* Begin and StartGraphics.
Begin ==
  /\ host = "idle" /\ runtime = "created"
  /\ runtime' = "graphics"
  /\ queue' = <<[page |-> 1 - front, picture |-> "none"]>> /\ busy' = TRUE
  /\ Start("graphics")
  /\ UNCHANGED <<flag, pages, front, ready>>

\* What a completed task leads to.
AfterTask ==
  IF runtime = "graphics" THEN "readyForInit"
  ELSE IF runtime = "initializing" THEN "readyForScene"
  ELSE IF runtime = "running" THEN "draining"
  ELSE IF runtime = "draining" THEN "returned" ELSE runtime

\* The end of PumpOne, unless the scene has just returned.
Completed == state = "completed" /\ host \in {"idle", "after"}

Pumped ==
  /\ \/ Completed /\ runtime # "running" /\ runtime' = AfterTask
     \/ host = "after" /\ state = "waiting" /\ UNCHANGED runtime
  /\ host' = "pumped"
  /\ UNCHANGED <<started, task, program, entry, gpu, display, clock>>

\* StartGraphicsHandoff.
HandsOff ==
  /\ Completed /\ runtime = "running"
  /\ runtime' = AfterTask
  /\ Start("sync")
  /\ UNCHANGED gpu

Live == runtime \notin {"returned", "failed", "destroyed"}

\* RethrowFailure.
Fails ==
  /\ host = "after" /\ state = "failed" /\ Live
  /\ runtime' = "failed"
  /\ UNCHANGED <<host, started, task, program, entry, gpu, display, clock>>

\* Pump presents once more; Tick does not.
ShowAgain ==
  /\ host = "pumped" /\ Live
  /\ PresentIfReady("idle")
  /\ UNCHANGED <<runtime, started, task, program, entry, gpu, acknowledged, due, clock>>

PumpReturns ==
  /\ host = "pumped" /\ Live
  /\ host' = "idle"
  /\ UNCHANGED <<runtime, started, task, program, entry, gpu, display, clock>>

\* Tick: StartInitialization and StartScene.
StartsInit ==
  /\ host = "pumped" /\ runtime = "readyForInit"
  /\ runtime' = "initializing"
  /\ Start("init")
  /\ UNCHANGED gpu

StartsScene ==
  /\ host = "pumped" /\ runtime = "readyForScene"
  /\ runtime' = "running"
  /\ Start("begin")
  /\ UNCHANGED gpu

\* ~Runtime: a waiting task is resumed to unwind, and runs nothing else.
Destroy ==
  /\ host = "idle" /\ Live
  /\ runtime' = "destroyed"
  /\ state' = (IF state = "waiting" THEN "cancelled" ELSE state) /\ kind' = "none"
  /\ host' = "gone"
  /\ UNCHANGED <<started, program, entry, gpu, display, clock>>

Stopped == ~Live /\ UNCHANGED vars

-----------------------------------------------------------------------------
Frames == BlankWaits \/ BlankEnds \/ SubmitWaits \/ TransitionDraws \/ TransitionSubmits
          \/ PreLoopDraws \/ PreLoopSubmits \/ PlayDraws \/ PlaySubmits
Scene == GraphicsWaits \/ GraphicsReady \/ Waits \/ SceneBegins \/ TransitionReturns
         \/ EnterGame \/ EntryPresented \/ StreamReleased \/ SceneReturns
         \/ SyncReturns
Outside == InitReturns \/ MovieEnds \/ StreamOpens \/ PreLoopEnds \/ GameEnds
Host == Poll \/ NoEdge \/ GpuWaits \/ Deliver \/ Dispatch \/ FencePresents \/ FenceWaits
        \/ FencePasses \/ Show \/ Begin \/ Pumped \/ HandsOff \/ Fails \/ ShowAgain
        \/ PumpReturns
Ticks == StartsInit \/ StartsScene

Next == Frames \/ Scene \/ Outside \/ Throw \/ Host \/ Ticks \/ SampleEdge
        \/ GpuCompletes \/ Destroy \/ Stopped

\* The host keeps calling, its Tick among the calls; scanout goes on; a fence
\* that is queried again and again is signalled in the end; loading, a movie, the
\* opening of a stream and the stream itself end.
Fairness ==
  /\ WF_vars(Frames \/ Scene \/ Host)
  /\ SF_vars(SampleEdge) /\ SF_vars(GpuCompletes) /\ SF_vars(Ticks)
  /\ SF_vars(InitReturns) /\ SF_vars(MovieEnds) /\ SF_vars(StreamOpens)
  /\ SF_vars(PreLoopEnds) /\ SF_vars(GameEnds /\ at' = "leave")

Spec == Init /\ [][Next]_vars /\ Fairness
-----------------------------------------------------------------------------
Runtimes == {"created", "graphics", "readyForInit", "initializing", "readyForScene",
             "running", "draining", "returned", "failed", "destroyed"}
Hosts == {"idle", "sample", "service", "deliver", "dispatch", "fence", "run", "show",
          "after", "pumped", "gone"}
Places == Transitions \cup {"none", "graphics", "init", "begin", "movie", "entry", "open",
                            "preloop", "play", "end", "sync"}

\* The types of the runtime, the task, the program, the pages and the clock;
\* code runs exactly when the task is running.
TypeOK ==
  /\ runtime \in Runtimes /\ host \in Hosts /\ started \in BOOLEAN
  /\ state \in {"ready", "running", "waiting", "completed", "failed", "cancelled"}
  /\ kind \in {"none", "device", "vblank", "presentation"}
  /\ at \in Places /\ step \in {"draw", "blank", "submit", "await"}
  /\ left \in 0..Loop + Final + PreLoop /\ tiles \in 0..Tiles
  /\ picture \in Pictures /\ played \in BOOLEAN
  /\ stream \in {"off", "armed", "held", "running"}
  /\ revealed \in Nat /\ fence \in BOOLEAN
  /\ queue \in Seq([page : Pages, picture : Pictures]) /\ Len(queue) <= Slots
  /\ busy \in BOOLEAN /\ flag \in BOOLEAN /\ (busy => queue # <<>>)
  /\ pages \in [Pages -> Pictures] /\ front \in Pages /\ ready \in BOOLEAN
  /\ screen \in Pictures
  /\ requested \in BOOLEAN /\ acknowledged \in BOOLEAN /\ due \in BOOLEAN
  /\ edges \in 0..MaxEdges /\ until \in 0..2 /\ since \in BOOLEAN
  /\ fenced \in {"no", "asked", "shown", "passed"}
  /\ (host = "run" => state = "running")

AwaitedPicture == IF at = "preloop" THEN "clear" ELSE "last"

\* A wait for the screen (AwaitTransitionPresentation) ends only when a page was
\* presented after the wait began and an edge of scanout was sampled after
\* that, and what is on the screen then is the wait's own picture: the last one of
\* a transition, or a game scene without tiles.
AwaitedPictureShown ==
  [][Quiet /\ state' = "running" => fenced' = "passed" /\ screen' = AwaitedPicture]_vars

\* From the release of the drive (GameStartupFramePresented) to the end of the
\* game no page with tiles, and no unfinished one, is on the screen; and no game is
\* played on a drive still held: the pre-loop does not give up before the reveal.
StreamAfterReveal ==
  /\ stream = "running" => screen \in {"clear", "game"}
  /\ at = "play" => stream = "running"

\* Every wait of the scene ends, those for the screen included: the runtime gets
\* from its creation to a scene that has returned and drawn everything, unless it
\* fails or is destroyed (Runtime::PumpOne, Tick); none of its starts is refused.
SessionEnds == <>(runtime \in {"returned", "failed", "destroyed"})
=============================================================================
