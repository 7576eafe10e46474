------------------------- MODULE SceneSession_proofs -------------------------
(***************************************************************************)
(* Proofs about SceneSession, for every number of frames and every size of *)
(* the ring: its types, that a wait for the screen ends with its own       *)
(* picture shown and an edge passed, that the drive runs only behind       *)
(* pictures of the game, and that no call of the program is refused.       *)
(*                                                                         *)
(* All of it rests on the last two pictures the frames submitted: once the *)
(* ring is empty they are what is on the two pages.                        *)
(***************************************************************************)
EXTENDS SceneSession, SequenceTheorems, TLAPS

USE DEF program, entry, gpu, display, clock, task, Pages,
        Running, Source, Suspend, Yields, Goes, Part, Goto

\* The page of the last frame submitted, and the pictures of the last two.
LastPage == IF step = "submit" THEN front ELSE 1 - front
Newest == IF queue = <<>> THEN pages[LastPage] ELSE queue[Len(queue)].picture
Second ==
  IF Len(queue) < 2 THEN pages[1 - LastPage] ELSE queue[Len(queue) - 1].picture

\* The frames in the ring alternate between the pages; an idle device has drawn
\* them all, but for the moment before its completion is dispatched.
QueueInv ==
  /\ Len(queue) >= 1 => queue[Len(queue)].page = LastPage
  /\ Len(queue) >= 2 => queue[Len(queue) - 1].page = 1 - LastPage
  /\ ~busy /\ queue # <<>> => host \in {"deliver", "dispatch"} /\ flag

\* Who runs: the host's position says in which state the task is.
TurnInv ==
  /\ state = "running" => host \in {"sample", "service", "deliver", "dispatch", "run"}
  /\ host \in {"sample", "service", "deliver", "dispatch"} => state = "running" \/ Quiet
  /\ host = "run" => state = "running"
  /\ host = "fence" => Quiet
  /\ kind = "presentation" => state = "waiting" /\ step = "await"
  /\ step = "await" /\ state = "waiting" => Quiet
  /\ step = "await" => state \in {"running", "waiting", "failed", "cancelled"}

\* Where the program is in each phase of the runtime.
Framed == Transitions \cup {"preloop", "play"}
PlaceInv ==
  /\ runtime = "created" => at = "none" /\ ~fence /\ stream = "off" /\ queue = <<>>
                            /\ state = "ready" /\ host \in {"idle", "pumped"}
  /\ runtime \in {"graphics", "readyForInit"} => at = "graphics"
  /\ runtime \in {"initializing", "readyForScene"} => at = "init"
  /\ runtime \in {"readyForInit", "readyForScene"} => state = "completed"
  /\ runtime = "draining" => at = "sync"
  /\ state \in {"ready", "completed"} => at \in {"none", "graphics", "init", "end", "sync"}
  /\ step \in {"blank", "submit"} => at \in Framed
  /\ step = "await" => at \in Transitions \cup {"entry", "preloop"}
  /\ fence => at \in Transitions \cup {"movie", "entry", "end", "sync"}
  /\ at = "entry" /\ step = "await" => ~fence

\* What the last frames of a transition and of the pre-loop have submitted.
TransitionInv ==
  /\ at \in Transitions /\ step = "draw" /\ left < Final => Newest = "last"
  /\ at \in Transitions /\ step \in {"blank", "submit"} =>
       /\ left < Final => picture = "last"
       /\ left + 1 < Final => Newest = "last"
  /\ at = "entry" /\ step = "draw" /\ fence => Second = "last"

\* The pre-loop's frames, those that showed tiles and those that counted as
\* revealed: it cannot run out of frames before the reveal.
PreLoopInv ==
  /\ at = "open" \/ (at = "entry" /\ step = "await") => revealed = 0
  /\ at = "preloop" /\ stream = "held" =>
       /\ step # "await" => revealed \in 0 .. 1 /\ (revealed = 1 => Newest = "clear")
       /\ step = "draw" => left + Tiles + revealed = PreLoop + tiles
                           /\ (revealed > 0 => tiles = 0)
       /\ step \in {"blank", "submit"} =>
            \/ picture = "clear" /\ tiles = 0 /\ left + Tiles + revealed + 1 = PreLoop
            \/ picture = "tiles" /\ revealed = 0 /\ left + Tiles = PreLoop + tiles
       /\ step = "await" => Newest = "clear" /\ tiles = 0

\* Once the drive runs only pictures of the game are submitted.
GamePictures == {"clear", "game"}
RunningInv ==
  /\ stream = "running" =>
       /\ at \in {"preloop", "play"} /\ step # "await"
       /\ at = "preloop" => tiles = 0
       /\ step \in {"blank", "submit"} => picture \in GamePictures
       /\ {Newest, Second} \subseteq GamePictures
  /\ at = "preloop" => stream \in {"held", "running"}

\* What a wait for the screen has reached: its picture submitted, then shown with
\* nothing left to draw, then an edge sampled, then resumed.
AwaitInv ==
  /\ step = "await" => fenced # "no" /\ Second = AwaitedPicture
  /\ step = "await" /\ state = "running" => screen = AwaitedPicture
  /\ acknowledged /\ host # "gone" =>
       /\ Quiet /\ queue = <<>> /\ screen = AwaitedPicture
       /\ fenced \in {"shown", "passed"}
       /\ ~due => fenced = "passed"

IInv == TypeOK /\ QueueInv /\ TurnInv /\ PlaceInv /\ TransitionInv /\ PreLoopInv
        /\ RunningInv /\ AwaitInv /\ StreamAfterReveal

-----------------------------------------------------------------------------
(* The types, in four parts.                                                *)

TaskType ==
  /\ runtime \in Runtimes /\ host \in Hosts /\ started \in BOOLEAN
  /\ state \in {"ready", "running", "waiting", "completed", "failed", "cancelled"}
  /\ kind \in {"none", "device", "vblank", "presentation"}
  /\ (host = "run" => state = "running")
ProgramType ==
  /\ at \in Places /\ step \in {"draw", "blank", "submit", "await"}
  /\ left \in 0..Loop + Final + PreLoop /\ tiles \in 0..Tiles
  /\ picture \in Pictures /\ played \in BOOLEAN
  /\ stream \in {"off", "armed", "held", "running"}
  /\ revealed \in Nat /\ fence \in BOOLEAN
RingType ==
  /\ queue \in Seq([page : Pages, picture : Pictures]) /\ Len(queue) <= Slots
  /\ busy \in BOOLEAN /\ flag \in BOOLEAN /\ (busy => queue # <<>>)
  /\ pages \in [Pages -> Pictures] /\ front \in Pages /\ ready \in BOOLEAN
ScreenType ==
  /\ screen \in Pictures
  /\ requested \in BOOLEAN /\ acknowledged \in BOOLEAN /\ due \in BOOLEAN
  /\ edges \in 0..MaxEdges /\ until \in 0..2 /\ since \in BOOLEAN
  /\ fenced \in {"no", "asked", "shown", "passed"}

LEMMA TypeParts == TypeOK <=> TaskType /\ ProgramType /\ RingType /\ ScreenType
BY DEF TypeOK, TaskType, ProgramType, RingType, ScreenType

LEMMA SceneNumbers ==
  /\ Slots \in Nat /\ Slots >= 1 /\ Final \in Nat /\ Final >= 2
  /\ MaxEdges \in Nat /\ MaxEdges >= 1
  /\ Loop \in Nat /\ Tiles \in Nat /\ PreLoop \in Nat /\ PreLoop >= Tiles + 2
BY SceneAssumption

LEMMA TaskNext == TypeOK /\ TurnInv /\ [Next]_vars => TaskType'
<1> SUFFICES ASSUME TaskType, TurnInv, [Next]_vars PROVE TaskType'
  BY TypeParts
<1> USE DEF TaskType, Runtimes, Hosts
<1>1. CASE Frames
  BY <1>1 DEF Frames, BlankWaits, BlankEnds, SubmitWaits, TransitionDraws, PreLoopDraws,
     PlayDraws, Draw, TransitionSubmits, PreLoopSubmits, PlaySubmits, Submits, Reveal, Await
<1>2. CASE Scene \/ Outside
  BY <1>2 DEF Scene, Outside, GraphicsWaits, GraphicsReady, Waits, SceneBegins,
     TransitionReturns, EnterGame, EntryPresented, StreamReleased, SceneReturns,
     SyncReturns, InitReturns, MovieEnds, StreamOpens, PreLoopEnds, GameEnds, Await,
     Complete
<1>3. CASE Poll \/ NoEdge \/ GpuWaits \/ Deliver \/ Dispatch
  BY <1>3 DEF TurnInv, Poll, NoEdge, GpuWaits, Deliver, Dispatch, Resume, Quiet
<1>4. CASE FencePresents \/ FenceWaits \/ FencePasses \/ Show \/ ShowAgain
  BY <1>4 DEF FencePresents, FenceWaits, FencePasses, Show, ShowAgain, PresentIfReady,
     Resume
<1>5. CASE Begin \/ Pumped \/ HandsOff \/ Fails \/ PumpReturns \/ Ticks
  BY <1>5 DEF Begin, Pumped, HandsOff, Fails, PumpReturns, Ticks, StartsInit, StartsScene,
     Start, AfterTask
<1>6. CASE Throw \/ SampleEdge \/ GpuCompletes \/ Destroy \/ Stopped \/ UNCHANGED vars
  BY <1>6 DEF Throw, SampleEdge, GpuCompletes, Destroy, Stopped, vars
<1> QED
  BY <1>1, <1>2, <1>3, <1>4, <1>5, <1>6 DEF Next, Host

LEMMA ProgramNext == TypeOK /\ [Next]_vars => ProgramType'
<1> SUFFICES ASSUME ProgramType, [Next]_vars PROVE ProgramType'
  BY TypeParts
<1> USE SceneNumbers DEF ProgramType, Places, Transitions, Pictures
<1>1. CASE BlankWaits \/ BlankEnds \/ SubmitWaits
  BY <1>1 DEF BlankWaits, BlankEnds, SubmitWaits
<1>2. CASE TransitionDraws \/ PreLoopDraws \/ PlayDraws
  BY <1>2 DEF TransitionDraws, PreLoopDraws, PlayDraws, Draw
<1>3. CASE TransitionSubmits \/ PlaySubmits
  BY <1>3 DEF TransitionSubmits, PlaySubmits, Submits, Await
<1>4. CASE PreLoopSubmits
  BY <1>4 DEF PreLoopSubmits, Submits, Reveal, Await
<1>5. CASE TransitionReturns
  BY <1>5 DEF TransitionReturns, Follows, Transition
<1>6. CASE EnterGame
  <2>1. stream' = "armed" /\ revealed' = 0 /\ fence' = FALSE
    BY <1>6 DEF EnterGame
  <2>2. UNCHANGED <<tiles, picture, played>>
    BY <1>6 DEF EnterGame
  <2>3. at' \in {"entry", "open"} /\ step' \in {"draw", "await"} /\ left' \in {0, left}
    BY <1>6 DEF EnterGame, Await
  <2>4. at' \in Places /\ step' \in {"draw", "blank", "submit", "await"}
    BY <2>3
  <2>5. left' \in 0..Loop + Final + PreLoop
    BY <2>3
  <2> QED BY <2>1, <2>2, <2>4, <2>5
<1>7. CASE GraphicsWaits \/ GraphicsReady \/ Waits \/ SceneBegins \/ EntryPresented
           \/ StreamReleased \/ SceneReturns \/ SyncReturns
  BY <1>7 DEF GraphicsWaits, GraphicsReady, Waits, SceneBegins, EntryPresented,
     StreamReleased, SceneReturns, SyncReturns, Transition, Complete
<1>8. CASE Outside
  BY <1>8 DEF Outside, InitReturns, MovieEnds, StreamOpens, PreLoopEnds, GameEnds,
     Transition, Complete
<1>9. CASE Host
  BY <1>9 DEF Host, Poll, NoEdge, GpuWaits, Deliver, Dispatch, FencePresents, FenceWaits,
     FencePasses, Show, ShowAgain, Begin, Pumped, HandsOff, Fails, PumpReturns, Start
<1>10. CASE Ticks \/ Throw \/ SampleEdge \/ GpuCompletes \/ Destroy \/ Stopped
            \/ UNCHANGED vars
  BY <1>10 DEF Ticks, StartsInit, StartsScene, Start, Throw, SampleEdge, GpuCompletes,
     Destroy, Stopped, vars
<1> QED
  BY <1>1, <1>2, <1>3, <1>4, <1>5, <1>6, <1>7, <1>8, <1>9, <1>10 DEF Next, Frames, Scene

\* Facts about any sequence.
LEMMA SeqFacts ==
  ASSUME NEW S, NEW q \in Seq(S)
  PROVE  /\ Len(q) \in Nat /\ (q = <<>> <=> Len(q) = 0)
         /\ \A i \in 1..Len(q) : q[i] \in S
         /\ q # <<>> => /\ Len(q) >= 1 /\ Head(q) = q[1] /\ q[1] \in S
                       /\ Tail(q) \in Seq(S) /\ Len(Tail(q)) = Len(q) - 1
                       /\ \A i \in 1..Len(q) - 1 : Tail(q)[i] = q[i + 1]
<1>1. Len(q) \in Nat /\ (q = <<>> <=> Len(q) = 0)
  BY EmptySeq
<1>2. \A i \in 1..Len(q) : q[i] \in S
  BY ElementOfSeq
<1>3. q # <<>> => Len(q) >= 1 /\ Head(q) = q[1] /\ q[1] \in S
  BY <1>1, <1>2
<1>4. q # <<>> => /\ Tail(q) \in Seq(S) /\ Len(Tail(q)) = Len(q) - 1
                  /\ \A i \in 1..Len(q) - 1 : Tail(q)[i] = q[i + 1]
  BY HeadTailProperties
<1> QED
  BY <1>1, <1>2, <1>3, <1>4

\* The steps that touch the ring, the pages or the display registers.
Submit == TransitionSubmits \/ PreLoopSubmits \/ PlaySubmits
LEMMA RingActions ==
  [Next]_vars => \/ UNCHANGED gpu
                 \/ BlankEnds \/ SubmitWaits \/ Submit \/ GraphicsReady \/ Dispatch
                 \/ GpuCompletes \/ Begin
<1> SUFFICES ASSUME [Next]_vars PROVE UNCHANGED gpu
                 \/ BlankEnds \/ SubmitWaits \/ Submit \/ GraphicsReady \/ Dispatch
                 \/ GpuCompletes \/ Begin
  OBVIOUS
<1>1. CASE Frames
  BY <1>1 DEF Frames, Submit, BlankWaits, TransitionDraws, PreLoopDraws, PlayDraws, Draw
<1>2. CASE Scene \/ Outside
  BY <1>2 DEF Scene, Outside, GraphicsWaits, Waits, SceneBegins, TransitionReturns,
     EnterGame, EntryPresented, StreamReleased, SceneReturns, SyncReturns, InitReturns,
     MovieEnds, StreamOpens, PreLoopEnds, GameEnds
<1>3. CASE Host \/ Ticks
  BY <1>3 DEF Host, Ticks, Poll, NoEdge, GpuWaits, Deliver, FencePresents, FenceWaits,
     FencePasses, Show, ShowAgain, Pumped, HandsOff, Fails, PumpReturns, StartsInit,
     StartsScene
<1>4. CASE Throw \/ SampleEdge \/ GpuCompletes \/ Destroy \/ Stopped \/ UNCHANGED vars
  BY <1>4 DEF Throw, SampleEdge, Destroy, Stopped, vars
<1> QED
  BY <1>1, <1>2, <1>3, <1>4 DEF Next

\* A frame submitted becomes the ring's last one.
LEMMA Enqueued ==
  ASSUME RingType, picture \in Pictures, Enqueue(1 - front)
  PROVE  /\ queue' \in Seq([page : Pages, picture : Pictures])
         /\ Len(queue') = Len(queue) + 1 /\ queue' # <<>> /\ busy'
         /\ queue'[Len(queue')] = [page |-> 1 - front, picture |-> picture]
         /\ \A i \in 1..Len(queue) : queue'[i] = queue[i]
         /\ pages' \in [Pages -> Pictures]
         /\ queue # <<>> /\ busy => pages' = pages
         /\ queue = <<>> => pages' = [pages EXCEPT ![1 - front] = "none"]
<1> DEFINE new == [page |-> 1 - front, picture |-> picture]
<1>1. new \in [page : Pages, picture : Pictures] /\ queue' = Append(queue, new)
  BY DEF Enqueue, RingType
<1>2. queue \in Seq([page : Pages, picture : Pictures])
  BY DEF RingType
<1> HIDE DEF new
<1>3. /\ queue' \in Seq([page : Pages, picture : Pictures])
      /\ Len(queue') = Len(queue) + 1 /\ queue' # <<>>
      /\ queue'[Len(queue')] = new
      /\ \A i \in 1..Len(queue) : queue'[i] = queue[i]
  BY <1>1, <1>2
<1>4. Head(queue') = queue'[1] /\ queue'[1] \in [page : Pages, picture : Pictures]
  BY <1>3, SeqFacts
<1>5. queue = <<>> => queue'[1] = new
  BY <1>3
<1>6. pages' = IF busy THEN pages ELSE [pages EXCEPT ![queue'[1].page] = "none"]
  BY <1>4 DEF Enqueue
<1>7. pages' \in [Pages -> Pictures]
  BY <1>6 DEF RingType, Pictures
<1>8. queue = <<>> => pages' = [pages EXCEPT ![1 - front] = "none"]
  <2>1. ASSUME queue = <<>> PROVE ~busy /\ queue'[1].page = 1 - front
    BY <1>5, <2>1 DEF new, RingType
  <2> QED
    BY <1>6, <2>1
<1> QED
  BY <1>3, <1>6, <1>7, <1>8 DEF new, Enqueue

\* The frame drawn leaves the ring, and its page has its picture.
LEMMA Drawn ==
  ASSUME RingType, GpuCompletes
  PROVE  /\ queue' \in Seq([page : Pages, picture : Pictures])
         /\ Len(queue') = Len(queue) - 1 /\ queue # <<>>
         /\ \A i \in 1..Len(queue') : queue'[i] = queue[i + 1]
         /\ queue[1] \in [page : Pages, picture : Pictures]
         /\ pages' = [pages EXCEPT ![queue[1].page] = queue[1].picture]
         /\ pages' \in [Pages -> Pictures]
<1>1. /\ queue \in Seq([page : Pages, picture : Pictures])
      /\ queue # <<>> /\ queue' = Tail(queue)
  BY DEF RingType, GpuCompletes
<1>2. /\ queue' \in Seq([page : Pages, picture : Pictures])
      /\ Len(queue') = Len(queue) - 1
      /\ \A i \in 1..Len(queue') : queue'[i] = queue[i + 1]
      /\ queue[1] \in [page : Pages, picture : Pictures] /\ Head(queue) = queue[1]
  BY <1>1, SeqFacts
<1>3. pages' = [pages EXCEPT ![queue[1].page] = queue[1].picture]
  BY <1>2 DEF GpuCompletes
<1>4. pages' \in [Pages -> Pictures]
  BY <1>2, <1>3 DEF RingType
<1> QED
  BY <1>1, <1>2, <1>3, <1>4

\* Starting a frame only takes its page's picture away.
LEMMA Started ==
  ASSUME RingType, StartNext
  PROVE  /\ busy' \in BOOLEAN /\ (busy' => queue # <<>>)
         /\ busy => busy' /\ pages' = pages
         /\ queue = <<>> => pages' = pages
         /\ queue # <<>> => /\ busy' /\ queue[1] \in [page : Pages, picture : Pictures]
                            /\ ~busy => pages' = [pages EXCEPT ![queue[1].page] = "none"]
         /\ pages' \in [Pages -> Pictures]
<1>1. queue # <<>> => queue[1] \in [page : Pages, picture : Pictures]
                      /\ Head(queue) = queue[1]
  BY SeqFacts DEF RingType
<1> QED
  BY <1>1 DEF RingType, StartNext, Pictures

LEMMA RingNext == TypeOK /\ [Next]_vars => RingType'
<1> SUFFICES ASSUME RingType, picture \in Pictures, [Next]_vars PROVE RingType'
  BY TypeParts DEF ProgramType
<1>1. CASE UNCHANGED gpu
  BY <1>1 DEF RingType
<1>2. CASE BlankEnds \/ GraphicsReady
  <2>1. front' \in Pages
    BY <1>2 DEF BlankEnds, GraphicsReady, RingType
  <2>3. ready' \in BOOLEAN
    BY <1>2, Zenon DEF BlankEnds, GraphicsReady, RingType
  <2>2. UNCHANGED <<queue, busy, flag, pages>>
    BY <1>2 DEF BlankEnds, GraphicsReady
  <2> QED
    BY <2>1, <2>2, <2>3 DEF RingType
<1>3. CASE SubmitWaits
  BY <1>3, Started DEF SubmitWaits, RingType
<1>4. CASE Submit
  <2>1. Len(queue) < Slots /\ Enqueue(1 - front) /\ UNCHANGED <<flag, front, ready>>
    BY <1>4 DEF Submit, TransitionSubmits, PreLoopSubmits, PlaySubmits, Submits
  <2>2. Len(queue') <= Slots
    BY <2>1, Enqueued, SceneNumbers DEF RingType
  <2> QED
    BY <2>1, <2>2, Enqueued DEF RingType
<1>5. CASE Dispatch
  <2>0. RingType
    OBVIOUS
  <2>1. UNCHANGED <<queue, front, ready>> /\ flag' = FALSE
    BY <1>5 DEF Dispatch
  <2>2. StartNext \/ UNCHANGED <<busy, pages>>
    BY <1>5 DEF Dispatch
  <2>3. /\ busy' \in BOOLEAN /\ (busy' => queue # <<>>)
        /\ pages' \in [Pages -> Pictures]
    BY <2>2, Started DEF RingType
  <2> QED
    BY <2>1, <2>3 DEF RingType
<1>6. CASE GpuCompletes
  <2>1. busy' = FALSE /\ flag' = TRUE /\ UNCHANGED <<front, ready>>
    BY <1>6 DEF GpuCompletes
  <2>2. Len(queue') <= Slots
    BY <1>6, Drawn, SeqFacts, SceneNumbers DEF RingType
  <2> QED
    BY <1>6, <2>1, <2>2, Drawn DEF RingType
<1>7. CASE Begin
  <2>1. [page |-> 1 - front, picture |-> "none"] \in [page : Pages, picture : Pictures]
    BY DEF RingType, Pictures
  <2>2. /\ queue' = <<[page |-> 1 - front, picture |-> "none"]>>
        /\ busy' = TRUE /\ UNCHANGED <<flag, pages, front, ready>>
    BY <1>7 DEF Begin
  <2>3. queue' \in Seq([page : Pages, picture : Pictures]) /\ Len(queue') = 1
        /\ queue' # <<>>
    BY <2>1, <2>2
  <2> QED
    BY <2>2, <2>3, SceneNumbers DEF RingType
<1> QED
  BY <1>1, <1>2, <1>3, <1>4, <1>5, <1>6, <1>7, RingActions

LEMMA ScreenNext == TypeOK /\ [Next]_vars => ScreenType'
<1> SUFFICES ASSUME ScreenType, RingType, [Next]_vars PROVE ScreenType'
  BY TypeParts
<1> USE DEF ScreenType
<1>1. CASE BlankWaits \/ BlankEnds \/ SubmitWaits \/ TransitionSubmits \/ PreLoopSubmits
           \/ PlaySubmits
  BY <1>1 DEF BlankWaits, BlankEnds, SubmitWaits, TransitionSubmits, PreLoopSubmits,
     PlaySubmits, Submits, Reveal, Await
<1>2. CASE TransitionDraws \/ PreLoopDraws \/ PlayDraws
  BY <1>2 DEF TransitionDraws, PreLoopDraws, PlayDraws, Draw
<1>3. CASE Scene \/ Outside
  BY <1>3 DEF Scene, Outside, GraphicsWaits, GraphicsReady, Waits, SceneBegins,
     TransitionReturns, EnterGame, EntryPresented, StreamReleased, SceneReturns,
     SyncReturns, InitReturns, MovieEnds, StreamOpens, PreLoopEnds, GameEnds, Await
<1>4. CASE Deliver
  <2>1. /\ since' \in BOOLEAN
        /\ UNCHANGED <<screen, requested, acknowledged, due, fenced>>
    BY <1>4, Zenon DEF Deliver
  <2>2. edges' \in 0..MaxEdges /\ until' \in 0..2
    BY <1>4, SceneNumbers DEF Deliver
  <2> QED BY <2>1, <2>2
<1>5. CASE FencePresents \/ Show \/ ShowAgain
  <2>1. /\ screen' \in {screen, pages[front]} /\ pages[front] \in Pictures
        /\ requested' \in BOOLEAN /\ acknowledged' \in BOOLEAN /\ due' \in BOOLEAN
        /\ fenced' \in {fenced, "shown"} /\ UNCHANGED clock
    BY <1>5 DEF FencePresents, Show, ShowAgain, PresentIfReady, Presentable, RingType
  <2> QED BY <2>1
<1>6. CASE Poll \/ NoEdge \/ GpuWaits \/ Dispatch \/ FenceWaits \/ FencePasses \/ Begin
           \/ Pumped \/ HandsOff \/ Fails \/ PumpReturns \/ Ticks
  BY <1>6 DEF Poll, NoEdge, GpuWaits, Dispatch, FenceWaits, FencePasses, Begin, Pumped,
     HandsOff, Fails, PumpReturns, Ticks, StartsInit, StartsScene, Start
<1>7. CASE SampleEdge
  <2>1. /\ requested' \in BOOLEAN /\ due' \in BOOLEAN /\ fenced' \in {fenced, "passed"}
        /\ UNCHANGED <<screen, acknowledged, until, since>>
    BY <1>7 DEF SampleEdge
  <2>2. edges' \in 0..MaxEdges
    BY <1>7, SceneNumbers DEF SampleEdge
  <2> QED BY <2>1, <2>2
<1>8. CASE Throw \/ GpuCompletes \/ Destroy \/ Stopped \/ UNCHANGED vars
  BY <1>8 DEF Throw, GpuCompletes, Destroy, Stopped, vars
<1> QED
  BY <1>1, <1>2, <1>3, <1>4, <1>5, <1>6, <1>7, <1>8 DEF Next, Frames, Host

LEMMA TypeNext == TypeOK /\ TurnInv /\ [Next]_vars => TypeOK'
<1> SUFFICES ASSUME TypeOK, TurnInv, [Next]_vars PROVE TypeOK'
  OBVIOUS
<1>1. TaskType' /\ ProgramType' /\ RingType' /\ ScreenType'
  BY TaskNext, ProgramNext, RingNext, ScreenNext
<1> QED
  BY <1>1, TypeParts, PTL

-----------------------------------------------------------------------------
(* Whose turn it is and where the program is.                               *)

LEMMA TurnNext == TypeOK /\ TurnInv /\ PlaceInv /\ [Next]_vars => TurnInv'
<1> SUFFICES ASSUME TaskType, TurnInv, PlaceInv, [Next]_vars PROVE TurnInv'
  BY TypeParts
<1> USE DEF TurnInv, Quiet
<1>1. CASE Frames
  BY <1>1 DEF Frames, BlankWaits, BlankEnds, SubmitWaits, TransitionDraws, PreLoopDraws,
     PlayDraws, Draw, TransitionSubmits, PreLoopSubmits, PlaySubmits, Submits, Reveal, Await
<1>2. CASE Scene \/ Outside
  BY <1>2 DEF PlaceInv, Transitions, Scene, Outside, GraphicsWaits, GraphicsReady, Waits,
     SceneBegins, TransitionReturns, EnterGame, EntryPresented, StreamReleased,
     SceneReturns, SyncReturns, InitReturns, MovieEnds, StreamOpens, PreLoopEnds, GameEnds,
     Await, Complete, Follows, Transition
<1>3. CASE Poll \/ NoEdge \/ GpuWaits \/ Deliver \/ Dispatch
  BY <1>3 DEF Poll, NoEdge, GpuWaits, Deliver, Dispatch, Resume
<1>4. CASE FencePresents \/ FenceWaits \/ FencePasses \/ Show \/ ShowAgain
  BY <1>4 DEF FencePresents, FenceWaits, FencePasses, Show, ShowAgain, PresentIfReady,
     Resume
<1>5. CASE Begin \/ Pumped \/ HandsOff \/ Fails \/ PumpReturns \/ Ticks
  BY <1>5 DEF Begin, Pumped, HandsOff, Fails, PumpReturns, Ticks, StartsInit, StartsScene,
     Start, Completed
<1>6. CASE Throw \/ SampleEdge \/ GpuCompletes \/ Destroy \/ Stopped \/ UNCHANGED vars
  BY <1>6 DEF Throw, SampleEdge, GpuCompletes, Destroy, Stopped, vars
<1> QED
  BY <1>1, <1>2, <1>3, <1>4, <1>5, <1>6 DEF Next, Host

LEMMA PlaceNext == TypeOK /\ TurnInv /\ PlaceInv /\ [Next]_vars => PlaceInv'
<1> SUFFICES ASSUME TaskType, ProgramType, TurnInv, PlaceInv, [Next]_vars PROVE PlaceInv'
  BY TypeParts
<1> USE DEF PlaceInv, Framed, Transitions
<1>1. CASE Frames
  BY <1>1 DEF Frames, BlankWaits, BlankEnds, SubmitWaits, TransitionDraws, PreLoopDraws,
     PlayDraws, Draw, TransitionSubmits, PreLoopSubmits, PlaySubmits, Submits, Reveal, Await
<1>2. CASE Scene \/ Outside
  <2>1. CASE GraphicsWaits \/ GraphicsReady \/ Waits \/ SceneReturns \/ SyncReturns
             \/ InitReturns
    BY <1>2, <2>1 DEF GraphicsWaits, GraphicsReady, Waits, SceneReturns, SyncReturns,
       InitReturns, Complete
  <2>2. CASE SceneBegins \/ TransitionReturns
    BY <1>2, <2>2 DEF SceneBegins, TransitionReturns, Follows, Transition
  <2>3. CASE EntryPresented \/ StreamReleased
    BY <1>2, <2>3 DEF EntryPresented, StreamReleased
  <2>5. CASE EnterGame
    <3>1. /\ at = "entry" /\ step = "draw" /\ state = "running" /\ host = "run"
          /\ fence' = FALSE /\ UNCHANGED runtime
      BY <2>5 DEF EnterGame
    <3>2. \/ state' = "waiting" /\ at' = "entry" /\ step' = "await"
          \/ state' = "running" /\ at' = "open" /\ step' = "draw"
      BY <2>5, <3>1 DEF EnterGame, Await
    <3> QED
      BY <3>1, <3>2
  <2>4. CASE MovieEnds \/ StreamOpens \/ PreLoopEnds \/ GameEnds
    BY <1>2, <2>4 DEF MovieEnds, StreamOpens, PreLoopEnds, GameEnds, Transition
  <2> QED
    BY <1>2, <2>1, <2>2, <2>3, <2>4, <2>5 DEF Scene, Outside
<1>3. CASE Poll \/ NoEdge \/ GpuWaits \/ Deliver \/ Dispatch
  BY <1>3 DEF Poll, NoEdge, GpuWaits, Deliver, Dispatch, Resume, Quiet, TurnInv
<1>4. CASE FencePresents \/ FenceWaits \/ FencePasses \/ Show \/ ShowAgain
  BY <1>4 DEF FencePresents, FenceWaits, FencePasses, Show, ShowAgain, PresentIfReady,
     Resume, Quiet, TurnInv
<1>5. CASE Begin \/ Pumped \/ HandsOff \/ Fails \/ PumpReturns \/ Ticks
  BY <1>5 DEF Begin, Pumped, HandsOff, Fails, PumpReturns, Ticks, StartsInit, StartsScene,
     Start, Completed, AfterTask, Runtimes, TaskType, Live
<1>6. CASE Throw \/ SampleEdge \/ GpuCompletes \/ Destroy \/ Stopped \/ UNCHANGED vars
  BY <1>6 DEF Throw, SampleEdge, GpuCompletes, Destroy, Stopped, vars, TurnInv, Live
<1> QED
  BY <1>1, <1>2, <1>3, <1>4, <1>5, <1>6 DEF Next, Host

-----------------------------------------------------------------------------
(* The last two pictures.                                                   *)

LEMMA LastPages == RingType => /\ LastPage \in Pages /\ 1 - LastPage \in Pages
                               /\ 1 - (1 - LastPage) = LastPage
BY DEF RingType, LastPage

\* Steps between the swap and the submission keep to it.
LEMMA StepKept ==
  ASSUME TaskType, PlaceInv, TurnInv, [Next]_vars, ~BlankEnds, ~Submit
  PROVE  step' = "submit" <=> step = "submit"
<1> USE DEF PlaceInv, Framed, Transitions
<1>1. CASE Frames
  BY <1>1 DEF Frames, Submit, BlankWaits, SubmitWaits, TransitionDraws, PreLoopDraws,
     PlayDraws, Draw
<1>2. CASE Scene \/ Outside
  BY <1>2 DEF Scene, Outside, GraphicsWaits, GraphicsReady, Waits,
     SceneBegins, TransitionReturns, EnterGame, EntryPresented, StreamReleased,
     SceneReturns, SyncReturns, InitReturns, MovieEnds, StreamOpens, PreLoopEnds, GameEnds,
     Await, Follows, Transition
<1>3. CASE Poll \/ NoEdge \/ GpuWaits \/ Deliver \/ Dispatch
  BY <1>3 DEF Poll, NoEdge, GpuWaits, Deliver, Dispatch
<1>4. CASE FencePresents \/ FenceWaits \/ FencePasses \/ Show \/ ShowAgain
  BY <1>4 DEF FencePresents, FenceWaits, FencePasses, Show, ShowAgain
<1>5. CASE Begin \/ Pumped \/ HandsOff \/ Fails \/ PumpReturns \/ Ticks
  BY <1>5 DEF Begin, Pumped, HandsOff, Fails, PumpReturns, Ticks, StartsInit, StartsScene,
     Start, Completed
<1>6. CASE Throw \/ SampleEdge \/ GpuCompletes \/ Destroy \/ Stopped \/ UNCHANGED vars
  BY <1>6 DEF Throw, SampleEdge, GpuCompletes, Destroy, Stopped, vars
<1> QED
  BY <1>1, <1>2, <1>3, <1>4, <1>5, <1>6 DEF Next, Host

\* A submission shifts the two pictures, and nothing else changes them.
Shifted == Newest' = picture /\ Second' = Newest
Same == Newest' = Newest /\ Second' = Second

LEMMA SubmitShifts ==
  ASSUME TypeOK, QueueInv, TurnInv, Submit
  PROVE  QueueInv' /\ Shifted
<1>1. RingType /\ picture \in Pictures
  BY TypeParts DEF ProgramType
<1>2. /\ step = "submit" /\ step' # "submit" /\ front' = front /\ Enqueue(1 - front)
      /\ host = "run"
  BY DEF Submit, TransitionSubmits, PreLoopSubmits, PlaySubmits, Submits, Reveal, Await
<1>3. LastPage = front /\ LastPage' = 1 - front
  BY <1>2 DEF LastPage
<1>4. queue # <<>> => busy
  BY <1>2 DEF QueueInv
<1>5. Len(queue) \in Nat /\ (queue = <<>> <=> Len(queue) = 0)
  BY <1>1, SeqFacts DEF RingType
<1>6. Newest' = picture
  BY <1>1, <1>2, Enqueued DEF Newest
<1>7. Second' = Newest
  <2>1. CASE queue = <<>>
    <3>1. Len(queue') = 1
      BY <1>1, <1>2, <1>5, <2>1, Enqueued
    <3>2. pages'[front] = pages[front]
      BY <1>1, <1>2, <2>1, Enqueued DEF RingType
    <3> QED
      BY <1>1, <1>3, <2>1, <3>1, <3>2, LastPages DEF Second, Newest
  <2>2. CASE queue # <<>>
    <3>1. Len(queue') = Len(queue) + 1 /\ queue'[Len(queue)] = queue[Len(queue)]
      BY <1>1, <1>2, <1>5, <2>2, Enqueued
    <3> QED
      BY <1>5, <2>2, <3>1 DEF Second, Newest
  <2> QED BY <2>1, <2>2
<1>8. QueueInv'
  <2>1. queue'[Len(queue')].page = LastPage'
    BY <1>1, <1>2, <1>3, Enqueued
  <2>2. Len(queue') >= 2 => queue'[Len(queue') - 1].page = 1 - LastPage'
    <3>1. ASSUME Len(queue') >= 2 PROVE queue'[Len(queue') - 1] = queue[Len(queue)]
                                        /\ Len(queue) >= 1
      BY <1>1, <1>2, <1>5, <3>1, Enqueued
    <3> QED
      BY <1>1, <1>3, <3>1, LastPages DEF QueueInv
  <2>3. busy'
    BY <1>1, <1>2, Enqueued
  <2> QED
    BY <2>1, <2>2, <2>3 DEF QueueInv
<1> QED
  BY <1>6, <1>7, <1>8 DEF Shifted

LEMMA CompletionKeeps ==
  ASSUME TypeOK, QueueInv, LastPage' = LastPage, GpuCompletes
  PROVE  QueueInv' /\ Same
<1>1. RingType
  BY TypeParts
<1>2. Len(queue) \in Nat /\ Len(queue) >= 1 /\ (queue' = <<>> <=> Len(queue') = 0)
      /\ Len(queue') \in Nat
  BY <1>1, Drawn, SeqFacts DEF RingType
<1>3. queue[Len(queue)].page = LastPage
      /\ (Len(queue) >= 2 => queue[Len(queue) - 1].page = 1 - LastPage)
  BY <1>2 DEF QueueInv
<1>4. CASE Len(queue) = 1
  <2>1. pages'[LastPage] = queue[1].picture /\ pages'[1 - LastPage] = pages[1 - LastPage]
    BY <1>1, <1>3, <1>4, Drawn, LastPages DEF RingType
  <2>2. queue' = <<>> /\ Len(queue') = 0
    BY <1>1, <1>2, <1>4, Drawn
  <2>3. queue # <<>> /\ Len(queue) # 0 /\ ~(Len(queue) >= 2) /\ ~(Len(queue') >= 2)
    BY <1>2, <1>4, <2>2
  <2>4. Newest = queue[1].picture /\ Newest' = pages'[LastPage]
    BY <1>4, <2>2, <2>3 DEF Newest
  <2>5. Second = pages[1 - LastPage] /\ Second' = pages'[1 - LastPage]
    BY <1>4, <2>2, <2>3 DEF Second
  <2>6. QueueInv'
    BY <2>2, <2>3 DEF QueueInv
  <2> QED
    BY <2>1, <2>4, <2>5, <2>6 DEF Same
<1>5. CASE Len(queue) >= 2
  <2>1. Len(queue') = Len(queue) - 1 /\ queue' # <<>>
        /\ queue'[Len(queue')] = queue[Len(queue)]
    BY <1>1, <1>2, <1>5, Drawn
  <2>2. host' = "deliver" /\ flag'
    BY DEF GpuCompletes
  <2>3. Newest' = Newest
    BY <1>2, <1>5, <2>1 DEF Newest
  <2>4. CASE Len(queue) = 2
    <3>1. pages'[1 - LastPage] = queue[1].picture
      BY <1>1, <1>3, <2>4, Drawn, LastPages DEF RingType
    <3> QED
      BY <1>3, <2>1, <2>2, <2>3, <2>4, <3>1 DEF Same, Second, QueueInv
  <2>5. CASE Len(queue) > 2
    <3>1. queue'[Len(queue') - 1] = queue[Len(queue) - 1]
      BY <1>1, <1>2, <2>5, Drawn
    <3> QED
      BY <1>2, <1>3, <2>1, <2>2, <2>3, <2>5, <3>1 DEF Same, Second, QueueInv
  <2>6. Len(queue) = 2 \/ Len(queue) > 2
    <3>1. PICK n \in Nat : n = Len(queue)
      BY <1>2
    <3> QED BY <1>5, <3>1
  <2> QED BY <2>4, <2>5, <2>6
<1>6. Len(queue) = 1 \/ Len(queue) >= 2
  <2>1. PICK n \in Nat : n = Len(queue)
    BY <1>2
  <2> QED BY <1>2, <2>1
<1> QED
  BY <1>4, <1>5, <1>6

LEMMA StartKeeps ==
  ASSUME TypeOK, QueueInv, LastPage' = LastPage, StartNext, UNCHANGED queue
  PROVE  Same /\ (queue' # <<>> => busy')
<1>1. RingType
  BY TypeParts
<1>2. Len(queue) \in Nat /\ (queue = <<>> <=> Len(queue) = 0)
  BY <1>1, SeqFacts DEF RingType
<1>3. queue = <<>> \/ busy => pages' = pages
  BY <1>1, Started
<1>4. Len(queue) = 1 => pages'[1 - LastPage] = pages[1 - LastPage]
  BY <1>1, <1>3, Started, LastPages DEF RingType, QueueInv
<1>5. Newest' = Newest
  BY <1>3 DEF Newest
<1>6. Second' = Second
  <2>1. CASE Len(queue) = 0
    BY <1>2, <1>3, <2>1 DEF Second
  <2>2. CASE Len(queue) = 1
    BY <1>4, <2>2 DEF Second
  <2>3. CASE Len(queue) >= 2
    BY <1>2, <2>3 DEF Second
  <2>4. Len(queue) = 0 \/ Len(queue) = 1 \/ Len(queue) >= 2
    <3>1. PICK n \in Nat : n = Len(queue)
      BY <1>2
    <3> QED BY <3>1
  <2> QED BY <2>1, <2>2, <2>3, <2>4
<1>7. queue' # <<>> => busy'
  BY <1>1, Started
<1> QED
  BY <1>5, <1>6, <1>7 DEF Same

\* The ring is left alone between a completion and its dispatch.
LEMMA DispatchFollows ==
  ASSUME [Next]_vars, host \in {"deliver", "dispatch"}
  PROVE  Dispatch \/ host' \in {"deliver", "dispatch"}
<1>1. ~Frames
  BY DEF Frames, BlankWaits, BlankEnds, SubmitWaits, TransitionDraws, PreLoopDraws,
     PlayDraws, Draw, TransitionSubmits, PreLoopSubmits, PlaySubmits, Submits
<1>2. ~Scene /\ ~Outside
  BY DEF Scene, Outside, GraphicsWaits, GraphicsReady, Waits, SceneBegins,
     TransitionReturns, EnterGame, EntryPresented, StreamReleased, SceneReturns,
     SyncReturns, InitReturns, MovieEnds, StreamOpens, PreLoopEnds, GameEnds
<1>3. CASE Host \/ Ticks
  BY <1>3 DEF Host, Ticks, Poll, NoEdge, GpuWaits, Deliver, FencePresents, FenceWaits,
     FencePasses, Show, ShowAgain, Begin, Pumped, HandsOff, Completed, Fails, PumpReturns,
     StartsInit, StartsScene
<1>4. CASE Throw \/ SampleEdge \/ GpuCompletes \/ Destroy \/ Stopped \/ UNCHANGED vars
  BY <1>4 DEF Throw, SampleEdge, GpuCompletes, Destroy, Stopped, vars
<1> QED
  BY <1>1, <1>2, <1>3, <1>4 DEF Next

LEMMA QueueNext ==
  ASSUME TypeOK, QueueInv, TurnInv, PlaceInv, [Next]_vars
  PROVE  QueueInv' /\ (Submit => Shifted) /\ (~Submit /\ ~Begin => Same)
<1>1. TaskType /\ RingType
  BY TypeParts
<1>2. CASE Submit
  BY <1>2, SubmitShifts
<1>3. CASE Begin
  <2>1. /\ queue' = <<[page |-> 1 - front, picture |-> "none"]>>
        /\ busy' = TRUE /\ front' = front /\ step' = "draw"
    BY <1>3 DEF Begin, Start
  <2>2. queue'[1].page = 1 - front /\ Len(queue') = 1
    BY <2>1
  <2>3. QueueInv'
    BY <2>1, <2>2 DEF QueueInv, LastPage
  <2>4. ~Submit
    BY <1>3 DEF Begin, Submit, TransitionSubmits, PreLoopSubmits, PlaySubmits, Submits
  <2> QED
    BY <1>3, <2>3, <2>4
<1>4. ASSUME ~Submit, ~Begin PROVE QueueInv' /\ Same
  <2>1. LastPage' = LastPage
    <3>1. CASE BlankEnds
      BY <1>1, <3>1 DEF BlankEnds, LastPage, RingType
    <3>2. CASE ~BlankEnds
      <4>1. step' = "submit" <=> step = "submit"
        BY <1>1, <1>4, <3>2, StepKept
      <4>2. front' = front
        BY <1>4, <3>2, RingActions DEF SubmitWaits, GraphicsReady, Dispatch, GpuCompletes
      <4> QED
        BY <4>1, <4>2 DEF LastPage
    <3> QED BY <3>1, <3>2
  <2>2. CASE GpuCompletes
    BY <2>1, <2>2, CompletionKeeps
  <2>3. CASE Dispatch
    <3>1. UNCHANGED queue
      BY <2>3 DEF Dispatch
    <3>2. CASE flag
      <4>1. StartNext
        BY <2>3, <3>2 DEF Dispatch
      <4>2. Same /\ (queue' # <<>> => busy')
        BY <2>1, <3>1, <4>1, StartKeeps
      <4> QED
        BY <2>1, <3>1, <4>2 DEF QueueInv
    <3>3. CASE ~flag
      <4>1. UNCHANGED <<busy, pages>>
        BY <2>3, <3>3 DEF Dispatch
      <4>2. busy \/ queue = <<>>
        BY <3>3 DEF QueueInv
      <4> QED
        BY <2>1, <3>1, <4>1, <4>2 DEF QueueInv, Same, Newest, Second
    <3> QED BY <3>2, <3>3
  <2>4. CASE SubmitWaits
    <3>1. UNCHANGED queue /\ StartNext
      BY <2>4 DEF SubmitWaits
    <3>2. Same /\ (queue' # <<>> => busy')
      BY <2>1, <3>1, StartKeeps
    <3> QED
      BY <2>1, <3>1, <3>2 DEF QueueInv
  <2>5. ASSUME UNCHANGED <<queue, busy, flag, pages>>, ~Dispatch
        PROVE  QueueInv' /\ Same
    <3>1. host \in {"deliver", "dispatch"} => host' \in {"deliver", "dispatch"}
      BY <2>5, DispatchFollows
    <3> QED
      BY <2>1, <2>5, <3>1 DEF QueueInv, Same, Newest, Second
  <2>6. CASE GraphicsReady \/ BlankEnds
    <3>1. UNCHANGED <<queue, busy, flag, pages>> /\ ~Dispatch
      BY <2>6 DEF GraphicsReady, BlankEnds, Dispatch
    <3> QED BY <2>5, <3>1
  <2>7. CASE UNCHANGED gpu /\ ~Dispatch
    BY <2>5, <2>7
  <2> QED
    BY <1>4, <2>2, <2>3, <2>4, <2>6, <2>7, RingActions
<1> QED
  BY <1>2, <1>3, <1>4

-----------------------------------------------------------------------------
(* The scene's program.                                                     *)

\* Which steps are outside the program and leave it alone.
LEMMA HostLeavesProgram ==
  ASSUME [Next]_vars, ~Frames, ~Scene, ~Outside
  PROVE  /\ UNCHANGED <<left, tiles, picture, played, stream, revealed, fence>>
         /\ ~Submit
         /\ \/ UNCHANGED <<at, step>>
            \/ at' \in {"graphics", "init", "begin", "sync"} /\ step' = "draw"
<1>1. CASE Poll \/ NoEdge \/ GpuWaits \/ Deliver \/ Dispatch \/ FencePresents \/ FenceWaits
           \/ FencePasses \/ Show \/ ShowAgain \/ Pumped \/ Fails \/ PumpReturns
  BY <1>1 DEF Frames, Submit, Poll, NoEdge, GpuWaits, Deliver, Dispatch, FencePresents,
     FenceWaits, FencePasses, Show, ShowAgain, Pumped, Fails, PumpReturns
<1>2. CASE Begin \/ HandsOff \/ Ticks
  BY <1>2 DEF Frames, Submit, Begin, HandsOff, Ticks, StartsInit, StartsScene, Start
<1>3. CASE Throw \/ SampleEdge \/ GpuCompletes \/ Destroy \/ Stopped \/ UNCHANGED vars
  BY <1>3 DEF Frames, Submit, Throw, SampleEdge, GpuCompletes, Destroy, Stopped, vars
<1> QED
  BY <1>1, <1>2, <1>3 DEF Next, Host

\* A step of the code itself finds the task running, and is no start of a task.
LEMMA CodeRuns ==
  ASSUME Frames \/ Scene \/ Outside
  PROVE  Running /\ ~Begin
BY DEF Begin, Frames, BlankWaits, BlankEnds, SubmitWaits, TransitionDraws, PreLoopDraws,
   PlayDraws, Draw, TransitionSubmits, PreLoopSubmits, PlaySubmits, Submits, Scene,
   Outside, GraphicsWaits, GraphicsReady, Waits, SceneBegins, TransitionReturns,
   EnterGame, EntryPresented, StreamReleased, SceneReturns, SyncReturns, InitReturns,
   MovieEnds, StreamOpens, PreLoopEnds, GameEnds

LEMMA TransitionNext ==
  ASSUME TypeOK, PlaceInv, TransitionInv, AwaitInv, [Next]_vars,
         Submit => Shifted, ~Submit /\ ~Begin => Same
  PROVE  TransitionInv'
<1> USE DEF TransitionInv, Transitions, PlaceInv
<1>0. ProgramType
  BY TypeParts
<1>1. CASE BlankWaits \/ BlankEnds \/ SubmitWaits
  <2>1. ~Submit /\ ~Begin
    BY <1>1, CodeRuns DEF BlankWaits, BlankEnds, SubmitWaits, Submit, TransitionSubmits,
       PreLoopSubmits, PlaySubmits, Submits, Reveal, Await, Frames
  <2> QED
    BY <1>1, <2>1 DEF BlankWaits, BlankEnds, SubmitWaits, Same
<1>2. CASE TransitionDraws
  <2>1. ~Submit /\ ~Begin
    BY <1>2, CodeRuns DEF TransitionDraws, Draw, Submit, TransitionSubmits,
       PreLoopSubmits, PlaySubmits, Submits, Frames
  <2>2. /\ left' = left - 1 /\ at' = at /\ step' = "blank" /\ step = "draw"
        /\ picture' = IF left > Final THEN "part" ELSE "last"
        /\ at \in Transitions
    BY <1>2 DEF TransitionDraws, Draw
  <2> QED
    BY <1>0, <2>1, <2>2, SceneNumbers DEF Same, ProgramType
<1>3. CASE PreLoopDraws \/ PlayDraws
  BY <1>3 DEF PreLoopDraws, PlayDraws, Draw
<1>4. CASE TransitionSubmits
  <2>1. /\ UNCHANGED <<at, left>> /\ step' \in {"draw", "await"} /\ step = "submit"
        /\ at \in Transitions
    BY <1>4 DEF TransitionSubmits, Submits, Await
  <2> QED
    BY <1>4, <2>1 DEF Submit, Shifted
<1>5. CASE PreLoopSubmits \/ PlaySubmits
  BY <1>5 DEF PreLoopSubmits, PlaySubmits, Submits
<1>6. CASE TransitionReturns
  <2>1. ~Submit /\ ~Begin
    BY <1>6, CodeRuns DEF TransitionReturns, Submit, TransitionSubmits,
       PreLoopSubmits, PlaySubmits, Submits, Scene
  <2>2. at \in Transitions /\ step = "await" /\ Second = "last"
    BY <1>6 DEF TransitionReturns, AwaitInv, AwaitedPicture
  <2>3. /\ step' = "draw"
        /\ \/ at' \in {"movie", "entry", "end"}
           \/ at' \in Transitions /\ left' = Loop + Final
    BY <1>6 DEF TransitionReturns, Follows, Transition
  <2> QED
    BY <2>1, <2>2, <2>3, SceneNumbers DEF Same
<1>7. CASE SceneBegins \/ MovieEnds \/ GameEnds
  <2>1. /\ step' = "draw" /\ fence' = fence
        /\ \/ at' = "entry" /\ ~fence
           \/ at' \in Transitions /\ left' = Loop + Final
    BY <1>7 DEF SceneBegins, MovieEnds, GameEnds, Transition
  <2> QED
    BY <2>1, SceneNumbers
<1>8. CASE EnterGame
  <2>1. at' \in {"entry", "open"} /\ fence' = FALSE
    BY <1>8 DEF EnterGame, Await
  <2> QED BY <2>1
<1>9. CASE EntryPresented \/ StreamOpens \/ StreamReleased \/ PreLoopEnds
  BY <1>9 DEF EntryPresented, StreamOpens, StreamReleased, PreLoopEnds
<1>10. CASE GraphicsWaits \/ GraphicsReady \/ Waits \/ SceneReturns \/ SyncReturns
            \/ InitReturns
  BY <1>10 DEF GraphicsWaits, GraphicsReady, Waits, SceneReturns, SyncReturns, InitReturns
<1>11. ASSUME ~Frames, ~Scene, ~Outside PROVE TransitionInv'
  <2>1. CASE UNCHANGED <<at, step>>
    <3>1. CASE Begin
      BY <2>1, <3>1 DEF Begin, Start
    <3> QED
      BY <1>11, <2>1, <3>1, HostLeavesProgram DEF Same
  <2>2. CASE at' \in {"graphics", "init", "begin", "sync"}
    BY <2>2
  <2> QED
    BY <1>11, <2>1, <2>2, HostLeavesProgram
<1> QED
  BY <1>1, <1>2, <1>3, <1>4, <1>5, <1>6, <1>7, <1>8, <1>9, <1>10, <1>11
     DEF Frames, Scene, Outside

LEMMA PreLoopNext ==
  ASSUME TypeOK, PlaceInv, RunningInv, PreLoopInv, [Next]_vars,
         Submit => Shifted, ~Submit /\ ~Begin => Same
  PROVE  PreLoopInv'
<1> USE DEF PreLoopInv
<1>0. ProgramType
  BY TypeParts
<1>1. CASE BlankWaits \/ BlankEnds \/ SubmitWaits
  <2>1. ~Submit /\ ~Begin
    BY <1>1, CodeRuns DEF BlankWaits, BlankEnds, SubmitWaits, Submit, TransitionSubmits,
       PreLoopSubmits, PlaySubmits, Submits, Reveal, Await, Frames
  <2> QED
    BY <1>1, <2>1 DEF BlankWaits, BlankEnds, SubmitWaits, Same
<1>2. CASE PreLoopDraws
  <2>1. ~Submit /\ ~Begin
    BY <1>2, CodeRuns DEF PreLoopDraws, Draw, Submit, TransitionSubmits,
       PreLoopSubmits, PlaySubmits, Submits, Frames
  <2>2. /\ left' = left - 1 /\ at' = "preloop" /\ step' = "blank" /\ step = "draw"
        /\ picture' = IF tiles = 0 THEN "clear" ELSE "tiles"
        /\ tiles' = IF tiles = 0 THEN 0 ELSE tiles - 1
        /\ at = "preloop" /\ UNCHANGED <<stream, revealed>>
    BY <1>2 DEF PreLoopDraws, Draw
  <2> QED
    BY <1>0, <2>1, <2>2, SceneNumbers DEF Same, ProgramType
<1>3. CASE TransitionDraws \/ PlayDraws \/ TransitionSubmits \/ PlaySubmits
  BY <1>3 DEF TransitionDraws, PlayDraws, Draw, TransitionSubmits, PlaySubmits, Submits,
     Await, Transitions
<1>4. CASE PreLoopSubmits
  <2>1. /\ at = "preloop" /\ at' = "preloop" /\ step = "submit"
        /\ UNCHANGED <<left, tiles, picture, stream>> /\ Reveal
    BY <1>4 DEF PreLoopSubmits, Submits
  <2>2. CASE stream = "held"
    <3>1. /\ revealed' = IF picture = "clear" THEN revealed + 1 ELSE 0
          /\ step' = IF revealed' < 2 THEN "draw" ELSE "await"
      BY <2>1, <2>2 DEF Reveal, Await
    <3>2. Newest' = picture
      BY <1>4 DEF Submit, Shifted
    <3> QED
      BY <1>0, <2>1, <2>2, <3>1, <3>2, SceneNumbers DEF ProgramType
  <2> QED
    BY <2>1, <2>2
<1>5. CASE EnterGame
  <2>1. revealed' = 0 /\ at' \in {"entry", "open"}
    BY <1>5 DEF EnterGame, Await
  <2> QED BY <2>1
<1>6. CASE EntryPresented
  BY <1>6 DEF EntryPresented
<1>7. CASE StreamOpens
  <2>1. /\ revealed = 0 /\ revealed' = 0 /\ at' = "preloop" /\ step' = "draw"
        /\ left' = PreLoop /\ tiles' = Tiles
    BY <1>7 DEF StreamOpens
  <2> QED
    BY <2>1, SceneNumbers
<1>8. CASE StreamReleased
  BY <1>8 DEF StreamReleased
<1>9. CASE SceneBegins \/ TransitionReturns \/ MovieEnds \/ PreLoopEnds \/ GameEnds
  BY <1>9 DEF SceneBegins, TransitionReturns, MovieEnds, PreLoopEnds, GameEnds, Follows,
     Transition
<1>10. CASE GraphicsWaits \/ GraphicsReady \/ Waits \/ SceneReturns \/ SyncReturns
            \/ InitReturns
  <2>1. ~Submit /\ ~Begin /\ UNCHANGED <<program, entry>>
    BY <1>10, CodeRuns DEF GraphicsWaits, GraphicsReady, Waits, SceneReturns, SyncReturns,
       InitReturns, Submit, TransitionSubmits, PreLoopSubmits, PlaySubmits, Submits,
       Transitions, Scene, Outside
  <2> QED
    BY <2>1 DEF Same
<1>11. ASSUME ~Frames, ~Scene, ~Outside PROVE PreLoopInv'
  <2>1. CASE UNCHANGED <<at, step>>
    <3>1. CASE Begin
      BY <2>1, <3>1 DEF Begin, Start
    <3> QED
      BY <1>11, <2>1, <3>1, HostLeavesProgram DEF Same
  <2>2. CASE at' \in {"graphics", "init", "begin", "sync"}
    BY <2>2
  <2> QED
    BY <1>11, <2>1, <2>2, HostLeavesProgram
<1> QED
  BY <1>1, <1>2, <1>3, <1>4, <1>5, <1>6, <1>7, <1>8, <1>9, <1>10, <1>11
     DEF Frames, Scene, Outside

LEMMA RunningNext ==
  ASSUME TypeOK, PlaceInv, PreLoopInv, AwaitInv, RunningInv, StreamAfterReveal,
         [Next]_vars, Submit => Shifted, ~Submit /\ ~Begin => Same
  PROVE  RunningInv'
<1> USE DEF RunningInv, GamePictures
<1>0. ProgramType
  BY TypeParts
<1>1. CASE BlankWaits \/ BlankEnds \/ SubmitWaits
  <2>1. ~Submit /\ ~Begin
    BY <1>1, CodeRuns DEF BlankWaits, BlankEnds, SubmitWaits, Submit, TransitionSubmits,
       PreLoopSubmits, PlaySubmits, Submits, Reveal, Await, Frames
  <2> QED
    BY <1>1, <2>1 DEF BlankWaits, BlankEnds, SubmitWaits, Same
<1>2. CASE PreLoopDraws \/ PlayDraws
  <2>1. ~Submit /\ ~Begin
    BY <1>2, CodeRuns DEF PreLoopDraws, PlayDraws, Draw, Submit, TransitionSubmits,
       PreLoopSubmits, PlaySubmits, Submits, Frames
  <2> QED
    BY <1>2, <2>1 DEF PreLoopDraws, PlayDraws, Draw, Same
<1>3. CASE TransitionDraws \/ TransitionSubmits
  BY <1>3 DEF TransitionDraws, Draw, TransitionSubmits, Submits, Await, Transitions
<1>4. CASE PreLoopSubmits
  <2>1. /\ UNCHANGED <<at, tiles, stream, picture>> /\ step = "submit"
        /\ step' = "draw" \/ stream = "held"
    BY <1>4 DEF PreLoopSubmits, Submits, Reveal
  <2> QED
    BY <1>4, <2>1 DEF Submit, Shifted
<1>5. CASE PlaySubmits
  <2>1. UNCHANGED <<at, tiles, stream, picture>> /\ step = "submit" /\ step' = "draw"
    BY <1>5 DEF PlaySubmits, Submits
  <2> QED
    BY <1>5, <2>1 DEF Submit, Shifted
<1>6. CASE EnterGame
  <2>1. stream' = "armed" /\ at' \in {"entry", "open"}
    BY <1>6 DEF EnterGame, Await
  <2> QED BY <2>1
<1>7. CASE StreamReleased
  <2>1. ~Submit /\ ~Begin
    BY <1>7, CodeRuns DEF StreamReleased, Submit, TransitionSubmits,
       PreLoopSubmits, PlaySubmits, Submits, Scene
  <2>2. /\ at = "preloop" /\ at' = "preloop" /\ step = "await" /\ step' = "draw"
        /\ tiles' = tiles
    BY <1>7 DEF StreamReleased
  <2>3. Second = "clear" /\ Newest = "clear" /\ tiles = 0
    BY <2>2 DEF AwaitInv, AwaitedPicture, PreLoopInv
  <2> QED
    BY <2>1, <2>2, <2>3, <1>7 DEF StreamReleased, Same
<1>8. CASE StreamOpens \/ GameEnds
  BY <1>8 DEF StreamOpens, GameEnds, Transition, Transitions
<1>9. CASE PreLoopEnds
  <2>1. ~Submit /\ ~Begin
    BY <1>9, CodeRuns DEF PreLoopEnds, Submit, TransitionSubmits,
       PreLoopSubmits, PlaySubmits, Submits, Outside
  <2> QED
    BY <1>9, <2>1 DEF PreLoopEnds, Same
<1>10. CASE SceneBegins \/ TransitionReturns \/ MovieEnds \/ EntryPresented
  BY <1>10 DEF SceneBegins, TransitionReturns, MovieEnds, EntryPresented, Follows,
     Transition, Transitions
<1>11. CASE GraphicsWaits \/ GraphicsReady \/ Waits \/ SceneReturns \/ SyncReturns
            \/ InitReturns
  BY <1>11 DEF GraphicsWaits, GraphicsReady, Waits, SceneReturns, SyncReturns, InitReturns
<1>12. ASSUME ~Frames, ~Scene, ~Outside PROVE RunningInv'
  <2>1. CASE Begin
    BY <1>12, <2>1, HostLeavesProgram DEF Begin, Start, PlaceInv
  <2>2. CASE UNCHANGED <<at, step>> /\ ~Begin
    BY <1>12, <2>2, HostLeavesProgram DEF Same
  <2>3. CASE at' \in {"graphics", "init", "begin", "sync"} /\ ~UNCHANGED <<at, step>>
    <3>1. Begin \/ HandsOff \/ Ticks
      BY <1>12, <2>3 DEF Next, Host, Poll, NoEdge, GpuWaits, Deliver, Dispatch,
         FencePresents, FenceWaits, FencePasses, Show, ShowAgain, Pumped, Fails,
         PumpReturns, Throw, SampleEdge, GpuCompletes, Destroy, Stopped, vars
    <3>2. stream # "running"
      BY <3>1 DEF Begin, HandsOff, Ticks, StartsInit, StartsScene, Completed, PlaceInv
    <3> QED
      BY <1>12, <2>3, <3>2, HostLeavesProgram
  <2> QED
    BY <1>12, <2>1, <2>2, <2>3, HostLeavesProgram
<1> QED
  BY <1>1, <1>2, <1>3, <1>4, <1>5, <1>6, <1>7, <1>8, <1>9, <1>10, <1>11, <1>12
     DEF Frames, Scene, Outside

-----------------------------------------------------------------------------
(* What is on the screen.                                                   *)

\* A presentation shows one of the last two pictures, with nothing left to draw.
LEMMA PresentsLast ==
  ASSUME RingType, QueueInv, host \notin {"deliver", "dispatch"}, NEW next,
         PresentIfReady(next)
  PROVE  /\ ~Presentable => UNCHANGED <<screen, requested, fenced>>
         /\ Presentable => /\ ~acknowledged /\ queue = <<>>
                           /\ screen' = IF step = "submit" THEN Newest ELSE Second
                           /\ fenced' = IF fenced = "asked" THEN "shown" ELSE fenced
<1>1. ASSUME Presentable PROVE queue = <<>>
  BY <1>1 DEF Presentable, QueueInv
<1>2. ASSUME queue = <<>>
      PROVE  pages[front] = IF step = "submit" THEN Newest ELSE Second
  <2>1. Len(queue) < 2
    BY <1>2
  <2>2. 1 - (1 - front) = front
    BY DEF RingType
  <2> QED
    BY <1>2, <2>1, <2>2 DEF Newest, Second, LastPage
<1> QED
  BY <1>1, <1>2 DEF PresentIfReady, Presentable

\* Everything but a presentation leaves the screen alone.
Presents == FencePresents \/ Show \/ ShowAgain
LEMMA ScreenKept == [Next]_vars => Presents \/ screen' = screen
<1> SUFFICES ASSUME [Next]_vars PROVE Presents \/ screen' = screen
  OBVIOUS
<1>1. CASE Frames
  BY <1>1 DEF Frames, BlankWaits, BlankEnds, SubmitWaits, TransitionDraws, PreLoopDraws,
     PlayDraws, Draw, TransitionSubmits, PreLoopSubmits, PlaySubmits, Submits, Reveal, Await
<1>2. CASE Scene \/ Outside
  BY <1>2 DEF Scene, Outside, GraphicsWaits, GraphicsReady, Waits, SceneBegins,
     TransitionReturns, EnterGame, EntryPresented, StreamReleased, SceneReturns,
     SyncReturns, InitReturns, MovieEnds, StreamOpens, PreLoopEnds, GameEnds, Await
<1>3. CASE Host \/ Ticks
  BY <1>3 DEF Presents, Host, Ticks, Poll, NoEdge, GpuWaits, Deliver, Dispatch, FenceWaits,
     FencePasses, Begin, Pumped, HandsOff, Fails, PumpReturns, StartsInit, StartsScene,
     Start
<1>4. CASE Throw \/ SampleEdge \/ GpuCompletes \/ Destroy \/ Stopped \/ UNCHANGED vars
  BY <1>4 DEF Throw, SampleEdge, GpuCompletes, Destroy, Stopped, vars
<1> QED
  BY <1>1, <1>2, <1>3, <1>4 DEF Next

LEMMA AwaitNext ==
  ASSUME TypeOK, QueueInv, TurnInv, PlaceInv, TransitionInv, PreLoopInv, AwaitInv,
         [Next]_vars, Submit => Shifted, ~Submit /\ ~Begin => Same
  PROVE  AwaitInv'
<1> USE DEF AwaitInv, AwaitedPicture
<1>0. ProgramType /\ RingType /\ ScreenType /\ TaskType
  BY TypeParts
<1>1. CASE Frames
  <2>1. ~acknowledged /\ ~acknowledged'
    BY <1>1, CodeRuns DEF Running, Quiet, Frames, BlankWaits, BlankEnds, SubmitWaits,
       TransitionDraws, PreLoopDraws, PlayDraws, Draw, TransitionSubmits, PreLoopSubmits,
       PlaySubmits, Submits, Reveal, Await
  <2>2. CASE TransitionSubmits
    <3>1. /\ at' = at /\ at \in Transitions /\ step = "submit"
          /\ \/ step' = "draw"
             \/ ~(left > 0) /\ fenced' = "asked" /\ state' = "waiting"
      BY <2>2 DEF TransitionSubmits, Submits, Await
    <3>2. ~(left > 0) => Newest = "last"
      BY <1>0, <3>1, SceneNumbers DEF ProgramType, TransitionInv
    <3>3. Second' = Newest
      BY <2>2 DEF Submit, Shifted
    <3> QED
      BY <2>1, <3>1, <3>2, <3>3 DEF Transitions
  <2>3. CASE PreLoopSubmits
    <3>1. /\ at' = at /\ at = "preloop" /\ step = "submit"
          /\ \/ step' = "draw"
             \/ /\ stream = "held" /\ picture = "clear" /\ ~(revealed + 1 < 2)
                /\ fenced' = "asked" /\ state' = "waiting"
      BY <2>3 DEF PreLoopSubmits, Submits, Reveal, Await
    <3>2. step' # "draw" => Newest = "clear"
      BY <1>0, <3>1 DEF ProgramType, PreLoopInv
    <3>3. Second' = Newest
      BY <2>3 DEF Submit, Shifted
    <3> QED
      BY <2>1, <3>1, <3>2, <3>3
  <2>4. CASE BlankWaits \/ BlankEnds \/ SubmitWaits \/ TransitionDraws \/ PreLoopDraws
             \/ PlayDraws \/ PlaySubmits
    <3>1. step' # "await"
      BY <2>4 DEF BlankWaits, BlankEnds, SubmitWaits, TransitionDraws, PreLoopDraws,
         PlayDraws, Draw, PlaySubmits, Submits
    <3> QED
      BY <2>1, <3>1
  <2> QED
    BY <1>1, <2>2, <2>3, <2>4 DEF Frames
<1>2. CASE Scene \/ Outside
  <2>1. ~acknowledged /\ ~acknowledged'
    BY <1>2, CodeRuns DEF Running, Quiet, Scene, Outside, GraphicsWaits, GraphicsReady,
       Waits, SceneBegins, TransitionReturns, EnterGame, EntryPresented, StreamReleased,
       SceneReturns, SyncReturns, InitReturns, MovieEnds, StreamOpens, PreLoopEnds,
       GameEnds, Await
  <2>2. CASE EnterGame
    <3>1. /\ at = "entry" /\ step = "draw"
          /\ \/ at' = "open" /\ step' = "draw"
             \/ fence /\ at' = "entry" /\ fenced' = "asked" /\ state' = "waiting"
      BY <2>2 DEF EnterGame, Await
    <3>2. ~Submit /\ ~Begin
      BY <2>2, <3>1, CodeRuns DEF Submit, TransitionSubmits, PreLoopSubmits, PlaySubmits,
         Submits, Scene
    <3>3. fence => Second = "last"
      BY <3>1 DEF TransitionInv
    <3> QED
      BY <2>1, <3>1, <3>2, <3>3 DEF Same
  <2>3. CASE Scene /\ ~EnterGame
    <3>1. step' # "await"
      BY <2>3 DEF Scene, GraphicsWaits, GraphicsReady, Waits, SceneBegins,
         TransitionReturns, EntryPresented, StreamReleased, SceneReturns,
         SyncReturns, Follows, Transition, PlaceInv, Transitions
    <3> QED
      BY <2>1, <3>1
  <2>4. CASE Outside
    <3>1. step' # "await"
      BY <2>4 DEF Outside, InitReturns, MovieEnds, StreamOpens, PreLoopEnds, GameEnds,
         Transition, PlaceInv, Transitions
    <3> QED
      BY <2>1, <3>1
  <2> QED
    BY <1>2, <2>2, <2>3, <2>4
<1>3. ASSUME ~Frames, ~Scene, ~Outside PROVE AwaitInv'
  <2>0. ~Submit
    BY <1>3, HostLeavesProgram
  <2>1. CASE Begin \/ HandsOff \/ Ticks
    <3>1. step' = "draw" /\ acknowledged' = acknowledged /\ ~Quiet /\ host # "gone"
      BY <2>1 DEF Begin, HandsOff, Ticks, StartsInit, StartsScene, Start, Completed, Quiet,
         PlaceInv
    <3> QED BY <3>1
  <2>2. CASE FencePresents
    <3>1. /\ Quiet /\ host = "fence" /\ host' = "after" /\ ~acknowledged
          /\ UNCHANGED <<at, step, queue, state, kind>>
          /\ acknowledged' = Presentable /\ due' = (due \/ Presentable)
      BY <2>2 DEF TurnInv, FencePresents, PresentIfReady
    <3>2. step = "await" /\ fenced # "no" /\ Second = AwaitedPicture
      BY <3>1 DEF TurnInv, Quiet
    <3>3. Second' = Second
      BY <2>0, <3>1, CodeRuns DEF Same, Begin
    <3>4. /\ ~Presentable => UNCHANGED <<screen, requested, fenced>>
          /\ Presentable => /\ queue = <<>> /\ screen' = Second
                            /\ fenced' = IF fenced = "asked" THEN "shown" ELSE fenced
      BY <1>0, <2>2, <3>1, <3>2, PresentsLast DEF FencePresents
    <3>5. Presentable => fenced' \in {"shown", "passed"}
      BY <1>0, <3>2, <3>4 DEF ScreenType
    <3>6. fenced' # "no"
      BY <3>2, <3>4
    <3>7. Quiet'
      BY <3>1 DEF Quiet
    <3>8. state' # "running"
      BY <3>1 DEF Quiet
    <3> QED
      BY <3>1, <3>2, <3>3, <3>4, <3>5, <3>6, <3>7, <3>8
  <2>3. CASE Show \/ ShowAgain
    <3>1. /\ host \in {"show", "pumped"} /\ state # "running"
          /\ UNCHANGED <<at, step, queue, state, kind, acknowledged, due>> /\ ~Begin
          /\ PresentIfReady("after") \/ PresentIfReady("idle")
      BY <2>3 DEF TurnInv, Show, ShowAgain, Begin
    <3>2. /\ ~Presentable => UNCHANGED <<screen, requested, fenced>>
          /\ Presentable => /\ ~acknowledged
                            /\ fenced' = IF fenced = "asked" THEN "shown" ELSE fenced
      BY <1>0, <3>1, PresentsLast
    <3> QED
      BY <2>0, <3>1, <3>2 DEF Same, Quiet
  <2>4. CASE Poll
    BY <2>0, <2>4 DEF Poll, Begin, Same, Quiet, Resume, TurnInv
  <2>5. CASE FencePasses
    BY <2>0, <2>5 DEF FencePasses, Begin, Same, Resume
  <2>6. CASE SampleEdge
    BY <2>0, <2>6 DEF SampleEdge, Begin, Same, Quiet
  <2>7. CASE GpuCompletes
    <3>1. ~acknowledged
      BY <1>0, <2>7 DEF GpuCompletes, RingType
    <3> QED
      BY <2>0, <2>7, <3>1 DEF GpuCompletes, Begin, Same
  <2>8. CASE Throw \/ Destroy
    BY <2>0, <2>8 DEF Throw, Destroy, Begin, Same, Quiet, TurnInv
  <2>9. CASE NoEdge \/ GpuWaits \/ Deliver \/ Dispatch \/ FenceWaits \/ PumpReturns
    BY <2>0, <2>9 DEF NoEdge, GpuWaits, Deliver, Dispatch, FenceWaits, PumpReturns, Begin,
       Same, Quiet
  <2>10. CASE Pumped \/ Fails
    <3>1. /\ UNCHANGED <<at, step, queue, state, kind, screen, acknowledged, due, fenced>>
          /\ host # "gone" /\ ~Begin
      BY <2>10 DEF PlaceInv, Pumped, Completed, Fails, Begin
    <3> QED
      BY <2>0, <3>1 DEF Same, Quiet
  <2>11. CASE Stopped \/ UNCHANGED vars
    BY <2>11 DEF Stopped, vars, Quiet, Second, LastPage
  <2> QED
    BY <1>3, <2>1, <2>2, <2>3, <2>4, <2>5, <2>6, <2>7, <2>8, <2>9, <2>10, <2>11
       DEF Next, Host
<1> QED
  BY <1>1, <1>2, <1>3

LEMMA StreamNext ==
  ASSUME TypeOK, QueueInv, TurnInv, PlaceInv, PreLoopInv, RunningInv, AwaitInv,
         StreamAfterReveal, [Next]_vars
  PROVE  StreamAfterReveal'
<1> USE DEF StreamAfterReveal
<1>0. ProgramType /\ RingType
  BY TypeParts
<1>1. CASE Presents
  <2>1. /\ UNCHANGED <<at, stream>> /\ host \notin {"deliver", "dispatch"}
        /\ PresentIfReady("after") \/ PresentIfReady("idle")
    BY <1>1 DEF Presents, FencePresents, Show, ShowAgain
  <2>2. screen' \in {screen, Newest, Second}
    BY <1>0, <2>1, PresentsLast
  <2> QED
    BY <2>1, <2>2 DEF RunningInv, GamePictures
<1>2. ASSUME screen' = screen PROVE StreamAfterReveal'
  <2>1. CASE Frames
    BY <1>2, <2>1 DEF Frames, BlankWaits, BlankEnds, SubmitWaits, TransitionDraws,
       PreLoopDraws, PlayDraws, Draw, TransitionSubmits, PreLoopSubmits, PlaySubmits,
       Submits, Reveal, Await
  <2>2. CASE StreamReleased
    <3>1. at = "preloop" /\ at' = "preloop" /\ screen = AwaitedPicture
      BY <2>2 DEF StreamReleased, AwaitInv
    <3> QED
      BY <1>2, <3>1 DEF AwaitedPicture
  <2>3. CASE PreLoopEnds
    <3>1. stream' = stream /\ at = "preloop" /\ step = "draw" /\ (stream = "running" \/ left = 0)
      BY <2>3 DEF PreLoopEnds
    <3>2. stream # "held"
      BY <1>0, <3>1, SceneNumbers DEF PreLoopInv, ProgramType
    <3> QED
      BY <1>2, <3>1, <3>2 DEF RunningInv
  <2>4. CASE Scene /\ ~StreamReleased
    BY <1>2, <2>4 DEF Scene, GraphicsWaits, GraphicsReady, Waits, SceneBegins,
       TransitionReturns, EnterGame, EntryPresented, SceneReturns, SyncReturns, Await,
       Follows, Transition
  <2>5. CASE Outside /\ ~PreLoopEnds
    BY <1>2, <2>5 DEF Outside, InitReturns, MovieEnds, StreamOpens, GameEnds, Transition
  <2>6. ASSUME ~Frames, ~Scene, ~Outside PROVE StreamAfterReveal'
    BY <1>2, <2>6, HostLeavesProgram
  <2> QED
    BY <2>1, <2>2, <2>3, <2>4, <2>5, <2>6
<1> QED
  BY <1>1, <1>2, ScreenKept

-----------------------------------------------------------------------------
LEMMA InvInit == Init => IInv
<1> SUFFICES ASSUME Init PROVE IInv
  OBVIOUS
<1>1. TypeOK
  <2>1. TaskType
    BY DEF Init, TaskType, Runtimes, Hosts
  <2>2. ProgramType
    BY SceneNumbers DEF Init, ProgramType, Places, Pictures
  <2>3. queue \in Seq([page : Pages, picture : Pictures]) /\ Len(queue) <= Slots
    BY EmptySeq, SceneNumbers DEF Init
  <2>4. RingType
    BY <2>3 DEF Init, RingType, Pictures
  <2>5. edges \in 0..MaxEdges /\ until \in 0..2
    BY SceneNumbers DEF Init
  <2>6. ScreenType
    BY <2>5 DEF Init, ScreenType, Pictures
  <2> QED
    BY <2>1, <2>2, <2>4, <2>6, TypeParts
<1>2. QueueInv
  BY DEF Init, QueueInv
<1>3. TurnInv /\ PlaceInv
  BY DEF Init, TurnInv, PlaceInv, Quiet, Framed, Transitions
<1>4. TransitionInv /\ PreLoopInv /\ RunningInv /\ AwaitInv /\ StreamAfterReveal
  BY DEF Init, TransitionInv, PreLoopInv, RunningInv, AwaitInv, StreamAfterReveal,
     Transitions
<1> QED
  BY <1>1, <1>2, <1>3, <1>4 DEF IInv

LEMMA InvNext == IInv /\ [Next]_vars => IInv'
<1> SUFFICES ASSUME IInv, [Next]_vars PROVE IInv'
  OBVIOUS
<1> USE DEF IInv
<1>1. TypeOK' /\ TurnInv' /\ PlaceInv'
  BY TypeNext, TurnNext, PlaceNext
<1>2. QueueInv' /\ (Submit => Shifted) /\ (~Submit /\ ~Begin => Same)
  BY QueueNext
<1>3. TransitionInv' /\ PreLoopInv' /\ RunningInv'
  BY <1>2, TransitionNext, PreLoopNext, RunningNext
<1>4. AwaitInv' /\ StreamAfterReveal'
  BY <1>2, AwaitNext, StreamNext
<1> QED
  BY <1>1, <1>2, <1>3, <1>4

LEMMA SceneInvariant == Spec => []IInv
<1>1. Init => IInv
  BY InvInit
<1>2. IInv /\ [Next]_vars => IInv'
  BY InvNext
<1> QED
  BY <1>1, <1>2, PTL DEF Spec

\* Every variable keeps its type, and the program's code runs exactly when its task
\* is the one the host has resumed.
THEOREM SceneTypes == Spec => []TypeOK
<1>1. IInv => TypeOK
  BY DEF IInv
<1> QED
  BY <1>1, SceneInvariant, PTL

\* From ReleaseStreamStart to the end of the game only pages of the game are on the
\* screen, however late the device draws and whichever of the host's calls presents;
\* and the pre-loop never gives up on a drive still held.
THEOREM StreamRunsAfterReveal == Spec => []StreamAfterReveal
<1>1. IInv => StreamAfterReveal
  BY DEF IInv
<1> QED
  BY <1>1, SceneInvariant, PTL

\* AwaitTransitionPresentation returns only when the wait's own picture is on the
\* screen and an edge was sampled after a presentation that followed the call.
THEOREM WaitsSeeTheirPicture == Spec => AwaitedPictureShown
<1>1. IInv /\ [Next]_vars
        => [Quiet /\ state' = "running" => fenced' = "passed" /\ screen' = AwaitedPicture]_vars
  <2> SUFFICES ASSUME IInv, [Next]_vars, Quiet, state' = "running"
               PROVE  fenced' = "passed" /\ screen' = AwaitedPicture
    OBVIOUS
  <2>1. FencePasses
    <3>1. ~Frames /\ ~Scene /\ ~Outside
      BY CodeRuns DEF Quiet
    <3>2. ~(HandsOff \/ Ticks \/ Begin)
      BY DEF Quiet, HandsOff, Completed, Ticks, StartsInit, StartsScene, Begin, IInv,
         PlaceInv
    <3>3. ~(Poll \/ NoEdge \/ GpuWaits \/ Deliver \/ Dispatch \/ FencePresents
            \/ FenceWaits \/ Show \/ ShowAgain \/ Pumped \/ Fails \/ PumpReturns)
      BY DEF Quiet, Poll, NoEdge, GpuWaits, Deliver, Dispatch, FencePresents, FenceWaits,
         Show, ShowAgain, Pumped, Fails, PumpReturns
    <3>4. ~(Throw \/ SampleEdge \/ GpuCompletes \/ Destroy \/ Stopped \/ UNCHANGED vars)
      BY DEF Quiet, Throw, SampleEdge, GpuCompletes, Destroy, Stopped, vars
    <3> QED
      BY <3>1, <3>2, <3>3, <3>4 DEF Next, Host
  <2> QED
    BY <2>1 DEF FencePasses, IInv, AwaitInv
<1> QED
  BY <1>1, SceneInvariant, PTL DEF Spec, AwaitedPictureShown

-----------------------------------------------------------------------------
(* The program is never stopped by a call: what BeginGameStreamStartup and    *)
(* DrawSync80044B3C(0) need is there whenever the program gets to them.       *)

\* The drive is off outside the game; a wait that ended, and the scene's end, leave
\* nothing to draw; a transition submits its last frame before it waits.
CallInv ==
  /\ stream # "off" =>
       at \in {"open", "preloop", "play"} \/ (at = "entry" /\ step = "await")
  /\ at \in Transitions /\ step = "draw" => left > 0
  /\ step = "await" /\ state = "running" => queue = <<>>
  /\ at \in {"end", "sync"} => queue = <<>>
  /\ runtime = "running" => at \notin {"none", "graphics", "init", "sync"}
  /\ at = "none" => state = "ready"

\* The condition under which the running program has a step to take.
GoesOn ==
  \/ step = "draw" /\ at \in {"graphics", "init", "begin", "movie", "open", "preloop",
                              "play", "end"}
  \/ step = "draw" /\ at = "entry" /\ stream = "off"
  \/ step = "draw" /\ at \in Transitions /\ left > 0
  \/ step = "draw" /\ at = "sync" /\ queue = <<>>
  \/ step \in {"blank", "submit"} /\ at \in Framed
  \/ step = "await" /\ at \in Transitions \cup {"entry", "preloop"}
NothingRefused == host = "run" => GoesOn

LEMMA CallNext == IInv /\ CallInv /\ [Next]_vars => CallInv'
<1> SUFFICES ASSUME IInv, CallInv, [Next]_vars PROVE CallInv'
  OBVIOUS
<1>0. TaskType /\ ProgramType /\ RingType /\ TurnInv /\ PlaceInv /\ AwaitInv
  BY TypeParts DEF IInv
<1> USE DEF CallInv, Transitions, Framed
<1>1. CASE BlankWaits \/ BlankEnds \/ SubmitWaits
  BY <1>0, <1>1 DEF BlankWaits, BlankEnds, SubmitWaits, PlaceInv
<1>2. CASE TransitionDraws \/ PreLoopDraws \/ PlayDraws
  BY <1>0, <1>2 DEF TransitionDraws, PreLoopDraws, PlayDraws, Draw, PlaceInv
<1>3. CASE TransitionSubmits
  <2>1. /\ at \in Transitions /\ step = "submit" /\ state = "running"
        /\ UNCHANGED <<at, left, stream>>
        /\ \/ left > 0 /\ step' = "draw"
           \/ step' = "await" /\ state' = "waiting"
    BY <1>3 DEF TransitionSubmits, Submits, Await
  <2> QED
    BY <2>1
<1>4. CASE PreLoopSubmits \/ PlaySubmits
  <2>1. at \in {"preloop", "play"} /\ UNCHANGED <<at, stream>>
    BY <1>4 DEF PreLoopSubmits, PlaySubmits, Submits
  <2>2. step' = "await" => state' = "waiting"
    BY <1>4 DEF PreLoopSubmits, PlaySubmits, Reveal, Await
  <2> QED
    BY <2>1, <2>2
<1>5. CASE TransitionReturns
  <2>1. /\ at \in Transitions /\ queue = <<>> /\ UNCHANGED <<stream, queue>>
        /\ step' = "draw"
    BY <1>5 DEF TransitionReturns, Follows, Transition
  <2>2. \/ at' \in {"movie", "entry", "end"}
        \/ at' \in Transitions /\ left' = Loop + Final
    BY <1>5 DEF TransitionReturns, Follows, Transition
  <2> QED
    BY <2>1, <2>2, SceneNumbers
<1>6. CASE SceneBegins \/ MovieEnds \/ GameEnds
  <2>1. /\ step' = "draw"
        /\ \/ at' = "entry"
           \/ at' \in Transitions /\ left' = Loop + Final
    BY <1>6 DEF SceneBegins, MovieEnds, GameEnds, Transition
  <2>2. stream' = "off"
    BY <1>6 DEF SceneBegins, MovieEnds, GameEnds
  <2> QED
    BY <2>1, <2>2, SceneNumbers
<1>7. CASE EnterGame
  BY <1>7 DEF EnterGame, Await
<1>8. CASE EntryPresented \/ StreamOpens \/ StreamReleased
  BY <1>8 DEF EntryPresented, StreamOpens, StreamReleased
<1>9. CASE PreLoopEnds
  BY <1>9 DEF PreLoopEnds
<1>10. CASE GraphicsWaits \/ GraphicsReady \/ Waits \/ SceneReturns \/ SyncReturns
            \/ InitReturns
  BY <1>0, <1>10 DEF GraphicsWaits, GraphicsReady, Waits, SceneReturns, SyncReturns,
     InitReturns, Complete, PlaceInv
<1>11. ASSUME ~Frames, ~Scene, ~Outside PROVE CallInv'
  <2>1. CASE Poll \/ NoEdge \/ GpuWaits \/ Deliver \/ Show \/ ShowAgain \/ PumpReturns
             \/ Fails
    BY <1>0, <2>1 DEF Poll, NoEdge, GpuWaits, Deliver, Show, ShowAgain, PumpReturns,
       Fails, Resume, Quiet, TurnInv
  <2>7. CASE Pumped
    BY <1>0, <2>7 DEF Pumped, Completed, AfterTask, PlaceInv
  <2>2. CASE Dispatch \/ FencePresents \/ FenceWaits
    BY <2>2 DEF Dispatch, FencePresents, FenceWaits
  <2>3. CASE FencePasses
    <3>1. queue = <<>> /\ UNCHANGED <<runtime, program, stream, queue>> /\ at # "none"
      BY <1>0, <2>3 DEF FencePasses, AwaitInv, Quiet
    <3> QED
      BY <3>1
  <2>4. CASE Begin \/ Ticks
    <3>1. /\ at' \in {"graphics", "init", "begin"} /\ step' = "draw"
          /\ runtime' = "running" => at' = "begin"
      BY <2>4 DEF Begin, Ticks, StartsInit, StartsScene, Start
    <3>2. at \in {"none", "graphics", "init"} /\ UNCHANGED stream
      BY <1>0, <2>4 DEF Begin, Ticks, StartsInit, StartsScene, Start, PlaceInv
    <3> QED
      BY <3>1, <3>2
  <2>5. CASE HandsOff
    <3>1. at' = "sync" /\ step' = "draw" /\ runtime' # "running"
          /\ UNCHANGED <<stream, queue>>
      BY <2>5 DEF HandsOff, Start, AfterTask
    <3>2. at = "end"
      BY <1>0, <2>5 DEF HandsOff, Completed, PlaceInv
    <3> QED
      BY <3>1, <3>2
  <2>6. CASE Throw \/ SampleEdge \/ GpuCompletes \/ Destroy \/ Stopped \/ UNCHANGED vars
    BY <1>0, <2>6 DEF Throw, SampleEdge, GpuCompletes, Destroy, Stopped, vars, RingType
  <2> QED
    BY <1>11, <2>1, <2>2, <2>3, <2>4, <2>5, <2>6, <2>7 DEF Next, Host
<1> QED
  BY <1>1, <1>2, <1>3, <1>4, <1>5, <1>6, <1>7, <1>8, <1>9, <1>10, <1>11
     DEF Frames, Scene, Outside

\* Whenever the program runs it can go on: the game is entered with the drive off
\* (HoldNextStreamStart refuses any other), the hand-off finds an idle device, and no
\* transition runs out of frames before its wait.  With the fairness of the waits
\* this is why SessionEnds holds.
THEOREM SceneNeverRefused == Spec => []NothingRefused
<1>1. Init => CallInv
  BY DEF Init, CallInv, Transitions
<1>2. IInv /\ CallInv /\ [Next]_vars => CallInv'
  BY CallNext
<1>3. IInv /\ CallInv => NothingRefused
  <2> SUFFICES ASSUME IInv, CallInv, host = "run" PROVE GoesOn
    BY DEF NothingRefused
  <2>1. state = "running" /\ at \in Places /\ step \in {"draw", "blank", "submit", "await"}
    BY DEF IInv, TypeOK
  <2>2. /\ step \in {"blank", "submit"} => at \in Framed
        /\ step = "await" => at \in Transitions \cup {"entry", "preloop"}
    BY DEF IInv, PlaceInv
  <2> QED
    BY <2>1, <2>2 DEF CallInv, GoesOn, Places, Framed
<1> QED
  BY <1>1, <1>2, <1>3, SceneInvariant, PTL DEF Spec
==============================================================================
