------------------------- MODULE MovieSession_proofs -------------------------
(***************************************************************************)
(* Proofs about MovieSession: its types, that what DMA channel 3 carries   *)
(* lands in the ring of the movie that is allocated, and that the codec    *)
(* never refuses, for every number of movies and every length of the       *)
(* waits; and that the screen follows the movie when a device wait takes   *)
(* at most one VBlank.                                                     *)
(***************************************************************************)
EXTENDS MovieSession, TLAPS

USE MoviesAssumption, BlanksAssumption

\* The drive writes only between the opening of a movie and its stop.
RingOwned ==
  /\ at # "away" => owned
  /\ listening => at \notin {"away", "tables"}
  /\ transfer # 0 => listening /\ transfer = movie

\* A queued job belongs to the movie that is set up, whose control block says
\* so; none is left when the next movie is set up, since the first pass after a
\* stop gives it a deadline and the edge after that serves it.
JobKnown ==
  /\ phase # "faulted"
  /\ phase = "queued" => busy /\ held /\ job = movie
  /\ at \in {"tables", "opening"} => phase # "queued"
  /\ (at = "away" /\ phase = "queued") =>
        \/ due = None /\ wait = AwayBlanks
        \/ due = 1 /\ wait >= AwayBlanks - 1

IInv == TypeOK /\ RingOwned /\ JobKnown

\* The decoder's step, whatever the control block kept of the job before.
LEMMA DecodeKeeps ==
  ASSUME TypeOK, phase \notin {"queued", "faulted"}, NEW owed \in BOOLEAN,
         DecodeFrame(owed)
  PROVE  /\ job' \in 0 .. Movies /\ {busy', held'} \subseteq BOOLEAN
         /\ phase' \in {"empty", "queued", "delivered"}
         /\ phase' = "queued" => busy' /\ held' /\ job' = movie
  BY DEF DecodeFrame, TypeOK

LEMMA DecodeIfReadyKeeps ==
  ASSUME IInv, DecodeIfReady
  PROVE  /\ job' \in 0 .. Movies /\ {busy', held'} \subseteq BOOLEAN
         /\ phase' \in {"empty", "queued", "delivered"}
         /\ phase' = "queued" => busy' /\ held' /\ job' = movie
         /\ count' \in 0 .. 2
<1>1. CASE busy /\ held
  BY <1>1 DEF DecodeIfReady, IInv, TypeOK, JobKnown, codecVars
<1>2. CASE ~(busy /\ held)
  <2>1. phase \notin {"queued", "faulted"} /\ busy \in BOOLEAN
    BY <1>2 DEF IInv, JobKnown, TypeOK
  <2>2. DecodeFrame(busy) /\ count' = IF held' THEN Taken ELSE count
    BY <1>2 DEF DecodeIfReady, DecodeNext
  <2>3. count' \in 0 .. 2
    BY <2>2 DEF IInv, TypeOK, Taken
  <2> QED
    BY <2>1, <2>2, <2>3, DecodeKeeps DEF IInv
<1> QED
  BY <1>1, <1>2

LEMMA InitInv == Init => IInv
<1> SUFFICES ASSUME Init PROVE IInv
  OBVIOUS
<1>1. at \in Waits /\ wait \in Nat /\ phase = "empty" /\ count \in 0 .. 2
  BY DEF Init, Waits
<1>2. /\ movie \in 0 .. Movies /\ image \in 0 .. Movies
      /\ job \in 0 .. Movies /\ transfer \in 0 .. Movies
  BY DEF Init
<1>3. due \in None .. Period
  BY DEF Init, None, Period
<1>4. {since, owned, listening, configured, received, busy, held, callback,
       fresh} \subseteq BOOLEAN
  BY DEF Init
<1>5. TypeOK
  BY <1>1, <1>2, <1>3, <1>4 DEF TypeOK
<1>6. RingOwned /\ JobKnown
  BY DEF Init, RingOwned, JobKnown
<1> QED
  BY <1>5, <1>6 DEF IInv

\* Allocate needs the wait to be over, so no job is left by then.
LEMMA AllocateInv == IInv /\ Allocate => IInv'
<1> SUFFICES ASSUME IInv, Allocate PROVE IInv'
  OBVIOUS
<1>1. phase # "queued"
  BY DEF IInv, TypeOK, JobKnown, Allocate, None
<1>2. TypeOK'
  <2>1. /\ at' = "tables" /\ movie' \in 0 .. Movies /\ image' \in 0 .. Movies
        /\ {owned', busy', held', fresh'} \subseteq BOOLEAN
        /\ UNCHANGED <<listening, configured, count, callback, job, phase,
                       transfer, received, wait, since, due>>
    <3>1. /\ movie < Movies /\ movie \in 0 .. Movies /\ Movies \in Nat
          /\ movie' = movie + 1 /\ image' = 0
      BY DEF IInv, TypeOK, Allocate
    <3>2. movie' \in 0 .. Movies /\ image' \in 0 .. Movies
      BY <3>1
    <3>3. {owned', busy', held', fresh'} \subseteq BOOLEAN
      BY DEF Allocate
    <3> QED
      BY <3>2, <3>3 DEF Allocate, driveVars, clockVars
  <2> QED
    BY <2>1 DEF IInv, TypeOK, Waits
<1>3. RingOwned'
  BY DEF IInv, TypeOK, RingOwned, Allocate, driveVars
<1>4. JobKnown'
  BY <1>1 DEF IInv, JobKnown, Allocate
<1> QED
  BY <1>2, <1>3, <1>4 DEF IInv

LEMMA SetupInv == IInv /\ (SetRing \/ Start) => IInv'
<1> SUFFICES ASSUME IInv, SetRing \/ Start PROVE IInv'
  OBVIOUS
<1>1. CASE SetRing
  BY <1>1 DEF IInv, TypeOK, RingOwned, JobKnown, SetRing, Waits, codecVars,
              clockVars
<1>2. CASE Start
  <2>1. TypeOK'
    BY <1>2 DEF IInv, TypeOK, Start, Waits, codecVars, driveVars, clockVars
  <2>2. RingOwned'
    BY <1>2 DEF IInv, TypeOK, RingOwned, Start, driveVars
  <2>3. JobKnown'
    BY <1>2 DEF IInv, JobKnown, Start, codecVars, clockVars
  <2> QED
    BY <2>1, <2>2, <2>3 DEF IInv
<1> QED
  BY <1>1, <1>2

LEMMA InitializeDecoderInv == IInv /\ InitializeDecoder => IInv'
<1> SUFFICES ASSUME IInv, InitializeDecoder PROVE IInv'
  OBVIOUS
<1>1. phase \notin {"queued", "faulted"} /\ DecodeFrame(FALSE) /\ TypeOK
  BY DEF IInv, JobKnown, InitializeDecoder
<1>2. /\ job' \in 0 .. Movies /\ {busy', held'} \subseteq BOOLEAN
      /\ phase' \in {"empty", "queued", "delivered"}
      /\ phase' = "queued" => busy' /\ held' /\ job' = movie
  BY <1>1, DecodeKeeps
<1>3. TypeOK'
  BY <1>2 DEF IInv, TypeOK, InitializeDecoder, Waits, driveVars, clockVars
<1>4. RingOwned'
  BY DEF IInv, RingOwned, InitializeDecoder, driveVars
<1>5. JobKnown'
  BY <1>2 DEF IInv, JobKnown, InitializeDecoder
<1> QED
  BY <1>3, <1>4, <1>5 DEF IInv

\* The two decodes of an iteration.
LEMMA DecodeInv == IInv /\ (FirstDecode \/ SecondDecode) => IInv'
<1> SUFFICES ASSUME IInv, FirstDecode \/ SecondDecode PROVE IInv'
  OBVIOUS
<1>1. DecodeIfReady
  BY DEF FirstDecode, SecondDecode
<1>2. /\ job' \in 0 .. Movies /\ {busy', held'} \subseteq BOOLEAN
      /\ phase' \in {"empty", "queued", "delivered"}
      /\ phase' = "queued" => busy' /\ held' /\ job' = movie
      /\ count' \in 0 .. 2
  BY <1>1, DecodeIfReadyKeeps
<1>3. /\ at' \in {"prepare", "blank"} /\ at # "away" /\ at # "tables"
      /\ UNCHANGED <<movie, owned, listening, configured, callback, driveVars,
                     since, due, image, fresh>>
      /\ wait' \in Nat
  BY DEF FirstDecode, SecondDecode
<1>4. TypeOK'
  BY <1>2, <1>3 DEF IInv, TypeOK, Waits, driveVars
<1>5. RingOwned'
  BY <1>3 DEF IInv, RingOwned, driveVars
<1>6. JobKnown'
  BY <1>2, <1>3 DEF IInv, JobKnown
<1> QED
  BY <1>4, <1>5, <1>6 DEF IInv

\* The steps that leave the codec and the drive alone.
LEMMA PlayInv == IInv /\ (Begin \/ Leave \/ BlankEnds \/ Blit) => IInv'
<1> SUFFICES ASSUME IInv, Begin \/ Leave \/ BlankEnds \/ Blit PROVE IInv'
  OBVIOUS
<1>1. /\ at' \in {"top", "drain", "query"}
      /\ at \in {"between", "top", "blank", "query"}
      /\ wait' \in Nat /\ since' \in BOOLEAN /\ fresh' \in BOOLEAN
      /\ UNCHANGED <<movie, owned, listening, configured, count, callback,
                     codecVars, driveVars, due, image>>
  <2> USE DEF IInv, TypeOK, clockVars
  <2>1. CASE Begin
    BY <2>1 DEF Begin
  <2>2. CASE Leave
    BY <2>2 DEF Leave
  <2>3. CASE BlankEnds
    BY <2>3 DEF BlankEnds
  <2>4. CASE Blit
    BY <2>4 DEF Blit
  <2> QED
    BY <2>1, <2>2, <2>3, <2>4
<1>2. TypeOK'
  BY <1>1 DEF IInv, TypeOK, Waits, codecVars, driveVars
<1>3. RingOwned'
  BY <1>1 DEF IInv, RingOwned, driveVars
<1>4. JobKnown'
  BY <1>1 DEF IInv, JobKnown, codecVars
<1> QED
  BY <1>2, <1>3, <1>4 DEF IInv

\* The stop finds channel 3 idle, and starts the count of the blanks after it.
LEMMA StopInv == IInv /\ StopReset => IInv'
<1> SUFFICES ASSUME IInv, StopReset PROVE IInv'
  OBVIOUS
<1>1. TypeOK'
  <2>1. due' \in None .. Period
    BY DEF StopReset, None, Period
  <2> QED
    BY <2>1 DEF IInv, TypeOK, StopReset, Waits, codecVars, driveVars
<1>2. RingOwned'
  BY DEF IInv, RingOwned, StopReset, Drained, driveVars
<1>3. JobKnown'
  BY DEF IInv, JobKnown, StopReset, codecVars
<1> QED
  BY <1>1, <1>2, <1>3 DEF IInv

\* What serving the codec leaves, for a deadline of a type it can have.
LEMMA ServiceKeeps ==
  ASSUME IInv, NEW d \in None .. Period, Service(d)
  PROVE  /\ image' \in 0 .. Movies /\ fresh' \in BOOLEAN
         /\ job' \in 0 .. Movies /\ busy' \in BOOLEAN
         /\ phase' \in {"empty", "queued", "delivered"}
         /\ due' \in None .. Period
         /\ phase' = "queued" =>
               /\ phase = "queued" /\ ~Allowed(d)
               /\ busy' = busy /\ job' = job /\ due' = d
<1>1. CASE phase = "queued" /\ Allowed(d)
  <2>1. job = movie /\ busy
    BY <1>1 DEF IInv, JobKnown
  <2>2. /\ image' = job /\ fresh' = (owned /\ Shows) /\ phase' = "delivered"
        /\ job' = 0 /\ busy' = (busy /\ ~callback)
        /\ due' = IF callback THEN NextDeadline ELSE d
    BY <1>1, <2>1 DEF Service, OutputAllowed
  <2> QED
    BY <2>2 DEF IInv, TypeOK, NextDeadline, Period, None
<1>2. CASE ~(phase = "queued" /\ Allowed(d))
  <2>1. due' = d /\ UNCHANGED <<image, fresh, job, phase, busy>>
    BY <1>2 DEF Service, OutputAllowed
  <2> QED
    BY <1>2, <2>1 DEF IInv, TypeOK, JobKnown
<1> QED
  BY <1>1, <1>2

LEMMA PassInv == ASSUME NEW edge \in BOOLEAN, IInv, Pass(edge) PROVE IInv'
<1> DEFINE e == IF due = None THEN None ELSE Less(due, edge)
           d == Anchored(e)
<1>1. /\ e \in None .. Period /\ d \in None .. Period
      /\ wait' \in Nat /\ wait' = Less(wait, edge)
  BY DEF IInv, TypeOK, Pass, Less, Anchored, None, Period
<1>2. Service(d)
  BY DEF Pass
<1> HIDE DEF d
<1>3. /\ image' \in 0 .. Movies /\ fresh' \in BOOLEAN
      /\ job' \in 0 .. Movies /\ busy' \in BOOLEAN
      /\ phase' \in {"empty", "queued", "delivered"}
      /\ due' \in None .. Period
      /\ phase' = "queued" =>
            /\ phase = "queued" /\ ~Allowed(d)
            /\ busy' = busy /\ job' = job /\ due' = d
  BY <1>1, <1>2, ServiceKeeps
<1>4. /\ UNCHANGED <<at, movie, owned, listening, configured, count, callback,
                     held>>
      /\ since' \in BOOLEAN
      /\ received' \in BOOLEAN
      /\ transfer' \in {0} \cup (IF listening /\ configured THEN {movie} ELSE {})
  BY DEF Pass, sourceVars, IInv, TypeOK
<1>5. TypeOK'
  <2>1. transfer' \in 0 .. Movies
    BY <1>4 DEF IInv, TypeOK
  <2> QED
    BY <1>1, <1>3, <1>4, <2>1 DEF IInv, TypeOK
<1>6. RingOwned'
  BY <1>4 DEF IInv, TypeOK, RingOwned
<1>7. JobKnown'
  <2>1. (at = "away" /\ phase' = "queued") => due' = 1 /\ wait' >= AwayBlanks - 1
    <3> SUFFICES ASSUME at = "away", phase' = "queued"
                 PROVE  due' = 1 /\ wait' >= AwayBlanks - 1
      OBVIOUS
    <3>1. phase = "queued" /\ ~Allowed(d) /\ due' = d
      BY <1>3
    <3>2. CASE due = None /\ wait = AwayBlanks
      BY <1>1, <3>1, <3>2 DEF d, Anchored, Less
    <3>3. CASE due = 1 /\ wait >= AwayBlanks - 1
      <4>1. CASE edge
        BY <3>1, <3>3, <4>1 DEF d, Anchored, Less, Allowed, None
      <4>2. CASE ~edge
        BY <1>1, <3>1, <3>3, <4>2 DEF d, Anchored, Less, None
      <4> QED
        BY <4>1, <4>2
    <3> QED
      BY <3>1, <3>2, <3>3 DEF IInv, JobKnown
  <2> QED
    BY <1>3, <1>4, <2>1 DEF IInv, JobKnown
<1> QED
  BY <1>5, <1>6, <1>7 DEF IInv

LEMMA InvariantStep == IInv /\ [Next]_vars => IInv'
<1> SUFFICES ASSUME IInv, [Next]_vars PROVE IInv'
  OBVIOUS
<1>1. CASE Source
  BY <1>1, AllocateInv, SetupInv, InitializeDecoderInv, DecodeInv, PlayInv,
     StopInv DEF Source
<1>2. CASE Edge
  BY <1>2, PassInv DEF Edge
<1>3. CASE NoEdge
  BY <1>3, PassInv DEF NoEdge
<1>4. CASE UNCHANGED vars
  BY <1>4 DEF vars, sourceVars, codecVars, driveVars, clockVars, IInv,
              TypeOK, RingOwned, JobKnown
<1> QED
  BY <1>1, <1>2, <1>3, <1>4 DEF Next

\* The inductive invariant of the movies of a session.
THEOREM MovieInvariant == Spec => []IInv
  BY InitInv, InvariantStep, PTL DEF Spec

\* Every variable of the source, the drive and the codec keeps its type.
THEOREM MovieTypes == Spec => []TypeOK
<1>1. IInv => TypeOK
  BY DEF IInv
<1> QED
  BY <1>1, MovieInvariant, PTL

\* No payload lands in memory a stop gave back, or in the next movie's ring,
\* because the session drains channel 3 before StopReset80027664.
THEOREM RingIsOwned == Spec => []TransfersLandInOwnRing
<1>1. IInv => TransfersLandInOwnRing
  BY DEF IInv, TypeOK, RingOwned, TransfersLandInOwnRing
<1> QED
  BY <1>1, MovieInvariant, PTL

\* The codec never refuses a job and never loses its owner.
THEOREM CodecIsNeverRefused == Spec => []CodecNeverRefuses
<1>1. IInv => CodecNeverRefuses
  BY DEF IInv, JobKnown, CodecNeverRefuses
<1> QED
  BY <1>1, MovieInvariant, PTL
-----------------------------------------------------------------------------
(***************************************************************************)
(* The screen.  Until it is blitted, a published picture is safe for the   *)
(* blanks its deadline has left; the source needs at most three of them to *)
(* come to its blit, wherever in its iteration it was overtaken.           *)
(***************************************************************************)
Loop == {"top", "prepare", "blank", "query"}

\* After two frames were taken the first was published, into this movie's
\* image.
ImageKnown ==
  at \in Loop => /\ count = 2 => image = movie
                 /\ count = 1 /\ phase # "queued" => image = movie

\* Where a picture can be waiting to be blitted.
FreshKnown ==
  /\ at \notin {"away", "tables"} => callback
  /\ at = "between" => count = 0
  /\ fresh => at \in {"prepare", "blank", "query", "drain", "away"}
  /\ fresh /\ at \in {"drain", "away"} => phase # "queued"
  /\ fresh /\ at \in {"prepare", "blank", "query"} => count = 2

\* The source's way to the blit is shorter than the deadline.
Timely ==
  /\ at \in {"prepare", "query"} => wait <= DeviceBlanks
  /\ at = "blank" => wait <= 2
  /\ fresh /\ at = "prepare" =>
       wait + (IF since \/ wait > 0 THEN 1 ELSE 2) + DeviceBlanks < due
  /\ fresh /\ at = "blank" => wait + DeviceBlanks < due
  /\ fresh /\ at = "query" => wait < due

SInv == IInv /\ ImageKnown /\ FreshKnown /\ Timely

LEMMA ScreenInit == Init => SInv
<1> SUFFICES ASSUME Init PROVE SInv
  OBVIOUS
<1>1. ImageKnown /\ FreshKnown /\ Timely
  BY DEF Init, ImageKnown, FreshKnown, Timely, Loop
<1> QED
  BY <1>1, InitInv DEF SInv

LEMMA ScreenSetup ==
  ASSUME SInv, Allocate \/ SetRing \/ Start \/ InitializeDecoder \/ Begin
  PROVE  ImageKnown' /\ FreshKnown' /\ Timely'
<1> USE DEF SInv, ImageKnown, FreshKnown, Timely, Loop
<1>1. CASE Allocate
  BY <1>1 DEF Allocate
<1>2. CASE SetRing
  BY <1>2 DEF SetRing, codecVars, clockVars
<1>3. CASE Start
  BY <1>3 DEF Start, codecVars, clockVars
<1>4. CASE InitializeDecoder
  BY <1>4 DEF InitializeDecoder, clockVars
<1>5. CASE Begin
  BY <1>5 DEF Begin, codecVars, clockVars
<1> QED
  BY <1>1, <1>2, <1>3, <1>4, <1>5

\* A frame is taken only when none is pending, so the one before it was
\* published.
LEMMA DecodeImage ==
  ASSUME SInv, at \in Loop, DecodeIfReady
  PROVE  /\ count' \in 0 .. 2 /\ count <= count'
         /\ count' = 2 => image = movie
         /\ count' = 1 /\ phase' # "queued" => image = movie
<1>1. CASE busy /\ held
  BY <1>1 DEF DecodeIfReady, codecVars, SInv, IInv, TypeOK, ImageKnown
<1>2. CASE ~(busy /\ held)
  <2>1. phase # "queued" /\ count \in 0 .. 2
    BY <1>2 DEF SInv, IInv, JobKnown, TypeOK
  <2>2. DecodeFrame(busy) /\ count' = IF held' THEN Taken ELSE count
    BY <1>2 DEF DecodeIfReady, DecodeNext
  <2>3. count = 2 \/ count = 1 => image = movie
    BY <2>1 DEF SInv, ImageKnown
  <2>4. CASE held' = TRUE /\ phase' = "queued"
    BY <2>1, <2>2, <2>3, <2>4 DEF Taken
  <2>5. CASE held' = FALSE /\ UNCHANGED <<job, phase>>
    BY <2>1, <2>2, <2>3, <2>5
  <2> QED
    BY <2>1, <2>2, <2>4, <2>5 DEF DecodeFrame
<1> QED
  BY <1>1, <1>2

LEMMA ScreenDecode ==
  ASSUME SInv, FirstDecode \/ SecondDecode
  PROVE  ImageKnown' /\ FreshKnown' /\ Timely'
<1>1. at \in {"top", "prepare"} /\ DecodeIfReady
  BY DEF FirstDecode, SecondDecode
<1>2. /\ count' \in 0 .. 2 /\ count <= count'
      /\ count' = 2 => image = movie
      /\ count' = 1 /\ phase' # "queued" => image = movie
  BY <1>1, DecodeImage DEF Loop
<1>3. ImageKnown'
  BY <1>2 DEF FirstDecode, SecondDecode, ImageKnown
<1>4. FreshKnown'
  BY <1>1, <1>2 DEF SInv, FreshKnown, FirstDecode, SecondDecode, IInv, TypeOK
<1>5. Timely'
  <2>1. CASE FirstDecode
    BY <2>1 DEF SInv, FreshKnown, Timely, FirstDecode
  <2>2. CASE SecondDecode
    <3>1. /\ at = "prepare" /\ at' = "blank" /\ due' = due /\ fresh' = fresh
          /\ wait' = IF since THEN 1 ELSE 2
      BY <2>2 DEF SecondDecode
    <3>2. wait \in Nat /\ due \in Int /\ DeviceBlanks \in Nat
      BY DEF SInv, IInv, TypeOK, None, Period
    <3>3. fresh => wait' + DeviceBlanks < due
      <4>1. CASE since
        BY <3>1, <3>2, <4>1 DEF SInv, Timely
      <4>2. CASE ~since
        BY <3>1, <3>2, <4>2 DEF SInv, Timely
      <4> QED
        BY <4>1, <4>2
    <3> QED
      BY <3>1, <3>3 DEF Timely
  <2> QED
    BY <2>1, <2>2
<1> QED
  BY <1>3, <1>4, <1>5

LEMMA ScreenPlay ==
  ASSUME SInv, Leave \/ BlankEnds \/ Blit \/ StopReset
  PROVE  ImageKnown' /\ FreshKnown' /\ Timely'
<1> USE DEF SInv, ImageKnown, FreshKnown, Timely, Loop
<1>1. CASE Leave
  BY <1>1 DEF Leave, codecVars, clockVars
<1>2. CASE BlankEnds
  <2>1. DeviceBlanks \in Nat /\ (fresh => 0 + DeviceBlanks < due)
    BY <1>2 DEF BlankEnds
  <2> QED
    BY <1>2, <2>1 DEF BlankEnds, codecVars
<1>3. CASE Blit
  <2>1. fresh => Shows
    BY <1>3 DEF Blit, Shows
  <2>2. ~fresh'
    BY <1>3, <2>1 DEF Blit
  <2> QED
    BY <1>3, <2>2 DEF Blit, codecVars
<1>4. CASE StopReset
  BY <1>4 DEF StopReset, codecVars
<1> QED
  BY <1>1, <1>2, <1>3, <1>4

\* The longest ways to the blit.
LEMMA Ways ==
  /\ \A w \in 0 .. 1, r \in {1, 2}, b \in 0 .. 1 :
        (w = 1 => r = 1) => w + r + b < 4
  /\ \A w \in 0 .. 2, b \in 0 .. 1 : w + b < 4
  OBVIOUS

\* A pass: a picture that waits for its blit keeps the codec waiting.
LEMMA ScreenPass ==
  ASSUME DeviceBlanks <= 1, SInv, NEW edge \in BOOLEAN, Pass(edge)
  PROVE  /\ ImageKnown' /\ FreshKnown' /\ Timely'
         /\ Replaces => ~fresh
<1> DEFINE e == IF due = None THEN None ELSE Less(due, edge)
           d == Anchored(e)
<1>1. /\ wait' = Less(wait, edge) /\ since' = (since \/ edge)
      /\ UNCHANGED <<at, movie, owned, count, callback>>
      /\ at \in Waits /\ Service(d)
      /\ (at = "blank" \/ (edge /\ at \in {"prepare", "query"})) => wait > 0
  BY DEF Pass, sourceVars
<1>2. /\ wait \in Nat /\ due \in None .. Period /\ DeviceBlanks \in Nat
      /\ count \in 0 .. 2 /\ since \in BOOLEAN /\ fresh \in BOOLEAN
  BY DEF SInv, IInv, TypeOK
<1>3. /\ due > 0 => d = Less(due, edge)
      /\ due = None => d \in {None, 1}
      /\ due = 0 => d \in {0, 1}
  BY <1>2 DEF Anchored, Less, None, Period
<1> HIDE DEF d
<1>4. CASE phase = "queued" /\ Allowed(d)
  <2>1. job = movie /\ busy
    BY <1>4 DEF SInv, IInv, JobKnown
  <2>2. /\ image' = movie /\ fresh' = (owned /\ Shows) /\ phase' = "delivered"
        /\ due' = IF callback THEN NextDeadline ELSE d
    BY <1>1, <1>4, <2>1 DEF Service, OutputAllowed
  <2>3. ImageKnown'
    BY <1>1, <2>2 DEF SInv, ImageKnown
  <2>4. FreshKnown'
    <3>1. at \in {"tables", "opening"} => phase # "queued"
      BY DEF SInv, IInv, JobKnown
    <3>2. fresh' => at \in {"prepare", "blank", "query", "drain", "away"}
      BY <1>1, <1>2, <1>4, <2>2, <3>1 DEF SInv, FreshKnown, Waits, Shows
    <3>3. fresh' => count = 2
      <4>1. fresh' => Shows
        BY <2>2
      <4>2. Shows => count = 2
        BY <1>2 DEF Shows
      <4> QED
        BY <4>1, <4>2
    <3> QED
      BY <1>1, <2>2, <3>2, <3>3 DEF SInv, FreshKnown
  <2>5. Timely'
    <3>1. at \in {"prepare", "blank", "query"} => due' = 4
      BY <2>2 DEF SInv, FreshKnown, NextDeadline, Period
    <3>2. /\ wait' \in Nat /\ wait' <= wait
          /\ at \in {"prepare", "query"} => wait' <= DeviceBlanks
          /\ at = "blank" => wait' <= 2
      BY <1>1, <1>2 DEF SInv, Timely, Less
    <3> DEFINE rest == IF since' \/ wait' > 0 THEN 1 ELSE 2
    <3>a. DeviceBlanks \in 0 .. 1 /\ wait' \in Nat
      BY <3>2
    <3>b. rest \in {1, 2} /\ (wait' > 0 => rest = 1)
      OBVIOUS
    <3> HIDE DEF rest
    <3>3. ASSUME at = "prepare" PROVE wait' + rest + DeviceBlanks < 4
      <4>1. wait' \in 0 .. 1 /\ (wait' = 1 => rest = 1)
        BY <3>2, <3>3, <3>a, <3>b
      <4> QED
        BY <4>1, <3>a, <3>b, Ways
    <3>4. ASSUME at = "blank" PROVE wait' + DeviceBlanks < 4
      <4>1. wait' \in 0 .. 2
        BY <3>2, <3>4, <3>a
      <4> QED
        BY <4>1, <3>a, Ways
    <3>5. at = "query" => wait' < 4
      BY <3>2, <3>a
    <3> USE DEF rest
    <3> QED
      BY <1>1, <3>1, <3>2, <3>3, <3>4, <3>5 DEF Timely
  <2>6. ~fresh
    <3>1. SUFFICES ASSUME fresh PROVE FALSE
      OBVIOUS
    <3>2. at \in {"prepare", "blank", "query"}
      BY <1>4, <3>1 DEF SInv, FreshKnown
    <3>3. /\ wait < due
          /\ at \in {"prepare", "blank"} => wait + DeviceBlanks < due
      BY <1>2, <3>1, <3>2 DEF SInv, Timely, None, Period
    <3>4. due > 0 /\ (edge => wait > 0)
      BY <1>1, <1>2, <3>2, <3>3 DEF None, Period
    <3>5. d > 0
      BY <1>2, <1>3, <3>3, <3>4 DEF Less, None, Period
    <3> QED
      BY <1>4, <3>5 DEF Allowed, None
  <2> QED
    BY <2>3, <2>4, <2>5, <2>6
<1>5. CASE ~(phase = "queued" /\ Allowed(d))
  <2>1. due' = d /\ UNCHANGED <<image, fresh, job, phase, busy>>
    BY <1>1, <1>5 DEF Service, OutputAllowed
  <2>2. ImageKnown' /\ FreshKnown'
    BY <1>1, <2>1 DEF SInv, ImageKnown, FreshKnown
  <2>3. /\ wait' \in Nat /\ wait' <= wait
        /\ at \in {"prepare", "query"} => wait' <= DeviceBlanks
        /\ at = "blank" => wait' <= 2
    BY <1>1, <1>2 DEF SInv, Timely, Less
  <2>4. ASSUME fresh, at \in {"prepare", "blank", "query"}
        PROVE  /\ at = "prepare" =>
                    wait' + (IF since' \/ wait' > 0 THEN 1 ELSE 2)
                          + DeviceBlanks < due'
               /\ at = "blank" => wait' + DeviceBlanks < due'
               /\ at = "query" => wait' < due'
    <3>1. wait < due /\ due > 0 /\ (edge => wait > 0)
      BY <1>1, <1>2, <2>4 DEF SInv, Timely, None, Period
    <3>2. due' = Less(due, edge)
      BY <1>3, <2>1, <3>1
    <3>3. CASE edge
      <4>1. wait' = wait - 1 /\ due' = due - 1 /\ since' = TRUE /\ wait > 0
        BY <1>1, <1>2, <3>1, <3>2, <3>3 DEF Less
      <4> QED
        BY <1>2, <2>4, <4>1 DEF SInv, Timely, None, Period
    <3>4. CASE ~edge
      <4>1. wait' = wait /\ due' = due /\ since' = since
        BY <1>1, <1>2, <3>2, <3>4 DEF Less
      <4> QED
        BY <2>4, <4>1 DEF SInv, Timely
    <3> QED
      BY <3>3, <3>4
  <2>5. Timely'
    BY <1>1, <2>1, <2>3, <2>4 DEF Timely
  <2>6. Replaces => ~fresh
    BY <2>1 DEF Replaces
  <2> QED
    BY <2>2, <2>5, <2>6
<1> QED
  BY <1>4, <1>5

\* No step replaces a picture that was not blitted, or blits another movie's.
LEMMA ScreenStep ==
  ASSUME DeviceBlanks <= 1, SInv, [Next]_vars
  PROVE  /\ ImageKnown' /\ FreshKnown' /\ Timely'
         /\ Blit /\ Shows => image = movie
         /\ Replaces => ~fresh
<1>1. Blit /\ Shows => image = movie
  BY DEF Blit, Shows, SInv, IInv, TypeOK, ImageKnown, Loop
<1>2. CASE Source
  <2>1. phase' # "delivered" \/ phase # "queued"
    <3>1. CASE InitializeDecoder
      BY <3>1 DEF InitializeDecoder, SInv, IInv, JobKnown
    <3>2. CASE FirstDecode \/ SecondDecode
      <4>1. CASE busy /\ held
        BY <3>2, <4>1 DEF FirstDecode, SecondDecode, DecodeIfReady, codecVars
      <4>2. CASE ~(busy /\ held)
        BY <4>2 DEF SInv, IInv, JobKnown
      <4> QED
        BY <4>1, <4>2
    <3>3. CASE ~(InitializeDecoder \/ FirstDecode \/ SecondDecode)
      BY <1>2, <3>3 DEF Source, Allocate, SetRing, Start, Begin, Leave,
                        BlankEnds, Blit, StopReset, codecVars
    <3> QED
      BY <3>1, <3>2, <3>3
  <2>2. Replaces => ~fresh
    BY <2>1 DEF Replaces
  <2> QED
    BY <1>1, <1>2, <2>2, ScreenSetup, ScreenDecode, ScreenPlay DEF Source
<1>3. CASE Edge
  BY <1>1, <1>3, ScreenPass DEF Edge
<1>4. CASE NoEdge
  BY <1>1, <1>4, ScreenPass DEF NoEdge
<1>5. CASE UNCHANGED vars
  <2>1. ImageKnown' /\ FreshKnown' /\ Timely'
    BY <1>5 DEF vars, sourceVars, codecVars, driveVars, clockVars, SInv,
                ImageKnown, FreshKnown, Timely
  <2>2. Replaces => ~fresh
    BY <1>5 DEF vars, codecVars, Replaces
  <2> QED
    BY <1>1, <2>1, <2>2
<1> QED
  BY <1>2, <1>3, <1>4, <1>5 DEF Next

\* When a device wait takes at most one VBlank, the period of four leaves every
\* published picture time to be blitted, and a blit shows a picture of the
\* movie that plays, whatever the number of movies.
THEOREM ScreenIsFollowed ==
  ASSUME DeviceBlanks <= 1
  PROVE  Spec => ScreenFollows
<1>1. IInv /\ [Next]_vars => IInv'
  BY InvariantStep
<1>2. SInv /\ [Next]_vars =>
        SInv' /\ (Blit /\ Shows => image = movie) /\ (Replaces => ~fresh)
  BY <1>1, ScreenStep DEF SInv
<1>3. SInv /\ [Next]_vars => SInv'
  BY <1>2
<1>4. Spec => []SInv
  BY <1>3, ScreenInit, PTL DEF Spec
<1>5. SInv /\ [Next]_vars =>
        [(Blit /\ Shows => image = movie) /\ (Replaces => ~fresh)]_vars
  BY <1>2
<1> QED
  BY <1>4, <1>5, PTL DEF Spec, ScreenFollows
=============================================================================
