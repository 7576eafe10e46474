---------------------------- MODULE MovieSession ----------------------------
(***************************************************************************)
(* The movies of a Stage 2 session: their pictures and their ends.         *)
(*                                                                         *)
(* The source sets a movie up (InitMovie801C6A3C), plays it                *)
(* (RunMovie801C6AB8) and stops it (StopReset80027664).  Meanwhile the     *)
(* host's event passes complete DMA channel 3 into the movie's ring, and   *)
(* the codec's job (PrStage2MovieCodecBridge::Output) writes its picture   *)
(* into the movie's image buffer no earlier than the product's deadline,   *)
(* four VBlanks after the last one.  Ring, image and control block lie in  *)
(* memory that the stop gives back.                                        *)
(*                                                                         *)
(* A pass can come only while the source waits; what the source does       *)
(* between two waits is one step.  No interrupt callback of a movie waits  *)
(* (ring_session.h:34 serves channel 3 inside the interrupt), so a pass    *)
(* may always call back, and a published picture is delivered in the same  *)
(* pass.  Frames decode without error, as on the disc.                     *)
(***************************************************************************)
EXTENDS Integers

CONSTANTS Movies,       \* movies considered
          AwayBlanks,   \* VBlanks from a movie's stop to the next one's setup
          DeviceBlanks  \* VBlanks that the ordering table's DMA, or the
                        \* location request, of an iteration may take

(* A transition of at least four frames of two VBlanks lies between two    *)
(* movies (RunScene801C74E4).                                              *)
ASSUME MoviesAssumption == Movies \in Nat
ASSUME BlanksAssumption == /\ AwayBlanks \in Nat /\ AwayBlanks >= 2
                           /\ DeviceBlanks \in Nat

VARIABLES
  at,          \* where the source is
  wait,        \* VBlanks until its wait may end
  since,       \* a VBlank was delivered since VSync last returned
  movie,       \* the last movie set up, 0 before the first
  owned,       \* its memory is still allocated
  listening,   \* the ready callback is installed
  configured,  \* movieStreamConfigured_
  transfer,    \* the movie whose ring DMA channel 3 is writing, or 0
  received,    \* a payload of this movie has arrived
  job,         \* the codec's pending job: the movie it is for, or 0
  phase,       \* PrStage2MovieCodecBridge::Output::Phase
  busy,        \* control block +32, an output is owed
  held,        \* control block +28, a frame was taken
  count,       \* 8006ED88, frames taken since the movie began, up to 2
  callback,    \* channel 1's callback is installed
  due,         \* VBlanks until movieCallbackVblank_, or None
  image,       \* the movie whose picture is in the image buffer, or 0
  fresh        \* history: it was published to be shown, and was not yet

sourceVars == <<at, movie, owned, listening, configured, count, callback>>
codecVars == <<job, phase, busy, held>>
driveVars == <<transfer, received>>
clockVars == <<wait, since, due>>
vars == <<sourceVars, codecVars, driveVars, clockVars, image, fresh>>

None == -1
Period == 4   \* VBlanks per picture

(* Where the source waits for a device or a VBlank. *)
Waits == {"away", "tables", "opening", "between", "prepare", "blank",
          "query", "drain"}

TypeOK ==
  /\ at \in Waits \cup {"top"}
  /\ wait \in Nat
  /\ movie \in 0 .. Movies /\ image \in 0 .. Movies
  /\ job \in 0 .. Movies /\ transfer \in 0 .. Movies
  /\ {since, owned, listening, configured, received, busy, held, callback,
      fresh} \subseteq BOOLEAN
  /\ phase \in {"empty", "queued", "delivered", "faulted"}
  /\ count \in 0 .. 2
  /\ due \in None .. Period

Init ==
  /\ at = "away" /\ wait = 0 /\ since = FALSE
  /\ movie = 0 /\ owned = FALSE
  /\ listening = FALSE /\ configured = FALSE
  /\ transfer = 0 /\ received = FALSE
  /\ job = 0 /\ phase = "empty"
  /\ busy = FALSE /\ held = FALSE
  /\ count = 0 /\ callback = FALSE
  /\ due = None
  /\ image = 0 /\ fresh = FALSE

-----------------------------------------------------------------------------
(* Setting a movie up. *)

\* Decoder80027288 allocates the movie's blocks, zeroed, and resets the
\* decoder, whose first table it waits for.
Allocate ==
  /\ at = "away" /\ wait = 0 /\ movie < Movies
  /\ at' = "tables"
  /\ movie' = movie + 1
  /\ owned' = TRUE
  /\ busy' = FALSE /\ held' = FALSE
  /\ image' = 0
  /\ fresh' = FALSE
  /\ UNCHANGED <<listening, configured, count, callback, job, phase, driveVars,
                 clockVars>>

\* SetRing8003624C and SetOutputCallback80047658.
SetRing ==
  /\ at = "tables"
  /\ at' = "opening"
  /\ received' = FALSE
  /\ callback' = TRUE
  /\ UNCHANGED <<movie, owned, listening, configured, count, codecVars,
                 transfer, clockVars, image, fresh>>

\* OpenStream8001A4D0 installs the ready callback on its way
\* (Start800391AC), unless the record is empty.
Start ==
  /\ at = "opening" /\ ~listening
  /\ listening' = TRUE
  /\ UNCHANGED <<at, movie, owned, configured, count, callback, codecVars,
                 driveVars, clockVars, image, fresh>>

(***************************************************************************)
(* DecodeNext800273A4: take a frame if one is complete, decode its codes,  *)
(* give the job to the codec, which refuses it while another is pending,   *)
(* and request its output.                                                 *)
(***************************************************************************)
Taken == IF count < 2 THEN count + 1 ELSE count

DecodeFrame(owed) ==
  \/ /\ received
     /\ held' = TRUE
     /\ IF phase = "queued"
          THEN phase' = "faulted" /\ busy' = owed /\ UNCHANGED job
          ELSE phase' = "queued" /\ busy' = TRUE /\ job' = movie
  \/ /\ held' = FALSE
     /\ busy' = owed
     /\ UNCHANGED <<job, phase>>

DecodeNext == DecodeFrame(busy) /\ count' = IF held' THEN Taken ELSE count

DecodeAlways == DecodeNext
DecodeIfReady ==
  IF busy /\ held THEN UNCHANGED <<codecVars, count>> ELSE DecodeNext

\* InitializeDecoder800274D4 clears the control block, decodes once and
\* forgets the count; the host then opens delivery for good.
InitializeDecoder ==
  /\ at = "opening"
  /\ at' = "between"
  /\ DecodeFrame(FALSE)
  /\ count' = 0
  /\ configured' = TRUE
  /\ UNCHANGED <<movie, owned, listening, callback, driveVars, clockVars,
                 image, fresh>>

-----------------------------------------------------------------------------
(* Playing it. *)

\* The ready loop, or the transition that follows the setup, is over.
Begin ==
  /\ at = "between"
  /\ at' = "top"
  /\ UNCHANGED <<movie, owned, listening, configured, count, callback,
                 codecVars, driveVars, clockVars, image, fresh>>

\* The pad ends the movie, or the iteration begins with a decode and
\* prepares its page, which waits for the ordering table's DMA.
Leave ==
  /\ at = "top"
  /\ at' = "drain"
  /\ UNCHANGED <<movie, owned, listening, configured, count, callback,
                 codecVars, driveVars, clockVars, image, fresh>>

FirstDecode ==
  /\ at = "top"
  /\ at' = "prepare"
  /\ DecodeIfReady
  /\ wait' = DeviceBlanks
  /\ UNCHANGED <<movie, owned, listening, configured, callback, driveVars,
                 since, due, image, fresh>>

\* The second decode, and the wait of VSync(2): the VBlank after the first
\* one since the last return.
SecondDecode ==
  /\ at = "prepare"
  /\ at' = "blank"
  /\ DecodeIfReady
  /\ wait' = IF since THEN 1 ELSE 2
  /\ UNCHANGED <<movie, owned, listening, configured, callback, driveVars,
                 since, due, image, fresh>>

\* RequestLocation8001A280 may wait for the drive.
BlankEnds ==
  /\ at = "blank" /\ wait = 0
  /\ at' = "query"
  /\ since' = FALSE
  /\ wait' = DeviceBlanks
  /\ UNCHANGED <<movie, owned, listening, configured, count, callback,
                 codecVars, driveVars, due, image, fresh>>

\* Blit8002756C copies the image buffer to the page, from the second frame
\* taken on.
Shows == count >= 2

\* The picture is shown; the position, or an error of the drive, may end
\* the movie.
Blit ==
  /\ at = "query"
  /\ at' \in {"top", "drain"}
  /\ fresh' = (fresh /\ ~Shows)
  /\ wait' = 0
  /\ UNCHANGED <<movie, owned, listening, configured, count, callback,
                 codecVars, driveVars, since, due, image>>

-----------------------------------------------------------------------------
(* Stopping it. *)

\* The session waits for channel 3 before it lets the source stop.
StopsAtOnce == TRUE
Drained == transfer = 0

\* StopReset80027664 removes both callbacks and gives the memory back;
\* OnMovieScanoutEnded forgets the deadline.  A job of the codec stays.
StopReset ==
  /\ at = "drain" /\ Drained
  /\ at' = "away"
  /\ wait' = AwayBlanks
  /\ owned' = FALSE
  /\ listening' = FALSE
  /\ callback' = FALSE
  /\ due' = None
  /\ UNCHANGED <<movie, configured, count, codecVars, driveVars, since, image,
                 fresh>>

-----------------------------------------------------------------------------
(***************************************************************************)
(* The host's event pass.                                                  *)
(***************************************************************************)
Less(n, edge) == IF edge /\ n > 0 THEN n - 1 ELSE n

\* MovieCallbackAllowed: without a deadline, a pending output gets one, one
\* VBlank from now.
AnchoredAtEveryPass(d) == IF phase = "queued" THEN 1 ELSE d
Anchored(d) == IF d = None /\ phase = "queued" THEN 1 ELSE d
Allowed(d) == d \in {None, 0}

\* The picture is written when the deadline allows it, together with the
\* completion; writing it at once and holding back only the completion is
\* what the comment at pr_stage2_vlc_session.h:44 warns of.
OutputAtOnce(d) == TRUE
OutputAllowed(d) == Allowed(d)

\* OnMovieFrameDelivered asks for the next picture four VBlanks on.
OneBlankLate == Period + 1
NextDeadline == Period

\* Output::Service, with d the VBlanks left until the deadline.
Service(d) ==
  IF phase = "queued" /\ OutputAllowed(d)
  THEN IF job = movie /\ busy
       THEN /\ image' = job
            /\ fresh' = (owned /\ Shows)
            /\ phase' = "delivered"
            /\ job' = 0
            /\ busy' = (busy /\ ~callback)
            /\ due' = IF callback THEN NextDeadline ELSE d
       ELSE /\ phase' = "faulted"
            /\ due' = d
            /\ UNCHANGED <<image, fresh, job, busy>>
  ELSE /\ due' = d
       /\ UNCHANGED <<image, fresh, job, phase, busy>>

\* One pass: it may deliver an edge, channel 3 completes what it carried,
\* the codec is served, and the receiver may start the next payload.
Pass(edge) ==
  /\ at \in Waits
  /\ (at = "blank" \/ (edge /\ at \in {"prepare", "query"})) => wait > 0
  /\ wait' = Less(wait, edge)
  /\ since' = (since \/ edge)
  /\ Service(Anchored(IF due = None THEN None ELSE Less(due, edge)))
  /\ received' = (received \/ transfer # 0)
  /\ transfer' \in {0} \cup (IF listening /\ configured THEN {movie} ELSE {})
  /\ UNCHANGED <<sourceVars, held>>

Source == \/ Allocate \/ SetRing \/ Start \/ InitializeDecoder \/ Begin
          \/ Leave \/ FirstDecode \/ SecondDecode \/ BlankEnds \/ Blit
          \/ StopReset
Edge == Pass(TRUE)
NoEdge == Pass(FALSE)
Next == Source \/ Edge \/ NoEdge

(* The source goes on whenever its wait is over, and VBlanks keep coming.  *)
Fairness == WF_vars(Source) /\ SF_vars(Edge)
Spec == Init /\ [][Next]_vars /\ Fairness

-----------------------------------------------------------------------------
(***************************************************************************)
(* Properties.                                                             *)
(***************************************************************************)
(* The codec is never given a job while one is pending, and never finds    *)
(* that the owner of a pending job has gone: neither logic_error of        *)
(* Input, Request and Service (lines 53, 77, 93) is reached, although a    *)
(* movie may be stopped with its last job pending and the next be set up   *)
(* in the same memory.                                                     *)
CodecNeverRefuses == phase # "faulted"

(* What DMA channel 3 carries belongs to the movie whose ring is           *)
(* allocated: no payload lands in memory that a stop has given back, or in *)
(* the next movie's ring (comment at pr_stage2_vlc_session.h:54-62).       *)
TransfersLandInOwnRing == transfer # 0 => owned /\ transfer = movie

(* The screen follows the movie: what is blitted is a picture of this      *)
(* movie, never the cleared buffer, and no picture published once blitting *)
(* began is replaced before it was blitted (Blit8002756C, which looks only *)
(* at the count of frames taken, against the deadline of four VBlanks).    *)
Replaces == phase = "queued" /\ phase' = "delivered"
ScreenFollows ==
  [][ /\ Blit /\ Shows => image = movie
      /\ Replaces => ~fresh ]_vars

(* A job given to the codec is delivered, also when its movie is stopped   *)
(* before its deadline: the decoder waits for it for ever otherwise.       *)
PictureDelivered == phase = "queued" ~> phase = "delivered"
=============================================================================
