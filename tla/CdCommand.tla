----------------------------- MODULE CdCommand -----------------------------
(***************************************************************************)
(* The CD command protocol of the Stage 2 runtime: the source program that *)
(* opens, polls, plays and stops a stream (movie_cd_direct, cd_stream_     *)
(* direct, movie_foreground_direct, lifecycle_direct), the command library *)
(* with its one-byte Status word (cd_command_direct), the drive behind the *)
(* command register (cd_command_device), and the LocationQuery with which  *)
(* the host answers GetlocL in place of the drive.                         *)
(*                                                                         *)
(* One fiber runs everything.  The source gives way only where it waits;   *)
(* the host then makes one event pass - at most one VBlank edge, whose     *)
(* interrupt runs the game clock callback if it is installed, then the     *)
(* location query, the drive, and the CD interrupt - and the source goes   *)
(* on.  "turn" says who has the processor.                                 *)
(***************************************************************************)
EXTENDS Naturals

CONSTANTS
  Kinds,           \* what may be played: "movie", "game" or both
  MaxStreams,      \* bound: how many streams the scene opens
  MaxTurns,        \* bound: frames in a ready loop (1800 in the code) or in play
  TimeoutBlanks,   \* VBlanks before a library wait gives up (960)
  SpinLimit        \* loop count before a wait inside an interrupt gives up (0x3C0000)

ASSUME KindsAssumption == Kinds \subseteq {"movie", "game"}
ASSUME BoundsAssumption ==
  /\ MaxStreams \in Nat /\ MaxTurns \in Nat
  /\ TimeoutBlanks \in Nat /\ SpinLimit \in Nat \ {0}

VARIABLES
  stage,       \* where the source program is
  call,        \* the Control helper it is inside, with its retries
  vsync,       \* the source waits for a VBlank
  turns, kind, good, streams,  \* loop count; the stream: its kind, a valid record?, how many left
  status, last, reply,         \* Status byte, last command byte, response bytes
  place,       \* the command whose reply the stored disc position came from
  left,        \* VBlanks left to the timeout of the running wait (one global deadline)
  pending, queued, response,   \* drive: latched command, reply to come, reply in the flags
  reading, starting, held, sectors,  \* drive: reading; no sector yet; start held; one ever read
  configured,  \* the host may deliver stream sectors (80049410/24 or movieStreamConfigured_)
  query, asked,  \* location query not yet answered, and who made it
  installed,   \* the game clock is the VBlank callback
  turn, spins, \* who runs; passes of the wait loop inside the clock callback
  expired,     \* ghost: who ever ran into the library timeout
  failed       \* the exception that ended the task

source == <<stage, call, vsync, turns, kind, good, streams>>
library == <<status, last, reply, left>>
drive == <<pending, queued, response, reading, starting, held, sectors>>
host == <<configured, query, asked, installed, spins, expired, failed>>
vars == <<source, library, place, drive, host, turn>>

Ops == {"Demute", "Nop", "Setloc", "Setfilter", "Setmode", "ReadS", "Pause", "GetlocL"}
None == "None"
NoReply == [kind |-> 0, op |-> None, read |-> FALSE]

(* Opening and playing a stream, one command per stage of the source.  A   *)
(* "wait" ends with a Sync of its own, a "reply" with the first reply.     *)
Commands ==
  [setloc |-> <<"Setloc", "wait">>, filter |-> <<"Setfilter", "wait">>,
   mode |-> <<"Setmode", "reply">>, read |-> <<"ReadS", "reply">>,
   nop |-> <<"Nop", "post">>, channel |-> <<"Setfilter", "post">>,
   poll |-> <<"Nop", "post">>, request |-> <<"GetlocL", "post">>, voice |-> <<"Setfilter", "post">>,
   stop |-> <<"Pause", "wait">>]
Stages == DOMAIN Commands \cup {"begin", "settle", "ready", "frame", "play", "done"}
Retries == 3
Patience == TimeoutBlanks + 1   \* the wait gives up once the deadline has passed
Idle == [op |-> None, until |-> "post", step |-> "idle", tries |-> Retries]

Init ==
  /\ stage = "begin" /\ call = Idle /\ vsync = FALSE
  /\ turns = 0 /\ kind \in Kinds /\ good = TRUE /\ streams = MaxStreams
  /\ status = 2 /\ last = "Demute" /\ reply = [op |-> "Demute", read |-> FALSE]
  /\ place = None /\ left = Patience
  /\ pending = None /\ queued = NoReply /\ response = NoReply
  /\ reading = FALSE /\ starting = FALSE /\ held = FALSE /\ sectors = FALSE
  /\ configured = FALSE /\ query = FALSE /\ asked = None /\ installed = FALSE
  /\ turn = "source" /\ spins = 0 /\ expired = {} /\ failed = None

----------------------------------------------------------------------------
(* The drive.                                                              *)

Busy == pending # None \/ queued # NoReply \/ response # NoReply

(* The first reply to a command and, for a pause, the one queued behind it *)
(* with the drive already stopped.                                         *)
Answer(k, op, streaming) == [kind |-> k, op |-> op, read |-> streaming]
FirstReply(op) == Answer(IF op = "Setloc" /\ ~good THEN 5 ELSE 3, op,
                         reading /\ ~starting /\ op # "ReadS")
DataReady == Answer(1, None, FALSE)
DataEnd == Answer(4, None, FALSE)

\* Variant: the reply that ends a pause is never queued.
SecondReplyLost(op) == NoReply

SecondReply(op) == IF op = "Pause" THEN Answer(2, op, FALSE) ELSE NoReply

\* Variant: a pause leaves the drive reading.
ExecuteReadsOn ==
  /\ response' = FirstReply(pending) /\ queued' = SecondReply(pending) /\ pending' = None
  /\ reading' = (pending = "ReadS" \/ reading)
  /\ starting' = (pending = "ReadS" \/ (starting /\ pending # "Pause"))
  /\ held' = (held /\ pending # "Pause")
  /\ UNCHANGED sectors

Execute ==
  /\ response' = FirstReply(pending) /\ queued' = SecondReply(pending) /\ pending' = None
  /\ reading' = (pending = "ReadS" \/ (reading /\ pending # "Pause"))
  /\ starting' = (pending = "ReadS" \/ (starting /\ pending # "Pause"))
  /\ held' = (held /\ pending # "Pause")
  /\ UNCHANGED sectors

Publish ==
  /\ response' = queued /\ queued' = NoReply
  /\ UNCHANGED <<pending, reading, starting, held, sectors>>

(* A sector read: XA audio, video (at once, or held back by the receiver), *)
(* or the end of the image, which a valid location is never already at.    *)
ReadSector ==
  /\ reading /\ ~held
  /\ \/ /\ response' \in {NoReply, DataReady}
        /\ starting' = FALSE /\ sectors' = TRUE /\ UNCHANGED reading
     \/ /\ ~starting /\ response' = DataEnd
        /\ reading' = FALSE /\ UNCHANGED <<starting, sectors>>
  /\ UNCHANGED <<pending, queued, held>>

(* Device::Service without a sector.                                       *)
ServiceCommand ==
  \/ response # NoReply /\ UNCHANGED drive
  \/ response = NoReply /\ queued # NoReply /\ Publish
  \/ response = NoReply /\ queued = NoReply /\ pending # None /\ Execute
  \/ ~Busy /\ UNCHANGED drive

----------------------------------------------------------------------------
(* The library.                                                            *)

Answered == status \in {2, 5}

(* The ops of table 800571BC the program sends: Status 3 between replies.  *)
TwoReplies(op) == op = "Pause"

(* Interrupt80036AF8 on the reply in the flags, which it acknowledges.     *)
Interrupt ==
  /\ response # NoReply /\ response' = NoReply
  /\ status' = IF response.kind = 3 THEN (IF TwoReplies(last) THEN 3 ELSE 2)
               ELSE IF response.kind \in {2, 5} THEN response.kind ELSE status
  /\ reply' = IF response.kind \in {2, 3, 5} THEN [op |-> response.op, read |-> response.read]
                                             ELSE reply
  /\ UNCHANGED <<last, left, pending, queued, reading, starting, held, sectors>>

(* The end of every timeout: Reset80037A8C acknowledges the flags and sets *)
(* Status to 2, whatever the drive still has to say.                       *)
TimeOut(who) ==
  /\ expired' = expired \cup {who} /\ status' = 2 /\ response' = NoReply
  /\ UNCHANGED <<last, reply, pending, queued, reading, starting, held, sectors>>

\* Variant: the request leaves the Status of the command before it.
AskKeepsStatus(who) ==
  IF query THEN failed' = "query" /\ UNCHANGED <<status, last, query, asked>>
  ELSE /\ last' = "GetlocL" /\ query' = TRUE /\ asked' = who
       /\ UNCHANGED <<status, failed>>

(* LocationQuery::Request: the host accepts GetlocL instead of the drive.  *)
Ask(who) ==
  IF query THEN failed' = "query" /\ UNCHANGED <<status, last, query, asked>>
  ELSE /\ status' = 0 /\ last' = "GetlocL" /\ query' = TRUE /\ asked' = who
       /\ UNCHANGED failed

(* RefreshLocation8001A3C8: a nonblocking Sync, then the three bytes.      *)
Refresh ==
  /\ left' = Patience
  /\ status' = IF Answered THEN 2 ELSE status
  /\ place' = IF status = 2 /\ last # "Setfilter" THEN reply.op ELSE place

----------------------------------------------------------------------------
(* The source inside the helper Command of movie_cd_direct.                *)

InSource == turn = "source" /\ failed = None /\ ~vsync
InCall(step) == InSource /\ call.step = step
Step(s) == call' = [call EXCEPT !.step = s]
SameProgram == UNCHANGED <<stage, vsync, turns, kind, good, streams, place>>
SameHost == UNCHANGED <<configured, asked, query, installed, spins>>

Yield == turn' = "blank"

Attempt(n) == [op |-> Commands[stage][1], until |-> Commands[stage][2], step |-> "sync", tries |-> n]

(* The stage's command begins with a Sync whose result nobody looks at.    *)
Issue ==
  /\ InCall("idle") /\ stage \in DOMAIN Commands
  /\ call' = Attempt(Retries)
  /\ left' = Patience
  /\ SameProgram /\ UNCHANGED <<status, last, reply, drive, host, turn>>

(* Any wait of the source that has neither its answer nor its timeout.     *)
CallWaits ==
  /\ \/ InCall("sync") /\ ~Answered /\ left > 0
     \/ InCall("reply") /\ status = 0 /\ left > 0
     \/ InCall("final") /\ ~Answered /\ left > 0
     \/ InCall("write") /\ call.op = "GetlocL" /\ ~sectors
  /\ Yield
  /\ SameProgram /\ UNCHANGED <<call, library, drive, host>>

SyncDone ==
  /\ InCall("sync") /\ left > 0 /\ Answered
  /\ status' = 2 /\ Step("write")
  /\ SameProgram /\ UNCHANGED <<last, reply, left, drive, host, turn>>

SyncExpires ==
  /\ InCall("sync") /\ left = 0 /\ TimeOut("source") /\ Step("write")
  /\ SameProgram /\ SameHost /\ UNCHANGED <<left, failed, turn>>

(* The command register takes a command only from an idle drive.           *)
WriteCommand ==
  /\ InCall("write") /\ call.op # "GetlocL"
  /\ \/ Busy /\ failed' = "overlap" /\ UNCHANGED <<call, status, last, left, pending>>
     \/ /\ ~Busy /\ UNCHANGED failed
        /\ pending' = call.op /\ status' = 0 /\ last' = call.op /\ left' = Patience
        /\ \/ call.until = "post" /\ Step("ok")
           \/ call.until # "post" /\ Step("reply")
  /\ SameProgram /\ SameHost
  /\ UNCHANGED <<reply, queued, response, reading, starting, held, sectors, expired, turn>>

(* 80036678(16): the override waits for the first sector, then asks.       *)
WriteQuery ==
  /\ InCall("write") /\ call.op = "GetlocL" /\ sectors
  /\ Ask("source") /\ Step("ok")
  /\ SameProgram
  /\ UNCHANGED <<reply, left, drive, configured, installed, spins, expired, turn>>

\* Variant: the count of retries is never compared with its end.
RetryForever == Yield /\ call' = Attempt(call.tries - 1)

(* An attempt that failed waits for the device; after the fourth the       *)
(* helper gives up.                                                        *)
Retry ==
  /\ Yield
  /\ \/ call.tries = 0 /\ Step("no")
     \/ call.tries > 0 /\ call' = Attempt(call.tries - 1)

ReplyArrives ==
  /\ InCall("reply") /\ left > 0 /\ status # 0
  /\ \/ status = 5 /\ Retry
     \/ status # 5 /\ call.until = "wait" /\ Step("final") /\ UNCHANGED turn
     \/ status # 5 /\ call.until # "wait" /\ Step("ok") /\ UNCHANGED turn
  /\ left' = Patience
  /\ SameProgram /\ UNCHANGED <<status, last, reply, drive, host>>

ReplyExpires ==
  /\ InCall("reply") /\ left = 0 /\ TimeOut("source") /\ Retry /\ left' = Patience
  /\ SameProgram /\ SameHost /\ UNCHANGED failed

FinalDone ==
  /\ InCall("final") /\ left > 0 /\ Answered
  /\ status' = 2
  /\ \/ status = 2 /\ Step("ok")
     \/ status # 2 /\ Step("no")
  /\ SameProgram /\ UNCHANGED <<last, reply, left, drive, host, turn>>

FinalExpires ==
  /\ InCall("final") /\ left = 0 /\ TimeOut("source") /\ Step("no")
  /\ SameProgram /\ SameHost /\ UNCHANGED <<left, failed, turn>>

CallStep == \/ Issue \/ CallWaits \/ SyncDone \/ SyncExpires \/ WriteCommand \/ WriteQuery
            \/ ReplyArrives \/ ReplyExpires \/ FinalDone \/ FinalExpires

----------------------------------------------------------------------------
(* The source between commands.                                            *)

(* Where a finished command leads; some of these ways wait for a VBlank.   *)
After(s, t) ==
  \/ s = "setloc" /\ t = "filter"
  \/ s = "filter" /\ t = "mode"
  \/ s = "mode" /\ t = "read"
  \/ s = "read" /\ t = "settle"
  \/ s = "nop" /\ t = IF kind = "game" THEN "channel" ELSE "ready"
  \/ s \in {"channel", "poll"} /\ t = "ready"
  \/ s = "request" /\ kind = "game" /\ t = "play"
  \/ s = "request" /\ kind # "game" /\ t \in {"frame", "stop"}
  \/ s = "voice" /\ t = "play"
  \/ s = "stop" /\ t = "begin"

(* The result of Setmode is ignored; the game clock is installed right     *)
(* after its first location request.                                       *)
Advance ==
  /\ InCall("ok") \/ (InCall("no") /\ stage = "mode")
  /\ stage' \in Stages /\ After(stage, stage')
  /\ stage' = "frame" => turns < MaxTurns
  /\ vsync' = (stage = "poll" \/ stage' \in {"settle", "frame", "play"})
  /\ call' = Idle
  /\ turns' = IF stage = "nop" THEN 0 ELSE turns
  /\ configured' = (configured \/ stage = "nop")
  /\ installed' = (installed \/ (stage = "request" /\ kind = "game"))
  /\ UNCHANGED <<kind, good, streams, library, place, drive, query, asked, spins, expired, failed, turn>>

(* A helper that gave up is called again, after a wait for the device.     *)
Again ==
  /\ InCall("no") /\ stage # "mode"
  /\ stage' = (IF stage = "read" THEN "mode" ELSE stage) /\ call' = Idle /\ Yield
  /\ UNCHANGED <<vsync, turns, kind, good, streams, library, place, drive, host>>

(* A new stream; a game holds the first sector back until its reveal.      *)
Begin ==
  /\ InSource /\ stage = "begin" /\ streams > 0
  /\ streams' = streams - 1 /\ kind' \in Kinds /\ good' \in BOOLEAN
  /\ IF kind' = "game" /\ (reading \/ held)
     THEN failed' = "hold" /\ UNCHANGED <<stage, held>>
     ELSE stage' = "setloc" /\ held' = (held \/ kind' = "game") /\ UNCHANGED failed
  /\ UNCHANGED <<call, vsync, turns, library, place, pending, queued, response, reading, starting,
                 sectors, configured, query, asked, installed, spins, expired, turn>>

Finish ==
  /\ InSource /\ stage = "begin" /\ streams = 0 /\ stage' = "done"
  /\ UNCHANGED <<call, vsync, turns, kind, good, streams, library, place, drive, host, turn>>

(* The Sync after VSync(3) at the end of OpenStream8001A4D0.               *)
Settle ==
  /\ InSource /\ stage = "settle"
  /\ IF Answered THEN /\ status' = 2 /\ stage' = IF status = 2 THEN "nop" ELSE "setloc"
                      /\ UNCHANGED turn
     ELSE Yield /\ UNCHANGED <<status, stage>>
  /\ UNCHANGED <<call, vsync, turns, kind, good, streams, last, reply, left, place, drive, host>>

(* Ready8001A750 in the loop of RunMovie or RunGame.                       *)
Ready ==
  /\ InSource /\ stage = "ready" /\ turns < MaxTurns
  /\ turns' = IF status = 2 /\ reply.read THEN 0 ELSE turns + 1
  /\ left' = Patience /\ status' = IF Answered THEN 2 ELSE status
  /\ stage' = IF status # 2 THEN "ready" ELSE IF reply.read THEN "request" ELSE "poll"
  /\ vsync' = (status # 2)
  /\ UNCHANGED <<call, kind, good, streams, last, reply, place, drive, host, turn>>

(* The loop runs out; the reveal, far shorter than it, has been released.  *)
ReadyExpires ==
  /\ InSource /\ stage = "ready" /\ turns = MaxTurns /\ ~held
  /\ stage' = "request" /\ turns' = 0
  /\ UNCHANGED <<call, vsync, kind, good, streams, library, place, drive, host, turn>>

(* GameStartupFramePresented: the revealed page lets the stream start.     *)
Reveal ==
  /\ InSource /\ stage = "ready" /\ kind = "game" /\ held /\ turns > 0
  /\ IF reading /\ starting THEN held' = FALSE /\ UNCHANGED failed
                            ELSE failed' = "release" /\ UNCHANGED held
  /\ UNCHANGED <<source, library, place, pending, queued, response, reading, starting, sectors,
                 configured, query, asked, installed, spins, expired, turn>>

(* MovieFrame801C6804: refresh the position, then ask for the next one.    *)
MovieFrame ==
  /\ InSource /\ stage = "frame" /\ Refresh
  /\ stage' = "request" /\ turns < MaxTurns /\ turns' = turns + 1
  /\ UNCHANGED <<call, vsync, kind, good, streams, last, reply, drive, host, turn>>

(* A frame of RunGame, with or without a change of the audio channel.      *)
GameFrame ==
  /\ InSource /\ stage = "play" /\ turns < MaxTurns /\ turns' = turns + 1
  /\ stage' \in {"voice", "play"} /\ vsync' = (stage' = "play")
  /\ UNCHANGED <<call, kind, good, streams, library, place, drive, host, turn>>

GameEnds ==
  /\ InSource /\ stage = "play" /\ stage' = "stop" /\ installed' = FALSE
  /\ UNCHANGED <<call, vsync, turns, kind, good, streams, library, place, drive,
                 configured, query, asked, spins, expired, failed, turn>>

WaitVBlank ==
  /\ turn = "source" /\ failed = None /\ vsync /\ Yield
  /\ UNCHANGED <<source, library, place, drive, host>>

SourceStep == \/ Advance \/ Again \/ Begin \/ Finish \/ Settle \/ Ready \/ ReadyExpires
              \/ Reveal \/ MovieFrame \/ GameFrame \/ GameEnds \/ WaitVBlank

----------------------------------------------------------------------------
(* The event pass: Session::Events while the source waits.                 *)

InPass(t) == turn = t /\ failed = None

NoEdge ==
  /\ InPass("blank") /\ turn' = "location"
  /\ UNCHANGED <<source, library, place, drive, host>>

(* One VBlank edge is delivered; its interrupt counts it and calls the     *)
(* game clock if that is installed.                                        *)
Edge ==
  /\ InPass("blank") /\ turn' = IF installed THEN "clock" ELSE "location"
  /\ vsync' = FALSE /\ left' = IF left > 0 THEN left - 1 ELSE 0
  /\ UNCHANGED <<stage, call, turns, kind, good, streams, status, last, reply, place, drive, host>>

(* GameClock801C6858, inside the interrupt: the refresh ...                *)
ClockRefresh ==
  /\ InPass("clock") /\ Refresh /\ turn' = "clockwait" /\ spins' = 0
  /\ UNCHANGED <<source, last, reply, drive, configured, query, asked, installed, expired, failed>>

(* ... then the request's Sync, which cannot give way: it drains replies   *)
(* and serves the drive itself, which reads no sector for it.              *)
ClockDrain ==
  /\ InPass("clockwait") /\ Interrupt
  /\ UNCHANGED <<source, place, host, turn>>

ClockSpins ==
  /\ InPass("clockwait") /\ response = NoReply /\ ~Answered
  /\ spins < SpinLimit /\ spins' = spins + 1 /\ ServiceCommand
  /\ UNCHANGED <<source, library, place, configured, query, asked, installed, expired, failed, turn>>

ClockExpires ==
  /\ InPass("clockwait") /\ response = NoReply /\ ~Answered
  /\ spins = SpinLimit /\ TimeOut("clock")
  /\ SameHost /\ UNCHANGED <<source, left, place, failed, turn>>

\* Variant: the pass serves the query before it delivers the edge.
ClockAsksLate ==
  /\ InPass("clockwait") /\ response = NoReply /\ Answered /\ sectors
  /\ Ask("clock") /\ turn' = "drive"
  /\ UNCHANGED <<source, reply, left, place, drive, configured, installed, spins, expired>>

(* A clock callback that has no sector to show waits without a pass that   *)
(* could read one: the action stays disabled.                              *)
ClockAsks ==
  /\ InPass("clockwait") /\ response = NoReply /\ Answered /\ sectors
  /\ Ask("clock") /\ turn' = "location"
  /\ UNCHANGED <<source, reply, left, place, drive, configured, installed, spins, expired>>

\* Variant: the reply's bytes are stored but Status is not.
LocationSilent ==
  /\ InPass("location") /\ turn' = "drive" /\ UNCHANGED status
  /\ IF query THEN /\ query' = FALSE
                   /\ \E b \in BOOLEAN : reply' = [op |-> "GetlocL", read |-> b]
     ELSE UNCHANGED <<reply, query>>
  /\ UNCHANGED <<source, last, left, place, drive, configured, asked, installed, spins, expired, failed>>

(* LocationQuery::Service: the header bytes become the reply.  The first   *)
(* is a BCD minute, so its bit 0x20 may be anything.                       *)
Location ==
  /\ InPass("location") /\ turn' = "drive"
  /\ IF query THEN /\ status' = 2 /\ query' = FALSE
                   /\ \E b \in BOOLEAN : reply' = [op |-> "GetlocL", read |-> b]
     ELSE UNCHANGED <<status, reply, query>>
  /\ UNCHANGED <<source, last, left, place, drive, configured, asked, installed, spins, expired, failed>>

Drive ==
  /\ InPass("drive") /\ ServiceCommand /\ turn' = "irq"
  /\ UNCHANGED <<source, library, place, host>>

DriveReads ==
  /\ InPass("drive") /\ ~Busy /\ configured /\ ReadSector /\ turn' = "irq"
  /\ UNCHANGED <<source, library, place, host>>

DriveInterrupt ==
  /\ InPass("irq") /\ turn' = "source"
  /\ \/ Interrupt
     \/ response = NoReply /\ UNCHANGED <<library, drive>>
  /\ UNCHANGED <<source, place, host>>

PassStep == \/ NoEdge \/ Edge \/ ClockRefresh \/ ClockDrain \/ ClockSpins \/ ClockExpires
            \/ ClockAsks \/ Location \/ Drive \/ DriveReads \/ DriveInterrupt

Halted == stage = "done" \/ failed # None
Stop == Halted /\ UNCHANGED vars

Next == CallStep \/ SourceStep \/ PassStep \/ Stop

(* The host polls for ever, VBlanks keep coming and a drive that reads     *)
(* reaches the next sector.                                                *)
Spec == Init /\ [][Next]_vars
FairSpec == Spec /\ WF_vars(CallStep \/ SourceStep \/ PassStep)
                 /\ SF_vars(Edge) /\ SF_vars(DriveReads)

----------------------------------------------------------------------------
(* Properties.                                                             *)

Calls == [op : Ops \cup {None}, until : {"post", "reply", "wait"}, tries : 0..Retries,
          step : {"idle", "sync", "write", "reply", "final", "ok", "no"}]
Replies == [op : Ops, read : BOOLEAN]
Responses == [kind : 0..5, op : Ops \cup {None}, read : BOOLEAN]

TypeOK ==
  /\ stage \in Stages /\ vsync \in BOOLEAN /\ turns \in 0..MaxTurns
  /\ kind \in {"movie", "game"} /\ good \in BOOLEAN /\ streams \in 0..MaxStreams
  /\ call \in Calls
  /\ status \in {0, 2, 3, 5} /\ last \in Ops /\ reply \in Replies
  /\ place \in Ops \cup {None} /\ left \in 0..Patience
  /\ pending \in Ops \cup {None}
  /\ queued \in {NoReply, SecondReply("Pause")}
  /\ response \in Responses
  /\ reading \in BOOLEAN /\ starting \in BOOLEAN /\ held \in BOOLEAN /\ sectors \in BOOLEAN
  /\ configured \in BOOLEAN /\ query \in BOOLEAN /\ installed \in BOOLEAN
  /\ asked \in {None, "source", "clock"} /\ spins \in 0..SpinLimit
  /\ expired \subseteq {"source", "clock"}
  /\ failed \in {None, "overlap", "hold", "release", "query"}
  /\ turn \in {"source", "blank", "clock", "clockwait", "location", "drive", "irq"}

(* The drive never throws: no command is written while a response is       *)
(* owned, no stream start is held while one runs, none is released that is *)
(* not held.                                                               *)
NoDeviceRejection == failed \notin {"overlap", "hold", "release"}

(* When Status says the last command is complete and no location is owed,  *)
(* the drive has nothing more to say: the source may write a command.      *)
AnsweredMeansIdle == turn = "source" /\ Answered => ~Busy /\ ~query

(* A Status that is not 0 speaks of the last command, and the response     *)
(* bytes are that command's: replies of the drive and of the location      *)
(* query never cross.                                                      *)
ReplyIsLast == status # 0 /\ expired = {} => reply.op = last

(* The stored disc position is only ever taken from a GetlocL reply.       *)
LocationReal == place \in {None, "GetlocL"}

(* The game clock asks for a location only once a sector was read: inside  *)
(* the interrupt it could never wait for the first.                        *)
ClockHasSector == installed => sectors

(* No wait of the source ever reaches the library timeout, even with its   *)
(* single deadline shared with the game clock.                             *)
SourceNeverTimesOut == "source" \notin expired

(* The clock's own requests are answered in the pass that made them: a     *)
(* query still open when a pass begins was made by the source.             *)
ClockQueryServed == turn \in {"source", "blank"} /\ query => asked = "source"

(* movie_foreground_direct.cpp:38 asserts that no location is requested    *)
(* while one is owed.                                                      *)
NoDoubleRequest == failed # "query"

(* A stream with a valid record is opened, played and stopped, unless the  *)
(* task failed on the way.                                                 *)
StreamEnds == (stage = "setloc" /\ good) ~> (stage = "begin" \/ failed # None)
=============================================================================
