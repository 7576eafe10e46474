-------------------------- MODULE CdCommand_proofs --------------------------
(***************************************************************************)
(* The safety properties of the command protocol, for every set of kinds,  *)
(* every number of streams and turns, and every timeout; what is said of   *)
(* the timeouts themselves assumes a patience of at least one VBlank.      *)
(***************************************************************************)
EXTENDS CdCommand, TLAPS

\* The drive still owes the reply that ends the last command.
Working == pending # None \/ queued # NoReply \/ response.kind \in {2, 3, 5}

\* A reply lies in the flags only while an interrupt is about to take it.
DriveInv ==
  /\ response.kind = 0 <=> response = NoReply
  /\ pending # None => queued = NoReply /\ response = NoReply
  /\ response # NoReply => turn \in {"irq", "clockwait"}
  /\ response.kind \in {1, 4} => turn = "irq" /\ queued = NoReply
  /\ turn = "irq" => pending = None

\* What Status and the last command say while the drive, or the host, owes a reply.
StatusInv ==
  /\ pending # None => status = 0 /\ last = pending /\ pending # "GetlocL" /\ ~query
  /\ response.kind \in {3, 5} => /\ ~query /\ status = 0 /\ last = response.op
                                 /\ queued # NoReply <=> response.kind = 3 /\ response.op = "Pause"
  /\ response.kind = 2 => /\ last = "Pause" /\ response.op = "Pause" /\ queued = NoReply
                          /\ status \in {2, 3} /\ ~query
  /\ queued # NoReply /\ response = NoReply => last = "Pause" /\ status \in {2, 3} /\ ~query
  /\ ~Working /\ ~query => Answered
  /\ query => /\ ~Working /\ last = "GetlocL" /\ (asked = "source" \/ turn = "location")
              /\ turn # "clockwait" => status = 0

\* Where the source is in its call while a reply is owed, and that the wait for
\* it is fresh: one VBlank per pass, one pass per reply.
PendingInv ==
  pending # None =>
    /\ turn = "source" => left = Patience
    /\ \/ call.step = "reply" /\ call.op = pending
       \/ /\ pending \in {"Nop", "Setfilter"}
          /\ call.step \in {"idle", "sync"} \/ (call.step = "ok" /\ call.until = "post")

\* Where it is while the second reply to a pause is queued.
QueuedInv ==
  /\ turn = "source" /\ queued # NoReply =>
        status = 3 /\ (call.step = "reply" \/ (call.step = "final" /\ left = Patience))
  /\ turn \in {"blank", "location", "drive"} /\ queued # NoReply => call.step \in {"final", "sync", "no"}
  /\ turn = "irq" /\ queued # NoReply => response.kind = 3 /\ call.step = "reply"
  /\ installed => queued = NoReply

\* A command is written, and a final answer awaited, only with nothing else owed.
CallInv ==
  /\ call.step = "write" => ~Working /\ ~query /\ (call.op # "GetlocL" => turn = "source")
  /\ turn = "source" /\ query /\ call.step = "sync" => left = Patience
  /\ call.step \in {"reply", "final"} \/ turn \in {"drive", "irq"} => ~query
  /\ call.step = "final" => pending = None /\ call.until = "wait"
  /\ call.step = "reply" => call.until # "post"
  /\ call.step \in {"reply", "final"} => last = call.op
  /\ vsync => call.step = "idle"
  /\ call.step # "idle" => /\ stage \in DOMAIN Commands
                           /\ call.op = Commands[stage][1] /\ call.until = Commands[stage][2]

\* The game clock runs only in play, after a sector was read.
ClockInv ==
  /\ turn \in {"clock", "clockwait"} => installed
  /\ installed => stage \in {"play", "voice"} /\ sectors /\ last \in {"GetlocL", "Setfilter"}
  /\ stage = "request" /\ call.step = "ok" => sectors /\ last = "GetlocL"
  /\ turn = "clockwait" /\ pending # None => spins = 0

\* A stream's end leaves the drive stopped; a held start waits for a drive that reads.
HoldInv ==
  /\ stage \in {"begin", "done"} => ~reading /\ ~held
  /\ stage = "stop" /\ call.step \in {"reply", "final", "ok"} /\ pending = None => ~reading /\ ~held
  /\ held /\ (\/ stage \in {"settle", "nop", "channel", "ready", "poll"}
              \/ (stage = "read" /\ call.step \in {"reply", "ok"} /\ pending = None)) => reading /\ starting

\* Whose reply the response bytes are.
ReplyInv ==
  /\ stage = "frame" => last = "GetlocL" /\ call.step = "idle"
  /\ last = "GetlocL" /\ status # 0 /\ turn # "clockwait" => reply.op = "GetlocL"
  /\ status # 0 /\ expired = {} => reply.op = last

\* The invariant while no exception has ended the task.
Parts ==
  /\ failed = None
  /\ TypeOK /\ DriveInv /\ StatusInv /\ PendingInv /\ QueuedInv /\ CallInv
  /\ ClockInv /\ HoldInv /\ ReplyInv /\ LocationReal

\* The one way the task ends: the game clock asked again within the interrupt.
Ended ==
  /\ failed = "query" /\ turn = "location"
  /\ TypeOK /\ ReplyIsLast /\ LocationReal /\ ClockHasSector

CdInv == Parts \/ Ended

-----------------------------------------------------------------------------

LEMMA CommandFacts ==
  /\ DOMAIN Commands = {"setloc", "filter", "mode", "read", "nop", "channel", "poll", "request", "voice", "stop"}
  /\ \A s \in DOMAIN Commands :
       /\ Commands[s][1] \in Ops /\ Commands[s][2] \in {"post", "reply", "wait"}
       /\ Commands[s][2] = "post" <=> s \in {"nop", "channel", "poll", "request", "voice"}
       /\ Commands[s][2] = "post" => Commands[s][1] \in {"Nop", "Setfilter", "GetlocL"}
       /\ Commands[s][1] = "Pause" <=> s = "stop"
       /\ Commands[s][1] = "ReadS" <=> s = "read"
       /\ Commands[s][1] = "GetlocL" <=> s = "request"
       /\ Commands[s][2] = "wait" <=> s \in {"setloc", "filter", "stop"}
  /\ Commands["voice"][1] = "Setfilter"
BY DEF Commands, Ops

LEMMA ReplyFacts ==
  /\ NoReply.kind = 0
  /\ SecondReply("Pause") # NoReply
  /\ SecondReply("Pause").kind = 2 /\ SecondReply("Pause").op = "Pause"
  /\ \A op : op # "Pause" => SecondReply(op) = NoReply
  /\ \A op : FirstReply(op).kind \in {3, 5} /\ FirstReply(op).op = op
  /\ \A op : op # "Setloc" => FirstReply(op).kind = 3
  BY DEF NoReply, SecondReply, FirstReply, Answer

LEMMA ReadFacts ==
  /\ NoReply \in Responses /\ NoReply.kind = 0
  /\ DataReady \in Responses /\ DataReady.kind = 1
  /\ DataEnd \in Responses /\ DataEnd.kind = 4
  BY DEF NoReply, Responses, Answer, DataReady, DataEnd

LEMMA StageFacts == {"ready", "request", "poll", "frame"} \subseteq Stages
  BY CommandFacts DEF Stages

LEMMA ReplyTypes ==
  ASSUME NEW op \in Ops
  PROVE  FirstReply(op) \in Responses /\ SecondReply(op) \in {NoReply, SecondReply("Pause")}
         /\ SecondReply(op) \in Responses
<1>1. (reading /\ ~starting /\ op # "ReadS") \in BOOLEAN
  OBVIOUS
<1>2. (IF op = "Setloc" /\ ~good THEN 5 ELSE 3) \in 0..5
  OBVIOUS
<1>3. \A k \in 0..5, b \in BOOLEAN : Answer(k, op, b) \in Responses
  BY DEF Answer, Responses
<1>4. FirstReply(op) \in Responses
  BY <1>1, <1>2, <1>3, Zenon DEF FirstReply
<1>5. SecondReply(op) \in {NoReply, SecondReply("Pause")}
  BY Zenon DEF SecondReply
<1>6. SecondReply(op) \in Responses
  <2>0. 2 \in 0..5 /\ FALSE \in BOOLEAN
    OBVIOUS
  <2>1. Answer(2, op, FALSE) \in Responses
    BY <1>3, <2>0, Zenon
  <2>2. NoReply \in Responses
    BY ReadFacts
  <2>3. QED
    BY <2>1, <2>2, Zenon DEF SecondReply
<1>7. QED
  BY <1>4, <1>5, <1>6

\* What serving the drive does to a state without a response: nothing, the
\* second reply to a pause, or the latched command.
LEMMA ServiceEffect ==
  ASSUME Parts, response = NoReply, ServiceCommand
  PROVE  /\ pending' = None /\ sectors' = sectors
         /\ reading' \in BOOLEAN /\ starting' \in BOOLEAN /\ held' \in BOOLEAN
         /\ response' \in Responses /\ queued' \in {NoReply, SecondReply("Pause")}
         /\ \/ /\ pending = None /\ queued = NoReply /\ response' = NoReply /\ queued' = NoReply
               /\ UNCHANGED <<reading, starting, held>>
            \/ /\ pending = None /\ queued # NoReply /\ queued' = NoReply
               /\ response' # NoReply /\ response'.kind = 2 /\ response'.op = "Pause"
               /\ UNCHANGED <<reading, starting, held>>
            \/ /\ pending # None /\ response' # NoReply /\ response'.op = pending
               /\ response'.kind = 3 \/ (response'.kind = 5 /\ pending = "Setloc")
               /\ queued' # NoReply <=> pending = "Pause"
               /\ pending = "ReadS" => reading' /\ starting'
               /\ pending = "Pause" => ~reading' /\ ~held'
               /\ pending \notin {"ReadS", "Pause"} => UNCHANGED <<reading, starting>>
               /\ held' => held
<1>1. /\ pending # None => queued = NoReply /\ pending \in Ops
      /\ queued \in {NoReply, SecondReply("Pause")}
      /\ reading \in BOOLEAN /\ starting \in BOOLEAN /\ held \in BOOLEAN
  BY DEF Parts, TypeOK, DriveInv
<1>2. CASE queued # NoReply /\ Publish
  <2>1. response' = SecondReply("Pause") /\ queued' = NoReply /\ pending = None
    BY <1>1, <1>2 DEF Publish
  <2>2. "Pause" \in Ops
    BY DEF Ops
  <2>3. SecondReply("Pause") \in Responses
    BY <2>2, ReplyTypes
  <2>4. QED
    BY <1>1, <1>2, <2>1, <2>3, ReplyFacts DEF Publish
<1>3. CASE queued = NoReply /\ pending # None /\ Execute
  <2>1. response' = FirstReply(pending) /\ queued' = SecondReply(pending) /\ pending' = None /\ sectors' = sectors
    BY <1>3 DEF Execute
  <2>2. response' \in Responses /\ queued' \in {NoReply, SecondReply("Pause")}
    BY <1>1, <1>3, <2>1, ReplyTypes
  <2>3. reading' \in BOOLEAN /\ starting' \in BOOLEAN /\ held' \in BOOLEAN
    BY <1>1, <1>3 DEF Execute
  <2>4. /\ pending = "ReadS" => reading' /\ starting'
        /\ pending = "Pause" => ~reading' /\ ~held'
        /\ held' => held
    BY <1>3 DEF Execute
  <2>5. pending \notin {"ReadS", "Pause"} => UNCHANGED <<reading, starting>>
    BY <1>1, <1>3 DEF Execute
  <2>6. /\ response' # NoReply /\ response'.op = pending
        /\ response'.kind = 3 \/ (response'.kind = 5 /\ pending = "Setloc")
        /\ queued' # NoReply <=> pending = "Pause"
    BY <2>1, ReplyFacts
  <2>7. QED
    BY <1>3, <2>1, <2>2, <2>3, <2>4, <2>5, <2>6
<1>4. CASE ~Busy /\ UNCHANGED drive
  BY <1>1, <1>4, ReadFacts DEF Busy, drive, Parts, TypeOK
<1>5. QED
  BY <1>2, <1>3, <1>4 DEF ServiceCommand

LEMMA StepFields ==
  ASSUME NEW c \in Calls, NEW s \in {"idle", "sync", "write", "reply", "final", "ok", "no"}
  PROVE  /\ [c EXCEPT !.step = s] \in Calls /\ [c EXCEPT !.step = s].step = s
         /\ [c EXCEPT !.step = s].op = c.op /\ [c EXCEPT !.step = s].until = c.until
  BY DEF Calls

LEMMA AttemptFields ==
  ASSUME stage \in DOMAIN Commands, NEW n \in 0..Retries
  PROVE  /\ Attempt(n) \in Calls /\ Attempt(n).step = "sync"
         /\ Attempt(n).op = Commands[stage][1] /\ Attempt(n).until = Commands[stage][2]
<1>1. /\ Attempt(n).step = "sync" /\ Attempt(n).tries = n
      /\ Attempt(n).op = Commands[stage][1] /\ Attempt(n).until = Commands[stage][2]
  BY DEF Attempt
<1>2. Commands[stage][1] \in Ops /\ Commands[stage][2] \in {"post", "reply", "wait"}
  BY CommandFacts
<1>3. Attempt(n) \in Calls
  BY <1>2 DEF Attempt, Calls
<1>4. QED
  BY <1>1, <1>3

\* What an attempt that failed leaves behind.
LEMMA RetryEffect ==
  ASSUME Parts, call.step # "idle", Retry
  PROVE  /\ turn' = "blank" /\ call' \in Calls /\ call'.step \in {"no", "sync"}
         /\ call'.op = call.op /\ call'.until = call.until
<1>1. call \in Calls /\ call.tries \in 0..Retries
  BY DEF Parts, TypeOK, Calls
<1>2. /\ stage \in DOMAIN Commands
      /\ call.op = Commands[stage][1] /\ call.until = Commands[stage][2]
  BY DEF Parts, CallInv
<1>3. CASE call.tries = 0 /\ Step("no")
  BY <1>1, <1>3, StepFields DEF Retry, Yield, Step
<1>4. CASE call.tries > 0 /\ call' = Attempt(call.tries - 1)
  <2>1. call.tries - 1 \in 0..Retries
    BY <1>1, <1>4 DEF Retries
  <2>2. QED
    BY <1>2, <1>4, <2>1, AttemptFields DEF Retry, Yield
<1>5. QED
  BY <1>3, <1>4 DEF Retry

LEMMA IdleFields == Idle \in Calls /\ Idle.step = "idle"
  BY DEF Calls, Idle, Retries

LEMMA ResponseFacts ==
  ASSUME Parts, response.kind \in {2, 3, 5}
  PROVE  response.op = last /\ [op |-> response.op, read |-> response.read] \in Replies
  BY DEF Parts, StatusInv, TypeOK, Replies, Responses

LEMMA Bounds ==
  /\ Patience \in 0..Patience /\ 0 \in 0..MaxTurns /\ 0 \in 0..SpinLimit
  /\ \A n \in 0..Patience : (IF n > 0 THEN n - 1 ELSE 0) \in 0..Patience
  /\ \A n \in 0..MaxTurns : n < MaxTurns => n + 1 \in 0..MaxTurns
  /\ \A n \in 0..SpinLimit : n < SpinLimit => n + 1 \in 0..SpinLimit
  BY BoundsAssumption DEF Patience, BoundsAssumption

\* What holds whenever the source runs: no reply waits in the flags, and a wait
\* that ran out, or a command about to be written, leaves nothing owed.
SourceKnows ==
  /\ response = NoReply /\ response.kind = 0 /\ Patience # 0
  /\ left = 0 => pending = None
  /\ left = 0 /\ call.step \in {"sync", "reply", "final"} => ~query
  /\ call.step \in {"sync", "write"} => queued = NoReply
  /\ left = 0 /\ call.step = "final" => queued = NoReply
  /\ call.step = "write" => pending = None /\ ~query

LEMMA SourceFacts == Parts /\ turn = "source" => SourceKnows
<1> SUFFICES ASSUME Parts, turn = "source" PROVE SourceKnows
  OBVIOUS
<1>1. response = NoReply /\ response.kind = 0
  BY DEF Parts, DriveInv
<1>2. Patience # 0
  BY BoundsAssumption DEF Patience, BoundsAssumption
<1>3. QED
  BY <1>1, <1>2 DEF Parts, CallInv, PendingInv, QueuedInv, Working, SourceKnows

\* An answered library owes nothing: the drive is idle and no query is open.
LEMMA AnsweredFacts ==
  ASSUME Parts, turn = "source", Answered
  PROVE  pending = None /\ queued = NoReply /\ response = NoReply /\ ~query
<1>1. response = NoReply /\ response.kind = 0
  BY SourceFacts DEF SourceKnows
<1>2. status \in {2, 5}
  BY DEF Answered
<1>3. pending = None /\ ~query
  BY <1>2 DEF Parts, StatusInv
<1>4. queued = NoReply
  BY <1>2 DEF Parts, QueuedInv
<1>5. QED
  BY <1>1, <1>3, <1>4

LEMMA IssueKeeps ==
  ASSUME Parts, Issue, failed' = None
  PROVE  Parts'
<1>0. Retries \in 0..Retries
  BY DEF Retries
<1>1. /\ turn = "source"
      /\ call.step = "idle" /\ ~vsync /\ stage \in DOMAIN Commands
      /\ call'.step = "sync" /\ call' \in Calls
      /\ call'.op = Commands[stage][1] /\ call'.until = Commands[stage][2]
      /\ left' = Patience
      /\ UNCHANGED <<stage, vsync, turns, kind, good, streams, status, last, reply,
                     place, pending, queued, response, reading, starting, held,
                     sectors, configured, query, asked, installed, turn, spins,
                     expired>>
  BY <1>0, AttemptFields DEF Issue, InCall, InSource, SameProgram, drive, host, Parts
<1>s. turn = "source"
  BY <1>1
<1>a. SourceKnows
  BY <1>s, SourceFacts
<1>2. TypeOK'
  BY <1>1, Bounds DEF Parts, TypeOK
<1>3. DriveInv'
  BY <1>1 DEF Parts, DriveInv
<1>4. StatusInv'
  BY <1>1 DEF Parts, StatusInv, Working, Answered
<1>p. PendingInv'
  BY <1>1 DEF Parts, PendingInv
<1>q. QueuedInv'
  BY <1>1 DEF Parts, QueuedInv
<1>5. CallInv'
  BY <1>1 DEF Parts, CallInv
<1>6. ClockInv'
  BY <1>1 DEF Parts, ClockInv
<1>7. HoldInv'
  BY <1>1 DEF Parts, HoldInv
<1>8. ReplyInv'
  BY <1>1, CommandFacts DEF Parts, ReplyInv
<1>9. LocationReal'
  BY <1>1 DEF Parts, LocationReal
<1>10. QED
  BY <1>2, <1>3, <1>4, <1>p, <1>q, <1>5, <1>6, <1>7, <1>8, <1>9 DEF Parts

LEMMA CallWaitsKeeps ==
  ASSUME Parts, CallWaits, failed' = None
  PROVE  Parts'
<1>1. /\ turn = "source"
      /\ turn' = "blank"
      /\ call.step # "idle" /\ call.step # "ok" /\ call.step # "no"
      /\ call.step = "reply" => status = 0
      /\ call.step = "write" => call.op = "GetlocL"
      /\ UNCHANGED <<stage, call, vsync, turns, kind, good, streams, status, last,
                     reply, place, left, pending, queued, response, reading,
                     starting, held, sectors, configured, query, asked, installed,
                     spins, expired>>
  BY DEF CallWaits, Yield, InCall, InSource, SameProgram, library, drive, host, Parts, vars
<1>s. turn = "source"
  BY <1>1
<1>a. SourceKnows
  BY <1>s, SourceFacts
<1>2. TypeOK'
  BY <1>1 DEF Parts, TypeOK
<1>3. DriveInv'
  BY <1>1 DEF Parts, DriveInv
<1>4. StatusInv'
  BY <1>1 DEF Parts, StatusInv, Working, Answered
<1>p. PendingInv'
  BY <1>1 DEF Parts, PendingInv
<1>q. QueuedInv'
  BY <1>1 DEF Parts, QueuedInv
<1>5. CallInv'
  BY <1>1 DEF Parts, CallInv, Working
<1>6. ClockInv'
  BY <1>1 DEF Parts, ClockInv
<1>7. HoldInv'
  BY <1>1 DEF Parts, HoldInv
<1>8. ReplyInv'
  BY <1>1 DEF Parts, ReplyInv
<1>9. LocationReal'
  BY <1>1 DEF Parts, LocationReal
<1>10. QED
  BY <1>2, <1>3, <1>4, <1>p, <1>q, <1>5, <1>6, <1>7, <1>8, <1>9 DEF Parts

LEMMA SyncDoneKeeps ==
  ASSUME Parts, SyncDone, failed' = None
  PROVE  Parts'
<1>1. /\ turn = "source"
      /\ call.step = "sync" /\ Answered
      /\ status' = 2
      /\ call'.step = "write" /\ call'.op = call.op /\ call'.until = call.until /\ call' \in Calls
      /\ UNCHANGED <<stage, vsync, turns, kind, good, streams, last, reply, place,
                     left, pending, queued, response, reading, starting, held,
                     sectors, configured, query, asked, installed, turn, spins,
                     expired>>
  BY StepFields DEF SyncDone, Step, InCall, InSource, SameProgram, drive, host, Parts, TypeOK
<1>s. turn = "source" /\ pending = None /\ queued = NoReply /\ ~query
  BY <1>1, AnsweredFacts
<1>a. SourceKnows
  BY <1>s, SourceFacts
<1>2. TypeOK'
  BY <1>1 DEF Parts, TypeOK
<1>3. DriveInv'
  BY <1>1 DEF Parts, DriveInv
<1>4. StatusInv'
  BY <1>1 DEF Parts, StatusInv, Answered
<1>p. PendingInv'
  BY <1>s, <1>1 DEF Parts, PendingInv
<1>q. QueuedInv'
  BY <1>s, <1>1 DEF Parts, QueuedInv
<1>5. CallInv'
  BY <1>s, <1>1 DEF Parts, CallInv, DriveInv, Working
<1>6. ClockInv'
  BY <1>1 DEF Parts, ClockInv
<1>7. HoldInv'
  BY <1>1 DEF Parts, HoldInv
<1>8. ReplyInv'
  BY <1>1 DEF Parts, ReplyInv, Answered
<1>9. LocationReal'
  BY <1>1 DEF Parts, LocationReal
<1>10. QED
  BY <1>2, <1>3, <1>4, <1>p, <1>q, <1>5, <1>6, <1>7, <1>8, <1>9 DEF Parts

LEMMA SyncExpiresKeeps ==
  ASSUME Parts, SyncExpires, failed' = None
  PROVE  Parts'
<1>1. /\ turn = "source"
      /\ call.step = "sync" /\ left = 0
      /\ status' = 2
      /\ response' = NoReply
      /\ expired' = expired \cup {"source"}
      /\ call'.step = "write" /\ call'.op = call.op /\ call'.until = call.until /\ call' \in Calls
      /\ UNCHANGED <<stage, vsync, turns, kind, good, streams, last, reply, place,
                     left, pending, queued, reading, starting, held, sectors,
                     configured, query, asked, installed, turn, spins>>
  BY StepFields DEF SyncExpires, TimeOut, Step, SameHost, InCall, InSource, SameProgram, Parts, TypeOK
<1>s. turn = "source"
  BY <1>1
<1>a. SourceKnows
  BY <1>s, SourceFacts
<1>2. TypeOK'
  BY <1>a, <1>1 DEF SourceKnows, Parts, TypeOK
<1>3. DriveInv'
  BY <1>1 DEF Parts, DriveInv
<1>4. StatusInv'
  BY <1>a, <1>1 DEF SourceKnows, Parts, StatusInv, Answered
<1>p. PendingInv'
  BY <1>a, <1>1 DEF SourceKnows, Parts, PendingInv
<1>q. QueuedInv'
  BY <1>1 DEF Parts, QueuedInv
<1>5. CallInv'
  BY <1>a, <1>1 DEF SourceKnows, Parts, CallInv, Working
<1>6. ClockInv'
  BY <1>1 DEF Parts, ClockInv
<1>7. HoldInv'
  BY <1>1 DEF Parts, HoldInv
<1>8. ReplyInv'
  BY <1>a, <1>1 DEF SourceKnows, Parts, ReplyInv, StatusInv, Answered, Working
<1>9. LocationReal'
  BY <1>1 DEF Parts, LocationReal
<1>10. QED
  BY <1>2, <1>3, <1>4, <1>p, <1>q, <1>5, <1>6, <1>7, <1>8, <1>9 DEF Parts

LEMMA WriteCommandKeeps ==
  ASSUME Parts, WriteCommand, failed' = None
  PROVE  Parts'
<1>0. call \in Calls /\ turn = "source" /\ call.step = "write" /\ ~Busy /\ call.op # "GetlocL"
  BY DEF WriteCommand, InCall, InSource, Parts, TypeOK, None
<1>c. /\ call' \in Calls /\ call'.op = call.op /\ call'.until = call.until
      /\ call'.step \in {"ok", "reply"}
      /\ call'.step = "ok" <=> call.until = "post"
  <2>1. CASE call.until = "post" /\ Step("ok")
    BY <1>0, <2>1, StepFields DEF Step
  <2>2. CASE call.until # "post" /\ Step("reply")
    BY <1>0, <2>2, StepFields DEF Step
  <2>3. QED
    BY <1>0, <2>1, <2>2 DEF WriteCommand
<1>d. call.op # None /\ call.op \in Ops /\ stage \in DOMAIN Commands /\ call.op = Commands[stage][1] /\ call.until = Commands[stage][2]
  BY <1>0, CommandFacts DEF Parts, CallInv, Ops, None
<1>1. /\ turn = "source"
      /\ call.step = "write" /\ call.op # "GetlocL" /\ ~Busy
      /\ status' = 0
      /\ last' = call.op
      /\ left' = Patience
      /\ pending' = call.op
      /\ UNCHANGED <<stage, vsync, turns, kind, good, streams, reply, place,
                     queued, response, reading, starting, held, sectors,
                     configured, query, asked, installed, turn, spins, expired>>
  BY <1>0 DEF WriteCommand, SameHost, SameProgram
<1>s. turn = "source"
  BY <1>1
<1>a. SourceKnows
  BY <1>s, SourceFacts
<1>2. TypeOK'
  BY <1>c, <1>d, <1>1, Bounds DEF Parts, TypeOK
<1>3. DriveInv'
  BY <1>a, <1>c, <1>d, <1>1 DEF SourceKnows, Parts, DriveInv
<1>4. StatusInv'
  BY <1>a, <1>c, <1>d, <1>1 DEF SourceKnows, Parts, StatusInv, Working
<1>p. PendingInv'
  BY <1>c, <1>d, <1>1, CommandFacts DEF Parts, PendingInv
<1>q. QueuedInv'
  BY <1>c, <1>d, <1>1 DEF Parts, QueuedInv
<1>5. CallInv'
  BY <1>c, <1>d, <1>1 DEF Parts, CallInv
<1>6. ClockInv'
  BY <1>c, <1>d, <1>1, CommandFacts DEF Parts, ClockInv
<1>7. HoldInv'
  BY <1>c, <1>d, <1>1 DEF Parts, HoldInv
<1>8. ReplyInv'
  BY <1>c, <1>d, <1>1 DEF Parts, ReplyInv
<1>9. LocationReal'
  BY <1>c, <1>d, <1>1 DEF Parts, LocationReal
<1>10. QED
  BY <1>2, <1>3, <1>4, <1>p, <1>q, <1>5, <1>6, <1>7, <1>8, <1>9 DEF Parts

LEMMA WriteQueryKeeps ==
  ASSUME Parts, WriteQuery, failed' = None
  PROVE  Parts'
<1>1. /\ turn = "source"
      /\ call.step = "write" /\ call.op = "GetlocL" /\ sectors /\ ~query
      /\ status' = 0
      /\ last' = "GetlocL"
      /\ query' \in BOOLEAN /\ query'
      /\ asked' = "source"
      /\ call'.step = "ok" /\ call'.op = call.op /\ call'.until = call.until /\ call' \in Calls
      /\ UNCHANGED <<stage, vsync, turns, kind, good, streams, reply, place, left,
                     pending, queued, response, reading, starting, held, sectors,
                     configured, installed, turn, spins, expired>>
  BY StepFields DEF WriteQuery, Ask, Step, None, drive, InCall, InSource, SameProgram, Parts, TypeOK
<1>s. turn = "source"
  BY <1>1
<1>a. SourceKnows
  BY <1>s, SourceFacts
<1>2. TypeOK'
  BY <1>1 DEF Parts, TypeOK, Ops
<1>3. DriveInv'
  BY <1>1 DEF Parts, DriveInv
<1>4. StatusInv'
  BY <1>a, <1>1 DEF SourceKnows, Parts, StatusInv, Working
<1>p. PendingInv'
  BY <1>1 DEF Parts, PendingInv
<1>q. QueuedInv'
  BY <1>1 DEF Parts, QueuedInv
<1>5. CallInv'
  BY <1>1 DEF Parts, CallInv
<1>6. ClockInv'
  BY <1>1 DEF Parts, ClockInv
<1>7. HoldInv'
  BY <1>1, CommandFacts DEF Parts, HoldInv, CallInv
<1>8. ReplyInv'
  BY <1>1 DEF Parts, ReplyInv
<1>9. LocationReal'
  BY <1>1 DEF Parts, LocationReal
<1>10. QED
  BY <1>2, <1>3, <1>4, <1>p, <1>q, <1>5, <1>6, <1>7, <1>8, <1>9 DEF Parts

LEMMA ReplyArrivesKeeps ==
  ASSUME Parts, ReplyArrives, failed' = None
  PROVE  Parts'
<1>0. call \in Calls /\ turn = "source" /\ call.step = "reply" /\ status # 0
  BY DEF ReplyArrives, InCall, InSource, Parts, TypeOK
<1>c. /\ call' \in Calls /\ call'.op = call.op /\ call'.until = call.until
      /\ status = 5 => turn' = "blank" /\ call'.step \in {"no", "sync"}
      /\ status # 5 => turn' = turn /\ call'.step \in {"final", "ok"}
      /\ call'.step = "final" <=> (status # 5 /\ call.until = "wait")
  <2>1. CASE status = 5 /\ Retry
    BY <1>0, <2>1, RetryEffect
  <2>2. CASE status # 5 /\ call.until = "wait" /\ Step("final") /\ UNCHANGED turn
    BY <1>0, <2>2, StepFields DEF Step
  <2>3. CASE status # 5 /\ call.until # "wait" /\ Step("ok") /\ UNCHANGED turn
    BY <1>0, <2>3, StepFields DEF Step
  <2>4. QED
    BY <2>1, <2>2, <2>3 DEF ReplyArrives
<1>d. /\ stage \in DOMAIN Commands /\ call.op = Commands[stage][1] /\ call.until = Commands[stage][2]
      /\ pending = None
  BY <1>0 DEF Parts, CallInv, StatusInv
<1>1. /\ turn = "source"
      /\ call.step = "reply" /\ status # 0
      /\ left' = Patience
      /\ UNCHANGED <<stage, vsync, turns, kind, good, streams, status, last, reply,
                     place, pending, queued, response, reading, starting, held,
                     sectors, configured, query, asked, installed, spins, expired>>
  BY <1>0 DEF ReplyArrives, drive, host, SameProgram
<1>s. turn = "source"
  BY <1>1
<1>a. SourceKnows
  BY <1>s, SourceFacts
<1>2. TypeOK'
  BY <1>c, <1>d, <1>1, Bounds DEF Parts, TypeOK
<1>3. DriveInv'
  BY <1>c, <1>d, <1>1 DEF Parts, DriveInv
<1>4. StatusInv'
  BY <1>c, <1>d, <1>1 DEF Parts, StatusInv, Working, Answered
<1>p. PendingInv'
  BY <1>c, <1>d, <1>1 DEF Parts, PendingInv
<1>q. QueuedInv'
  BY <1>c, <1>d, <1>1, CommandFacts DEF Parts, QueuedInv, CallInv, StatusInv, DriveInv
<1>5. CallInv'
  BY <1>c, <1>d, <1>1 DEF Parts, CallInv
<1>6. ClockInv'
  BY <1>c, <1>d, <1>1, CommandFacts DEF Parts, ClockInv, CallInv
<1>7. HoldInv'
  BY <1>c, <1>d, <1>1 DEF Parts, HoldInv
<1>8. ReplyInv'
  BY <1>c, <1>d, <1>1 DEF Parts, ReplyInv
<1>9. LocationReal'
  BY <1>c, <1>d, <1>1 DEF Parts, LocationReal
<1>10. QED
  BY <1>2, <1>3, <1>4, <1>p, <1>q, <1>5, <1>6, <1>7, <1>8, <1>9 DEF Parts

LEMMA ReplyExpiresKeeps ==
  ASSUME Parts, ReplyExpires, failed' = None
  PROVE  Parts'
<1>1. /\ turn = "source"
      /\ call.step = "reply" /\ left = 0
      /\ left' = Patience
      /\ status' = 2
      /\ response' = NoReply
      /\ expired' = expired \cup {"source"}
      /\ turn' = "blank"
      /\ call'.step \in {"no", "sync"} /\ call'.op = call.op /\ call'.until = call.until /\ call' \in Calls
      /\ UNCHANGED <<stage, vsync, turns, kind, good, streams, last, reply, place,
                     pending, queued, reading, starting, held, sectors, configured,
                     query, asked, installed, spins>>
  BY StepFields, RetryEffect DEF ReplyExpires, TimeOut, SameHost, InCall, InSource, SameProgram, Parts
<1>s. turn = "source"
  BY <1>1
<1>a. SourceKnows
  BY <1>s, SourceFacts
<1>2. TypeOK'
  <2>1. expired' \subseteq {"source", "clock"} /\ response' \in Responses
    BY <1>1, ReadFacts DEF Parts, TypeOK
  <2>2. QED
    BY <1>1, <2>1, Bounds DEF Parts, TypeOK
<1>3. DriveInv'
  BY <1>1 DEF Parts, DriveInv
<1>4. StatusInv'
  BY <1>a, <1>1 DEF SourceKnows, Parts, StatusInv, Answered
<1>p. PendingInv'
  BY <1>a, <1>1 DEF SourceKnows, Parts, PendingInv
<1>q. QueuedInv'
  BY <1>1 DEF Parts, QueuedInv
<1>5. CallInv'
  BY <1>1 DEF Parts, CallInv
<1>6. ClockInv'
  BY <1>1 DEF Parts, ClockInv
<1>7. HoldInv'
  BY <1>1 DEF Parts, HoldInv
<1>8. ReplyInv'
  BY <1>1 DEF Parts, ReplyInv, StatusInv, Answered, CallInv, DriveInv, Working
<1>9. LocationReal'
  BY <1>1 DEF Parts, LocationReal
<1>10. QED
  BY <1>2, <1>3, <1>4, <1>p, <1>q, <1>5, <1>6, <1>7, <1>8, <1>9 DEF Parts

LEMMA FinalDoneKeeps ==
  ASSUME Parts, FinalDone, failed' = None
  PROVE  Parts'
<1>0. call \in Calls /\ turn = "source" /\ call.step = "final" /\ Answered
  BY DEF FinalDone, InCall, InSource, Parts, TypeOK
<1>c. /\ call' \in Calls /\ call'.op = call.op /\ call'.until = call.until
      /\ (call'.step = "ok" /\ status = 2) \/ call'.step = "no"
  <2>1. CASE status = 2 /\ Step("ok")
    BY <1>0, <2>1, StepFields DEF Step
  <2>2. CASE status # 2 /\ Step("no")
    BY <1>0, <2>2, StepFields DEF Step
  <2>3. QED
    BY <2>1, <2>2 DEF FinalDone
<1>d. /\ stage \in DOMAIN Commands /\ call.op = Commands[stage][1] /\ call.until = Commands[stage][2]
      /\ pending = None /\ queued = NoReply /\ ~query
  BY <1>0, AnsweredFacts DEF Parts, CallInv
<1>1. /\ turn = "source"
      /\ call.step = "final" /\ Answered
      /\ status' = 2
      /\ UNCHANGED <<stage, vsync, turns, kind, good, streams, last, reply, place,
                     left, pending, queued, response, reading, starting, held,
                     sectors, configured, query, asked, installed, turn, spins,
                     expired>>
  BY <1>0 DEF FinalDone, drive, host, SameProgram
<1>s. turn = "source"
  BY <1>1
<1>a. SourceKnows
  BY <1>s, SourceFacts
<1>2. TypeOK'
  BY <1>c, <1>d, <1>1 DEF Parts, TypeOK
<1>3. DriveInv'
  BY <1>c, <1>d, <1>1 DEF Parts, DriveInv
<1>4. StatusInv'
  BY <1>c, <1>d, <1>1 DEF Parts, StatusInv, Answered
<1>p. PendingInv'
  BY <1>c, <1>d, <1>1 DEF Parts, PendingInv
<1>q. QueuedInv'
  BY <1>c, <1>d, <1>1 DEF Parts, QueuedInv
<1>5. CallInv'
  BY <1>c, <1>d, <1>1 DEF Parts, CallInv
<1>6. ClockInv'
  BY <1>c, <1>d, <1>1, CommandFacts DEF Parts, ClockInv, CallInv
<1>7. HoldInv'
  BY <1>c, <1>d, <1>1, CommandFacts DEF Parts, HoldInv, CallInv
<1>8. ReplyInv'
  BY <1>c, <1>d, <1>1 DEF Parts, ReplyInv, Answered
<1>9. LocationReal'
  BY <1>c, <1>d, <1>1 DEF Parts, LocationReal
<1>10. QED
  BY <1>2, <1>3, <1>4, <1>p, <1>q, <1>5, <1>6, <1>7, <1>8, <1>9 DEF Parts

LEMMA FinalExpiresKeeps ==
  ASSUME Parts, FinalExpires, failed' = None
  PROVE  Parts'
<1>1. /\ turn = "source"
      /\ call.step = "final" /\ left = 0
      /\ status' = 2
      /\ response' = NoReply
      /\ expired' = expired \cup {"source"}
      /\ call'.step = "no" /\ call'.op = call.op /\ call'.until = call.until /\ call' \in Calls
      /\ UNCHANGED <<stage, vsync, turns, kind, good, streams, last, reply, place,
                     left, pending, queued, reading, starting, held, sectors,
                     configured, query, asked, installed, turn, spins>>
  BY StepFields DEF FinalExpires, TimeOut, Step, SameHost, InCall, InSource, SameProgram, Parts, TypeOK
<1>s. turn = "source"
  BY <1>1
<1>a. SourceKnows
  BY <1>s, SourceFacts
<1>2. TypeOK'
  BY <1>a, <1>1 DEF SourceKnows, Parts, TypeOK
<1>3. DriveInv'
  BY <1>1 DEF Parts, DriveInv
<1>4. StatusInv'
  BY <1>a, <1>1 DEF SourceKnows, Parts, StatusInv, Answered
<1>p. PendingInv'
  BY <1>1 DEF Parts, PendingInv
<1>q. QueuedInv'
  BY <1>a, <1>1 DEF SourceKnows, Parts, QueuedInv
<1>5. CallInv'
  BY <1>1 DEF Parts, CallInv
<1>6. ClockInv'
  BY <1>1 DEF Parts, ClockInv
<1>7. HoldInv'
  BY <1>1 DEF Parts, HoldInv
<1>8. ReplyInv'
  BY <1>1 DEF Parts, ReplyInv, StatusInv, Answered, CallInv, DriveInv, Working
<1>9. LocationReal'
  BY <1>1 DEF Parts, LocationReal
<1>10. QED
  BY <1>2, <1>3, <1>4, <1>p, <1>q, <1>5, <1>6, <1>7, <1>8, <1>9 DEF Parts

LEMMA AdvanceKeeps ==
  ASSUME Parts, Advance, failed' = None
  PROVE  Parts'
<1>1. /\ turn = "source"
      /\ call.step = "ok" \/ (call.step = "no" /\ stage = "mode")
      /\ \/ stage = "setloc" /\ stage' = "filter"
         \/ stage = "filter" /\ stage' = "mode"
         \/ stage = "mode" /\ stage' = "read"
         \/ stage = "read" /\ stage' = "settle"
         \/ stage = "nop" /\ stage' \in {"channel", "ready"}
         \/ stage \in {"channel", "poll"} /\ stage' = "ready"
         \/ stage = "request" /\ kind = "game" /\ stage' = "play"
         \/ stage = "request" /\ kind # "game" /\ stage' \in {"stop", "frame"}
         \/ stage = "voice" /\ stage' = "play"
         \/ stage = "stop" /\ stage' = "begin"
      /\ vsync' \in BOOLEAN
      /\ call'.step = "idle" /\ call' \in Calls
      /\ turns' \in {0, turns}
      /\ configured' \in BOOLEAN
      /\ installed' = (installed \/ (stage = "request" /\ kind = "game"))
      /\ UNCHANGED <<kind, good, streams, status, last, reply, place, left,
                     pending, queued, response, reading, starting, held, sectors,
                     query, asked, turn, spins, expired>>
  BY IdleFields DEF Advance, After, InCall, InSource, library, drive, Parts
<1>s. turn = "source"
  BY <1>1
<1>a. SourceKnows
  BY <1>s, SourceFacts
<1>2. TypeOK'
  BY <1>1, CommandFacts, BoundsAssumption DEF Parts, TypeOK, Stages
<1>3. DriveInv'
  BY <1>1 DEF Parts, DriveInv
<1>4. StatusInv'
  BY <1>1 DEF Parts, StatusInv, Working, Answered
<1>p. PendingInv'
  BY <1>1 DEF Parts, PendingInv
<1>q. QueuedInv'
  BY <1>1 DEF Parts, QueuedInv
<1>5. CallInv'
  BY <1>1 DEF Parts, CallInv
<1>6. ClockInv'
  BY <1>1 DEF Parts, ClockInv
<1>7. HoldInv'
  BY <1>1, CommandFacts DEF Parts, HoldInv, CallInv, PendingInv
<1>8. ReplyInv'
  BY <1>1 DEF Parts, ReplyInv, ClockInv
<1>9. LocationReal'
  BY <1>1 DEF Parts, LocationReal
<1>10. QED
  BY <1>2, <1>3, <1>4, <1>p, <1>q, <1>5, <1>6, <1>7, <1>8, <1>9 DEF Parts

LEMMA AgainKeeps ==
  ASSUME Parts, Again, failed' = None
  PROVE  Parts'
<1>1. /\ turn = "source"
      /\ call.step = "no" /\ stage # "mode"
      /\ stage' = IF stage = "read" THEN "mode" ELSE stage
      /\ call'.step = "idle" /\ call' \in Calls
      /\ turn' = "blank"
      /\ UNCHANGED <<vsync, turns, kind, good, streams, status, last, reply, place,
                     left, pending, queued, response, reading, starting, held,
                     sectors, configured, query, asked, installed, spins, expired>>
  BY IdleFields DEF Again, Yield, library, drive, host, InCall, InSource, Parts
<1>s. turn = "source"
  BY <1>1
<1>a. SourceKnows
  BY <1>s, SourceFacts
<1>2. TypeOK'
  BY <1>1, CommandFacts DEF Parts, TypeOK, Stages
<1>3. DriveInv'
  BY <1>1 DEF Parts, DriveInv
<1>4. StatusInv'
  BY <1>1 DEF Parts, StatusInv, Working, Answered
<1>p. PendingInv'
  BY <1>1 DEF Parts, PendingInv
<1>q. QueuedInv'
  BY <1>1 DEF Parts, QueuedInv
<1>5. CallInv'
  BY <1>1 DEF Parts, CallInv
<1>6. ClockInv'
  BY <1>1 DEF Parts, ClockInv
<1>7. HoldInv'
  BY <1>1 DEF Parts, HoldInv
<1>8. ReplyInv'
  BY <1>1 DEF Parts, ReplyInv
<1>9. LocationReal'
  BY <1>1 DEF Parts, LocationReal
<1>10. QED
  BY <1>2, <1>3, <1>4, <1>p, <1>q, <1>5, <1>6, <1>7, <1>8, <1>9 DEF Parts

LEMMA BeginKeeps ==
  ASSUME Parts, Begin, failed' = None
  PROVE  Parts'
<1>1. /\ turn = "source"
      /\ stage = "begin" /\ streams > 0
      /\ streams' = streams - 1
      /\ kind' \in Kinds
      /\ good' \in BOOLEAN
      /\ stage' = "setloc"
      /\ held' = (held \/ kind' = "game")
      /\ UNCHANGED <<call, vsync, turns, status, last, reply, place, left, pending,
                     queued, response, reading, starting, sectors, configured,
                     query, asked, installed, turn, spins, expired>>
  BY DEF Begin, None, library, InSource, Parts, vars
<1>s. turn = "source"
  BY <1>1
<1>a. SourceKnows
  BY <1>s, SourceFacts
<1>2. TypeOK'
  BY <1>1, CommandFacts, KindsAssumption, BoundsAssumption DEF Parts, TypeOK, Stages
<1>3. DriveInv'
  BY <1>1 DEF Parts, DriveInv
<1>4. StatusInv'
  BY <1>1 DEF Parts, StatusInv, Working, Answered
<1>p. PendingInv'
  BY <1>1 DEF Parts, PendingInv
<1>q. QueuedInv'
  BY <1>1 DEF Parts, QueuedInv
<1>5. CallInv'
  BY <1>1, CommandFacts DEF Parts, CallInv
<1>6. ClockInv'
  BY <1>1 DEF Parts, ClockInv
<1>7. HoldInv'
  BY <1>1 DEF Parts, HoldInv
<1>8. ReplyInv'
  BY <1>1 DEF Parts, ReplyInv
<1>9. LocationReal'
  BY <1>1 DEF Parts, LocationReal
<1>10. QED
  BY <1>2, <1>3, <1>4, <1>p, <1>q, <1>5, <1>6, <1>7, <1>8, <1>9 DEF Parts

LEMMA FinishKeeps ==
  ASSUME Parts, Finish, failed' = None
  PROVE  Parts'
<1>1. /\ turn = "source"
      /\ stage = "begin"
      /\ stage' = "done"
      /\ UNCHANGED <<call, vsync, turns, kind, good, streams, status, last, reply,
                     place, left, pending, queued, response, reading, starting,
                     held, sectors, configured, query, asked, installed, turn,
                     spins, expired>>
  BY DEF Finish, library, drive, host, InSource, Parts, vars
<1>s. turn = "source"
  BY <1>1
<1>a. SourceKnows
  BY <1>s, SourceFacts
<1>2. TypeOK'
  BY <1>1 DEF Parts, TypeOK, Stages
<1>3. DriveInv'
  BY <1>1 DEF Parts, DriveInv
<1>4. StatusInv'
  BY <1>1 DEF Parts, StatusInv, Working, Answered
<1>p. PendingInv'
  BY <1>1 DEF Parts, PendingInv
<1>q. QueuedInv'
  BY <1>1 DEF Parts, QueuedInv
<1>5. CallInv'
  BY <1>1, CommandFacts DEF Parts, CallInv
<1>6. ClockInv'
  BY <1>1 DEF Parts, ClockInv
<1>7. HoldInv'
  BY <1>1 DEF Parts, HoldInv
<1>8. ReplyInv'
  BY <1>1 DEF Parts, ReplyInv
<1>9. LocationReal'
  BY <1>1 DEF Parts, LocationReal
<1>10. QED
  BY <1>2, <1>3, <1>4, <1>p, <1>q, <1>5, <1>6, <1>7, <1>8, <1>9 DEF Parts

LEMMA SettleKeeps ==
  ASSUME Parts, Settle, failed' = None
  PROVE  Parts'
<1>1. /\ turn = "source"
      /\ stage = "settle"
      /\ Answered => status' = 2 /\ turn' = turn
      /\ Answered => stage' = IF status = 2 THEN "nop" ELSE "setloc"
      /\ ~Answered => status' = status /\ turn' = "blank" /\ stage' = stage
      /\ UNCHANGED <<call, vsync, turns, kind, good, streams, last, reply, place,
                     left, pending, queued, response, reading, starting, held,
                     sectors, configured, query, asked, installed, spins, expired>>
  BY DEF Settle, Yield, drive, host, InSource, Parts, vars
<1>s. turn = "source"
  BY <1>1
<1>a. SourceKnows
  BY <1>s, SourceFacts
<1>2. TypeOK'
  BY <1>1, CommandFacts DEF Parts, TypeOK, Stages
<1>3. DriveInv'
  BY <1>1 DEF Parts, DriveInv
<1>4. StatusInv'
  BY <1>1 DEF Parts, StatusInv, Working, Answered
<1>p. PendingInv'
  BY <1>1 DEF Parts, PendingInv
<1>q. QueuedInv'
  BY <1>1, CommandFacts DEF Parts, QueuedInv, CallInv
<1>5. CallInv'
  BY <1>1, CommandFacts DEF Parts, CallInv
<1>6. ClockInv'
  BY <1>1 DEF Parts, ClockInv
<1>7. HoldInv'
  BY <1>1 DEF Parts, HoldInv
<1>8. ReplyInv'
  BY <1>1 DEF Parts, ReplyInv, Answered
<1>9. LocationReal'
  BY <1>1 DEF Parts, LocationReal
<1>10. QED
  BY <1>2, <1>3, <1>4, <1>p, <1>q, <1>5, <1>6, <1>7, <1>8, <1>9 DEF Parts

LEMMA ReadyKeeps ==
  ASSUME Parts, Ready, failed' = None
  PROVE  Parts'
<1>0. /\ turn = "source" /\ stage = "ready" /\ turns < MaxTurns /\ turns \in 0..MaxTurns
      /\ left' = Patience /\ vsync' = (status # 2)
      /\ UNCHANGED <<call, kind, good, streams, last, reply, place, pending,
                     queued, response, reading, starting, held, sectors,
                     configured, query, asked, installed, turn, spins, expired>>
  BY DEF Ready, drive, host, InSource, Parts, TypeOK
<1>i. /\ Answered => status' = 2
      /\ ~Answered => status' = status
  BY DEF Ready
<1>j. turns' \in 0..MaxTurns
  <2>1. turns' = 0 \/ turns' = turns + 1
    BY Zenon DEF Ready
  <2>2. QED
    BY <1>0, <2>1, Bounds
<1>k. /\ stage' \in {"ready", "request", "poll"}
      /\ stage' # "ready" => status = 2
  <2>1. \/ stage' = "ready"
        \/ status = 2 /\ stage' = "request"
        \/ status = 2 /\ stage' = "poll"
    BY Zenon DEF Ready
  <2>2. QED
    BY <2>1
<1>s. turn = "source"
  BY <1>0
<1>a. SourceKnows
  BY <1>s, SourceFacts
<1>2. TypeOK'
  <2>1. status' \in {0, 2, 3, 5} /\ vsync' \in BOOLEAN
    BY <1>0, <1>i DEF Parts, TypeOK
  <2>2. stage' \in Stages
    BY <1>k, StageFacts
  <2>3. QED
    BY <1>0, <1>j, <2>1, <2>2, Bounds DEF Parts, TypeOK
<1>3. DriveInv'
  BY <1>0, <1>i, <1>j, <1>k DEF Parts, DriveInv
<1>4. StatusInv'
  BY <1>0, <1>i, <1>j, <1>k DEF Parts, StatusInv, Working, Answered
<1>p. PendingInv'
  BY <1>0, <1>i, <1>j, <1>k DEF Parts, PendingInv
<1>q. QueuedInv'
  BY <1>0, <1>i, <1>j, <1>k, CommandFacts DEF Parts, QueuedInv, CallInv
<1>5. CallInv'
  BY <1>0, <1>i, <1>j, <1>k, CommandFacts DEF Parts, CallInv
<1>6. ClockInv'
  BY <1>0, <1>i, <1>j, <1>k, CommandFacts DEF Parts, ClockInv, CallInv
<1>7. HoldInv'
  BY <1>0, <1>i, <1>j, <1>k DEF Parts, HoldInv
<1>8. ReplyInv'
  BY <1>0, <1>i, <1>j, <1>k DEF Parts, ReplyInv, Answered
<1>9. LocationReal'
  BY <1>0, <1>i, <1>j, <1>k DEF Parts, LocationReal
<1>10. QED
  BY <1>2, <1>3, <1>4, <1>p, <1>q, <1>5, <1>6, <1>7, <1>8, <1>9 DEF Parts

LEMMA ReadyExpiresKeeps ==
  ASSUME Parts, ReadyExpires, failed' = None
  PROVE  Parts'
<1>1. /\ turn = "source"
      /\ stage = "ready" /\ ~held
      /\ stage' = "request"
      /\ turns' = 0
      /\ UNCHANGED <<call, vsync, kind, good, streams, status, last, reply, place,
                     left, pending, queued, response, reading, starting, held,
                     sectors, configured, query, asked, installed, turn, spins,
                     expired>>
  BY DEF ReadyExpires, library, drive, host, InSource, Parts, vars
<1>s. turn = "source"
  BY <1>1
<1>a. SourceKnows
  BY <1>s, SourceFacts
<1>2. TypeOK'
  BY <1>1, CommandFacts, BoundsAssumption DEF Parts, TypeOK, Stages
<1>3. DriveInv'
  BY <1>1 DEF Parts, DriveInv
<1>4. StatusInv'
  BY <1>1 DEF Parts, StatusInv, Working, Answered
<1>p. PendingInv'
  BY <1>1 DEF Parts, PendingInv
<1>q. QueuedInv'
  BY <1>1 DEF Parts, QueuedInv
<1>5. CallInv'
  BY <1>1, CommandFacts DEF Parts, CallInv
<1>6. ClockInv'
  BY <1>1, CommandFacts DEF Parts, ClockInv, CallInv
<1>7. HoldInv'
  BY <1>1 DEF Parts, HoldInv
<1>8. ReplyInv'
  BY <1>1 DEF Parts, ReplyInv
<1>9. LocationReal'
  BY <1>1 DEF Parts, LocationReal
<1>10. QED
  BY <1>2, <1>3, <1>4, <1>p, <1>q, <1>5, <1>6, <1>7, <1>8, <1>9 DEF Parts

LEMMA RevealKeeps ==
  ASSUME Parts, Reveal, failed' = None
  PROVE  Parts'
<1>1. /\ turn = "source"
      /\ stage = "ready"
      /\ reading /\ starting
      /\ held' \in BOOLEAN /\ ~held'
      /\ UNCHANGED <<stage, call, vsync, turns, kind, good, streams, status, last,
                     reply, place, left, pending, queued, response, reading,
                     starting, sectors, configured, query, asked, installed, turn,
                     spins, expired>>
  BY DEF Reveal, None, source, library, InSource, Parts, vars
<1>s. turn = "source"
  BY <1>1
<1>a. SourceKnows
  BY <1>s, SourceFacts
<1>2. TypeOK'
  BY <1>1 DEF Parts, TypeOK
<1>3. DriveInv'
  BY <1>1 DEF Parts, DriveInv
<1>4. StatusInv'
  BY <1>1 DEF Parts, StatusInv, Working, Answered
<1>p. PendingInv'
  BY <1>1 DEF Parts, PendingInv
<1>q. QueuedInv'
  BY <1>1 DEF Parts, QueuedInv
<1>5. CallInv'
  BY <1>1 DEF Parts, CallInv, Working
<1>6. ClockInv'
  BY <1>1 DEF Parts, ClockInv
<1>7. HoldInv'
  BY <1>1 DEF Parts, HoldInv
<1>8. ReplyInv'
  BY <1>1 DEF Parts, ReplyInv
<1>9. LocationReal'
  BY <1>1 DEF Parts, LocationReal
<1>10. QED
  BY <1>2, <1>3, <1>4, <1>p, <1>q, <1>5, <1>6, <1>7, <1>8, <1>9 DEF Parts

LEMMA MovieFrameKeeps ==
  ASSUME Parts, MovieFrame, failed' = None
  PROVE  Parts'
<1>1. /\ turn = "source"
      /\ stage = "frame" /\ turns < MaxTurns
      /\ stage' = "request"
      /\ turns' = turns + 1
      /\ left' = Patience
      /\ Answered => status' = 2
      /\ ~Answered => status' = status
      /\ status = 2 /\ last # "Setfilter" => place' = reply.op
      /\ ~(status = 2 /\ last # "Setfilter") => place' = place
      /\ UNCHANGED <<call, vsync, kind, good, streams, last, reply, pending,
                     queued, response, reading, starting, held, sectors,
                     configured, query, asked, installed, turn, spins, expired>>
  BY DEF MovieFrame, Refresh, drive, host, InSource, Parts, vars
<1>s. turn = "source"
  BY <1>1
<1>a. SourceKnows
  BY <1>s, SourceFacts
<1>2. TypeOK'
  <2>1. status' \in {0, 2, 3, 5} /\ place' \in Ops \cup {None}
    BY <1>1 DEF Parts, TypeOK, Replies
  <2>2. stage' \in Stages /\ turns' \in 0..MaxTurns
    BY <1>1, StageFacts, Bounds DEF Parts, TypeOK
  <2>3. QED
    BY <1>1, <2>1, <2>2, Bounds DEF Parts, TypeOK
<1>3. DriveInv'
  BY <1>1 DEF Parts, DriveInv
<1>4. StatusInv'
  BY <1>1 DEF Parts, StatusInv, Working, Answered
<1>p. PendingInv'
  BY <1>1 DEF Parts, PendingInv
<1>q. QueuedInv'
  BY <1>1, CommandFacts DEF Parts, QueuedInv, CallInv
<1>5. CallInv'
  BY <1>1, CommandFacts DEF Parts, CallInv
<1>6. ClockInv'
  BY <1>1, CommandFacts DEF Parts, ClockInv, CallInv
<1>7. HoldInv'
  BY <1>1 DEF Parts, HoldInv
<1>8. ReplyInv'
  BY <1>1 DEF Parts, ReplyInv, Answered
<1>9. LocationReal'
  BY <1>1 DEF Parts, LocationReal, ReplyInv
<1>10. QED
  BY <1>2, <1>3, <1>4, <1>p, <1>q, <1>5, <1>6, <1>7, <1>8, <1>9 DEF Parts

LEMMA GameFrameKeeps ==
  ASSUME Parts, GameFrame, failed' = None
  PROVE  Parts'
<1>1. /\ turn = "source"
      /\ stage = "play" /\ turns < MaxTurns
      /\ turns' = turns + 1
      /\ stage' \in {"voice", "play"}
      /\ vsync' \in BOOLEAN
      /\ UNCHANGED <<call, kind, good, streams, status, last, reply, place, left,
                     pending, queued, response, reading, starting, held, sectors,
                     configured, query, asked, installed, turn, spins, expired>>
  BY DEF GameFrame, library, drive, host, InSource, Parts, vars
<1>s. turn = "source"
  BY <1>1
<1>a. SourceKnows
  BY <1>s, SourceFacts
<1>2. TypeOK'
  BY <1>1, CommandFacts, BoundsAssumption DEF Parts, TypeOK, Stages
<1>3. DriveInv'
  BY <1>1 DEF Parts, DriveInv
<1>4. StatusInv'
  BY <1>1 DEF Parts, StatusInv, Working, Answered
<1>p. PendingInv'
  BY <1>1 DEF Parts, PendingInv
<1>q. QueuedInv'
  BY <1>1 DEF Parts, QueuedInv
<1>5. CallInv'
  BY <1>1, CommandFacts DEF Parts, CallInv
<1>6. ClockInv'
  BY <1>1 DEF Parts, ClockInv
<1>7. HoldInv'
  BY <1>1 DEF Parts, HoldInv
<1>8. ReplyInv'
  BY <1>1 DEF Parts, ReplyInv
<1>9. LocationReal'
  BY <1>1 DEF Parts, LocationReal
<1>10. QED
  BY <1>2, <1>3, <1>4, <1>p, <1>q, <1>5, <1>6, <1>7, <1>8, <1>9 DEF Parts

LEMMA GameEndsKeeps ==
  ASSUME Parts, GameEnds, failed' = None
  PROVE  Parts'
<1>1. /\ turn = "source"
      /\ stage = "play"
      /\ stage' = "stop"
      /\ installed' \in BOOLEAN /\ ~installed'
      /\ UNCHANGED <<call, vsync, turns, kind, good, streams, status, last, reply,
                     place, left, pending, queued, response, reading, starting,
                     held, sectors, configured, query, asked, turn, spins, expired>>
  BY DEF GameEnds, library, drive, InSource, Parts, vars
<1>s. turn = "source"
  BY <1>1
<1>a. SourceKnows
  BY <1>s, SourceFacts
<1>2. TypeOK'
  BY <1>1, CommandFacts DEF Parts, TypeOK, Stages
<1>3. DriveInv'
  BY <1>1 DEF Parts, DriveInv
<1>4. StatusInv'
  BY <1>1 DEF Parts, StatusInv, Working, Answered
<1>p. PendingInv'
  BY <1>1 DEF Parts, PendingInv
<1>q. QueuedInv'
  BY <1>1 DEF Parts, QueuedInv
<1>5. CallInv'
  BY <1>1, CommandFacts DEF Parts, CallInv
<1>6. ClockInv'
  BY <1>1 DEF Parts, ClockInv
<1>7. HoldInv'
  BY <1>1, CommandFacts DEF Parts, HoldInv, CallInv
<1>8. ReplyInv'
  BY <1>1 DEF Parts, ReplyInv
<1>9. LocationReal'
  BY <1>1 DEF Parts, LocationReal
<1>10. QED
  BY <1>2, <1>3, <1>4, <1>p, <1>q, <1>5, <1>6, <1>7, <1>8, <1>9 DEF Parts

LEMMA WaitVBlankKeeps ==
  ASSUME Parts, WaitVBlank, failed' = None
  PROVE  Parts'
<1>1. /\ turn = "source"
      /\ vsync
      /\ turn' = "blank"
      /\ UNCHANGED <<stage, call, vsync, turns, kind, good, streams, status, last,
                     reply, place, left, pending, queued, response, reading,
                     starting, held, sectors, configured, query, asked, installed,
                     spins, expired>>
  BY DEF WaitVBlank, Yield, source, library, drive, host, Parts, vars
<1>s. turn = "source"
  BY <1>1
<1>a. SourceKnows
  BY <1>s, SourceFacts
<1>2. TypeOK'
  BY <1>1 DEF Parts, TypeOK
<1>3. DriveInv'
  BY <1>1 DEF Parts, DriveInv
<1>4. StatusInv'
  BY <1>1 DEF Parts, StatusInv, Working, Answered
<1>p. PendingInv'
  BY <1>1 DEF Parts, PendingInv
<1>q. QueuedInv'
  BY <1>1 DEF Parts, QueuedInv, CallInv
<1>5. CallInv'
  BY <1>1 DEF Parts, CallInv
<1>6. ClockInv'
  BY <1>1 DEF Parts, ClockInv
<1>7. HoldInv'
  BY <1>1 DEF Parts, HoldInv
<1>8. ReplyInv'
  BY <1>1 DEF Parts, ReplyInv
<1>9. LocationReal'
  BY <1>1 DEF Parts, LocationReal
<1>10. QED
  BY <1>2, <1>3, <1>4, <1>p, <1>q, <1>5, <1>6, <1>7, <1>8, <1>9 DEF Parts

LEMMA NoEdgeKeeps ==
  ASSUME Parts, NoEdge, failed' = None
  PROVE  Parts'
<1>1. /\ turn = "blank"
      /\ turn' = "location"
      /\ UNCHANGED <<stage, call, vsync, turns, kind, good, streams, status, last,
                     reply, place, left, pending, queued, response, reading,
                     starting, held, sectors, configured, query, asked, installed,
                     spins, expired>>
  BY DEF NoEdge, InPass, source, library, drive, host, Parts, vars
<1>2. TypeOK'
  BY <1>1 DEF Parts, TypeOK
<1>3. DriveInv'
  BY <1>1 DEF Parts, DriveInv
<1>4. StatusInv'
  BY <1>1 DEF Parts, StatusInv, Working, Answered
<1>p. PendingInv'
  BY <1>1 DEF Parts, PendingInv
<1>q. QueuedInv'
  BY <1>1 DEF Parts, QueuedInv
<1>5. CallInv'
  BY <1>1 DEF Parts, CallInv, Working
<1>6. ClockInv'
  BY <1>1 DEF Parts, ClockInv
<1>7. HoldInv'
  BY <1>1 DEF Parts, HoldInv
<1>8. ReplyInv'
  BY <1>1 DEF Parts, ReplyInv
<1>9. LocationReal'
  BY <1>1 DEF Parts, LocationReal
<1>10. QED
  BY <1>2, <1>3, <1>4, <1>p, <1>q, <1>5, <1>6, <1>7, <1>8, <1>9 DEF Parts

LEMMA EdgeKeeps ==
  ASSUME Parts, Edge, failed' = None
  PROVE  Parts'
<1>1. /\ turn = "blank"
      /\ turn' = IF installed THEN "clock" ELSE "location"
      /\ vsync' \in BOOLEAN /\ ~vsync'
      /\ left' = IF left > 0 THEN left - 1 ELSE 0
      /\ UNCHANGED <<stage, call, turns, kind, good, streams, status, last, reply,
                     place, pending, queued, response, reading, starting, held,
                     sectors, configured, query, asked, installed, spins, expired>>
  BY DEF Edge, InPass, drive, host, Parts, vars
<1>2. TypeOK'
  BY <1>1, Bounds DEF Parts, TypeOK
<1>3. DriveInv'
  BY <1>1 DEF Parts, DriveInv
<1>4. StatusInv'
  BY <1>1 DEF Parts, StatusInv, Working, Answered
<1>p. PendingInv'
  BY <1>1 DEF Parts, PendingInv
<1>q. QueuedInv'
  BY <1>1 DEF Parts, QueuedInv
<1>5. CallInv'
  BY <1>1 DEF Parts, CallInv, Working
<1>6. ClockInv'
  BY <1>1 DEF Parts, ClockInv
<1>7. HoldInv'
  BY <1>1 DEF Parts, HoldInv
<1>8. ReplyInv'
  BY <1>1 DEF Parts, ReplyInv
<1>9. LocationReal'
  BY <1>1 DEF Parts, LocationReal
<1>10. QED
  BY <1>2, <1>3, <1>4, <1>p, <1>q, <1>5, <1>6, <1>7, <1>8, <1>9 DEF Parts

LEMMA ClockRefreshKeeps ==
  ASSUME Parts, ClockRefresh, failed' = None
  PROVE  Parts'
<1>1. /\ turn = "clock"
      /\ turn' = "clockwait"
      /\ spins' = 0
      /\ left' = Patience
      /\ Answered => status' = 2
      /\ ~Answered => status' = status
      /\ status = 2 /\ last # "Setfilter" => place' = reply.op
      /\ ~(status = 2 /\ last # "Setfilter") => place' = place
      /\ UNCHANGED <<stage, call, vsync, turns, kind, good, streams, last, reply,
                     pending, queued, response, reading, starting, held, sectors,
                     configured, query, asked, installed, expired>>
  BY DEF ClockRefresh, Refresh, InPass, source, drive, Parts, vars
<1>2. TypeOK'
  <2>1. status' \in {0, 2, 3, 5} /\ place' \in Ops \cup {None}
    BY <1>1 DEF Parts, TypeOK, Replies
  <2>2. QED
    BY <1>1, <2>1, Bounds DEF Parts, TypeOK
<1>3. DriveInv'
  BY <1>1 DEF Parts, DriveInv
<1>4. StatusInv'
  BY <1>1 DEF Parts, StatusInv, Working, Answered
<1>p. PendingInv'
  BY <1>1 DEF Parts, PendingInv
<1>q. QueuedInv'
  BY <1>1 DEF Parts, QueuedInv
<1>5. CallInv'
  BY <1>1 DEF Parts, CallInv, Working
<1>6. ClockInv'
  BY <1>1 DEF Parts, ClockInv
<1>7. HoldInv'
  BY <1>1 DEF Parts, HoldInv
<1>8. ReplyInv'
  BY <1>1 DEF Parts, ReplyInv, Answered
<1>9. LocationReal'
  BY <1>1 DEF Parts, LocationReal, ReplyInv, ClockInv
<1>10. QED
  BY <1>2, <1>3, <1>4, <1>p, <1>q, <1>5, <1>6, <1>7, <1>8, <1>9 DEF Parts

LEMMA ClockDrainKeeps ==
  ASSUME Parts, ClockDrain, failed' = None
  PROVE  Parts'
<1>1. /\ turn = "clockwait"
      /\ response # NoReply /\ response' = NoReply
      /\ response.kind = 3 /\ last = "Pause" => status' = 3
      /\ response.kind = 3 /\ last # "Pause" => status' = 2
      /\ response.kind \in {2, 5} => status' = response.kind
      /\ response.kind \in {2, 3, 5} => reply'.op = response.op
      /\ response.kind \notin {2, 3, 5} => status' = status /\ reply' = reply
      /\ reply' \in Replies
      /\ UNCHANGED <<stage, call, vsync, turns, kind, good, streams, last, place,
                     left, pending, queued, reading, starting, held, sectors,
                     configured, query, asked, installed, turn, spins, expired>>
  BY ResponseFacts DEF TwoReplies, ClockDrain, Interrupt, InPass, source, host, TypeOK, Parts
<1>2. TypeOK'
  <2>1. status' \in {0, 2, 3, 5}
    BY <1>1 DEF Parts, TypeOK
  <2>2. response' \in Responses
    BY <1>1, ReadFacts
  <2>3. QED
    BY <1>1, <2>1, <2>2 DEF Parts, TypeOK
<1>3. DriveInv'
  BY <1>1, ReplyFacts DEF Parts, DriveInv
<1>i. /\ response.kind \in {2, 3, 5} /\ pending = None /\ queued = NoReply /\ ~query
      /\ response.kind = 3 => last # "Pause"
      /\ response'.kind = 0
  <2>1. response.kind \in 0..5 /\ response.kind \notin {0, 1, 4}
    BY <1>1 DEF Parts, DriveInv, TypeOK, Responses
  <2>2. response.kind \in {2, 3, 5}
    BY <2>1
  <2>3. pending = None /\ queued = NoReply
    BY <1>1 DEF Parts, DriveInv, QueuedInv, ClockInv
  <2>4. ~query /\ (response.kind = 3 => last # "Pause")
    BY <2>2, <2>3 DEF Parts, StatusInv
  <2>5. QED
    BY <1>1, <2>2, <2>3, <2>4, ReplyFacts
<1>4. StatusInv'
  BY <1>1, <1>i DEF StatusInv, Answered
<1>p. PendingInv'
  BY <1>1 DEF Parts, PendingInv
<1>q. QueuedInv'
  BY <1>1 DEF Parts, QueuedInv
<1>5. CallInv'
  BY <1>1, ReplyFacts DEF Parts, CallInv, Working
<1>6. ClockInv'
  BY <1>1 DEF Parts, ClockInv
<1>7. HoldInv'
  BY <1>1 DEF Parts, HoldInv
<1>8. ReplyInv'
  BY <1>1 DEF Parts, ReplyInv, StatusInv
<1>9. LocationReal'
  BY <1>1 DEF Parts, LocationReal
<1>10. QED
  BY <1>2, <1>3, <1>4, <1>p, <1>q, <1>5, <1>6, <1>7, <1>8, <1>9 DEF Parts

LEMMA ClockSpinsKeeps ==
  ASSUME Parts, ClockSpins, failed' = None
  PROVE  Parts'
<1>0. /\ turn = "clockwait" /\ response = NoReply /\ ~Answered /\ spins < SpinLimit
      /\ spins' = spins + 1 /\ ServiceCommand
      /\ UNCHANGED <<stage, call, vsync, turns, kind, good, streams, status, last,
                     reply, place, left, configured, query, asked, installed, turn,
                     expired>>
  BY DEF ClockSpins, InPass, source, library
<1>1. /\ pending' = None /\ sectors' = sectors
      /\ reading' \in BOOLEAN /\ starting' \in BOOLEAN /\ held' \in BOOLEAN
      /\ response' \in Responses /\ queued' = NoReply
      /\ \/ /\ pending = None /\ response' = NoReply /\ response'.kind = 0
            /\ UNCHANGED <<reading, starting, held>>
         \/ /\ pending # None /\ response' # NoReply /\ response'.op = pending
            /\ response'.kind = 3 \/ (response'.kind = 5 /\ pending = "Setloc")
            /\ pending # "Pause" /\ (held' => held)
            /\ pending \notin {"ReadS", "Pause"} => UNCHANGED <<reading, starting>>
            /\ pending = "ReadS" => reading' /\ starting'
  <2>1. queued = NoReply /\ (pending # None => last = pending /\ last # "Pause")
    BY <1>0 DEF Parts, ClockInv, StatusInv
  <2>2. QED
    BY <1>0, <2>1, ServiceEffect, ReplyFacts
<1>2. TypeOK'
  BY <1>0, <1>1, Bounds DEF Parts, TypeOK
<1>3. DriveInv'
  BY <1>0, <1>1 DEF Parts, DriveInv
<1>4. StatusInv'
  <2>1. queued = NoReply /\ response.kind = 0
    BY <1>0, ReplyFacts DEF Parts, QueuedInv, ClockInv
  <2>2. CASE pending = None
    BY <1>0, <1>1, <2>1, <2>2 DEF Parts, StatusInv, Working
  <2>3. CASE pending # None
    <3>1. status = 0 /\ last = pending /\ ~query
      BY <2>3 DEF Parts, StatusInv
    <3>2. QED
      BY <1>0, <1>1, <2>3, <3>1 DEF StatusInv, Working
  <2>4. QED
    BY <2>2, <2>3
<1>p. PendingInv'
  BY <1>0, <1>1 DEF Parts, PendingInv
<1>q. QueuedInv'
  BY <1>0, <1>1 DEF Parts, QueuedInv
<1>5. CallInv'
  BY <1>0, <1>1 DEF Parts, CallInv, Working
<1>6. ClockInv'
  BY <1>0, <1>1 DEF Parts, ClockInv
<1>7. HoldInv'
  <2>1. CASE pending = None
    BY <1>0, <1>1, <2>1 DEF Parts, HoldInv
  <2>2. CASE pending # None
    <3>1. call.step = "reply" => call.op = Commands[stage][1] /\ stage \in DOMAIN Commands
      BY DEF Parts, CallInv
    <3>2. call.step \in {"ok", "final"} => call.step = "ok" /\ stage # "stop" /\ stage # "read"
      BY <2>2, CommandFacts DEF Parts, CallInv, PendingInv
    <3>3. pending = "ReadS" => stage = "read"
      BY <2>2, <3>1, CommandFacts DEF Parts, PendingInv
    <3>4. call.step = "reply" => (stage = "stop" => pending = "Pause") /\ (stage = "read" => pending = "ReadS")
      BY <2>2, <3>1, CommandFacts DEF Parts, PendingInv
    <3>5. QED
      BY <1>0, <1>1, <2>2, <3>2, <3>3, <3>4 DEF Parts, HoldInv
  <2>3. QED
    BY <2>1, <2>2
<1>8. ReplyInv'
  BY <1>0, <1>1 DEF Parts, ReplyInv
<1>9. LocationReal'
  BY <1>0, <1>1 DEF Parts, LocationReal
<1>10. QED
  BY <1>2, <1>3, <1>4, <1>p, <1>q, <1>5, <1>6, <1>7, <1>8, <1>9 DEF Parts

LEMMA ClockExpiresKeeps ==
  ASSUME Parts, ClockExpires, failed' = None
  PROVE  Parts'
<1>1. /\ turn = "clockwait"
      /\ response = NoReply /\ ~Answered /\ spins = SpinLimit
      /\ status' = 2
      /\ response' = NoReply
      /\ expired' = expired \cup {"clock"}
      /\ UNCHANGED <<stage, call, vsync, turns, kind, good, streams, last, reply,
                     place, left, pending, queued, reading, starting, held,
                     sectors, configured, query, asked, installed, turn, spins>>
  BY DEF ClockExpires, TimeOut, SameHost, InPass, source, Parts, vars
<1>2. TypeOK'
  BY <1>1 DEF Parts, TypeOK
<1>3. DriveInv'
  BY <1>1 DEF Parts, DriveInv
<1>i. pending = None /\ queued = NoReply /\ response.kind = 0
  <2>1. spins # 0
    BY <1>1, BoundsAssumption
  <2>2. QED
    BY <1>1, <2>1, ReplyFacts DEF Parts, QueuedInv, ClockInv
<1>4. StatusInv'
  BY <1>1, <1>i DEF Parts, StatusInv, Working
<1>p. PendingInv'
  BY <1>1 DEF Parts, PendingInv
<1>q. QueuedInv'
  BY <1>1 DEF Parts, QueuedInv
<1>5. CallInv'
  BY <1>1 DEF Parts, CallInv, Working
<1>6. ClockInv'
  BY <1>1 DEF Parts, ClockInv
<1>7. HoldInv'
  BY <1>1 DEF Parts, HoldInv
<1>8. ReplyInv'
  BY <1>1 DEF Parts, ReplyInv
<1>9. LocationReal'
  BY <1>1 DEF Parts, LocationReal
<1>10. QED
  BY <1>2, <1>3, <1>4, <1>p, <1>q, <1>5, <1>6, <1>7, <1>8, <1>9 DEF Parts

LEMMA ClockAsksKeeps ==
  ASSUME Parts, ClockAsks, failed' = None
  PROVE  Parts'
<1>1. /\ turn = "clockwait"
      /\ response = NoReply /\ Answered /\ sectors /\ ~query
      /\ turn' = "location"
      /\ status' = 0
      /\ last' = "GetlocL"
      /\ query' \in BOOLEAN /\ query'
      /\ asked' = "clock"
      /\ UNCHANGED <<stage, call, vsync, turns, kind, good, streams, reply, place,
                     left, pending, queued, response, reading, starting, held,
                     sectors, configured, installed, spins, expired>>
  BY DEF ClockAsks, Ask, None, InPass, source, drive, Parts, vars
<1>2. TypeOK'
  BY <1>1 DEF Parts, TypeOK, Ops
<1>3. DriveInv'
  BY <1>1 DEF Parts, DriveInv
<1>i. /\ pending = None /\ queued = NoReply /\ response.kind = 0
      /\ call.step \notin {"write", "reply", "final"}
  <2>1. installed /\ queued = NoReply /\ response.kind = 0 /\ pending = None
    BY <1>1, ReplyFacts DEF Parts, ClockInv, StatusInv, Answered
  <2>2. CASE call.step = "idle"
    BY <2>1, <2>2
  <2>3. CASE call.step # "idle"
    <3>1. call.op = "Setfilter" /\ call.until = "post"
      BY <2>1, <2>3, CommandFacts DEF Parts, CallInv, ClockInv
    <3>2. QED
      BY <1>1, <2>1, <3>1 DEF Parts, CallInv
  <2>4. QED
    BY <2>2, <2>3
<1>4. StatusInv'
  BY <1>1, <1>i DEF Parts, StatusInv, Working
<1>p. PendingInv'
  BY <1>1 DEF Parts, PendingInv
<1>q. QueuedInv'
  BY <1>1 DEF Parts, QueuedInv, ClockInv
<1>5. CallInv'
  BY <1>1, <1>i DEF Parts, CallInv
<1>6. ClockInv'
  BY <1>1 DEF Parts, ClockInv
<1>7. HoldInv'
  BY <1>1 DEF Parts, HoldInv
<1>8. ReplyInv'
  BY <1>1 DEF Parts, ReplyInv
<1>9. LocationReal'
  BY <1>1 DEF Parts, LocationReal
<1>10. QED
  BY <1>2, <1>3, <1>4, <1>p, <1>q, <1>5, <1>6, <1>7, <1>8, <1>9 DEF Parts

LEMMA LocationKeeps ==
  ASSUME Parts, Location, failed' = None
  PROVE  Parts'
<1>0. /\ turn = "location" /\ turn' = "drive"
      /\ UNCHANGED <<stage, call, vsync, turns, kind, good, streams, last, place,
                     left, pending, queued, response, reading, starting, held,
                     sectors, configured, asked, installed, spins, expired>>
  BY DEF Location, InPass, source, drive
<1>1. /\ query => status' = 2 /\ reply'.op = "GetlocL" /\ reply' \in Replies
      /\ ~query => status' = status /\ reply' = reply
      /\ query' \in BOOLEAN /\ ~query'
  <2>1. CASE query
    <3>1. status' = 2 /\ query' = FALSE
      BY <2>1 DEF Location
    <3>2. PICK b \in BOOLEAN : reply' = [op |-> "GetlocL", read |-> b]
      BY <2>1 DEF Location
    <3>3. QED
      BY <2>1, <3>1, <3>2 DEF Replies, Ops
  <2>2. CASE ~query
    BY <2>2 DEF Location, Parts, TypeOK
  <2>3. QED
    BY <2>1, <2>2
<1>2. TypeOK'
  BY <1>0, <1>1 DEF Parts, TypeOK
<1>3. DriveInv'
  BY <1>0, <1>1 DEF Parts, DriveInv
<1>4. StatusInv'
  BY <1>0, <1>1 DEF Parts, StatusInv, Working, Answered
<1>p. PendingInv'
  BY <1>0, <1>1 DEF Parts, PendingInv
<1>q. QueuedInv'
  BY <1>0, <1>1 DEF Parts, QueuedInv
<1>5. CallInv'
  BY <1>0, <1>1 DEF Parts, CallInv, Working
<1>6. ClockInv'
  BY <1>0, <1>1 DEF Parts, ClockInv
<1>7. HoldInv'
  BY <1>0, <1>1 DEF Parts, HoldInv
<1>8. ReplyInv'
  BY <1>0, <1>1 DEF Parts, ReplyInv, StatusInv
<1>9. LocationReal'
  BY <1>0, <1>1 DEF Parts, LocationReal
<1>10. QED
  BY <1>2, <1>3, <1>4, <1>p, <1>q, <1>5, <1>6, <1>7, <1>8, <1>9 DEF Parts

LEMMA DriveKeeps ==
  ASSUME Parts, Drive, failed' = None
  PROVE  Parts'
<1>0. /\ turn = "drive" /\ turn' = "irq" /\ ServiceCommand
      /\ UNCHANGED <<stage, call, vsync, turns, kind, good, streams, status, last,
                     reply, place, left, configured, query, asked, installed,
                     spins, expired>>
  BY DEF Drive, InPass, source, library, host
<1>1. /\ pending' = None /\ sectors' = sectors
      /\ reading' \in BOOLEAN /\ starting' \in BOOLEAN /\ held' \in BOOLEAN
      /\ response' \in Responses /\ queued' \in {NoReply, SecondReply("Pause")}
      /\ response.kind = 0
      /\ \/ /\ pending = None /\ queued = NoReply /\ response' = NoReply /\ response'.kind = 0 /\ queued' = NoReply
            /\ UNCHANGED <<reading, starting, held>>
         \/ /\ pending = None /\ queued # NoReply /\ queued' = NoReply
            /\ response' # NoReply /\ response'.kind = 2 /\ response'.op = "Pause"
            /\ UNCHANGED <<reading, starting, held>>
         \/ /\ pending # None /\ response' # NoReply /\ response'.op = pending
            /\ response'.kind = 3 \/ (response'.kind = 5 /\ pending = "Setloc")
            /\ queued' # NoReply <=> pending = "Pause"
            /\ pending = "ReadS" => reading' /\ starting'
            /\ pending = "Pause" => ~reading' /\ ~held'
            /\ pending \notin {"ReadS", "Pause"} => UNCHANGED <<reading, starting>>
            /\ held' => held
  <2>1. response = NoReply
    BY <1>0 DEF Parts, DriveInv
  <2>2. QED
    BY <1>0, <2>1, ServiceEffect, ReplyFacts
<1>2. TypeOK'
  BY <1>0, <1>1 DEF Parts, TypeOK
<1>3. DriveInv'
  BY <1>0, <1>1 DEF Parts, DriveInv
<1>4. StatusInv'
  <2>1. CASE pending = None /\ queued = NoReply
    BY <1>0, <1>1, <2>1 DEF Parts, StatusInv, Working, Answered
  <2>2. CASE pending = None /\ queued # NoReply
    <3>1. response = NoReply
      BY <1>0 DEF Parts, DriveInv
    <3>2. QED
      BY <1>0, <1>1, <2>2, <3>1 DEF Parts, StatusInv, Working
  <2>3. CASE pending # None
    <3>1. status = 0 /\ last = pending /\ ~query
      BY <2>3 DEF Parts, StatusInv
    <3>2. QED
      BY <1>0, <1>1, <2>3, <3>1 DEF StatusInv, Working
  <2>4. QED
    BY <2>1, <2>2, <2>3
<1>p. PendingInv'
  BY <1>0, <1>1 DEF Parts, PendingInv
<1>q. QueuedInv'
  BY <1>0, <1>1 DEF Parts, QueuedInv, PendingInv, StatusInv, ClockInv
<1>5. CallInv'
  BY <1>0, <1>1 DEF Parts, CallInv, Working
<1>6. ClockInv'
  BY <1>0, <1>1 DEF Parts, ClockInv
<1>7. HoldInv'
  <2>1. CASE pending = None
    BY <1>0, <1>1, <2>1 DEF Parts, HoldInv
  <2>2. CASE pending # None
    <3>1. call.step = "reply" => call.op = Commands[stage][1] /\ stage \in DOMAIN Commands
      BY DEF Parts, CallInv
    <3>2. call.step \in {"ok", "final"} => call.step = "ok" /\ stage # "stop" /\ stage # "read"
      BY <2>2, CommandFacts DEF Parts, CallInv, PendingInv
    <3>3. pending = "ReadS" => stage = "read"
      BY <2>2, <3>1, CommandFacts DEF Parts, PendingInv
    <3>4. call.step = "reply" => (stage = "stop" => pending = "Pause") /\ (stage = "read" => pending = "ReadS")
      BY <2>2, <3>1, CommandFacts DEF Parts, PendingInv
    <3>5. QED
      BY <1>0, <1>1, <2>2, <3>2, <3>3, <3>4 DEF Parts, HoldInv
  <2>3. QED
    BY <2>1, <2>2
<1>8. ReplyInv'
  BY <1>0, <1>1 DEF Parts, ReplyInv
<1>9. LocationReal'
  BY <1>0, <1>1 DEF Parts, LocationReal
<1>10. QED
  BY <1>2, <1>3, <1>4, <1>p, <1>q, <1>5, <1>6, <1>7, <1>8, <1>9 DEF Parts

LEMMA DriveReadsKeeps ==
  ASSUME Parts, DriveReads, failed' = None
  PROVE  Parts'
<1>0. /\ turn = "drive" /\ turn' = "irq"
      /\ ~Busy /\ ReadSector /\ reading /\ ~held
      /\ UNCHANGED <<stage, call, vsync, turns, kind, good, streams, status, last,
                     reply, place, left, pending, queued, held, configured, query,
                     asked, installed, spins, expired>>
  BY DEF DriveReads, ReadSector, InPass, source, library, host
<1>1. /\ response' \in Responses /\ response'.kind \in {0, 1, 4}
      /\ response'.kind = 0 <=> response' = NoReply
      /\ starting' \in BOOLEAN /\ sectors' \in BOOLEAN /\ reading' \in BOOLEAN
      /\ sectors => sectors'
      /\ pending = None /\ queued = NoReply /\ response = NoReply /\ response.kind = 0
  <2>0. /\ pending = None /\ queued = NoReply /\ response = NoReply /\ response.kind = 0
        /\ starting \in BOOLEAN /\ sectors \in BOOLEAN /\ reading \in BOOLEAN
    BY <1>0, ReplyFacts DEF Busy, Parts, TypeOK
  <2>1. response' = NoReply \/ response' = DataReady \/ response' = DataEnd
    BY <1>0, Zenon DEF ReadSector
  <2>2. response' \in Responses /\ response'.kind \in {0, 1, 4} /\ (response'.kind = 0 <=> response' = NoReply)
    BY <2>1, ReadFacts
  <2>3. /\ starting' = FALSE \/ starting' = starting
        /\ reading' = FALSE \/ reading' = reading
        /\ sectors' = TRUE \/ sectors' = sectors
    BY <1>0, Zenon DEF ReadSector
  <2>4. starting' \in BOOLEAN /\ sectors' \in BOOLEAN /\ reading' \in BOOLEAN /\ (sectors => sectors')
    <3>1. starting' \in BOOLEAN
      BY <2>0, <2>3
    <3>2. reading' \in BOOLEAN
      BY <2>0, <2>3
    <3>3. sectors' \in BOOLEAN
      BY <2>0, <2>3, Zenon
    <3>4. sectors => sectors'
      BY <2>3, Zenon
    <3>5. QED
      BY <3>1, <3>2, <3>3, <3>4
  <2>5. QED
    BY <2>0, <2>2, <2>4
<1>2. TypeOK'
  BY <1>0, <1>1 DEF Parts, TypeOK
<1>3. DriveInv'
  BY <1>0, <1>1 DEF Parts, DriveInv
<1>4. StatusInv'
  BY <1>0, <1>1 DEF Parts, StatusInv, Working, Answered
<1>p. PendingInv'
  BY <1>0, <1>1 DEF Parts, PendingInv
<1>q. QueuedInv'
  BY <1>0, <1>1 DEF Parts, QueuedInv
<1>5. CallInv'
  BY <1>0, <1>1 DEF Parts, CallInv, Working
<1>6. ClockInv'
  BY <1>0, <1>1 DEF Parts, ClockInv
<1>7. HoldInv'
  BY <1>0, <1>1 DEF Parts, HoldInv
<1>8. ReplyInv'
  BY <1>0, <1>1 DEF Parts, ReplyInv
<1>9. LocationReal'
  BY <1>0, <1>1 DEF Parts, LocationReal
<1>10. QED
  BY <1>2, <1>3, <1>4, <1>p, <1>q, <1>5, <1>6, <1>7, <1>8, <1>9 DEF Parts

LEMMA DriveInterruptKeeps ==
  ASSUME Parts, DriveInterrupt, failed' = None
  PROVE  Parts'
<1>1. /\ turn = "irq"
      /\ turn' = "source"
      /\ response' = NoReply
      /\ response.kind = 3 /\ last = "Pause" => status' = 3
      /\ response.kind = 3 /\ last # "Pause" => status' = 2
      /\ response.kind \in {2, 5} => status' = response.kind
      /\ response.kind \in {2, 3, 5} => reply'.op = response.op
      /\ response.kind \notin {2, 3, 5} => status' = status /\ reply' = reply
      /\ reply' \in Replies
      /\ UNCHANGED <<stage, call, vsync, turns, kind, good, streams, last, place,
                     left, pending, queued, reading, starting, held, sectors,
                     configured, query, asked, installed, spins, expired>>
  BY ResponseFacts DEF TwoReplies, DriveInterrupt, Interrupt, InPass, source, library, drive, host, TypeOK, DriveInv, Parts
<1>2. TypeOK'
  <2>1. status' \in {0, 2, 3, 5}
    BY <1>1 DEF Parts, TypeOK
  <2>2. response' \in Responses
    BY <1>1, ReadFacts
  <2>3. QED
    BY <1>1, <2>1, <2>2 DEF Parts, TypeOK
<1>3. DriveInv'
  BY <1>1, ReplyFacts DEF Parts, DriveInv
<1>i. pending = None /\ ~query /\ response'.kind = 0
  BY <1>1, ReplyFacts DEF Parts, DriveInv, CallInv
<1>4. StatusInv'
  <2>1. CASE response.kind \in {2, 3, 5}
    BY <1>1, <1>i, <2>1 DEF Parts, StatusInv, Working, Answered
  <2>2. CASE response.kind \notin {2, 3, 5}
    <3>1. queued = NoReply
      BY <1>1, <2>2 DEF Parts, QueuedInv
    <3>2. QED
      BY <1>1, <1>i, <2>2, <3>1 DEF Parts, StatusInv, Working, Answered
  <2>3. QED
    BY <2>1, <2>2
<1>p. PendingInv'
  BY <1>1, <1>i DEF PendingInv
<1>q. QueuedInv'
  BY <1>1 DEF Parts, QueuedInv, StatusInv
<1>5. CallInv'
  <2>1. call.step = "write" => ~Working
    BY DEF Parts, CallInv
  <2>2. call.step = "write" => ~Working'
    BY <1>1, <1>i, <2>1 DEF Working
  <2>3. QED
    BY <1>1, <1>i, <2>2 DEF Parts, CallInv
<1>6. ClockInv'
  BY <1>1 DEF Parts, ClockInv
<1>7. HoldInv'
  BY <1>1 DEF Parts, HoldInv
<1>8. ReplyInv'
  BY <1>1 DEF Parts, ReplyInv, StatusInv
<1>9. LocationReal'
  BY <1>1 DEF Parts, LocationReal
<1>10. QED
  BY <1>2, <1>3, <1>4, <1>p, <1>q, <1>5, <1>6, <1>7, <1>8, <1>9 DEF Parts

-----------------------------------------------------------------------------
(* No step throws, but for the game clock's second request.                *)

LEMMA SourceSafe ==
  ASSUME Parts, CallStep \/ SourceStep
  PROVE  failed' = None
<1>1. CASE WriteCommand
  <2>1. call.step = "write" /\ turn = "source"
    BY <1>1 DEF WriteCommand, InCall, InSource
  <2>2. ~Busy
    BY <2>1, SourceFacts DEF SourceKnows, Busy
  <2>3. QED
    BY <1>1, <2>2 DEF WriteCommand, Parts
<1>2. CASE WriteQuery
  <2>1. call.step = "write" /\ turn = "source"
    BY <1>2 DEF WriteQuery, InCall, InSource
  <2>2. ~query
    BY <2>1, SourceFacts DEF SourceKnows
  <2>3. QED
    BY <1>2, <2>2 DEF WriteQuery, Ask, Parts
<1>3. CASE Begin
  BY <1>3 DEF Begin, Parts, HoldInv
<1>4. CASE Reveal
  BY <1>4 DEF Reveal, Parts, HoldInv
<1>5. CASE Issue
  BY <1>5 DEF Issue, host, Parts
<1>6. CASE CallWaits
  BY <1>6 DEF CallWaits, host, Parts
<1>7. CASE SyncDone
  BY <1>7 DEF SyncDone, host, Parts
<1>8. CASE SyncExpires
  BY <1>8 DEF SyncExpires, Parts
<1>9. CASE ReplyArrives
  BY <1>9 DEF ReplyArrives, host, Parts
<1>10. CASE ReplyExpires
  BY <1>10 DEF ReplyExpires, Parts
<1>11. CASE FinalDone
  BY <1>11 DEF FinalDone, host, Parts
<1>12. CASE FinalExpires
  BY <1>12 DEF FinalExpires, Parts
<1>13. CASE Advance
  BY <1>13 DEF Advance, Parts
<1>14. CASE Again
  BY <1>14 DEF Again, host, Parts
<1>15. CASE Finish
  BY <1>15 DEF Finish, host, Parts
<1>16. CASE Settle
  BY <1>16 DEF Settle, host, Parts
<1>17. CASE Ready
  BY <1>17 DEF Ready, host, Parts
<1>18. CASE ReadyExpires
  BY <1>18 DEF ReadyExpires, host, Parts
<1>19. CASE MovieFrame
  BY <1>19 DEF MovieFrame, host, Parts
<1>20. CASE GameFrame
  BY <1>20 DEF GameFrame, host, Parts
<1>21. CASE GameEnds
  BY <1>21 DEF GameEnds, Parts
<1>22. CASE WaitVBlank
  BY <1>22 DEF WaitVBlank, host, Parts
<1>23. QED
  BY <1>1, <1>2, <1>3, <1>4, <1>5, <1>6, <1>7, <1>8, <1>9, <1>10, <1>11,
     <1>12, <1>13, <1>14, <1>15, <1>16, <1>17, <1>18, <1>19, <1>20, <1>21, <1>22 DEF CallStep, SourceStep

LEMMA PassSafe ==
  ASSUME Parts, PassStep
  PROVE  failed' = None \/ Ended'
<1>1. CASE ClockAsks
  <2>1. CASE query
    <3>1. /\ failed' = "query" /\ turn' = "location"
          /\ UNCHANGED <<stage, call, vsync, turns, kind, good, streams, status, last, reply,
                         place, left, pending, queued, response, reading, starting, held,
                         sectors, configured, query, asked, installed, spins, expired>>
      BY <1>1, <2>1 DEF ClockAsks, Ask, source, drive
    <3>2. TypeOK'
      BY <3>1 DEF Parts, TypeOK
    <3>3. ReplyIsLast'
      BY <3>1 DEF Parts, ReplyInv, ReplyIsLast
    <3>4. LocationReal' /\ ClockHasSector'
      BY <3>1 DEF Parts, LocationReal, ClockInv, ClockHasSector
    <3>5. QED
      BY <3>1, <3>2, <3>3, <3>4 DEF Ended
  <2>2. CASE ~query
    BY <1>1, <2>2 DEF ClockAsks, Ask, Parts
  <2>3. QED
    BY <2>1, <2>2
<1>2. CASE NoEdge
  BY <1>2 DEF NoEdge, host, Parts
<1>3. CASE Edge
  BY <1>3 DEF Edge, host, Parts
<1>4. CASE ClockRefresh
  BY <1>4 DEF ClockRefresh, Parts
<1>5. CASE ClockDrain
  BY <1>5 DEF ClockDrain, host, Parts
<1>6. CASE ClockSpins
  BY <1>6 DEF ClockSpins, Parts
<1>7. CASE ClockExpires
  BY <1>7 DEF ClockExpires, Parts
<1>8. CASE Location
  BY <1>8 DEF Location, Parts
<1>9. CASE Drive
  BY <1>9 DEF Drive, host, Parts
<1>10. CASE DriveReads
  BY <1>10 DEF DriveReads, host, Parts
<1>11. CASE DriveInterrupt
  BY <1>11 DEF DriveInterrupt, host, Parts
<1>12. QED
  BY <1>1, <1>2, <1>3, <1>4, <1>5, <1>6, <1>7, <1>8, <1>9, <1>10, <1>11 DEF PassStep

LEMMA StepKeeps ==
  ASSUME Parts, CallStep \/ SourceStep \/ PassStep, failed' = None
  PROVE  Parts'
<1>1. CASE CallStep
  BY <1>1, IssueKeeps, CallWaitsKeeps, SyncDoneKeeps, SyncExpiresKeeps,
     WriteCommandKeeps, WriteQueryKeeps, ReplyArrivesKeeps, ReplyExpiresKeeps,
     FinalDoneKeeps, FinalExpiresKeeps DEF CallStep
<1>2. CASE SourceStep
  BY <1>2, AdvanceKeeps, AgainKeeps, BeginKeeps, FinishKeeps,
     SettleKeeps, ReadyKeeps, ReadyExpiresKeeps, RevealKeeps,
     MovieFrameKeeps, GameFrameKeeps, GameEndsKeeps, WaitVBlankKeeps DEF SourceStep
<1>3. CASE PassStep
  BY <1>3, NoEdgeKeeps, EdgeKeeps, ClockRefreshKeeps, ClockDrainKeeps,
     ClockSpinsKeeps, ClockExpiresKeeps, ClockAsksKeeps, LocationKeeps,
     DriveKeeps, DriveReadsKeeps, DriveInterruptKeeps DEF PassStep
<1>4. QED
  BY <1>1, <1>2, <1>3

LEMMA StutterKeeps ==
  ASSUME CdInv, UNCHANGED vars
  PROVE  CdInv'
<1>1. UNCHANGED <<stage, call, vsync, turns, kind, good, streams, status, last, reply, place,
                  left, pending, queued, response, reading, starting, held, sectors,
                  configured, query, asked, installed, turn, spins, expired, failed>>
  BY DEF vars, source, library, drive, host
<1>2. TypeOK => TypeOK'
  BY <1>1 DEF TypeOK
<1>3. (DriveInv => DriveInv') /\ (PendingInv => PendingInv')
  BY <1>1 DEF DriveInv, PendingInv
<1>4. StatusInv => StatusInv'
  BY <1>1 DEF StatusInv, Working, Answered
<1>5. (QueuedInv => QueuedInv') /\ (CallInv => CallInv')
  BY <1>1 DEF QueuedInv, CallInv, Working
<1>6. (ClockInv => ClockInv') /\ (HoldInv => HoldInv') /\ (ReplyInv => ReplyInv')
  BY <1>1 DEF ClockInv, HoldInv, ReplyInv
<1>7. (LocationReal => LocationReal') /\ (ReplyIsLast => ReplyIsLast') /\ (ClockHasSector => ClockHasSector')
  BY <1>1 DEF LocationReal, ReplyIsLast, ClockHasSector
<1>8. CASE Parts
  BY <1>1, <1>2, <1>3, <1>4, <1>5, <1>6, <1>7, <1>8 DEF CdInv, Parts
<1>9. CASE Ended
  BY <1>1, <1>2, <1>7, <1>9 DEF CdInv, Ended
<1>10. QED
  BY <1>8, <1>9 DEF CdInv

LEMMA InitEstablishes == Init => CdInv
<1> SUFFICES ASSUME Init PROVE Parts
  BY DEF CdInv
<1>1. TypeOK
  <2>1. Patience \in 0..Patience /\ MaxStreams \in 0..MaxStreams /\ 0 \in 0..MaxTurns /\ 0 \in 0..SpinLimit
    BY BoundsAssumption DEF BoundsAssumption, Patience
  <2>2. stage \in Stages /\ kind \in {"movie", "game"} /\ call \in Calls
    BY KindsAssumption, IdleFields DEF KindsAssumption, Init, Stages
  <2>3. reply \in Replies /\ last \in Ops /\ response \in Responses
    BY ReadFacts DEF Init, Replies, Ops
  <2>4. QED
    BY <2>1, <2>2, <2>3 DEF Init, TypeOK
<1>2. response.kind = 0 /\ call.step = "idle" /\ reply.op = last
  BY ReadFacts, IdleFields DEF Init
<1>3. DriveInv /\ PendingInv /\ QueuedInv
  BY <1>2 DEF Init, DriveInv, PendingInv, QueuedInv
<1>4. StatusInv
  BY <1>2 DEF Init, StatusInv, Answered, Working
<1>5. CallInv /\ ClockInv
  BY <1>2 DEF Init, CallInv, ClockInv
<1>6. HoldInv /\ ReplyInv /\ LocationReal
  BY <1>2 DEF Init, HoldInv, ReplyInv, LocationReal
<1>7. QED
  BY <1>1, <1>3, <1>4, <1>5, <1>6 DEF Init, Parts

\* Only a task that no exception has ended takes a step.
LEMMA StepRuns ==
  ASSUME CdInv, CallStep \/ SourceStep \/ PassStep
  PROVE  failed = None /\ Parts
<1>1. failed = None
  <2>1. CASE CallStep
    BY <2>1 DEF CallStep, Issue, CallWaits, SyncDone, SyncExpires, WriteCommand, WriteQuery,
                ReplyArrives, ReplyExpires, FinalDone, FinalExpires, InCall, InSource
  <2>2. CASE SourceStep
    BY <2>2 DEF SourceStep, Advance, Again, Begin, Finish, Settle, Ready, ReadyExpires, Reveal,
                MovieFrame, GameFrame, GameEnds, WaitVBlank, InCall, InSource
  <2>3. CASE PassStep
    BY <2>3 DEF PassStep, NoEdge, Edge, ClockRefresh, ClockDrain, ClockSpins, ClockExpires,
                ClockAsks, Location, Drive, DriveReads, DriveInterrupt, InPass
  <2> QED
    BY <2>1, <2>2, <2>3
<1> QED
  BY <1>1 DEF CdInv, Ended, None

LEMMA NextKeeps ==
  ASSUME CdInv, [Next]_vars
  PROVE  CdInv'
<1>1. CASE UNCHANGED vars
  BY <1>1, StutterKeeps
<1>2. CASE Stop
  BY <1>2, StutterKeeps DEF Stop
<1>3. CASE CallStep \/ SourceStep \/ PassStep
  <2>1. Parts
    BY <1>3, StepRuns
  <2>3. CASE failed' = None
    BY <1>3, <2>1, <2>3, StepKeeps DEF CdInv
  <2>4. CASE failed' # None
    BY <1>3, <2>1, <2>4, SourceSafe, PassSafe DEF CdInv
  <2>5. QED
    BY <2>3, <2>4
<1>4. QED
  BY <1>1, <1>2, <1>3 DEF Next

(* The invariant holds of every behaviour.                                 *)
THEOREM ProtocolInvariant == Spec => []CdInv
<1>1. Init => CdInv
  BY InitEstablishes
<1>2. CdInv /\ [Next]_vars => CdInv'
  BY NextKeeps
<1>3. QED
  BY <1>1, <1>2, PTL DEF Spec

(* Every variable keeps its type: the retries of a helper, the loop of a   *)
(* wait inside the interrupt and the VBlanks to a timeout stay in range.   *)
THEOREM ProtocolTypes == Spec => []TypeOK
<1>1. CdInv => TypeOK
  BY DEF CdInv, Parts, Ended
<1>2. QED
  BY <1>1, ProtocolInvariant, PTL

(* Whatever the timeouts, no command overlaps a reply the drive owns, no   *)
(* start is held while one runs and none released that is not held.        *)
THEOREM DriveNeverRejects == Spec => []NoDeviceRejection
<1>1. CdInv => NoDeviceRejection
  BY DEF CdInv, Parts, Ended, NoDeviceRejection, None
<1>2. QED
  BY <1>1, ProtocolInvariant, PTL

(* Status says complete to the source only if the drive has nothing more   *)
(* to say, and no location is owed.                                        *)
THEOREM AnsweredIsIdle == Spec => []AnsweredMeansIdle
<1>1. CdInv => AnsweredMeansIdle
  <2>1. CASE Parts
    BY <2>1, AnsweredFacts DEF AnsweredMeansIdle, Busy
  <2>2. CASE Ended
    BY <2>2 DEF Ended, AnsweredMeansIdle
  <2>3. QED
    BY <2>1, <2>2 DEF CdInv
<1>2. QED
  BY <1>1, ProtocolInvariant, PTL

(* Unless a wait ever timed out, a Status that is not 0 and the response   *)
(* bytes speak of the last command.                                        *)
THEOREM RepliesNeverCross == Spec => []ReplyIsLast
<1>1. CdInv => ReplyIsLast
  BY DEF CdInv, Parts, Ended, ReplyInv, ReplyIsLast
<1>2. QED
  BY <1>1, ProtocolInvariant, PTL

(* The stored disc position is only ever taken from a GetlocL reply, even  *)
(* after timeouts.                                                         *)
THEOREM PositionIsReal == Spec => []LocationReal
<1>1. CdInv => LocationReal
  BY DEF CdInv, Parts, Ended
<1>2. QED
  BY <1>1, ProtocolInvariant, PTL

(* When the game clock is installed a sector has been read, so that its    *)
(* request inside the interrupt never waits for the first.                 *)
THEOREM ClockNeverWaitsForSector == Spec => []ClockHasSector
<1>1. CdInv => ClockHasSector
  BY DEF CdInv, Parts, Ended, ClockInv, ClockHasSector
<1>2. QED
  BY <1>1, ProtocolInvariant, PTL

(* No query of the game clock outlives the event pass that made it.        *)
THEOREM ClockServedInPass == Spec => []ClockQueryServed
<1>1. CdInv => ClockQueryServed
  BY DEF CdInv, Parts, Ended, StatusInv, ClockQueryServed
<1>2. QED
  BY <1>1, ProtocolInvariant, PTL

-----------------------------------------------------------------------------
\* A wait of the source begins with the whole deadline, and so does every pass
\* it gives way to: the pass that follows takes at most one VBlank of it.
FreshWait ==
  call.step \in {"sync", "reply", "final"} =>
    IF turn = "blank" THEN left = Patience ELSE left + 1 >= Patience

\* Only a query that is open when the clock asks again runs into a timeout.
ClockOnly ==
  /\ SourceNeverTimesOut
  /\ expired = {} \/ failed = "query" \/ (turn = "clockwait" /\ query)

\* The waits of the source, while no exception has ended the task.
WaitInv == failed = None => FreshWait

\* An unanswered wait of the source still has its whole deadline.
LEMMA UnansweredIsFresh ==
  ASSUME Parts, turn = "source",
         \/ call.step \in {"sync", "final"} /\ ~Answered
         \/ call.step = "reply" /\ status = 0
  PROVE  left = Patience
<1>1. response = NoReply /\ response.kind = 0
  BY SourceFacts DEF SourceKnows
<1>2. CASE pending # None
  BY <1>2 DEF Parts, PendingInv
<1>3. CASE query
  BY <1>3 DEF Parts, CallInv
<1>4. CASE queued # NoReply
  BY <1>1, <1>4 DEF Parts, QueuedInv, CallInv, SourceKnows, SourceFacts
<1>5. CASE pending = None /\ queued = NoReply /\ ~query
  BY <1>1, <1>5 DEF Parts, StatusInv, Working, Answered
<1> QED
  BY <1>2, <1>3, <1>4, <1>5

LEMMA PatienceNat == Patience \in Nat /\ Patience >= 1
  BY BoundsAssumption DEF Patience, BoundsAssumption

LEMMA CallFresh ==
  ASSUME Parts, FreshWait, CallStep
  PROVE  FreshWait'
<1>1. call \in Calls /\ left \in Nat
  BY PatienceNat DEF Parts, TypeOK
<1>2. CASE Issue
  BY <1>2, PatienceNat DEF Issue, FreshWait, InCall, InSource
<1>3. CASE CallWaits
  <2>1. /\ turn = "source" /\ turn' = "blank" /\ UNCHANGED <<call, left>>
        /\ \/ call.step = "write"
           \/ call.step \in {"sync", "final"} /\ ~Answered
           \/ call.step = "reply" /\ status = 0
    BY <1>3 DEF CallWaits, InCall, InSource, Yield, library
  <2>2. call.step # "write" => left = Patience
    BY <2>1, UnansweredIsFresh
  <2> QED
    BY <2>1, <2>2 DEF FreshWait
<1>4. CASE SyncDone \/ SyncExpires \/ WriteQuery \/ FinalDone \/ FinalExpires
  <2>1. \E t \in {"write", "ok", "no"} : call' = [call EXCEPT !.step = t]
    BY <1>4 DEF SyncDone, SyncExpires, WriteQuery, FinalDone, FinalExpires, Step
  <2>2. PICK t \in {"write", "ok", "no"} : call' = [call EXCEPT !.step = t]
    BY <2>1
  <2>3. call'.step = t
    BY <1>1, <2>2, StepFields
  <2> QED
    BY <2>2, <2>3 DEF FreshWait
<1>5. CASE WriteCommand
  <2>1. \/ UNCHANGED <<call, left, turn>>
        \/ left' = Patience /\ turn' = turn /\ turn = "source"
    BY <1>5 DEF WriteCommand, InCall, InSource
  <2> QED
    BY <1>1, <2>1, PatienceNat DEF FreshWait
<1>6. CASE ReplyArrives \/ ReplyExpires
  <2>1. left' = Patience
    BY <1>6 DEF ReplyArrives, ReplyExpires
  <2> QED
    BY <2>1, PatienceNat DEF FreshWait
<1> QED
  BY <1>2, <1>3, <1>4, <1>5, <1>6 DEF CallStep

LEMMA SourceFresh ==
  ASSUME Parts, FreshWait, SourceStep
  PROVE  FreshWait'
<1>1. CallInv /\ "idle" \notin {"sync", "reply", "final"}
  BY DEF Parts
<1>2. stage \in DOMAIN Commands <=>
        stage \in {"setloc", "filter", "mode", "read", "nop", "channel", "poll", "request",
                   "voice", "stop"}
  BY CommandFacts
<1>3. CASE Advance \/ Again
  BY <1>3, IdleFields DEF Advance, Again, FreshWait
<1>4. CASE Begin \/ Finish \/ Settle \/ Ready \/ ReadyExpires \/ Reveal \/ MovieFrame
           \/ GameFrame \/ GameEnds
  <2>1. stage \in {"begin", "settle", "ready", "frame", "play"} /\ UNCHANGED call
    BY <1>4 DEF Begin, Finish, Settle, Ready, ReadyExpires, Reveal, MovieFrame, GameFrame,
       GameEnds, source
  <2>2. call.step = "idle"
    BY <1>1, <1>2, <2>1 DEF CallInv
  <2> QED
    BY <2>1, <2>2 DEF FreshWait
<1>5. CASE WaitVBlank
  <2>1. vsync /\ UNCHANGED call
    BY <1>5 DEF WaitVBlank, source
  <2> QED
    BY <1>1, <2>1 DEF CallInv, FreshWait
<1> QED
  BY <1>3, <1>4, <1>5 DEF SourceStep

LEMMA PassFresh ==
  ASSUME Parts, FreshWait, PassStep
  PROVE  FreshWait'
<1>1. left \in Nat
  BY PatienceNat DEF Parts, TypeOK
<1>2. UNCHANGED call /\ turn' # "blank"
  BY DEF PassStep, NoEdge, Edge, ClockRefresh, ClockDrain, ClockSpins, ClockExpires, ClockAsks,
     Location, Drive, DriveReads, DriveInterrupt, InPass, source
<1>3. CASE NoEdge
  BY <1>1, <1>2, <1>3, PatienceNat DEF NoEdge, InPass, library, FreshWait
<1>4. CASE Edge
  <2>1. turn = "blank" /\ left' = IF left > 0 THEN left - 1 ELSE 0
    BY <1>4 DEF Edge, InPass
  <2> QED
    BY <1>1, <1>2, <2>1, PatienceNat DEF FreshWait
<1>5. CASE ClockRefresh
  BY <1>2, <1>5, PatienceNat DEF ClockRefresh, Refresh, FreshWait
<1>6. CASE \/ ClockDrain \/ ClockSpins \/ ClockExpires \/ ClockAsks \/ Location \/ Drive
           \/ DriveReads \/ DriveInterrupt
  <2>1. UNCHANGED left /\ turn # "blank"
    BY <1>6 DEF ClockDrain, ClockSpins, ClockExpires, ClockAsks, Location, Drive, DriveReads,
       DriveInterrupt, InPass, library, Interrupt
  <2> QED
    BY <1>2, <2>1 DEF FreshWait
<1> QED
  BY <1>3, <1>4, <1>5, <1>6 DEF PassStep

\* A step either leaves who has timed out alone, or is a wait that ran out.
LEMMA ExpiredSteps ==
  ASSUME Parts, CallStep \/ SourceStep \/ PassStep
  PROVE  \/ UNCHANGED expired
         \/ SyncExpires \/ ReplyExpires \/ FinalExpires \/ ClockExpires
<1>1. CASE CallStep
  BY <1>1 DEF CallStep, Issue, CallWaits, SyncDone, WriteCommand, WriteQuery, ReplyArrives,
     FinalDone, host
<1>2. CASE SourceStep
  BY <1>2 DEF SourceStep, Advance, Again, Begin, Finish, Settle, Ready, ReadyExpires, Reveal,
     MovieFrame, GameFrame, GameEnds, WaitVBlank, host
<1>3. CASE PassStep
  BY <1>3 DEF PassStep, NoEdge, Edge, ClockRefresh, ClockDrain, ClockSpins, ClockAsks, Location,
     Drive, DriveReads, DriveInterrupt, host
<1> QED
  BY <1>1, <1>2, <1>3
LEMMA WaitKeeps ==
  ASSUME CdInv, WaitInv, [Next]_vars
  PROVE  WaitInv'
<1>1. CASE UNCHANGED vars
  BY <1>1 DEF vars, source, library, host, WaitInv, FreshWait
<1>2. CASE Stop
  BY <1>2 DEF Stop, vars, source, library, host, WaitInv, FreshWait
<1>3. CASE CallStep \/ SourceStep \/ PassStep
  <2>1. failed = None /\ Parts
    BY <1>3, StepRuns
  <2> QED
    BY <1>3, <2>1, CallFresh, SourceFresh, PassFresh DEF WaitInv
<1> QED
  BY <1>1, <1>2, <1>3 DEF Next

\* In a pass's clock the only wait that runs out is one for an open query.
LEMMA ClockExpiresFor ==
  ASSUME Parts, ClockExpires
  PROVE  query /\ turn = "clockwait" /\ query' /\ turn' = "clockwait"
<1>1. /\ turn = "clockwait" /\ response = NoReply /\ response.kind = 0 /\ ~Answered
      /\ spins = SpinLimit /\ UNCHANGED <<query, turn>>
  BY ReplyFacts DEF ClockExpires, InPass, SameHost
<1>2. queued = NoReply /\ pending = None
  BY <1>1, BoundsAssumption DEF Parts, ClockInv, QueuedInv, BoundsAssumption
<1> QED
  BY <1>1, <1>2 DEF Parts, StatusInv, Working

LEMMA ClockOnlyKeeps ==
  ASSUME TimeoutBlanks >= 1, CdInv, WaitInv, ClockOnly, [Next]_vars
  PROVE  ClockOnly'
<1>1. CASE UNCHANGED vars
  BY <1>1 DEF vars, host, ClockOnly, SourceNeverTimesOut
<1>2. CASE Stop
  BY <1>2 DEF Stop, vars, host, ClockOnly, SourceNeverTimesOut
<1>3. CASE CallStep \/ SourceStep \/ PassStep
  <2>1. failed = None /\ Parts /\ FreshWait
    BY <1>3, StepRuns DEF WaitInv
  <2>2. CASE SyncExpires \/ ReplyExpires \/ FinalExpires
    <3>1. turn = "source" /\ left = 0 /\ call.step \in {"sync", "reply", "final"}
      BY <2>2 DEF SyncExpires, ReplyExpires, FinalExpires, InCall, InSource
    <3>2. Patience \in Nat /\ Patience >= 2
      BY BoundsAssumption DEF Patience, BoundsAssumption
    <3> QED
      BY <2>1, <3>1, <3>2 DEF FreshWait
  <2>3. CASE ClockExpires
    <3>1. expired' = expired \cup {"clock"}
      BY <2>3 DEF ClockExpires, TimeOut
    <3> QED
      BY <2>1, <2>3, <3>1, ClockExpiresFor DEF ClockOnly, SourceNeverTimesOut
  <2>4. CASE UNCHANGED expired
    <3>1. CASE expired = {}
      BY <2>4, <3>1 DEF ClockOnly, SourceNeverTimesOut
    <3>2. CASE turn = "clockwait" /\ query
      <4>1. PassStep
        BY <1>3, <3>2 DEF CallStep, Issue, CallWaits, SyncDone, SyncExpires, WriteCommand,
           WriteQuery, ReplyArrives, ReplyExpires, FinalDone, FinalExpires, SourceStep, Advance,
           Again, Begin, Finish, Settle, Ready, ReadyExpires, Reveal, MovieFrame, GameFrame,
           GameEnds, WaitVBlank, InCall, InSource
      <4>2. ClockDrain \/ ClockSpins \/ ClockExpires \/ ClockAsks
        BY <3>2, <4>1 DEF PassStep, NoEdge, Edge, ClockRefresh, Location, Drive, DriveReads,
           DriveInterrupt, InPass
      <4>3. CASE ClockAsks
        BY <2>4, <3>2, <4>3 DEF ClockAsks, Ask, ClockOnly, SourceNeverTimesOut
      <4>4. CASE ClockDrain \/ ClockSpins \/ ClockExpires
        BY <2>4, <3>2, <4>4 DEF ClockDrain, ClockSpins, ClockExpires, SameHost, host, ClockOnly,
           SourceNeverTimesOut
      <4> QED
        BY <4>2, <4>3, <4>4
    <3> QED
      BY <2>1, <3>1, <3>2 DEF ClockOnly, None
  <2> QED
    BY <1>3, <2>1, <2>2, <2>3, <2>4, ExpiredSteps
<1> QED
  BY <1>1, <1>2, <1>3 DEF Next

\* Without games there is no game clock.
NoGame == kind # "game" /\ ~installed

LEMMA NoGameKeeps ==
  ASSUME "game" \notin Kinds, CdInv, NoGame, [Next]_vars
  PROVE  NoGame'
<1>1. CASE UNCHANGED vars \/ Stop
  BY <1>1 DEF Stop, vars, source, host, NoGame
<1>2. CASE CallStep
  BY <1>2 DEF CallStep, Issue, CallWaits, SyncDone, SyncExpires, WriteCommand, WriteQuery,
     ReplyArrives, ReplyExpires, FinalDone, FinalExpires, SameProgram, SameHost, host, NoGame
<1>3. CASE SourceStep
  <2>1. CASE Advance
    BY <2>1 DEF Advance, NoGame
  <2>2. CASE Begin
    BY <2>2 DEF Begin, NoGame
  <2>3. CASE Again \/ Finish \/ Settle \/ Ready \/ ReadyExpires \/ Reveal \/ WaitVBlank
    BY <2>3 DEF Again, Finish, Settle, Ready, ReadyExpires, Reveal, WaitVBlank, source, host,
       NoGame
  <2>4. CASE MovieFrame \/ GameFrame \/ GameEnds
    BY <2>4 DEF MovieFrame, GameFrame, GameEnds, host, NoGame
  <2> QED
    BY <1>3, <2>1, <2>2, <2>3, <2>4 DEF SourceStep
<1>4. CASE PassStep
  BY <1>4 DEF PassStep, NoEdge, Edge, ClockRefresh, ClockDrain, ClockSpins, ClockExpires,
     ClockAsks, Location, Drive, DriveReads, DriveInterrupt, SameHost, source, host, NoGame
<1> QED
  BY <1>1, <1>2, <1>3, <1>4 DEF Next

LEMMA MoviesKeep ==
  ASSUME CdInv, NoGame, failed = None, [Next]_vars
  PROVE  failed' = None
<1>1. CASE UNCHANGED vars \/ Stop
  BY <1>1 DEF Stop, vars, host
<1>2. CASE CallStep \/ SourceStep
  BY <1>2, StepRuns, SourceSafe
<1>3. CASE PassStep
  <2>1. Parts
    BY <1>3, StepRuns
  <2>2. CASE ClockAsks
    BY <2>1, <2>2 DEF ClockAsks, InPass, Parts, ClockInv, NoGame
  <2>3. CASE ~ClockAsks
    BY <1>3, <2>3 DEF PassStep, NoEdge, Edge, ClockRefresh, ClockDrain, ClockSpins, ClockExpires,
       Location, Drive, DriveReads, DriveInterrupt, host
  <2> QED
    BY <2>2, <2>3
<1> QED
  BY <1>1, <1>2, <1>3 DEF Next

(* No wait of the source for the drive or the host runs into the library's *)
(* timeout of 960 VBlanks, although one deadline serves all its waits and  *)
(* those of the game clock: one VBlank of patience is enough.              *)
THEOREM SourceIsPatient ==
  ASSUME TimeoutBlanks >= 1
  PROVE  Spec => []SourceNeverTimesOut
<1>1. Init => WaitInv /\ ClockOnly
  BY IdleFields DEF Init, WaitInv, FreshWait, ClockOnly, SourceNeverTimesOut
<1>2. CdInv /\ WaitInv /\ ClockOnly /\ [Next]_vars => (WaitInv /\ ClockOnly)'
  BY WaitKeeps, ClockOnlyKeeps
<1>3. ClockOnly => SourceNeverTimesOut
  BY DEF ClockOnly
<1> QED
  BY <1>1, <1>2, <1>3, ProtocolInvariant, PTL DEF Spec

(* A library timeout inside the interrupt means that the game clock asked  *)
(* for a location while one was owed, the double request that ends the     *)
(* task: for as long as the source runs no wait has ever timed out, so     *)
(* that what Status says is never the work of a reset.                     *)
THEOREM TimeoutIsDoubleRequest ==
  ASSUME TimeoutBlanks >= 1
  PROVE  Spec => [](turn = "source" => expired = {})
<1>1. Init => WaitInv /\ ClockOnly
  BY IdleFields DEF Init, WaitInv, FreshWait, ClockOnly, SourceNeverTimesOut
<1>2. CdInv /\ WaitInv /\ ClockOnly /\ [Next]_vars => (WaitInv /\ ClockOnly)'
  BY WaitKeeps, ClockOnlyKeeps
<1>3. CdInv /\ ClockOnly => (turn = "source" => expired = {})
  BY DEF CdInv, Parts, Ended, ClockOnly, None
<1> QED
  BY <1>1, <1>2, <1>3, ProtocolInvariant, PTL DEF Spec

(* A scene of movies alone is never ended by an exception: neither the     *)
(* drive nor the location query refuses a request.                         *)
THEOREM MoviesNeverFail ==
  ASSUME "game" \notin Kinds
  PROVE  Spec => [](failed = None)
<1>1. Init => NoGame /\ failed = None
  BY DEF Init, NoGame
<1>2. CdInv /\ NoGame /\ failed = None /\ [Next]_vars => (NoGame /\ failed = None)'
  BY NoGameKeeps, MoviesKeep
<1> QED
  BY <1>1, <1>2, ProtocolInvariant, PTL DEF Spec

-----------------------------------------------------------------------------
\* No command is ever repeated but one: the library retries, and the program calls
\* again, only for a record that the drive itself refuses.
BadRecord == stage = "setloc" /\ ~good
FirstTry == call.tries < Retries \/ call.step = "no" => BadRecord

\* Where an error reply is, and where a Status of 5 that nobody has looked at.
TryInv ==
  /\ FirstTry
  /\ status = 5 => BadRecord /\ call.step \in {"idle", "sync", "reply", "no"}
  /\ response.kind = 5 => BadRecord /\ call.step = "reply"

LEMMA TriesFields ==
  /\ Idle.tries = Retries
  /\ \A n \in 0 .. Retries : Attempt(n).step = "sync" /\ Attempt(n).tries = n
  /\ \A c \in Calls, s \in {"idle", "sync", "write", "reply", "final", "ok", "no"} :
       [c EXCEPT !.step = s].tries = c.tries
BY DEF Idle, Attempt, Calls

LEMMA CallTries ==
  ASSUME TimeoutBlanks >= 1, Parts, FreshWait, TryInv, CallStep
  PROVE  TryInv'
<1> USE DEF TryInv, FirstTry, BadRecord
<1>0. /\ call \in Calls /\ call.tries \in 0 .. Retries /\ status \in {0, 2, 3, 5}
      /\ Retries = 3 /\ left \in Nat
  BY PatienceNat DEF Parts, TypeOK, Calls, Retries
<1>1. ~SyncExpires /\ ~ReplyExpires /\ ~FinalExpires
  <2>1. Patience \in Nat /\ Patience >= 2
    BY BoundsAssumption DEF Patience, BoundsAssumption
  <2> QED
    BY <2>1 DEF FreshWait, SyncExpires, ReplyExpires, FinalExpires, InCall, InSource
<1>2. UNCHANGED <<stage, good, response>>
  BY <1>1 DEF CallStep, Issue, CallWaits, SyncDone, WriteCommand, WriteQuery, ReplyArrives,
     FinalDone, SameProgram, drive
<1>3. response.kind # 5
  BY SourceFacts, <1>1 DEF SourceKnows, CallStep, Issue, CallWaits, SyncDone, WriteCommand,
     WriteQuery, ReplyArrives, FinalDone, InCall, InSource
<1>4. CASE Issue
  <2>1. call' = Attempt(Retries) /\ call.step = "idle" /\ UNCHANGED status
    BY <1>4 DEF Issue, InCall
  <2> QED
    BY <1>0, <1>2, <1>3, <2>1, TriesFields
<1>5. CASE CallWaits
  BY <1>2, <1>5 DEF CallWaits, library
<1>6. CASE SyncDone \/ WriteQuery \/ WriteCommand
  <2>1. \/ UNCHANGED call
        \/ \E t \in {"write", "ok", "reply"} : call' = [call EXCEPT !.step = t]
    BY <1>6 DEF SyncDone, WriteQuery, WriteCommand, Step
  <2>2. UNCHANGED call \/ (call'.tries = call.tries /\ call'.step \in {"write", "ok", "reply"})
    <3>1. CASE ~UNCHANGED call
      <4>1. PICK t \in {"write", "ok", "reply"} : call' = [call EXCEPT !.step = t]
        BY <2>1, <3>1
      <4>2. call'.tries = call.tries /\ call'.step = t
        BY <1>0, <4>1, StepFields, TriesFields
      <4> QED
        BY <4>2
    <3> QED
      BY <3>1
  <2>3. status' \in {0, 2} \/ (status' = status /\ call.step = "write")
    BY <1>6 DEF SyncDone, WriteQuery, WriteCommand, Ask, InCall
  <2> QED
    BY <1>2, <1>3, <2>2, <2>3
<1>7. CASE ReplyArrives
  <2>1. call.step = "reply" /\ UNCHANGED status
    BY <1>7 DEF ReplyArrives, InCall
  <2>2. CASE status = 5
    <3>1. \/ call' = [call EXCEPT !.step = "no"]
          \/ call.tries > 0 /\ call' = Attempt(call.tries - 1)
      BY <1>7, <2>2 DEF ReplyArrives, Retry, Step
    <3>2. CASE call' = [call EXCEPT !.step = "no"]
      <4>1. call'.step = "no"
        BY <1>0, <3>2, StepFields
      <4> QED
        BY <1>2, <1>3, <2>1, <2>2, <4>1
    <3>3. CASE call.tries > 0 /\ call' = Attempt(call.tries - 1)
      <4>1. call'.step = "sync"
        BY <1>0, <3>3, TriesFields
      <4> QED
        BY <1>2, <1>3, <2>1, <2>2, <4>1
    <3> QED
      BY <3>1, <3>2, <3>3
  <2>3. CASE status # 5
    <3>1. \E t \in {"final", "ok"} : call' = [call EXCEPT !.step = t]
      BY <1>7, <2>3 DEF ReplyArrives, Step
    <3>2. call'.tries = call.tries /\ call'.step \in {"final", "ok"}
      <4>1. PICK t \in {"final", "ok"} : call' = [call EXCEPT !.step = t]
        BY <3>1
      <4> QED
        BY <1>0, <4>1, StepFields, TriesFields
    <3> QED
      BY <1>2, <1>3, <2>1, <2>3, <3>2
  <2> QED
    BY <2>2, <2>3
<1>8. CASE FinalDone
  <2>1. call.step = "final" /\ status' = 2 /\ Answered
    BY <1>8 DEF FinalDone, InCall
  <2>2. status = 2
    BY <2>1 DEF Answered
  <2>3. call' = [call EXCEPT !.step = "ok"]
    BY <1>8, <2>2 DEF FinalDone, Step
  <2>4. call'.tries = call.tries /\ call'.step = "ok"
    BY <1>0, <2>3, StepFields, TriesFields
  <2> QED
    BY <1>2, <1>3, <2>1, <2>4
<1> QED
  BY <1>1, <1>4, <1>5, <1>6, <1>7, <1>8 DEF CallStep

LEMMA SourceTries ==
  ASSUME Parts, TryInv, SourceStep
  PROVE  TryInv'
<1> USE DEF TryInv, FirstTry, BadRecord
<1>1. response.kind # 5 /\ UNCHANGED response
  BY SourceFacts DEF SourceKnows, SourceStep, Advance, Again, Begin, Finish, Settle, Ready,
     ReadyExpires, Reveal, MovieFrame, GameFrame, GameEnds, WaitVBlank, InCall, InSource, drive
<1>2. CASE Advance
  <2>1. call' = Idle /\ UNCHANGED status /\ call.step \in {"ok", "no"}
        /\ (call.step = "no" => stage = "mode")
    BY <1>2 DEF Advance, InCall, library
  <2>2. call'.step = "idle" /\ ~(call'.tries < Retries)
    BY <2>1, IdleFields, TriesFields DEF Retries
  <2>3. status' # 5
    BY <2>1
  <2> QED
    BY <1>1, <2>2, <2>3
<1>3. CASE Again
  <2>1. call' = Idle /\ UNCHANGED <<status, good>> /\ call.step = "no"
        /\ stage' = (IF stage = "read" THEN "mode" ELSE stage)
    BY <1>3 DEF Again, InCall, library
  <2> QED
    BY <1>1, <2>1, IdleFields, TriesFields
<1>4. CASE Begin \/ Finish \/ Settle \/ Ready \/ ReadyExpires \/ Reveal \/ MovieFrame
           \/ GameFrame \/ GameEnds
  <2>1. /\ stage \in {"begin", "settle", "ready", "frame", "play"} /\ UNCHANGED call
        /\ status' \in {status, 2}
    BY <1>4 DEF Begin, Finish, Settle, Ready, ReadyExpires, Reveal, MovieFrame, GameFrame,
       GameEnds, source, library, Refresh
  <2> QED
    BY <1>1, <2>1
<1>5. CASE WaitVBlank
  BY <1>1, <1>5 DEF WaitVBlank, source, library
<1> QED
  BY <1>2, <1>3, <1>4, <1>5 DEF SourceStep

\* An error comes only from the Setloc of a bad record, which the call waits for.
LEMMA ServiceErrs ==
  ASSUME Parts, ServiceCommand
  PROVE  response'.kind = 5 => response' = response \/ (BadRecord /\ call.step = "reply")
<1>1. CASE response' = response
  BY <1>1
<1>2. CASE Publish
  BY <1>2, ReplyFacts DEF Publish, Parts, TypeOK
<1>3. CASE pending # None /\ Execute
  <2>1. response' = FirstReply(pending)
    BY <1>3 DEF Execute
  <2>2. SUFFICES ASSUME response'.kind = 5 PROVE BadRecord /\ call.step = "reply"
    OBVIOUS
  <2>3. pending = "Setloc" /\ ~good
    BY <2>1, <2>2 DEF FirstReply, Answer
  <2>4. call.step = "reply" /\ call.op = "Setloc"
    BY <1>3, <2>3 DEF Parts, PendingInv
  <2>5. stage \in DOMAIN Commands /\ Commands[stage][1] = "Setloc"
    BY <2>4 DEF Parts, CallInv
  <2>6. stage = "setloc"
    BY <2>5, CommandFacts DEF Commands
  <2> QED
    BY <2>3, <2>4, <2>6 DEF BadRecord
<1> QED
  BY <1>1, <1>2, <1>3 DEF ServiceCommand, drive

LEMMA PassTries ==
  ASSUME Parts, TryInv, PassStep
  PROVE  TryInv'
<1> USE DEF TryInv, FirstTry, BadRecord
<1>1. UNCHANGED <<call, stage, good>>
  BY DEF PassStep, NoEdge, Edge, ClockRefresh, ClockDrain, ClockSpins, ClockExpires, ClockAsks,
     Location, Drive, DriveReads, DriveInterrupt, source
<1>2. CASE NoEdge \/ Edge \/ ClockRefresh \/ ClockAsks \/ Location
  <2>1. UNCHANGED response /\ status' \in {0, 2, status}
    BY <1>2 DEF NoEdge, Edge, ClockRefresh, ClockAsks, Location, drive, library, Refresh, Ask
  <2> QED
    BY <1>1, <2>1
<1>3. CASE ClockExpires
  <2>1. response' = NoReply /\ status' = 2
    BY <1>3 DEF ClockExpires, TimeOut
  <2> QED
    BY <1>1, <2>1, ReplyFacts
<1>4. CASE ClockSpins \/ Drive
  <2>1. ServiceCommand /\ UNCHANGED status
    BY <1>4 DEF ClockSpins, Drive, library
  <2> QED
    BY <1>1, <2>1, ServiceErrs
<1>5. CASE DriveReads
  <2>1. response' \in {NoReply, DataReady, DataEnd} /\ UNCHANGED status
    BY <1>5 DEF DriveReads, ReadSector, library
  <2> QED
    BY <1>1, <2>1, ReadFacts
<1>6. CASE ClockDrain \/ DriveInterrupt
  <2>1. CASE Interrupt
    <3>1. response' = NoReply /\ (status' = 5 => status = 5 \/ response.kind = 5)
      BY <2>1 DEF Interrupt
    <3> QED
      BY <1>1, <3>1, ReplyFacts
  <2>2. CASE UNCHANGED <<library, drive>>
    BY <1>1, <2>2 DEF library, drive
  <2> QED
    BY <1>6, <2>1, <2>2 DEF ClockDrain, DriveInterrupt
<1> QED
  BY <1>2, <1>3, <1>4, <1>5, <1>6 DEF PassStep

(* A command fails only if the drive refuses its record: no answer is lost *)
(* or taken for another command's, so that opening a stream with a valid   *)
(* record, playing it and stopping it (the loops of OpenStream8001A4D0 and *)
(* WaitCleanup8001A694) get through without one retry.                     *)
THEOREM OnlyBadRecordsRetry ==
  ASSUME TimeoutBlanks >= 1
  PROVE  Spec => []FirstTry
<1>1. Init => WaitInv /\ TryInv
  BY IdleFields, TriesFields, ReplyFacts DEF Init, WaitInv, FreshWait, TryInv, FirstTry, Retries
<1>2. CdInv /\ WaitInv /\ TryInv /\ [Next]_vars => (WaitInv /\ TryInv)'
  <2> SUFFICES ASSUME CdInv, WaitInv, TryInv, [Next]_vars PROVE (WaitInv /\ TryInv)'
    OBVIOUS
  <2>1. CASE UNCHANGED vars \/ Stop
    BY <2>1, WaitKeeps DEF Stop, vars, source, library, drive, TryInv, FirstTry, BadRecord
  <2>2. CASE CallStep \/ SourceStep \/ PassStep
    <3>1. Parts /\ FreshWait
      BY <2>2, StepRuns DEF WaitInv
    <3> QED
      BY <2>2, <3>1, WaitKeeps, CallTries, SourceTries, PassTries
  <2> QED
    BY <2>1, <2>2 DEF Next
<1>3. TryInv => FirstTry
  BY DEF TryInv
<1> QED
  BY <1>1, <1>2, <1>3, ProtocolInvariant, PTL DEF Spec
=============================================================================
