------------------------------ MODULE CardSave ------------------------------
(***************************************************************************)
(* The save screen of stage 1: the user's choices (the states of 80018FB0  *)
(* and 80019458), the card check that runs beside them (80017594), the     *)
(* host's adapter that answers both once per tick, and the card file.      *)
(*                                                                         *)
(* The card exists four times: the file (file), the image read from it     *)
(* (sink), the directory taken from the image (dir) and the list that the  *)
(* screen shows (rows).  A save updates the directory and the image, asks  *)
(* the backend to replace the file, waits some frames, tries again up to   *)
(* Attempts times and undoes its changes if none succeeded.  The file may  *)
(* be exchanged at any moment.                                             *)
(*                                                                         *)
(* One tick of the host is the sequence poll, write, format, tick, observe *)
(* of pc; the file may change between two of them.                         *)
(***************************************************************************)
EXTENDS Naturals, FiniteSets

CONSTANTS Rows,         \* rows of the directory, 15 in the code
          Names,        \* names of this game's entries
          Others,       \* names of other games' entries
          Cards,        \* cards that may be in the slot at first or later
          Free,         \* name of an unused row
          NoCard,       \* the file is missing or cannot be read
          Unformatted,  \* the file can be read but is no card image
          Attempts,     \* write attempts of one save, 3 in the code
          WaitTicks,    \* VBlanks waited after an attempt, 4 in the code
          MaxSwaps,     \* bound: exchanges of the file
          MaxSessions   \* bound: times the screen is opened

Row == 1 .. Rows
Entry == [name : Names \cup Others \cup {Free}, data : {"none", "old", "new"}]
Image == [Row -> Entry]
Directory == [Row -> Names \cup Others \cup {Free}]
Mirror == [known : BOOLEAN, durable : BOOLEAN, img : Image]
Check == [E8 : 0 .. 4, F0 : {0, 1, 3, 4, 5}, F4 : BOOLEAN]
List == [known : BOOLEAN, names : SUBSET Names, free : 0 .. Rows]
Feedback == [known : BOOLEAN, io : Check, rows : BOOLEAN, write : {"none", "ok", "failed"}]
Write == [phase : {"idle", "begin", "wait", "done", "blocked"},
          try : 1 .. Attempts, left : 0 .. WaitTicks, ok : BOOLEAN,
          dir0 : Directory, prev : Mirror]

ASSUME ConstantsAssumption ==
    /\ Rows \in Nat \ {0}
    /\ Attempts \in Nat \ {0}
    /\ WaitTicks \in Nat \ {0}
    /\ MaxSwaps \in Nat
    /\ MaxSessions \in Nat \ {0}
    /\ Free \notin Names \cup Others
    /\ Cards \subseteq Image \cup {NoCard, Unformatted}
    /\ NoCard \notin Image
    /\ Unformatted \notin Image

VARIABLES file,     \* the card file
          seen,     \* the media snapshot describes the file
          sink,     \* the image in memory
          dir,      \* the directory in memory: a name per row
          loaded,   \* the last card_load filled the directory
          rows,     \* the published list of entries
          sw,       \* pending software card events
          armed,    \* which answers the adapter waits for
          io,       \* the card check: its step, its result, card known
          ui,       \* state of the screen
          name,     \* the name the save is for
          pend,     \* a typed name waits for the list
          confirmed,\* the user agreed to overwrite
          req,      \* requests of the last tick
          fb,       \* answers for the next tick
          submit,   \* call the last tick made to the card
          w,        \* the write in progress
          pc, swaps, sessions

file_vars == <<file, seen, swaps>>
mem_vars == <<sink, dir, loaded>>
check_vars == <<sw, armed, io, submit>>
user_vars == <<ui, name, pend, confirmed, req>>
vars == <<file_vars, mem_vars, rows, check_vars, user_vars, fb, w, pc, sessions>>

Closed == 0
NoRows == [known |-> FALSE, names |-> {}, free |-> 0]
FreeEntry == [name |-> Free, data |-> "none"]
Blank == [r \in Row |-> FreeEntry]
Empty == [r \in Row |-> Free]
NoSink == [known |-> FALSE, durable |-> FALSE, img |-> Blank]
Idle == [phase |-> "idle", try |-> 1, left |-> 0, ok |-> FALSE,
         dir0 |-> Empty, prev |-> NoSink]
NoCheck == [E8 |-> 0, F0 |-> 0, F4 |-> FALSE]
NoAnswer == [known |-> FALSE, io |-> NoCheck,
             rows |-> FALSE, write |-> "none"]

First(S) == CHOOSE r \in S : \A q \in S : r <= q

RowsOf(img) == [r \in Row |-> img[r].name]

Imported(f) == IF f \in Image
               THEN [known |-> TRUE, durable |-> TRUE, img |-> f]
               ELSE NoSink

-----------------------------------------------------------------------------
(* Opening the screen.  Its memory is new except for the published list.   *)

Opened(f) ==
    /\ seen' = TRUE
    /\ sink' = Imported(f)
    /\ dir' = Empty
    /\ loaded' = FALSE
    /\ sw' = {}
    /\ armed' = {}
    /\ io' = NoCheck
    /\ ui' = 2
    /\ pend' = FALSE
    /\ confirmed' = FALSE
    /\ req' = {}
    /\ fb' = NoAnswer
    /\ submit' = "none"
    /\ w' = Idle
    /\ pc' = "poll"

Init ==
    /\ file \in Cards
    /\ seen = TRUE
    /\ sink = Imported(file)
    /\ dir = Empty
    /\ loaded = FALSE
    /\ rows = NoRows
    /\ sw = {}
    /\ armed = {}
    /\ io = NoCheck
    /\ ui = 2
    /\ name \in Names
    /\ pend = FALSE
    /\ confirmed = FALSE
    /\ req = {}
    /\ fb = NoAnswer
    /\ submit = "none"
    /\ w = Idle
    /\ pc = "poll"
    /\ swaps = 0
    /\ sessions = 1

Open ==
    /\ ui = Closed
    /\ pc = "poll"
    /\ sessions < MaxSessions
    /\ sessions' = sessions + 1
    /\ Opened(file)
    /\ UNCHANGED <<file, rows, name, swaps>>

-----------------------------------------------------------------------------
(* The card check.  A poll answers with the last event that is pending.    *)

(* Mutant: the event of a completed request is not looked at.              *)
LastHitIncomplete(s) == IF 4 \in s THEN 4 ELSE IF 3 \in s THEN 3 ELSE 0

LastHit(s) == IF 4 \in s THEN 4 ELSE IF 3 \in s THEN 3
              ELSE IF 1 \in s THEN 1 ELSE 0

AfterInfo(e) ==
    IF e = 1 THEN [E8 |-> IF io.F4 THEN 4 ELSE 2, F0 |-> 1, F4 |-> io.F4]
    ELSE IF e = 3 THEN [E8 |-> 4, F0 |-> 3, F4 |-> FALSE]
    ELSE [E8 |-> 2, F0 |-> 4, F4 |-> FALSE]

AfterLoad(e) ==
    IF e = 1 THEN [E8 |-> 4, F0 |-> io.F0, F4 |-> TRUE]
    ELSE [E8 |-> 4, F0 |-> IF e = 3 THEN 3 ELSE 5, F4 |-> FALSE]

AfterCall == [E8 |-> IF io.E8 = 4 THEN 0 ELSE io.E8 + 1, F0 |-> io.F0, F4 |-> io.F4]

ListOf(d) ==
    [known |-> TRUE,
     names |-> {n \in Names : \E r \in Row : d[r] = n},
     free  |-> Cardinality({r \in Row : d[r] = Free})]

(* The adapter answers the list request.  A published list is used as it   *)
(* is; a new one is made for the requests of states 6 and 9 only.          *)
BuildRows ==
    IF "rows" \in req /\ ~rows.known /\ loaded /\ ui \in {6, 9}
    THEN ListOf(dir)
    ELSE rows

RowsAnswer == "rows" \in req /\ BuildRows.known
Answer(known, i) == [known |-> known, io |-> i, rows |-> RowsAnswer, write |-> "none"]

(* The adapter notices a change of the file while the check has a request  *)
(* and answers the poll.  An exchange noticed outside step 1 leaves its    *)
(* event for a poll of step 1 that has no reset probe to go with it: that  *)
(* poll takes the events and gives no answer.                              *)
PollCard ==
    /\ pc = "poll"
    /\ ui # Closed
    /\ LET asked    == "card" \in req
           changed  == asked /\ ~seen
           events   == IF changed THEN sw \cup {4} ELSE sw
           hit      == LastHit(events)
           polls    == asked /\ io.E8 \in armed \cap {1, 3}
           answered == IF io.E8 = 1 THEN hit \in {1, 3} \/ (hit = 4 /\ changed)
                                    ELSE hit # 0
       IN  /\ seen' = (seen \/ asked)
           /\ sw' = IF polls THEN {} ELSE events
           /\ IF polls /\ answered
              THEN /\ fb' = Answer(TRUE, IF io.E8 = 1 THEN AfterInfo(hit) ELSE AfterLoad(hit))
                   /\ armed' = armed \ {io.E8}
              ELSE /\ fb' = IF asked /\ io.E8 \in {0, 2, 4}
                            THEN Answer(TRUE, AfterCall)
                            ELSE Answer(FALSE, NoCheck)
                   /\ armed' = armed
           /\ rows' = BuildRows
    /\ pc' = "write"
    /\ UNCHANGED <<file, swaps, mem_vars, io, submit, user_vars, w, sessions>>

(* After the tick: card_info looks at the file, card_load reads it again.  *)
Observe ==
    /\ pc = "observe"
    /\ \/ /\ submit = "none"
          /\ UNCHANGED <<seen, mem_vars, sw, armed>>
       \/ /\ submit = "info"
          /\ LET e == IF file = NoCard THEN 3 ELSE 1
             IN  /\ sw' = sw \cup {e}
                 /\ armed' = IF e \in sw THEN armed \ {1} ELSE armed \cup {1}
          /\ UNCHANGED <<seen, mem_vars>>
       \/ /\ submit = "load"
          /\ sw' = {IF file = NoCard THEN 3 ELSE IF file = Unformatted THEN 4 ELSE 1}
          /\ armed' = armed \cup {3}
          /\ sink' = Imported(file)
          /\ dir' = IF file \in Image THEN RowsOf(file) ELSE Empty
          /\ loaded' = (file \in Image)
          /\ seen' = TRUE
    /\ submit' = "none"
    /\ pc' = "poll"
    /\ UNCHANGED <<file, swaps, rows, io, user_vars, fb, w, sessions>>

-----------------------------------------------------------------------------
(* The write and the format.                                               *)

(* The row for a name: the row that has it, else the first unused one.     *)
HasRow(d, n) == \E r \in Row : d[r] \in {n, Free}
TargetRow(d, n) == IF \E r \in Row : d[r] = n
                   THEN First({r \in Row : d[r] = n})
                   ELSE First({r \in Row : d[r] = Free})

(* The row whose block is serialized: the first one in use.                *)
PayloadRow(d) == First({r \in Row : d[r] # Free})

(* Mutant: the image always starts blank.                                  *)
SerializedAfresh(d) ==
    [Blank EXCEPT ![PayloadRow(d)] = [name |-> d[PayloadRow(d)], data |-> "new"]]

Serialized(d) ==
    [(IF sink.known THEN sink.img ELSE Blank)
        EXCEPT ![PayloadRow(d)] = [name |-> d[PayloadRow(d)], data |-> "new"]]

(* A new request remembers the directory and the durable image.            *)
Stage(phase, try, left, ok, d, s) ==
    [phase |-> phase, try |-> try, left |-> left, ok |-> ok, dir0 |-> d, prev |-> s]
Moved(phase, try, left) == Stage(phase, try, left, w.ok, w.dir0, w.prev)

Requested ==
    IF w.phase = "idle"
    THEN Stage("begin", 1, 0, FALSE, dir, IF sink.known /\ sink.durable THEN sink ELSE NoSink)
    ELSE w

Reported == [known |-> fb.known, io |-> fb.io, rows |-> fb.rows,
             write |-> IF w.ok THEN "ok" ELSE "failed"]

(* Mutant: only the image is put back.                                     *)
RollbackImage(v) == dir' = dir /\ sink' = v.prev

Rollback(v) == dir' = v.dir0 /\ sink' = v.prev

BeginAttempt ==
    /\ w.phase \in {"idle", "begin"}
    /\ IF HasRow(dir, name)
       THEN \E ok \in BOOLEAN :
              LET d   == [dir EXCEPT ![TargetRow(dir, name)] = name]
                  img == Serialized(d)
              IN  /\ dir' = d
                  /\ sink' = [known |-> TRUE, durable |-> ok, img |-> img]
                  /\ file' = IF ok THEN img ELSE file
                  /\ seen' = (ok \/ seen)
                  /\ w' = Stage("wait", Requested.try, WaitTicks, ok, Requested.dir0, Requested.prev)
       ELSE /\ Rollback(Requested)
            /\ w' = Stage("blocked", Requested.try, Requested.left, Requested.ok,
                           Requested.dir0, Requested.prev)
            /\ UNCHANGED <<file, seen>>
    /\ fb' = fb

(* Mutant: one attempt too many.                                           *)
AwaitAttemptOnceMore ==
    /\ w.phase = "wait"
    /\ w' = IF w.left > 1 THEN Moved("wait", w.try, w.left - 1)
            ELSE IF ~w.ok /\ w.try <= Attempts
            THEN Moved("begin", w.try + 1, 0)
            ELSE Moved("done", w.try, 0)
    /\ UNCHANGED <<file, seen, dir, sink, fb>>

AwaitAttempt ==
    /\ w.phase = "wait"
    /\ IF w.left > 1
       THEN /\ w' = Moved("wait", w.try, w.left - 1)
            /\ UNCHANGED <<dir, sink, fb>>
       ELSE IF ~w.ok /\ w.try < Attempts
       THEN /\ w' = Moved("begin", w.try + 1, 0)
            /\ UNCHANGED <<dir, sink, fb>>
       ELSE /\ w' = Moved("done", w.try, 0)
            /\ fb' = Reported
            /\ IF w.ok THEN UNCHANGED <<dir, sink>> ELSE Rollback(w)
    /\ UNCHANGED <<file, seen>>

(* Without a request the write is forgotten, as it stands.                 *)
WriteStep ==
    /\ pc = "write"
    /\ \/ /\ "write" \notin req
          /\ w' = Idle
          /\ UNCHANGED <<file, seen, dir, sink, fb>>
       \/ "write" \in req /\ (BeginAttempt \/ AwaitAttempt)
       \/ /\ "write" \in req
          /\ w.phase \in {"done", "blocked"}
          /\ fb' = IF w.phase = "blocked" THEN fb ELSE Reported
          /\ UNCHANGED <<file, seen, dir, sink, w>>
    /\ pc' = "format"
    /\ UNCHANGED <<swaps, loaded, rows, check_vars, user_vars, sessions>>

(* All attempts of a format happen in one call; a failed one is undone.    *)
FormatStep ==
    /\ pc = "format"
    /\ \/ /\ "format" \in req
          /\ ~sink.known \/ sink.durable
          /\ file' = Blank
          /\ seen' = TRUE
          /\ dir' = Empty
          /\ sink' = Imported(Blank)
       \/ UNCHANGED <<file, seen, dir, sink>>
    /\ pc' = "tick"
    /\ UNCHANGED <<swaps, loaded, rows, check_vars, user_vars, fb, w, sessions>>

-----------------------------------------------------------------------------
(* The tick of the screen: the user's input, the card check, the state.    *)

Choice(u, n, p, c, r) == [ui |-> u, name |-> n, pend |-> p, confirmed |-> c, rows |-> r]
GoTo(u) == Choice(u, name, pend, confirmed, FALSE)
Stay == GoTo(ui)

(* Mutant: a typed name is only checked for room.                          *)
ConfirmUncompared(n) ==
    IF fb.rows THEN Choice(IF rows.free = 0 THEN 7 ELSE 15, n, FALSE, FALSE, TRUE)
               ELSE Choice(ui, n, TRUE, FALSE, TRUE)

(* A typed name is compared with the list, which is asked for first.       *)
Confirm(n) ==
    IF fb.rows
    THEN Choice(IF n \in rows.names THEN 18 ELSE IF rows.free = 0 THEN 7 ELSE 15,
                n, FALSE, FALSE, TRUE)
    ELSE Choice(ui, n, TRUE, FALSE, TRUE)

Waiting == ui = 10 /\ pend /\ fb.rows

Offer(c, S) == IF c THEN S ELSE {}

Inputs ==
    Offer(~Waiting, {Stay})
    \cup Offer(ui = 2, {GoTo(4), GoTo(23)})
    \cup Offer(ui \in {5, 7}, {GoTo(2)})
    \cup Offer(ui = 8, {GoTo(14), GoTo(2)})
    \cup Offer(Waiting, {Confirm(name)})
    \cup Offer(ui = 10 /\ ~Waiting, {GoTo(2)} \cup {Confirm(n) : n \in Names})
    \cup Offer(ui = 11, {GoTo(2)} \cup {Choice(22, n, pend, confirmed, FALSE) : n \in rows.names})
    \cup Offer(ui = 11 /\ rows.free > 0, {GoTo(10)})
    \cup Offer(ui = 18, {GoTo(10)})
    \cup Offer(ui = 22, {GoTo(11), Choice(15, name, pend, TRUE, FALSE)})

(* Mutant: a failed save is waited for.                                    *)
TickStateInsists(u, result) ==
    IF u = 4 THEN IF result \in {1, 4} THEN 6 ELSE IF result = 3 THEN 5
                  ELSE IF result = 5 THEN 8 ELSE 4
    ELSE IF u \in {6, 9} THEN IF fb.rows THEN IF u = 6 THEN 9 ELSE 11 ELSE u
    ELSE IF u = 15 THEN IF result = 3 THEN 2 ELSE IF fb.write = "ok" THEN 23 ELSE 15
    ELSE u

(* What the card check's result and the answers make of each state.        *)
TickState(u, result) ==
    IF u = 4 THEN IF result \in {1, 4} THEN 6
                  ELSE IF result = 3 THEN 5
                  ELSE IF result = 5 THEN 8 ELSE 4
    ELSE IF u = 6 THEN IF ~fb.rows THEN 6
                       ELSE IF rows.names = {} /\ rows.free = 0 THEN 7 ELSE 9
    ELSE IF u = 8 THEN IF result = 3 THEN 5 ELSE 8
    ELSE IF u = 9 THEN IF fb.rows THEN 11 ELSE 9
    ELSE IF u \in {10, 11} THEN IF result = 3 THEN 4 ELSE u
    ELSE IF u = 14 THEN IF result = 3 THEN 2 ELSE 4
    ELSE IF u = 15 THEN IF result = 3 \/ fb.write = "failed" THEN 2
                        ELSE IF fb.write = "none" THEN 15 ELSE 23
    ELSE u

(* The screen closes at the end of a tick in state 23 that had the card    *)
(* check's answer; a tick without it counts as incomplete.                 *)
Tick ==
    /\ pc = "tick"
    /\ \E inp \in Inputs :
         LET result == IF fb.known /\ io.E8 = 4 THEN io.F0 ELSE 0
             drive  == fb.rows /\ inp.ui \in {6, 9}
             ticks  == result # 0 \/ inp.ui = 15 \/ drive
             after  == IF ticks THEN TickState(inp.ui, result) ELSE inp.ui
             calls  == ticks /\ result # 3
         IN  /\ ui' = IF after = 23 /\ fb.known THEN Closed ELSE after
             /\ name' = inp.name
             /\ pend' = inp.pend
             /\ confirmed' = inp.confirmed
             /\ req' = Offer(fb.known \/ ~drive, {"card"})
                        \cup Offer(inp.rows \/ (ticks /\ inp.ui \in {6, 9}), {"rows"})
                        \cup Offer(calls /\ inp.ui = 15, {"write"})
                        \cup Offer(calls /\ inp.ui = 14, {"format"})
    /\ io' = IF fb.known THEN fb.io ELSE io
    /\ submit' = IF fb.known /\ io.E8 = 0 THEN "info"
                 ELSE IF fb.known /\ io.E8 = 2 THEN "load" ELSE "none"
    /\ pc' = "observe"
    /\ UNCHANGED <<file_vars, mem_vars, rows, sw, armed, fb, w, sessions>>

-----------------------------------------------------------------------------
(* The card file is exchanged, removed or put back by someone else.        *)
Swap ==
    /\ swaps < MaxSwaps
    /\ swaps' = swaps + 1
    /\ file' \in (Cards \cup {NoCard}) \ {file}
    /\ seen' = FALSE
    /\ UNCHANGED <<mem_vars, rows, check_vars, user_vars, fb, w, pc, sessions>>

HostTick == PollCard \/ WriteStep \/ FormatStep \/ Tick \/ Observe

Next == HostTick \/ Swap \/ Open

(* The host keeps ticking; the user may stop pressing buttons, the card    *)
(* may stay, the screen need not be opened again.                          *)
Spec == Init /\ [][Next]_vars /\ WF_vars(HostTick)

-----------------------------------------------------------------------------
(* The types of the screen, the check, the mirrors of the card and the     *)
(* write with its attempts.                                                *)
TypeOK ==
    /\ file \in Image \cup {NoCard, Unformatted}
    /\ seen \in BOOLEAN
    /\ sink \in Mirror
    /\ dir \in Directory
    /\ loaded \in BOOLEAN
    /\ rows \in List
    /\ sw \in SUBSET {1, 3, 4}
    /\ armed \in SUBSET {1, 3}
    /\ io \in Check
    /\ ui \in {Closed, 2, 4, 5, 6, 7, 8, 9, 10, 11, 14, 15, 18, 22, 23}
    /\ name \in Names
    /\ pend \in BOOLEAN
    /\ confirmed \in BOOLEAN
    /\ req \in SUBSET {"card", "rows", "write", "format"}
    /\ fb \in Feedback
    /\ submit \in {"none", "info", "load"}
    /\ w \in Write
    /\ pc \in {"poll", "write", "format", "tick", "observe"}
    /\ swaps \in 0 .. MaxSwaps
    /\ sessions \in 1 .. MaxSessions

(* Where the user reads the list or is asked about an entry, the directory *)
(* in memory is that of the image in memory: a failed save was undone in   *)
(* both, one given up halfway was read again.                              *)
MirrorsAgree ==
    ui \in {6, 9, 10, 11, 18, 22} =>
        dir = IF sink.known THEN RowsOf(sink.img) ELSE Empty

(* What a save does to a card: its entry for the name is made or replaced. *)
Saved(base) == [base EXCEPT ![TargetRow(RowsOf(base), name)] =
                               [name |-> name, data |-> "new"]]
SavedFrom == IF w'.prev.known THEN w'.prev.img ELSE Blank
Succeeds == ~w.ok /\ w'.ok

(* A save changes the entry it is for and nothing else: the new file is    *)
(* the image the save began with, its entry for the name made or replaced. *)
SaveWritesNamedEntry == [][Succeeds => file' = Saved(SavedFrom)]_vars

(* The same for a card that is not exchanged and has no entry before that  *)
(* one: whatever attempts fail, the rest of the card is kept.              *)
SaveKeepsOthers ==
    [][Succeeds /\ swaps = 0
          /\ (\A r \in Row : SavedFrom[r].name # Free => r >= TargetRow(RowsOf(SavedFrom), name))
       => file' = Saved(SavedFrom)]_vars

(* A save replaces an entry of the card only if the user was asked.  On a  *)
(* second visit (sessions > 1) the name is compared with the list of the   *)
(* first, and on an exchanged card (swaps > 0) with that of the old one:   *)
(* there the code does not ask.                                            *)
NoUnconfirmedOverwrite ==
    [][(w.phase = "idle" /\ w'.phase # "idle" /\ \E r \in Row : dir[r] = name)
          => confirmed \/ swaps > 0 \/ sessions > 1]_vars

(* A save comes to an end: reported as written, or as failed after its last *)
(* attempt.  (A card exchanged under the check may stop it, see            *)
(* ScreenCloses.)  On a second visit it need not: the list of the first    *)
(* may promise an unused row that its save has taken since, and the write  *)
(* refused for a full directory answers nothing, now or later.             *)
SaveEnds == ui = 15 ~> ui # 15 \/ swaps > 0 \/ (sessions > 1 /\ w.phase = "blocked")

(* A screen that was left closes: the check goes on answering.  After an   *)
(* exchange it need not: a change noticed at another step than 1 is polled *)
(* at step 1 without the facts of its answer, and every later poll again.  *)
ScreenCloses == ui = 23 ~> ui = Closed \/ swaps > 0
=============================================================================
