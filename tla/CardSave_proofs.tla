-------------------------- MODULE CardSave_proofs --------------------------
(***************************************************************************)
(* The save screen, for any directory, any cards and any exchange of the   *)
(* file: its types; that directory and image in memory agree wherever the  *)
(* user reads the list; who is asked before an entry is replaced and what  *)
(* a save leaves alone; that the card check and a save come to an end.     *)
(*                                                                         *)
(* The mirrors disagree for two reasons: a write under way (state 15), and *)
(* a write given up when the card was found missing, or a screen just      *)
(* opened (Stale).  In the second case the check has not yet answered the  *)
(* user, and cannot before it has read the card again.                     *)
(***************************************************************************)
EXTENDS CardSave, FiniteSetTheorems, WellFoundedInduction, TLAPS

Matches(d, s) == d = IF s.known THEN RowsOf(s.img) ELSE Empty

Settled == Matches(dir, sink) /\ (sink.known => sink.durable)

(* The check must still read the card before it can say 1 or 4.            *)
Unread(i) == ~i.F4 /\ (i.E8 \in {0, 1, 2} \/ (i.E8 = 4 /\ i.F0 = 3))

Answers == pc \in {"write", "format", "tick"}

(* What the answer to the check is, given its step.                        *)
AnswerFits ==
    Answers /\ fb.known =>
        \/ io.E8 \in {0, 2, 4} /\ fb.io = AfterCall
        \/ io.E8 = 1 /\ \E e \in {1, 3, 4} : fb.io = AfterInfo(e)
        \/ io.E8 = 3 /\ \E e \in {1, 3, 4} : fb.io = AfterLoad(e)

Stale ==
    /\ ui \in {2, 4, 5}
    /\ \/ Unread(io)
       \/ io.E8 = 3 /\ ~io.F4 /\ pc = "observe" /\ submit = "load"

MissingForgets ==
    /\ io.E8 = 4 /\ io.F0 = 3 => ~io.F4
    /\ io.E8 \in {2, 3} => io.F0 \in {1, 4}

Excused == ui = 15 /\ w.phase \in {"begin", "wait", "done"} /\ ~(w.phase = "done" /\ ~w.ok)

Mirrors == Settled \/ Stale \/ Excused \/ ui \in {23, Closed}

Kept == w.phase # "idle" => Matches(w.dir0, w.prev) /\ (w.prev.known => w.prev.durable)

Requests ==
    /\ ui = 15 /\ pc \in {"observe", "poll", "write"} => "write" \in req
    /\ "write" \in req /\ ui # 15 /\ pc \in {"observe", "poll", "write"} => w.phase = "done"
    /\ Answers /\ pc # "write" /\ fb.write # "none" =>
          w.phase = "done" /\ (fb.write = "ok" <=> w.ok)
    /\ pc = "write" => fb.write = "none"

IInv == TypeOK /\ AnswerFits /\ MissingForgets /\ Mirrors /\ Kept /\ Requests

-----------------------------------------------------------------------------
LEMMA FreeCount ==
    ASSUME NEW d \in Directory
    PROVE  ListOf(d) \in List
<1>1. IsFiniteSet(Row) /\ Cardinality(Row) = Rows
  BY FS_Interval, ConstantsAssumption DEF Row
<1>2. Cardinality({r \in Row : d[r] = Free}) \in Nat
      /\ Cardinality({r \in Row : d[r] = Free}) <= Rows
  BY <1>1, FS_Subset, FS_CardinalityType
<1>3. Cardinality({r \in Row : d[r] = Free}) \in 0 .. Rows
  BY <1>2, ConstantsAssumption
<1> QED BY <1>3 DEF ListOf, List

LEMMA ImportedType ==
    ASSUME NEW f \in Image \cup {NoCard, Unformatted}
    PROVE  Imported(f) \in Mirror
BY DEF Imported, NoSink, Mirror, Image, Blank, FreeEntry, Entry

LEMMA EmptyType == Empty \in Directory /\ Blank \in Image /\ NoSink \in Mirror
BY DEF Empty, Blank, NoSink, Directory, Image, Mirror, Entry, FreeEntry

LEMMA RowsType == ASSUME NEW i \in Image PROVE RowsOf(i) \in Directory
BY DEF RowsOf, Image, Directory, Entry

LEMMA SerializedType ==
    ASSUME TypeOK, NEW d \in Directory
    PROVE  Serialized(d) \in Image
<1> DEFINE base == IF sink.known THEN sink.img ELSE Blank
           p == PayloadRow(d)
<1>1. base \in Image
  BY EmptyType DEF TypeOK, Mirror
<1>2. CASE p \in Row
  <2>1. [name |-> d[p], data |-> "new"] \in Entry
    BY <1>2 DEF Directory, Entry
  <2> QED BY <1>1, <2>1 DEF Serialized, Image
<1>3. CASE p \notin Row
  BY <1>1, <1>3 DEF Serialized, Image
<1> QED BY <1>2, <1>3

LEMMA ImportedMatches ==
    ASSUME NEW f \in Image \cup {NoCard, Unformatted}
    PROVE  Matches(IF f \in Image THEN RowsOf(f) ELSE Empty, Imported(f))
           /\ (Imported(f).known => Imported(f).durable)
BY DEF Matches, Imported, NoSink

LEMMA BlankMatches == Matches(Empty, Imported(Blank)) /\ Imported(Blank).durable
BY EmptyType DEF Matches, Imported, RowsOf, Blank, Empty, FreeEntry

LEMMA CheckSteps ==
    ASSUME io \in Check
    PROVE  /\ io.E8 \in {0, 2, 4} => AfterCall \in Check
           /\ \A e \in {1, 3, 4} : AfterInfo(e) \in Check
           /\ \A e \in {1, 3, 4} : AfterLoad(e) \in Check
BY DEF Check, AfterCall, AfterInfo, AfterLoad

LEMMA LastHitRange ==
    ASSUME NEW s \in SUBSET {1, 3, 4}
    PROVE  LastHit(s) \in {0, 1, 3, 4}
BY DEF LastHit

-----------------------------------------------------------------------------
LEMMA InitTypes == Init => TypeOK
<1> SUFFICES ASSUME Init PROVE TypeOK
  OBVIOUS
<1>1. Idle \in Write
  BY EmptyType, ConstantsAssumption DEF Idle, Write
<1>2. NoAnswer \in Feedback /\ NoCheck \in Check
  BY DEF NoAnswer, NoCheck, Check, Feedback
<1>3. NoRows \in List
  BY ConstantsAssumption DEF NoRows, List
<1>4. file \in Image \cup {NoCard, Unformatted} /\ sink \in Mirror /\ dir \in Directory
  BY ConstantsAssumption, ImportedType, EmptyType DEF Init
<1>5. swaps \in 0 .. MaxSwaps /\ sessions \in 1 .. MaxSessions
  BY ConstantsAssumption DEF Init
<1> QED BY <1>1, <1>2, <1>3, <1>4, <1>5 DEF Init, TypeOK

LEMMA OpenTypes == TypeOK /\ Open => TypeOK'
<1> SUFFICES ASSUME TypeOK, Open PROVE TypeOK'
  OBVIOUS
<1>1. Idle \in Write
  BY EmptyType, ConstantsAssumption DEF Idle, Write
<1>2. NoAnswer \in Feedback /\ NoCheck \in Check
  BY DEF NoAnswer, NoCheck, Check, Feedback
<1>3. sink' \in Mirror /\ dir' \in Directory
  BY ImportedType, EmptyType DEF Open, Opened, TypeOK
<1>4. sessions' \in 1 .. MaxSessions
  BY ConstantsAssumption DEF Open, TypeOK
<1> QED BY <1>1, <1>2, <1>3, <1>4 DEF Open, Opened, TypeOK

LEMMA SwapTypes == TypeOK /\ Swap => TypeOK'
<1> SUFFICES ASSUME TypeOK, Swap PROVE TypeOK'
  OBVIOUS
<1>1. file' \in Image \cup {NoCard, Unformatted} /\ swaps' \in 0 .. MaxSwaps
  BY ConstantsAssumption DEF Swap, TypeOK
<1>2. /\ UNCHANGED <<mem_vars, rows, check_vars, user_vars, fb, w, pc, sessions>>
      /\ seen' \in BOOLEAN
  BY DEF Swap
<1>3. UNCHANGED <<sink, dir, loaded, sw, armed, io, submit>>
  BY <1>2 DEF mem_vars, check_vars
<1>4. UNCHANGED <<ui, name, pend, confirmed, req, rows, fb, w, pc, sessions>>
  BY <1>2 DEF user_vars
<1> QED BY <1>1, <1>2, <1>3, <1>4 DEF TypeOK

LEMMA PollTypes == TypeOK /\ PollCard => TypeOK'
<1> SUFFICES ASSUME TypeOK, PollCard PROVE TypeOK'
  OBVIOUS
<1> DEFINE asked    == "card" \in req
           changed  == asked /\ ~seen
           events   == IF changed THEN sw \cup {4} ELSE sw
           hit      == LastHit(events)
           polls    == asked /\ io.E8 \in armed \cap {1, 3}
           answered == IF io.E8 = 1 THEN hit \in {1, 3} \/ (hit = 4 /\ changed)
                                    ELSE hit # 0
           next     == IF io.E8 = 1 THEN AfterInfo(hit) ELSE AfterLoad(hit)
<1>1. events \in SUBSET {1, 3, 4}
  BY DEF TypeOK
<1>2. hit \in {0, 1, 3, 4}
  BY <1>1, LastHitRange
<1>3. BuildRows \in List
  BY FreeCount DEF TypeOK, BuildRows
<1>4. RowsAnswer \in BOOLEAN
  BY DEF RowsAnswer
<1>5. ASSUME NEW k \in BOOLEAN, NEW i \in Check PROVE Answer(k, i) \in Feedback
  BY <1>4 DEF Answer, Feedback
<1>6. NoCheck \in Check
  BY DEF NoCheck, Check
<1>7. polls /\ answered => next \in Check
  <2>1. polls /\ answered => hit \in {1, 3, 4}
    BY <1>2
  <2>2. io \in Check
    BY DEF TypeOK
  <2> HIDE DEF hit
  <2> QED BY <2>1, <2>2, CheckSteps
<1>8. /\ sw' = IF polls THEN {} ELSE events
      /\ IF polls /\ answered
         THEN fb' = Answer(TRUE, next) /\ armed' = armed \ {io.E8}
         ELSE /\ fb' = IF asked /\ io.E8 \in {0, 2, 4} THEN Answer(TRUE, AfterCall)
                       ELSE Answer(FALSE, NoCheck)
              /\ armed' = armed
      /\ seen' = (seen \/ asked)
      /\ rows' = BuildRows
      /\ pc' = "write"
      /\ UNCHANGED <<file, swaps, mem_vars, io, submit, user_vars, w, sessions>>
  BY Zenon DEF PollCard
<1>9. fb' \in Feedback
  <2>1. io \in Check
    BY DEF TypeOK
  <2>2. io.E8 \in {0, 2, 4} => AfterCall \in Check
    BY <2>1, CheckSteps
  <2> HIDE DEF next, answered, polls, asked
  <2> QED BY <1>5, <1>6, <1>7, <1>8, <2>2
<1>10. armed' \in SUBSET {1, 3} /\ sw' \in SUBSET {1, 3, 4} /\ seen' \in BOOLEAN
  <2> HIDE DEF next, answered, polls, asked, events
  <2> QED BY <1>1, <1>8 DEF TypeOK, asked
<1> HIDE DEF next, answered, polls, asked, events, hit, changed
<1> QED BY <1>3, <1>8, <1>9, <1>10 DEF TypeOK, mem_vars, user_vars

LEMMA ObserveTypes == TypeOK /\ Observe => TypeOK'
<1> SUFFICES ASSUME TypeOK, Observe PROVE TypeOK'
  OBVIOUS
<1> DEFINE Fits == /\ seen' \in BOOLEAN
                   /\ sw' \in SUBSET {1, 3, 4}
                   /\ armed' \in SUBSET {1, 3}
                   /\ loaded' \in BOOLEAN
                   /\ sink' \in Mirror
                   /\ dir' \in Directory
<1>1. ASSUME UNCHANGED <<seen, mem_vars, sw, armed>>
      PROVE  Fits
  BY <1>1 DEF TypeOK, mem_vars
<1>2. ASSUME submit = "info",
             LET e == IF file = NoCard THEN 3 ELSE 1
             IN  /\ sw' = sw \cup {e}
                 /\ armed' = IF e \in sw THEN armed \ {1} ELSE armed \cup {1},
             UNCHANGED <<seen, mem_vars>>
      PROVE  Fits
  BY <1>2 DEF TypeOK, mem_vars
<1>3. ASSUME sw' = {IF file = NoCard THEN 3 ELSE IF file = Unformatted THEN 4 ELSE 1},
             armed' = armed \cup {3},
             sink' = Imported(file),
             dir' = IF file \in Image THEN RowsOf(file) ELSE Empty,
             loaded' = (file \in Image),
             seen' = TRUE
      PROVE  Fits
  <2>1. file \in Image \cup {NoCard, Unformatted}
    BY DEF TypeOK
  <2>2. sink' \in Mirror /\ dir' \in Directory
    BY <1>3, <2>1, ImportedType, EmptyType, RowsType
  <2>3. sw' \in SUBSET {1, 3, 4} /\ armed' \in SUBSET {1, 3}
    BY <1>3 DEF TypeOK
  <2> QED BY <1>3, <2>2, <2>3
<1>4. Fits
  <2>1. \/ UNCHANGED <<seen, mem_vars, sw, armed>>
        \/ /\ submit = "info"
           /\ LET e == IF file = NoCard THEN 3 ELSE 1
              IN  /\ sw' = sw \cup {e}
                  /\ armed' = IF e \in sw THEN armed \ {1} ELSE armed \cup {1}
           /\ UNCHANGED <<seen, mem_vars>>
        \/ /\ sw' = {IF file = NoCard THEN 3 ELSE IF file = Unformatted THEN 4 ELSE 1}
           /\ armed' = armed \cup {3}
           /\ sink' = Imported(file)
           /\ dir' = IF file \in Image THEN RowsOf(file) ELSE Empty
           /\ loaded' = (file \in Image)
           /\ seen' = TRUE
    BY Zenon DEF Observe
  <2> HIDE DEF Fits
  <2> QED BY <2>1, <1>2, <1>3, <1>1 DEF Fits
<1>5. submit' = "none" /\ pc' = "poll"
      /\ UNCHANGED <<file, swaps, rows, io, user_vars, fb, w, sessions>>
  BY DEF Observe
<1> QED BY <1>4, <1>5 DEF TypeOK, user_vars

LEMMA FormatTypes == TypeOK /\ FormatStep => TypeOK'
<1> SUFFICES ASSUME TypeOK, FormatStep PROVE TypeOK'
  OBVIOUS
<1>1. Imported(Blank) \in Mirror
  BY ImportedType, EmptyType
<1>2. /\ file' \in Image \cup {NoCard, Unformatted}
      /\ seen' \in BOOLEAN
      /\ dir' \in Directory
      /\ sink' \in Mirror
  BY <1>1, EmptyType DEF FormatStep, TypeOK
<1>3. pc' = "tick"
      /\ UNCHANGED <<swaps, loaded, rows, check_vars, user_vars, fb, w, sessions>>
  BY DEF FormatStep
<1> QED BY <1>2, <1>3 DEF TypeOK, check_vars, user_vars

LEMMA StageType ==
    ASSUME NEW p \in {"idle", "begin", "wait", "done", "blocked"},
           NEW t \in 1 .. Attempts, NEW l \in 0 .. WaitTicks, NEW ok \in BOOLEAN,
           NEW d \in Directory, NEW s \in Mirror
    PROVE  Stage(p, t, l, ok, d, s) \in Write
BY DEF Stage, Write

LEMMA WriteFields ==
    ASSUME NEW v \in Write
    PROVE  /\ v.phase \in {"idle", "begin", "wait", "done", "blocked"}
           /\ v.try \in 1 .. Attempts /\ v.left \in 0 .. WaitTicks /\ v.ok \in BOOLEAN
           /\ v.dir0 \in Directory /\ v.prev \in Mirror
BY DEF Write

LEMMA RequestedType == TypeOK => Requested \in Write
<1> SUFFICES ASSUME TypeOK PROVE Requested \in Write
  OBVIOUS
<1>1. (IF sink.known /\ sink.durable THEN sink ELSE NoSink) \in Mirror
  BY EmptyType DEF TypeOK
<1>2. 1 \in 1 .. Attempts /\ 0 \in 0 .. WaitTicks /\ dir \in Directory /\ w \in Write
  BY ConstantsAssumption DEF TypeOK
<1> QED BY <1>1, <1>2, StageType DEF Requested

LEMMA ReportedType == TypeOK => Reported \in Feedback
BY DEF TypeOK, Feedback, Reported

LEMMA WriteTypes == TypeOK /\ WriteStep => TypeOK'
<1> SUFFICES ASSUME TypeOK, WriteStep PROVE TypeOK'
  OBVIOUS
<1> DEFINE Fits == /\ file' \in Image \cup {NoCard, Unformatted}
                   /\ seen' \in BOOLEAN
                   /\ dir' \in Directory
                   /\ sink' \in Mirror
                   /\ fb' \in Feedback
                   /\ w' \in Write
<1>0. /\ file \in Image \cup {NoCard, Unformatted} /\ seen \in BOOLEAN
      /\ dir \in Directory /\ sink \in Mirror /\ fb \in Feedback /\ w \in Write
      /\ name \in Names
  BY DEF TypeOK
<1>1. ASSUME w' = Idle /\ UNCHANGED <<file, seen, dir, sink, fb>>
      PROVE  Fits
  <2>1. Idle \in Write
    BY EmptyType, ConstantsAssumption DEF Idle, Write
  <2> QED BY <1>0, <1>1, <2>1
<1>2. ASSUME BeginAttempt
      PROVE  Fits
  <2>1. Requested \in Write
    BY RequestedType
  <2>2. CASE HasRow(dir, name)
    <3> DEFINE d == [dir EXCEPT ![TargetRow(dir, name)] = name]
    <3>1. d \in Directory
      BY <1>0 DEF Directory
    <3>2. Serialized(d) \in Image
      BY <3>1, SerializedType
    <3>3. PICK ok \in BOOLEAN :
            /\ dir' = d
            /\ sink' = [known |-> TRUE, durable |-> ok, img |-> Serialized(d)]
            /\ file' = IF ok THEN Serialized(d) ELSE file
            /\ seen' = (ok \/ seen)
            /\ w' = Stage("wait", Requested.try, WaitTicks, ok, Requested.dir0, Requested.prev)
            /\ fb' = fb
      BY <1>2, <2>2, Zenon DEF BeginAttempt
    <3> HIDE DEF d
    <3>4. w' \in Write
      BY <2>1, <3>3, WriteFields, StageType, ConstantsAssumption
    <3>5. sink' \in Mirror
      BY <3>2, <3>3 DEF Mirror
    <3> QED BY <1>0, <3>1, <3>2, <3>3, <3>4, <3>5
  <2>3. CASE ~HasRow(dir, name)
    <3>1. /\ dir' = Requested.dir0 /\ sink' = Requested.prev
          /\ w' = Stage("blocked", Requested.try, Requested.left, Requested.ok,
                        Requested.dir0, Requested.prev)
          /\ UNCHANGED <<file, seen, fb>>
      BY <1>2, <2>3 DEF BeginAttempt, Rollback
    <3> QED BY <1>0, <2>1, <3>1, WriteFields, StageType
  <2> QED BY <2>2, <2>3
<1>3. ASSUME AwaitAttempt
      PROVE  Fits
  <2>0. /\ w.try \in 1 .. Attempts /\ w.left \in 0 .. WaitTicks /\ w.ok \in BOOLEAN
        /\ w.dir0 \in Directory /\ w.prev \in Mirror
    BY <1>0, WriteFields
  <2>1. CASE w.left > 1
    <3>1. w.left - 1 \in 0 .. WaitTicks
      BY <2>0, <2>1, ConstantsAssumption
    <3> QED BY <1>0, <1>3, <2>0, <2>1, <3>1, StageType DEF AwaitAttempt, Moved
  <2>2. CASE ~(w.left > 1) /\ ~w.ok /\ w.try < Attempts
    <3>1. w.try + 1 \in 1 .. Attempts /\ 0 \in 0 .. WaitTicks
      BY <2>0, <2>2, ConstantsAssumption
    <3> QED BY <1>0, <1>3, <2>0, <2>2, <3>1, StageType DEF AwaitAttempt, Moved
  <2>3. CASE ~(w.left > 1) /\ ~(~w.ok /\ w.try < Attempts)
    <3>1. w' = Moved("done", w.try, 0)
          /\ fb' = Reported
          /\ (IF w.ok THEN UNCHANGED <<dir, sink>> ELSE Rollback(w))
          /\ UNCHANGED <<file, seen>>
      BY <1>3, <2>3 DEF AwaitAttempt
    <3>2. w' \in Write
      BY <2>0, <3>1, ConstantsAssumption, StageType DEF Moved
    <3>3. fb' \in Feedback
      BY <3>1, ReportedType
    <3>4. dir' \in Directory /\ sink' \in Mirror
      BY <1>0, <2>0, <3>1 DEF Rollback
    <3> QED BY <1>0, <3>1, <3>2, <3>3, <3>4
  <2> QED BY <2>1, <2>2, <2>3
<1>4. ASSUME fb' \in {fb, Reported} /\ UNCHANGED <<file, seen, dir, sink, w>>
      PROVE  Fits
  BY <1>0, <1>4, ReportedType
<1>5. Fits
  <2>1. \/ w' = Idle /\ UNCHANGED <<file, seen, dir, sink, fb>>
        \/ BeginAttempt \/ AwaitAttempt
        \/ fb' \in {fb, Reported} /\ UNCHANGED <<file, seen, dir, sink, w>>
    BY DEF WriteStep
  <2> HIDE DEF Fits
  <2> QED BY <2>1, <1>1, <1>2, <1>3, <1>4 DEF Fits
<1>6. pc' = "format" /\ UNCHANGED <<swaps, loaded, rows, check_vars, user_vars, sessions>>
  BY DEF WriteStep
<1> QED BY <1>5, <1>6 DEF TypeOK, check_vars, user_vars

-----------------------------------------------------------------------------
States == {Closed, 2, 4, 5, 6, 7, 8, 9, 10, 11, 14, 15, 18, 22, 23}

(* What an input may be, state by state.                                   *)
LEMMA InputFits ==
    ASSUME TypeOK, NEW i \in Inputs
    PROVE  /\ i.name \in Names /\ i.pend \in BOOLEAN /\ i.confirmed \in BOOLEAN
           /\ i.rows \in BOOLEAN
           /\ \/ i.ui = ui
              \/ ui = 2 /\ i.ui \in {4, 23}
              \/ ui \in {5, 7} /\ i.ui = 2
              \/ ui = 8 /\ i.ui \in {2, 14}
              \/ ui = 10 /\ i.ui \in {2, 18, 7, 15}
              \/ ui = 11 /\ i.ui \in {2, 22, 10}
              \/ ui = 18 /\ i.ui = 10
              \/ ui = 22 /\ i.ui \in {11, 15}
<1> DEFINE Fits == /\ i.name \in Names /\ i.pend \in BOOLEAN /\ i.confirmed \in BOOLEAN
                   /\ i.rows \in BOOLEAN
                   /\ \/ i.ui = ui
                      \/ ui = 2 /\ i.ui \in {4, 23}
                      \/ ui \in {5, 7} /\ i.ui = 2
                      \/ ui = 8 /\ i.ui \in {2, 14}
                      \/ ui = 10 /\ i.ui \in {2, 18, 7, 15}
                      \/ ui = 11 /\ i.ui \in {2, 22, 10}
                      \/ ui = 18 /\ i.ui = 10
                      \/ ui = 22 /\ i.ui \in {11, 15}
<1>1. name \in Names /\ pend \in BOOLEAN /\ confirmed \in BOOLEAN /\ rows.names \subseteq Names
  BY DEF TypeOK, List
<1>2. ASSUME i = Stay
      PROVE  Fits
  BY <1>1, <1>2 DEF Stay, GoTo, Choice
<1>3. ASSUME \/ ui = 2 /\ i \in {GoTo(4), GoTo(23)}
             \/ ui \in {5, 7} /\ i = GoTo(2)
             \/ ui = 8 /\ i \in {GoTo(14), GoTo(2)}
             \/ ui = 10 /\ i = GoTo(2)
             \/ ui = 11 /\ i \in {GoTo(2), GoTo(10)}
             \/ ui = 18 /\ i = GoTo(10)
             \/ ui = 22 /\ i \in {GoTo(11), Choice(15, name, pend, TRUE, FALSE)}
      PROVE  Fits
  <2>1. \A u : /\ GoTo(u).ui = u /\ GoTo(u).name = name /\ GoTo(u).pend = pend
               /\ GoTo(u).confirmed = confirmed /\ GoTo(u).rows = FALSE
    BY DEF GoTo, Choice
  <2>2. ASSUME i = Choice(15, name, pend, TRUE, FALSE), ui = 22 PROVE Fits
    BY <1>1, <2>2 DEF Choice
  <2>3. CASE ui = 2 /\ i = GoTo(4)
    BY <1>1, <2>1, <2>3
  <2>4. CASE ui = 2 /\ i = GoTo(23)
    BY <1>1, <2>1, <2>4
  <2>5. CASE (ui \in {5, 7} \/ ui = 8 \/ ui = 10 \/ ui = 11) /\ i = GoTo(2)
    BY <1>1, <2>1, <2>5
  <2>6. CASE ui = 8 /\ i = GoTo(14)
    BY <1>1, <2>1, <2>6
  <2>7. CASE (ui = 11 \/ ui = 18) /\ i = GoTo(10)
    BY <1>1, <2>1, <2>7
  <2>8. CASE ui = 22 /\ i = GoTo(11)
    BY <1>1, <2>1, <2>8
  <2> HIDE DEF Fits
  <2> QED BY <1>3, <2>2, <2>3, <2>4, <2>5, <2>6, <2>7, <2>8
<1>4. ASSUME ui = 11 /\ \E n \in Names : i = Choice(22, n, pend, confirmed, FALSE)
      PROVE  Fits
  BY <1>1, <1>4 DEF Choice
<1>5. ASSUME ui = 10 /\ \E n \in Names : i = Confirm(n)
      PROVE  Fits
  BY <1>1, <1>5 DEF Confirm, Choice
<1>6. \/ i = Stay
      \/ ui = 2 /\ i \in {GoTo(4), GoTo(23)}
      \/ ui \in {5, 7} /\ i = GoTo(2)
      \/ ui = 8 /\ i \in {GoTo(14), GoTo(2)}
      \/ ui = 10 /\ i = GoTo(2)
      \/ ui = 11 /\ i \in {GoTo(2), GoTo(10)}
      \/ ui = 18 /\ i = GoTo(10)
      \/ ui = 22 /\ i \in {GoTo(11), Choice(15, name, pend, TRUE, FALSE)}
      \/ ui = 11 /\ \E n \in Names : i = Choice(22, n, pend, confirmed, FALSE)
      \/ ui = 10 /\ \E n \in Names : i = Confirm(n)
  BY <1>1 DEF Inputs, Offer, Waiting
<1> HIDE DEF Fits
<1>7. Fits
  BY <1>2, <1>3, <1>4, <1>5, <1>6 DEF Fits
<1> QED BY <1>7 DEF Fits

LEMMA TickStateRange ==
    ASSUME NEW u \in States, NEW r PROVE TickState(u, r) \in States
BY DEF States, TickState, Closed

LEMMA TickTypes == TypeOK /\ Tick => TypeOK'
<1> SUFFICES ASSUME TypeOK, Tick PROVE TypeOK'
  OBVIOUS
<1>1. PICK i \in Inputs :
         LET result == IF fb.known /\ io.E8 = 4 THEN io.F0 ELSE 0
             drive  == fb.rows /\ i.ui \in {6, 9}
             ticks  == result # 0 \/ i.ui = 15 \/ drive
             after  == IF ticks THEN TickState(i.ui, result) ELSE i.ui
             calls  == ticks /\ result # 3
         IN  /\ ui' = IF after = 23 /\ fb.known THEN Closed ELSE after
             /\ name' = i.name
             /\ pend' = i.pend
             /\ confirmed' = i.confirmed
             /\ req' = Offer(fb.known \/ ~drive, {"card"})
                       \cup Offer(i.rows \/ (ticks /\ i.ui \in {6, 9}), {"rows"})
                       \cup Offer(calls /\ i.ui = 15, {"write"})
                       \cup Offer(calls /\ i.ui = 14, {"format"})
  BY Zenon DEF Tick
<1>2. i.name \in Names /\ i.pend \in BOOLEAN /\ i.confirmed \in BOOLEAN /\ i.ui \in States
  BY InputFits DEF TypeOK, States
<1>3. ui' \in States
  BY <1>1, <1>2, TickStateRange DEF States
<1>4. req' \in SUBSET {"card", "rows", "write", "format"}
  BY <1>1 DEF Offer
<1>5. /\ io' = IF fb.known THEN fb.io ELSE io
      /\ submit' = IF fb.known /\ io.E8 = 0 THEN "info"
                   ELSE IF fb.known /\ io.E8 = 2 THEN "load" ELSE "none"
      /\ pc' = "observe"
      /\ UNCHANGED <<file_vars, mem_vars, rows, sw, armed, fb, w, sessions>>
  BY DEF Tick
<1>6. io' \in Check
  BY <1>5 DEF TypeOK, Feedback
<1> QED BY <1>1, <1>2, <1>3, <1>4, <1>5, <1>6 DEF TypeOK, file_vars, mem_vars, States

(* Every state of the screen is well typed.                                *)
THEOREM CardTypes == Spec => []TypeOK
<1>1. Init => TypeOK
  BY InitTypes
<1>2. TypeOK /\ [Next]_vars => TypeOK'
  <2> SUFFICES ASSUME TypeOK, [Next]_vars PROVE TypeOK'
    OBVIOUS
  <2>1. CASE Next
    BY <2>1, PollTypes, WriteTypes, FormatTypes, TickTypes, ObserveTypes, SwapTypes, OpenTypes
       DEF Next, HostTick
  <2>2. CASE UNCHANGED vars
    BY <2>2 DEF TypeOK, vars, file_vars, mem_vars, check_vars, user_vars
  <2> QED BY <2>1, <2>2
<1> QED BY <1>1, <1>2, PTL DEF Spec

-----------------------------------------------------------------------------
(* The answer to the check, the memory of it and the requests.             *)

LEMMA MatchesSame ==
    ASSUME Mirrors, UNCHANGED <<ui, io, dir, sink, w>>, pc # "observe"
    PROVE  Mirrors'
BY DEF Mirrors, Settled, Matches, Stale, Unread, Excused

LEMMA SwapKeeps == IInv /\ Swap => IInv'
<1> SUFFICES ASSUME IInv, Swap PROVE IInv'
  OBVIOUS
<1>1. TypeOK'
  BY SwapTypes DEF IInv
<1>2. UNCHANGED <<ui, io, dir, sink, w, pc, fb, req, submit>>
  BY DEF Swap, mem_vars, check_vars, user_vars
<1>3. AnswerFits' /\ MissingForgets' /\ Mirrors'
  BY <1>2 DEF IInv, AnswerFits, Answers, AfterCall, AfterInfo, AfterLoad,
              MissingForgets, Mirrors, Settled, Matches, Stale, Unread, Excused
<1>4. Kept' /\ Requests'
  BY <1>2 DEF IInv, Kept, Matches, Requests, Answers
<1> QED BY <1>1, <1>3, <1>4 DEF IInv

LEMMA OpenKeeps == IInv /\ Open => IInv'
<1> SUFFICES ASSUME IInv, Open PROVE IInv'
  OBVIOUS
<1>1. TypeOK'
  BY OpenTypes DEF IInv
<1>2. ui' = 2 /\ io' = NoCheck /\ pc' = "poll" /\ w' = Idle /\ req' = {}
  BY DEF Open, Opened
<1>3. AnswerFits' /\ MissingForgets' /\ Requests' /\ Kept'
  BY <1>2 DEF AnswerFits, Answers, MissingForgets, Requests, Kept, NoCheck, Idle
<1>4. Mirrors'
  BY <1>2 DEF Mirrors, Stale, Unread, NoCheck
<1> QED BY <1>1, <1>3, <1>4 DEF IInv

LEMMA InitKeeps == Init => IInv
<1> SUFFICES ASSUME Init PROVE IInv
  OBVIOUS
<1>1. TypeOK
  BY InitTypes
<1>2. ui = 2 /\ io = NoCheck /\ pc = "poll" /\ w = Idle /\ req = {}
  BY DEF Init
<1>3. AnswerFits /\ MissingForgets /\ Requests /\ Kept
  BY <1>2 DEF AnswerFits, Answers, MissingForgets, Requests, Kept, NoCheck, Idle
<1>4. Mirrors
  BY <1>2 DEF Mirrors, Stale, Unread, NoCheck
<1> QED BY <1>1, <1>3, <1>4 DEF IInv

LEMMA PollKeeps == IInv /\ PollCard => IInv'
<1> SUFFICES ASSUME IInv, PollCard PROVE IInv'
  OBVIOUS
<1>1. TypeOK'
  BY PollTypes DEF IInv
<1>2. /\ pc = "poll" /\ pc' = "write"
      /\ UNCHANGED <<ui, io, dir, sink, w, req, submit>>
  BY DEF PollCard, mem_vars, user_vars
<1>3. /\ fb'.write = "none"
      /\ fb'.known => \/ io.E8 \in {0, 2, 4} /\ fb'.io = AfterCall
                      \/ io.E8 = 1 /\ \E e \in {1, 3, 4} : fb'.io = AfterInfo(e)
                      \/ io.E8 = 3 /\ \E e \in {1, 3, 4} : fb'.io = AfterLoad(e)
  <2> DEFINE asked    == "card" \in req
             changed  == asked /\ ~seen
             events   == IF changed THEN sw \cup {4} ELSE sw
             hit      == LastHit(events)
             polls    == asked /\ io.E8 \in armed \cap {1, 3}
             answered == IF io.E8 = 1 THEN hit \in {1, 3} \/ (hit = 4 /\ changed)
                                      ELSE hit # 0
             next     == IF io.E8 = 1 THEN AfterInfo(hit) ELSE AfterLoad(hit)
  <2>1. IF polls /\ answered
        THEN fb' = Answer(TRUE, next)
        ELSE fb' = IF asked /\ io.E8 \in {0, 2, 4} THEN Answer(TRUE, AfterCall)
                   ELSE Answer(FALSE, NoCheck)
    BY Zenon DEF PollCard
  <2>2. \A k, i : /\ Answer(k, i).known = k /\ Answer(k, i).io = i
                  /\ Answer(k, i).write = "none"
    BY DEF Answer
  <2>3. polls => io.E8 \in {1, 3}
    OBVIOUS
  <2>4. hit \in {0, 1, 3, 4}
    BY LastHitRange DEF IInv, TypeOK
  <2>5. polls /\ answered => hit \in {1, 3, 4}
    BY <2>4
  <2> HIDE DEF polls, answered, hit, asked, next
  <2>6. CASE polls /\ answered
    <3>1. fb'.known = TRUE /\ fb'.io = next /\ fb'.write = "none"
      BY <2>1, <2>6 DEF Answer
    <3> QED BY <2>3, <2>5, <2>6, <3>1 DEF next
  <2>7. CASE ~(polls /\ answered) /\ asked /\ io.E8 \in {0, 2, 4}
    BY <2>1, <2>7 DEF Answer
  <2>8. CASE ~(polls /\ answered) /\ ~(asked /\ io.E8 \in {0, 2, 4})
    <3>1. fb' = Answer(FALSE, NoCheck)
      BY <2>1, <2>8
    <3> QED BY <2>2, <3>1
  <2> QED BY <2>6, <2>7, <2>8
<1>4. AnswerFits'
  BY <1>2, <1>3 DEF AnswerFits, Answers, AfterCall, AfterInfo, AfterLoad
<1>5. MissingForgets' /\ Kept' /\ Mirrors'
  BY <1>2, MatchesSame DEF IInv, MissingForgets, Kept, Matches
<1>6. Requests'
  BY <1>2, <1>3 DEF IInv, Requests, Answers
<1> QED BY <1>1, <1>4, <1>5, <1>6 DEF IInv

LEMMA FormatKeeps == IInv /\ FormatStep => IInv'
<1> SUFFICES ASSUME IInv, FormatStep PROVE IInv'
  OBVIOUS
<1>1. TypeOK'
  BY FormatTypes DEF IInv
<1>2. /\ pc = "format" /\ pc' = "tick"
      /\ UNCHANGED <<ui, io, w, req, submit, fb>>
  BY DEF FormatStep, check_vars, user_vars
<1>3. AnswerFits' /\ MissingForgets' /\ Kept' /\ Requests'
  BY <1>2 DEF IInv, AnswerFits, Answers, AfterCall, AfterInfo, AfterLoad,
              MissingForgets, Kept, Matches, Requests
<1>4. CASE dir' = Empty /\ sink' = Imported(Blank)
  BY <1>1, <1>3, <1>4, BlankMatches DEF IInv, Mirrors, Settled, Matches
<1>5. CASE UNCHANGED <<dir, sink>>
  BY <1>1, <1>2, <1>3, <1>5, MatchesSame DEF IInv
<1> QED BY <1>4, <1>5 DEF FormatStep

LEMMA ObserveKeeps == IInv /\ Observe => IInv'
<1> SUFFICES ASSUME IInv, Observe PROVE IInv'
  OBVIOUS
<1>1. TypeOK'
  BY ObserveTypes DEF IInv
<1>2. /\ pc = "observe" /\ pc' = "poll"
      /\ UNCHANGED <<ui, io, w, req, fb>>
  BY DEF Observe, user_vars
<1>3. AnswerFits' /\ MissingForgets' /\ Kept' /\ Requests'
  BY <1>2 DEF IInv, AnswerFits, Answers, MissingForgets, Kept, Matches, Requests
<1>4. CASE UNCHANGED <<dir, sink>> /\ submit # "load"
  BY <1>1, <1>2, <1>3, <1>4
     DEF IInv, Mirrors, Settled, Matches, Stale, Unread, Excused
<1>5. CASE sink' = Imported(file) /\ dir' = IF file \in Image THEN RowsOf(file) ELSE Empty
  <2>1. Settled'
    BY <1>5, ImportedMatches DEF IInv, TypeOK, Settled, Matches
  <2> QED BY <1>1, <1>3, <2>1 DEF IInv, Mirrors
<1>6. \/ UNCHANGED <<dir, sink>> /\ submit # "load"
      \/ sink' = Imported(file) /\ dir' = IF file \in Image THEN RowsOf(file) ELSE Empty
  BY DEF Observe, mem_vars
<1> QED BY <1>4, <1>5, <1>6

-----------------------------------------------------------------------------
(* A write remembers mirrors that agree, and puts them back.               *)

LEMMA RequestedKept ==
    ASSUME IInv, pc = "write", "write" \in req, w.phase \in {"idle", "begin"}
    PROVE  /\ ui = 15
           /\ Matches(Requested.dir0, Requested.prev)
           /\ Requested.prev.known => Requested.prev.durable
<1>1. ui = 15
  BY DEF IInv, Requests
<1>2. CASE w.phase = "idle"
  <2>1. Settled
    BY <1>1, <1>2 DEF IInv, Mirrors, Stale, Excused, Closed
  <2>2. Requested.dir0 = dir
        /\ Requested.prev = IF sink.known /\ sink.durable THEN sink ELSE NoSink
    BY <1>2 DEF Requested, Stage
  <2> QED BY <1>1, <2>1, <2>2 DEF Settled, Matches, NoSink
<1>3. CASE w.phase = "begin"
  BY <1>1, <1>3 DEF IInv, Kept, Requested
<1> QED BY <1>2, <1>3

LEMMA WriteKeeps == IInv /\ WriteStep => IInv'
<1> SUFFICES ASSUME IInv, WriteStep PROVE IInv'
  OBVIOUS
<1> DEFINE Fits == /\ Mirrors' /\ Kept'
                   /\ fb'.write # "none" => w'.phase = "done" /\ (fb'.write = "ok" <=> w'.ok)
                   /\ fb'.known = fb.known /\ fb'.io = fb.io
<1>1. TypeOK'
  BY WriteTypes DEF IInv
<1>2. /\ pc = "write" /\ pc' = "format"
      /\ UNCHANGED <<ui, io, req, submit>>
      /\ fb.write = "none"
  BY DEF IInv, WriteStep, check_vars, user_vars, Requests
<1>3. ASSUME "write" \notin req, w' = Idle, UNCHANGED <<dir, sink, fb>>
      PROVE  Fits
  <2>1. ui # 15
    BY <1>2, <1>3 DEF IInv, Requests
  <2>2. Mirrors'
    BY <1>2, <1>3, <2>1 DEF IInv, Mirrors, Settled, Matches, Stale, Unread, Excused
  <2> QED BY <1>2, <1>3, <2>2 DEF Kept, Idle
<1>4. ASSUME "write" \in req, BeginAttempt
      PROVE  Fits
  <2>1. /\ ui = 15
        /\ Matches(Requested.dir0, Requested.prev)
        /\ Requested.prev.known => Requested.prev.durable
    BY <1>2, <1>4, RequestedKept DEF BeginAttempt
  <2>2. /\ w'.dir0 = Requested.dir0 /\ w'.prev = Requested.prev
        /\ fb' = fb
        /\ \/ w'.phase = "wait"
           \/ w'.phase = "blocked" /\ dir' = Requested.dir0 /\ sink' = Requested.prev
    BY <1>4 DEF BeginAttempt, Rollback, Stage
  <2>3. Kept'
    BY <2>1, <2>2 DEF Kept, Matches
  <2>4. Mirrors'
    BY <1>2, <2>1, <2>2 DEF Mirrors, Settled, Matches, Excused
  <2> QED BY <1>2, <2>2, <2>3, <2>4
<1>5. ASSUME "write" \in req, AwaitAttempt
      PROVE  Fits
  <2>1. w.phase = "wait" /\ ui = 15
    BY <1>2, <1>5 DEF IInv, AwaitAttempt, Requests
  <2>2. Matches(w.dir0, w.prev) /\ (w.prev.known => w.prev.durable)
    BY <2>1 DEF IInv, Kept
  <2>3. w'.dir0 = w.dir0 /\ w'.prev = w.prev /\ w'.ok = w.ok
    BY <1>5 DEF AwaitAttempt, Moved, Stage
  <2>4. \/ w'.phase \in {"wait", "begin"} /\ fb' = fb
        \/ /\ w'.phase = "done" /\ fb' = Reported
           /\ w.ok \/ (dir' = w.dir0 /\ sink' = w.prev)
    BY <1>5 DEF AwaitAttempt, Moved, Stage, Rollback
  <2>5. Kept'
    BY <2>2, <2>3 DEF Kept, Matches
  <2>6. Mirrors'
    BY <1>2, <2>1, <2>2, <2>3, <2>4 DEF Mirrors, Settled, Matches, Excused
  <2>7. w.ok \in BOOLEAN
    BY DEF IInv, TypeOK, Write
  <2> QED BY <1>2, <2>3, <2>4, <2>5, <2>6, <2>7 DEF Reported
<1>6. ASSUME w.phase \in {"done", "blocked"},
             fb' = IF w.phase = "blocked" THEN fb ELSE Reported,
             UNCHANGED <<dir, sink, w>>
      PROVE  Fits
  <2>1. Mirrors' /\ Kept'
    BY <1>2, <1>6, MatchesSame DEF IInv, Kept, Matches
  <2>2. w.ok \in BOOLEAN
    BY DEF IInv, TypeOK, Write
  <2> QED BY <1>2, <1>6, <2>1, <2>2 DEF Reported
<1>7. Fits
  <2>1. \/ "write" \notin req /\ w' = Idle /\ UNCHANGED <<dir, sink, fb>>
        \/ "write" \in req /\ BeginAttempt
        \/ "write" \in req /\ AwaitAttempt
        \/ /\ w.phase \in {"done", "blocked"}
           /\ fb' = IF w.phase = "blocked" THEN fb ELSE Reported
           /\ UNCHANGED <<dir, sink, w>>
    BY DEF WriteStep
  <2> HIDE DEF Fits
  <2> QED BY <2>1, <1>3, <1>4, <1>5, <1>6
<1>8. AnswerFits' /\ MissingForgets'
  BY <1>2, <1>7 DEF IInv, AnswerFits, Answers, AfterCall, AfterInfo, AfterLoad, MissingForgets
<1>9. Requests'
  BY <1>2, <1>7 DEF Requests, Answers
<1> QED BY <1>1, <1>7, <1>8, <1>9 DEF IInv

-----------------------------------------------------------------------------
(* The tick of the screen.                                                 *)

(* The card check's next answer: still unread, and 3 only if forgotten.    *)
LEMMA CheckMoves ==
    ASSUME IInv, Tick
    PROVE  /\ MissingForgets'
           /\ Unread(io) => \/ Unread(io')
                            \/ io'.E8 = 3 /\ ~io'.F4 /\ submit' = "load"
           /\ fb.known /\ io.E8 = 4 /\ io.F0 = 3 => Unread(io')
<1>1. /\ io' = IF fb.known THEN fb.io ELSE io
      /\ submit' = IF fb.known /\ io.E8 = 0 THEN "info"
                   ELSE IF fb.known /\ io.E8 = 2 THEN "load" ELSE "none"
      /\ Answers
  BY DEF Tick, Answers
<1>2. io \in Check /\ MissingForgets /\ AnswerFits
  BY DEF IInv, TypeOK
<1>3. CASE ~fb.known
  BY <1>1, <1>2, <1>3 DEF MissingForgets
<1>4. CASE fb.known /\ io.E8 \in {0, 2, 4} /\ fb.io = AfterCall
  BY <1>1, <1>2, <1>4 DEF MissingForgets, Unread, AfterCall, Check
<1>5. ASSUME fb.known, io.E8 = 1, NEW e \in {1, 3, 4}, fb.io = AfterInfo(e)
      PROVE  MissingForgets' /\ (Unread(io) => Unread(io'))
  BY <1>1, <1>2, <1>5 DEF MissingForgets, Unread, AfterInfo, Check
<1>6. ASSUME fb.known, io.E8 = 3, NEW e \in {1, 3, 4}, fb.io = AfterLoad(e)
      PROVE  MissingForgets' /\ ~Unread(io)
  <2>1. io'.E8 = 4 /\ (io'.F0 = 3 => io.F0 = 3 \/ ~io'.F4)
    BY <1>1, <1>6 DEF AfterLoad
  <2>2. io.F0 \in {1, 4}
    BY <1>2, <1>6 DEF MissingForgets
  <2>3. ~Unread(io)
    BY <1>6 DEF Unread
  <2> QED BY <2>1, <2>2, <2>3 DEF MissingForgets
<1>7. \/ ~fb.known
      \/ fb.known /\ io.E8 \in {0, 2, 4} /\ fb.io = AfterCall
      \/ fb.known /\ io.E8 = 1 /\ \E e \in {1, 3, 4} : fb.io = AfterInfo(e)
      \/ fb.known /\ io.E8 = 3 /\ \E e \in {1, 3, 4} : fb.io = AfterLoad(e)
  BY <1>1, <1>2 DEF AnswerFits
<1>8. CASE fb.known /\ io.E8 = 1 /\ \E e \in {1, 3, 4} : fb.io = AfterInfo(e)
  BY <1>5, <1>8
<1>9. CASE fb.known /\ io.E8 = 3 /\ \E e \in {1, 3, 4} : fb.io = AfterLoad(e)
  BY <1>6, <1>9
<1> QED BY <1>3, <1>4, <1>7, <1>8, <1>9

LEMMA TickKeeps == IInv /\ Tick => IInv'
<1> SUFFICES ASSUME IInv, Tick PROVE IInv'
  OBVIOUS
<1>1. TypeOK'
  BY TickTypes DEF IInv
<1>2. /\ pc = "tick" /\ pc' = "observe"
      /\ UNCHANGED <<dir, sink, w, fb>>
      /\ TypeOK /\ MissingForgets /\ Mirrors
  BY DEF IInv, Tick, mem_vars
<1>3. PICK i \in Inputs :
         LET result == IF fb.known /\ io.E8 = 4 THEN io.F0 ELSE 0
             drive  == fb.rows /\ i.ui \in {6, 9}
             ticks  == result # 0 \/ i.ui = 15 \/ drive
             after  == IF ticks THEN TickState(i.ui, result) ELSE i.ui
             calls  == ticks /\ result # 3
         IN  /\ ui' = IF after = 23 /\ fb.known THEN Closed ELSE after
             /\ name' = i.name
             /\ pend' = i.pend
             /\ confirmed' = i.confirmed
             /\ req' = Offer(fb.known \/ ~drive, {"card"})
                       \cup Offer(i.rows \/ (ticks /\ i.ui \in {6, 9}), {"rows"})
                       \cup Offer(calls /\ i.ui = 15, {"write"})
                       \cup Offer(calls /\ i.ui = 14, {"format"})
  BY Zenon DEF Tick
<1> DEFINE result == IF fb.known /\ io.E8 = 4 THEN io.F0 ELSE 0
           ticks  == result # 0 \/ i.ui = 15 \/ (fb.rows /\ i.ui \in {6, 9})
           after  == IF ticks THEN TickState(i.ui, result) ELSE i.ui
<1>4. /\ ui' = IF after = 23 /\ fb.known THEN Closed ELSE after
      /\ "write" \in req' <=> ticks /\ result # 3 /\ i.ui = 15
  BY <1>3 DEF Offer
<1>5. \/ i.ui = ui
      \/ ui = 2 /\ i.ui \in {4, 23}
      \/ ui \in {5, 7} /\ i.ui = 2
      \/ ui = 8 /\ i.ui \in {2, 14}
      \/ ui = 10 /\ i.ui \in {2, 18, 7, 15}
      \/ ui = 11 /\ i.ui \in {2, 22, 10}
      \/ ui = 18 /\ i.ui = 10
      \/ ui = 22 /\ i.ui \in {11, 15}
  BY <1>2, InputFits
<1>6. /\ MissingForgets'
      /\ Unread(io) => \/ Unread(io')
                       \/ io'.E8 = 3 /\ ~io'.F4 /\ submit' = "load"
      /\ fb.known /\ io.E8 = 4 /\ io.F0 = 3 => Unread(io')
  BY CheckMoves
<1>7. AnswerFits' /\ Kept'
  BY <1>2 DEF IInv, AnswerFits, Answers, Kept, Matches
<1>8. fb.write # "none" => w.phase = "done" /\ (fb.write = "ok" <=> w.ok)
  BY <1>2 DEF IInv, Requests, Answers
<1>9. ui \in States /\ fb.write \in {"none", "ok", "failed"}
  BY <1>2 DEF TypeOK, States, Feedback
<1>10. Mirrors'
  <2>1. CASE Settled
    BY <1>2, <2>1 DEF Mirrors, Settled, Matches
  <2>2. CASE Stale
    <3>1. ui \in {2, 4, 5} /\ Unread(io)
      BY <1>2, <2>2 DEF Stale
    <3>2. result = 0 \/ result = 3
      BY <3>1 DEF Unread
    <3>3. i.ui \in {2, 4, 5, 23}
      BY <1>5, <3>1
    <3>4. after \in {2, 4, 5, 23}
      BY <3>2, <3>3 DEF TickState
    <3> HIDE DEF after
    <3>5. ui' \in {2, 4, 5} \/ ui' \in {23, Closed}
      BY <1>4, <3>4
    <3> QED BY <1>2, <1>6, <3>1, <3>5 DEF Mirrors, Stale
  <2>3. CASE Excused
    <3>1. ui = 15 /\ i.ui = 15
      BY <1>5, <2>3 DEF Excused
    <3>2. after = IF result = 3 \/ fb.write = "failed" THEN 2
                  ELSE IF fb.write = "none" THEN 15 ELSE 23
      BY <3>1 DEF TickState
    <3> HIDE DEF after
    <3>3. CASE result = 3
      <4>1. ui' = 2 /\ Unread(io')
        BY <1>4, <1>6, <3>2, <3>3
      <4> QED BY <4>1 DEF Mirrors, Stale
    <3>4. CASE result # 3 /\ fb.write = "failed"
      BY <1>8, <2>3, <3>4 DEF Excused
    <3>5. CASE result # 3 /\ fb.write = "none"
      <4>1. ui' = 15
        BY <1>4, <3>2, <3>5
      <4> QED BY <1>2, <2>3, <4>1 DEF Mirrors, Excused
    <3>6. CASE result # 3 /\ fb.write = "ok"
      <4>1. ui' \in {23, Closed}
        BY <1>4, <3>2, <3>6
      <4> QED BY <4>1 DEF Mirrors
    <3> QED BY <1>9, <3>3, <3>4, <3>5, <3>6
  <2>4. CASE ui \in {23, Closed}
    <3>1. i.ui = ui
      BY <1>5, <2>4 DEF Closed
    <3>2. after = ui
      BY <2>4, <3>1 DEF TickState, Closed
    <3> QED BY <1>4, <2>4, <3>2 DEF Mirrors, Closed
  <2> QED BY <1>2, <2>1, <2>2, <2>3, <2>4 DEF Mirrors
<1>11. Requests'
  <2>1. i.ui \in States
    BY <1>5, <1>9 DEF States
  <2>2. after = 15 => ticks /\ i.ui = 15 /\ result # 3
    BY <2>1 DEF TickState, States, Closed
  <2>3. i.ui = 15 /\ result # 3 /\ after # 15 => fb.write # "none"
    BY DEF TickState
  <2> HIDE DEF after, ticks, result
  <2>4. ui' = 15 => after = 15
    BY <1>4 DEF Closed
  <2>5. ui' # 15 => after # 15
    BY <1>4
  <2> QED BY <1>2, <1>4, <1>8, <2>2, <2>3, <2>4, <2>5 DEF Requests, Answers
<1> QED BY <1>1, <1>6, <1>7, <1>10, <1>11 DEF IInv

-----------------------------------------------------------------------------
LEMMA StutterKeeps == IInv /\ UNCHANGED vars => IInv'
<1> SUFFICES ASSUME IInv, UNCHANGED vars PROVE IInv'
  OBVIOUS
<1>1. TypeOK'
  BY DEF IInv, TypeOK, vars, file_vars, mem_vars, check_vars, user_vars
<1>2. UNCHANGED <<ui, io, dir, sink, w, pc, fb, req, submit>>
  BY DEF vars, mem_vars, check_vars, user_vars
<1>3. AnswerFits' /\ MissingForgets' /\ Mirrors'
  BY <1>2 DEF IInv, AnswerFits, Answers, AfterCall, AfterInfo, AfterLoad,
              MissingForgets, Mirrors, Settled, Matches, Stale, Unread, Excused
<1>4. Kept' /\ Requests'
  BY <1>2 DEF IInv, Kept, Matches, Requests, Answers
<1> QED BY <1>1, <1>3, <1>4 DEF IInv

(* Wherever the user reads the list or is asked about an entry, the        *)
(* directory in memory is the directory of the image in memory, whatever   *)
(* saves failed, were given up or found the card exchanged before.         *)
THEOREM CardMirrorsAgree == Spec => []MirrorsAgree
<1>1. Init => IInv
  BY InitKeeps
<1>2. IInv /\ [Next]_vars => IInv'
  BY PollKeeps, WriteKeeps, FormatKeeps, TickKeeps, ObserveKeeps, SwapKeeps, OpenKeeps,
     StutterKeeps DEF Next, HostTick
<1>3. IInv => MirrorsAgree
  BY DEF IInv, Mirrors, Settled, Matches, Stale, Excused, MirrorsAgree, Closed
<1> QED BY <1>1, <1>2, <1>3, PTL DEF Spec

-----------------------------------------------------------------------------
(* What a save does to the card.                                           *)
(*                                                                         *)
(* While nobody exchanges the file, the memory describes the card: once    *)
(* the check has read it, it finds nothing else and reads it no more, and  *)
(* the list of the first visit is that of the card.  A save begins from    *)
(* there, and an attempt that failed leaves in memory what the next one    *)
(* would make again.                                                       *)

(* The steps of the check and what is asked of the card fit together.      *)
CheckFits ==
    /\ io.E8 = 4 => (io.F4 <=> io.F0 \in {1, 4})
    /\ io.E8 \in {2, 3} => ~io.F4
    /\ submit = "info" => io.E8 = 1
    /\ submit = "load" => io.E8 = 3
    /\ submit # "none" => pc = "observe"
    /\ "format" \in req => ui = 4 /\ io.E8 = 0
    /\ w.phase = "idle" => w = Idle

(* A list that the screen got stays; a typed name was compared with it.    *)
NameCompared ==
    /\ Answers /\ fb.rows => rows.known
    /\ ui = 15 => confirmed \/ (rows.known /\ name \notin rows.names)

(* A name to save is on the list, or the list has an unused row for it.    *)
RoomCompared ==
    /\ ~rows.known => rows = NoRows
    /\ ui = 22 => name \in rows.names
    /\ ui = 15 => rows.known /\ (name \in rows.names \/ rows.free # 0)

(* Once the check has read a card that stays, it finds nothing else.       *)
CardRead ==
    loaded => /\ file \in Image
              /\ sw \subseteq {1}
              /\ io.F0 \in {1, 4}
              /\ io.F4 \/ io.E8 = 3
              /\ submit # "load"
              /\ Answers /\ fb.known => fb.io.F4 /\ fb.io.F0 \in {1, 4}

(* What says that a card was read, or is not formatted, says the truth.    *)
CheckTrue ==
    /\ seen
    /\ io.F4 \/ (Answers /\ fb.known /\ fb.io.F4) => loaded
    /\ io.E8 = 4 /\ io.F0 = 5 => file \notin Image
    /\ Answers /\ fb.known /\ fb.io.E8 = 4 /\ fb.io.F0 = 5 => file \notin Image
    /\ io.E8 = 3 /\ submit # "load" => (1 \in sw => loaded) /\ (4 \in sw => file \notin Image)
    /\ ui \in {8, 14} => file \notin Image
    /\ ui \in {6, 7, 9, 10, 11, 15, 18, 22} => loaded
    /\ "format" \in req => ~loaded

(* The row of an entry with the name and the new data.                     *)
Put(base, d) == [base EXCEPT ![PayloadRow(d)] = [name |-> d[PayloadRow(d)], data |-> "new"]]
Renamed(d) == [d EXCEPT ![TargetRow(d, name)] = name]

(* A save goes on as long as the screen waits for it.                      *)
SaveStays ==
    /\ w.phase # "idle" => loaded
    /\ w.phase \in {"begin", "wait"} => ui = 15
    /\ w.ok => w.phase \in {"wait", "done"} /\ ui \in {15, 23, Closed}

(* The memory is the card's, except for the entry being written.           *)
MemoryIsCard ==
    /\ loaded /\ ui \notin {23, Closed}
         /\ (w.phase \in {"idle", "blocked"} \/ (w.phase = "done" /\ ~w.ok)) =>
           dir = RowsOf(file) /\ sink = Imported(file)
    /\ w.phase \in {"begin", "wait"} /\ ~w.ok =>
           /\ w.dir0 = RowsOf(file) /\ w.prev = Imported(file)
           /\ HasRow(w.dir0, name)
           /\ dir = Renamed(w.dir0)
           /\ sink.known /\ sink.img = Put(file, dir)

(* The list of the first visit is that of the card.                        *)
NamesOf(d) == {n \in Names : \E r \in Row : d[r] = n}
ListIsCard ==
    sessions = 1 /\ rows.known =>
        /\ loaded
        /\ ~w.ok /\ ui \notin {23, Closed} =>
              /\ rows.names = NamesOf(RowsOf(file))
              /\ rows.free = Cardinality({r \in Row : RowsOf(file)[r] = Free})

Untouched == CardRead /\ CheckTrue /\ SaveStays /\ MemoryIsCard /\ ListIsCard

OInv == CheckFits /\ NameCompared /\ RoomCompared /\ (swaps = 0 => Untouched)

-----------------------------------------------------------------------------
(* The first of some rows.                                                 *)
LEMMA FirstIsLeast ==
    ASSUME NEW S \in SUBSET Row, S # {}
    PROVE  First(S) \in S /\ \A q \in S : First(S) <= q
<1> DEFINE Less == {ss \in Nat \X Nat : ss[1] < ss[2]}
<1>1. IsWellFoundedOn(Less, Nat)
  BY NatLessThanWellFounded DEF OpToRel
<1>2. \A x, y \in Nat : x < y => <<x, y>> \in Less
  OBVIOUS
<1>3. S \subseteq Nat
  BY ConstantsAssumption DEF Row
<1> HIDE DEF Less
<1>4. PICK x \in S : \A y \in S : ~ (<<y, x>> \in Less)
  BY <1>1, <1>3, WFMin
<1>5. ASSUME NEW y \in S PROVE x <= y
  <2>1. x \in Nat /\ y \in Nat
    BY <1>3
  <2>2. ~ (y < x)
    BY <1>2, <1>4, <2>1
  <2> QED BY <2>1, <2>2
<1> QED BY <1>5, Zenon DEF First

LEMMA FirstIs ==
    ASSUME NEW S \in SUBSET Row, NEW t \in S, \A q \in S : t <= q
    PROVE  First(S) = t
<1>0. \A r \in Row : r \in Nat
  BY ConstantsAssumption DEF Row
<1>1. First(S) \in S /\ First(S) <= t
  <2>1. S # {}
    OBVIOUS
  <2> QED BY <2>1, FirstIsLeast
<1>2. t <= First(S)
  BY <1>1
<1>3. t \in Nat /\ First(S) \in Nat
  BY <1>0, <1>1
<1> QED BY <1>1, <1>2, <1>3

(* The row for a name, before and after it is put there.                   *)
LEMMA TargetIs ==
    ASSUME NEW d \in Directory, NEW n \in Names, HasRow(d, n)
    PROVE  /\ TargetRow(d, n) \in Row
           /\ d[TargetRow(d, n)] \in {n, Free}
           /\ TargetRow([d EXCEPT ![TargetRow(d, n)] = n], n) = TargetRow(d, n)
<1> DEFINE t == TargetRow(d, n)
           e == [d EXCEPT ![t] = n]
<1>0. \A r \in Row : r \in Nat
  BY ConstantsAssumption DEF Row
<1>1. CASE \E r \in Row : d[r] = n
  <2> DEFINE S == {r \in Row : d[r] = n}
  <2>1. t = First(S)
    BY <1>1, Zenon DEF TargetRow
  <2>2. S \in SUBSET Row /\ S # {}
    BY <1>1
  <2>3. t \in S
    BY <2>1, <2>2, FirstIsLeast
  <2>4. t \in Row /\ d[t] = n
    BY <2>3
  <2> HIDE DEF t, S
  <2>5. e = d
    BY <2>4 DEF Directory
  <2> QED BY <2>4, <2>5 DEF t
<1>2. CASE ~ \E r \in Row : d[r] = n
  <2> DEFINE S == {r \in Row : d[r] = Free}
  <2>1. t = First(S)
    BY <1>2, Zenon DEF TargetRow
  <2>2. S \in SUBSET Row /\ S # {}
    BY <1>2 DEF HasRow
  <2>3. t \in S
    BY <2>1, <2>2, FirstIsLeast
  <2>4. t \in Row /\ d[t] = Free
    BY <2>3
  <2> HIDE DEF t, S
  <2>5. \A r \in Row : e[r] = n <=> r = t
    BY <1>2, <2>4 DEF Directory
  <2>6. {r \in Row : e[r] = n} = {t}
    BY <2>4, <2>5
  <2>7. t <= t
    BY <1>0, <2>4
  <2>8. First({t}) = t
    BY <2>4, <2>7, FirstIs
  <2>9. TargetRow(e, n) = First({r \in Row : e[r] = n})
    BY <2>4, <2>5, Zenon DEF TargetRow
  <2> QED BY <2>4, <2>6, <2>8, <2>9 DEF t
<1> QED BY <1>1, <1>2

(* An attempt makes of the card what any attempt of this save makes.       *)
LEMMA AttemptMakes ==
    ASSUME IInv, OInv, swaps = 0, pc = "write", "write" \in req, w.phase \in {"idle", "begin"}
    PROVE  /\ ui = 15 /\ loaded /\ file \in Image /\ ~w.ok
           /\ Requested.dir0 = RowsOf(file) /\ Requested.prev = Imported(file)
           /\ ~Requested.ok
           /\ HasRow(dir, name) =>
                /\ HasRow(RowsOf(file), name)
                /\ Renamed(dir) = Renamed(RowsOf(file))
                /\ Serialized(Renamed(dir)) = Put(file, Renamed(dir))
           /\ ~HasRow(dir, name) => w.phase = "idle"
           /\ w.phase = "idle" => dir = RowsOf(file)
<1>1. ui = 15
  BY RequestedKept
<1>2. /\ loaded /\ file \in Image
      /\ CheckFits /\ SaveStays /\ MemoryIsCard
  BY <1>1 DEF OInv, Untouched, CardRead, CheckTrue
<1>3. name \in Names /\ RowsOf(file) \in Directory
  BY <1>2, RowsType DEF IInv, TypeOK
<1>4. Imported(file) = [known |-> TRUE, durable |-> TRUE, img |-> file]
  BY <1>2 DEF Imported
<1>5. CASE w.phase = "idle"
  <2>1. w = Idle
    BY <1>2, <1>5 DEF CheckFits
  <2>2. dir = RowsOf(file) /\ sink = Imported(file)
    BY <1>1, <1>2, <1>5 DEF MemoryIsCard, Closed
  <2>3. sink.known /\ sink.durable /\ sink.img = file
    BY <1>4, <2>2
  <2>4. Requested = Stage("begin", 1, 0, FALSE, dir, sink)
    BY <1>5, <2>3 DEF Requested
  <2>5. Requested.dir0 = dir /\ Requested.prev = sink /\ ~Requested.ok
    BY <2>4 DEF Stage
  <2>6. Serialized(Renamed(dir)) = Put(file, Renamed(dir))
    BY <2>3 DEF Serialized, Put
  <2> QED BY <1>1, <1>2, <1>5, <2>1, <2>2, <2>5, <2>6 DEF Idle
<1>6. CASE w.phase = "begin"
  <2>1. ~w.ok /\ Requested = w
    BY <1>2, <1>6 DEF SaveStays, Requested
  <2>2. /\ w.dir0 = RowsOf(file) /\ w.prev = Imported(file)
        /\ HasRow(w.dir0, name)
        /\ dir = Renamed(w.dir0)
        /\ sink.known /\ sink.img = Put(file, dir)
    BY <1>2, <1>6, <2>1 DEF MemoryIsCard
  <2> DEFINE d0 == RowsOf(file)
             t == TargetRow(d0, name)
  <2>3. HasRow(d0, name) /\ dir = [d0 EXCEPT ![t] = name]
    BY <2>2 DEF Renamed
  <2>4. t \in Row /\ TargetRow(dir, name) = t
    BY <1>3, <2>3, TargetIs
  <2>5. dir[t] = name /\ dir \in Directory
    BY <1>3, <2>3, <2>4 DEF Directory
  <2>6. Renamed(dir) = dir
    BY <2>4, <2>5 DEF Renamed, Directory
  <2>7. HasRow(dir, name)
    BY <2>4, <2>5 DEF HasRow
  <2>8. Serialized(dir) = Put(file, dir)
    <3> DEFINE p == PayloadRow(dir)
               e == [name |-> dir[p], data |-> "new"]
    <3>1. Serialized(dir) = [sink.img EXCEPT ![p] = e]
      BY <2>2 DEF Serialized
    <3>2. sink.img = [file EXCEPT ![p] = e]
      BY <2>2 DEF Put
    <3> HIDE DEF p, e
    <3>3. [[file EXCEPT ![p] = e] EXCEPT ![p] = e] = [file EXCEPT ![p] = e]
      BY <1>2 DEF Image
    <3>4. Put(file, dir) = [file EXCEPT ![p] = e]
      BY DEF Put, p, e
    <3> QED BY <3>1, <3>2, <3>3, <3>4
  <2>9. Renamed(d0) = dir
    BY <2>2
  <2> QED BY <1>1, <1>2, <2>1, <2>2, <2>6, <2>7, <2>8, <2>9, <1>6
<1> QED BY <1>5, <1>6

LEMMA PutType ==
    ASSUME NEW d \in Directory, NEW base \in Image PROVE Put(base, d) \in Image
<1> DEFINE p == PayloadRow(d)
<1>1. CASE p \in Row
  <2>1. [name |-> d[p], data |-> "new"] \in Entry
    BY <1>1 DEF Directory, Entry
  <2> QED BY <2>1 DEF Put, Image
<1>2. CASE p \notin Row
  BY <1>2 DEF Put, Image
<1> QED BY <1>1, <1>2

-----------------------------------------------------------------------------
(* What each operation leaves alone and does.                              *)

LEMMA PollDoes ==
    ASSUME IInv, PollCard
    PROVE  /\ pc = "poll" /\ pc' = "write"
           /\ UNCHANGED <<file, swaps, sink, dir, loaded, io, submit, ui, name, confirmed,
                          req, w, sessions>>
           /\ seen' = (seen \/ "card" \in req)
           /\ rows' = BuildRows
           /\ fb'.rows => rows'.known
           /\ seen => sw' \subseteq sw
           /\ seen /\ fb'.known =>
                \/ io.E8 \in {0, 2, 4} /\ fb'.io = AfterCall
                \/ io.E8 = 1 /\ \E e \in sw \cap {1, 3} : fb'.io = AfterInfo(e)
                \/ io.E8 = 3 /\ \E e \in sw : fb'.io = AfterLoad(e) /\ (e # 1 => e = 3 \/ 4 \in sw)
<1> DEFINE asked    == "card" \in req
           changed  == asked /\ ~seen
           events   == IF changed THEN sw \cup {4} ELSE sw
           hit      == LastHit(events)
           polls    == asked /\ io.E8 \in armed \cap {1, 3}
           answered == IF io.E8 = 1 THEN hit \in {1, 3} \/ (hit = 4 /\ changed)
                                    ELSE hit # 0
           next     == IF io.E8 = 1 THEN AfterInfo(hit) ELSE AfterLoad(hit)
<1>1. /\ sw' = IF polls THEN {} ELSE events
      /\ IF polls /\ answered
         THEN fb' = Answer(TRUE, next)
         ELSE fb' = IF asked /\ io.E8 \in {0, 2, 4} THEN Answer(TRUE, AfterCall)
                    ELSE Answer(FALSE, NoCheck)
      /\ seen' = (seen \/ asked)
      /\ rows' = BuildRows
      /\ pc = "poll" /\ pc' = "write"
      /\ UNCHANGED <<file, swaps, mem_vars, io, submit, user_vars, w, sessions>>
  BY Zenon DEF PollCard
<1>2. \A k, i : /\ Answer(k, i).known = k /\ Answer(k, i).io = i
                /\ Answer(k, i).rows = RowsAnswer
  BY DEF Answer
<1>3. fb'.rows => rows'.known
  <2> HIDE DEF next, polls, answered, asked
  <2>1. fb'.rows = RowsAnswer
    <3>1. CASE polls /\ answered
      BY <1>1, <3>1 DEF Answer
    <3>2. CASE ~(polls /\ answered) /\ asked /\ io.E8 \in {0, 2, 4}
      BY <1>1, <3>2 DEF Answer
    <3>3. CASE ~(polls /\ answered) /\ ~(asked /\ io.E8 \in {0, 2, 4})
      BY <1>1, <3>3 DEF Answer
    <3> QED BY <3>1, <3>2, <3>3
  <2> QED BY <1>1, <2>1 DEF RowsAnswer
<1>4. seen => events = sw /\ ~changed
  OBVIOUS
<1>5. sw \in SUBSET {1, 3, 4}
  BY DEF IInv, TypeOK
<1>6. hit \in {0} \cup events /\ (hit = 4 => 4 \in events)
  BY DEF LastHit
<1>7. polls => io.E8 \in {1, 3}
  OBVIOUS
<1>8. seen => sw' \subseteq sw
  BY <1>1, <1>4
<1>9. ASSUME seen, fb'.known
      PROVE  \/ io.E8 \in {0, 2, 4} /\ fb'.io = AfterCall
             \/ io.E8 = 1 /\ \E e \in sw \cap {1, 3} : fb'.io = AfterInfo(e)
             \/ io.E8 = 3 /\ \E e \in sw : fb'.io = AfterLoad(e) /\ (e # 1 => e = 3 \/ 4 \in sw)
  <2>1. CASE polls /\ answered
    <3>1. fb'.io = next
      <4> HIDE DEF next, polls, answered
      <4> QED BY <1>1, <2>1 DEF Answer
    <3>2. hit # 0 /\ (io.E8 = 1 => hit \in {1, 3})
      BY <1>4, <1>9, <2>1
    <3>3. hit \in sw
      BY <1>4, <1>6, <1>9, <3>2
    <3> HIDE DEF hit, polls, answered, events, changed, asked
    <3> QED BY <1>5, <1>7, <2>1, <3>1, <3>2, <3>3
  <2>2. CASE ~(polls /\ answered)
    <3>1. fb' = IF asked /\ io.E8 \in {0, 2, 4} THEN Answer(TRUE, AfterCall)
                ELSE Answer(FALSE, NoCheck)
      BY <1>1, <2>2
    <3>2. asked /\ io.E8 \in {0, 2, 4}
      BY <1>2, <1>9, <3>1
    <3> QED BY <1>2, <3>1, <3>2
  <2> QED BY <2>1, <2>2
<1> HIDE DEF next, answered, polls, events, hit, changed
<1> QED BY <1>1, <1>3, <1>8, <1>9 DEF mem_vars, user_vars

(* How the screen comes to save: it stays at it, the user agreed to        *)
(* overwrite an entry of the list, or typed a name that the list does not  *)
(* have but has room for.                                                  *)
Saving(i) ==
    /\ i.ui = 15 => \/ ui = 15 /\ i.name = name /\ i.confirmed = confirmed
                    \/ ui = 22 /\ i.name = name /\ i.confirmed
                    \/ ui = 10 /\ fb.rows /\ i.name \notin rows.names /\ rows.free # 0
    /\ i.ui = 22 => (ui = 22 /\ i.name = name) \/ i.name \in rows.names

LEMMA SavingInput == ASSUME TypeOK, NEW i \in Inputs PROVE Saving(i)
<1>1. \A u : /\ GoTo(u).ui = u /\ GoTo(u).name = name /\ GoTo(u).confirmed = confirmed
  BY DEF GoTo, Choice
<1>2. \/ i = Stay
      \/ ui = 22 /\ i = Choice(15, name, pend, TRUE, FALSE)
      \/ ui = 10 /\ \E n \in Names : i = Confirm(n)
      \/ ui = 11 /\ \E n \in rows.names : i = Choice(22, n, pend, confirmed, FALSE)
      \/ \E u \in {2, 4, 10, 11, 14, 23} : i = GoTo(u)
  BY DEF Inputs, Offer, Waiting, TypeOK
<1>3. CASE i = Stay
  <2>1. i = GoTo(ui)
    BY <1>3 DEF Stay
  <2> QED BY <1>1, <2>1 DEF Saving
<1>4. CASE ui = 22 /\ i = Choice(15, name, pend, TRUE, FALSE)
  BY <1>4 DEF Choice, Saving
<1>5. CASE ui = 10 /\ \E n \in Names : i = Confirm(n)
  <2>1. PICK n \in Names : i = Confirm(n)
    BY <1>5
  <2>2. CASE fb.rows
    <3>1. /\ i.name = n
          /\ i.ui = IF n \in rows.names THEN 18 ELSE IF rows.free = 0 THEN 7 ELSE 15
      BY <2>1, <2>2 DEF Confirm, Choice
    <3> QED BY <1>5, <2>2, <3>1 DEF Saving
  <2>3. CASE ~fb.rows
    <3>1. i.ui = ui
      BY <2>1, <2>3 DEF Confirm, Choice
    <3> QED BY <1>5, <3>1 DEF Saving
  <2> QED BY <2>2, <2>3
<1>6. CASE \E n \in rows.names : i = Choice(22, n, pend, confirmed, FALSE)
  BY <1>6 DEF Choice, Saving
<1>7. CASE \E u \in {2, 4, 10, 11, 14, 23} : i = GoTo(u)
  BY <1>1, <1>7 DEF Saving
<1> QED BY <1>2, <1>3, <1>4, <1>5, <1>6, <1>7

Result == IF fb.known /\ io.E8 = 4 THEN io.F0 ELSE 0

LEMMA TickDoes ==
    ASSUME IInv, Tick
    PROVE  /\ pc = "tick" /\ pc' = "observe"
           /\ UNCHANGED <<file, seen, swaps, sink, dir, loaded, rows, sw, fb, w, sessions>>
           /\ io' = IF fb.known THEN fb.io ELSE io
           /\ submit' = IF fb.known /\ io.E8 = 0 THEN "info"
                        ELSE IF fb.known /\ io.E8 = 2 THEN "load" ELSE "none"
           /\ ui' = 8 => Result = 5 \/ ui = 8
           /\ ui' = 14 => ui \in {8, 14}
           /\ ui' \in {6, 7, 9, 10, 11, 15, 18, 22} =>
                Result \in {1, 4} \/ ui \in {6, 7, 9, 10, 11, 15, 18, 22}
           /\ ui \in {23, Closed} => ui' \in {23, Closed}
           /\ ui = 15 /\ Result # 3 =>
                /\ fb.write = "none" => ui' = 15
                /\ fb.write = "ok" => ui' \in {23, Closed}
           /\ ui = 15 => name' = name
           /\ ui' = 15 => \/ ui = 15 /\ name' = name /\ confirmed' = confirmed
                          \/ ui = 22 /\ name' = name /\ confirmed'
                          \/ /\ ui = 10 /\ fb.rows
                             /\ name' \notin rows.names /\ rows.free # 0
           /\ ui' = 22 => (ui = 22 /\ name' = name) \/ name' \in rows.names
           /\ "format" \in req' => /\ ui \in {8, 14} /\ ui' = 4
                                   /\ fb.known /\ io.E8 = 4
<1>1. PICK i \in Inputs :
         LET result == IF fb.known /\ io.E8 = 4 THEN io.F0 ELSE 0
             drive  == fb.rows /\ i.ui \in {6, 9}
             ticks  == result # 0 \/ i.ui = 15 \/ drive
             after  == IF ticks THEN TickState(i.ui, result) ELSE i.ui
             calls  == ticks /\ result # 3
         IN  /\ ui' = IF after = 23 /\ fb.known THEN Closed ELSE after
             /\ name' = i.name
             /\ pend' = i.pend
             /\ confirmed' = i.confirmed
             /\ req' = Offer(fb.known \/ ~drive, {"card"})
                       \cup Offer(i.rows \/ (ticks /\ i.ui \in {6, 9}), {"rows"})
                       \cup Offer(calls /\ i.ui = 15, {"write"})
                       \cup Offer(calls /\ i.ui = 14, {"format"})
  BY Zenon DEF Tick
<1> DEFINE ticks  == Result # 0 \/ i.ui = 15 \/ (fb.rows /\ i.ui \in {6, 9})
           after  == IF ticks THEN TickState(i.ui, Result) ELSE i.ui
<1>2. /\ ui' = IF after = 23 /\ fb.known THEN Closed ELSE after
      /\ name' = i.name /\ confirmed' = i.confirmed
      /\ "format" \in req' => ticks /\ Result # 3 /\ i.ui = 14
  BY <1>1 DEF Offer, Result
<1>3. TypeOK /\ ui \in States /\ i.ui \in States
  BY InputFits DEF IInv, TypeOK, States
<1>4. \/ i.ui = ui
      \/ ui = 2 /\ i.ui \in {4, 23}
      \/ ui \in {5, 7} /\ i.ui = 2
      \/ ui = 8 /\ i.ui \in {2, 14}
      \/ ui = 10 /\ i.ui \in {2, 18, 7, 15}
      \/ ui = 11 /\ i.ui \in {2, 22, 10}
      \/ ui = 18 /\ i.ui = 10
      \/ ui = 22 /\ i.ui \in {11, 15}
  BY <1>3, InputFits
<1>5. Saving(i)
  BY <1>3, SavingInput
<1>6. /\ after = 8 => Result = 5 \/ i.ui = 8
      /\ after = 14 => i.ui = 14
      /\ after \in {6, 7, 9, 10, 11, 15, 18, 22} =>
            Result \in {1, 4} \/ i.ui \in {6, 7, 9, 10, 11, 15, 18, 22}
      /\ after = 15 => i.ui = 15
      /\ after = 22 => i.ui = 22
      /\ i.ui \in {23, Closed} => after = i.ui
  BY <1>3 DEF TickState, States, Closed
<1>7. i.ui = 15 /\ Result # 3 => /\ fb.write = "none" => after = 15
                                 /\ fb.write = "ok" => after = 23
  BY DEF TickState
<1>8. i.ui = 14 /\ ticks /\ Result # 3 => after = 4 /\ Result # 0
  BY DEF TickState
<1>9. Result # 0 => fb.known /\ io.E8 = 4
  BY DEF Result
<1>10. /\ io' = IF fb.known THEN fb.io ELSE io
       /\ submit' = IF fb.known /\ io.E8 = 0 THEN "info"
                    ELSE IF fb.known /\ io.E8 = 2 THEN "load" ELSE "none"
       /\ pc = "tick" /\ pc' = "observe"
       /\ UNCHANGED <<file_vars, mem_vars, rows, sw, armed, fb, w, sessions>>
  BY DEF Tick
<1> HIDE DEF after, ticks
<1>11. /\ ui' = after \/ (ui' = Closed /\ after = 23)
       /\ ui' # Closed => ui' = after
  BY <1>2
<1>12. /\ ui' = 8 => Result = 5 \/ ui = 8
       /\ ui' = 14 => ui \in {8, 14}
       /\ ui' \in {6, 7, 9, 10, 11, 15, 18, 22} =>
            Result \in {1, 4} \/ ui \in {6, 7, 9, 10, 11, 15, 18, 22}
  BY <1>4, <1>6, <1>11 DEF Closed
<1>13. ui \in {23, Closed} => ui' \in {23, Closed}
  BY <1>4, <1>6, <1>11 DEF Closed
<1>14. /\ ui = 15 /\ Result # 3 => /\ fb.write = "none" => ui' = 15
                                   /\ fb.write = "ok" => ui' \in {23, Closed}
       /\ ui = 15 => name' = name
  BY <1>2, <1>4, <1>5, <1>7, <1>11 DEF Saving
<1>15. /\ ui' = 15 => \/ ui = 15 /\ name' = name /\ confirmed' = confirmed
                      \/ ui = 22 /\ name' = name /\ confirmed'
                      \/ /\ ui = 10 /\ fb.rows
                         /\ name' \notin rows.names /\ rows.free # 0
       /\ ui' = 22 => (ui = 22 /\ name' = name) \/ name' \in rows.names
  BY <1>2, <1>5, <1>6, <1>11 DEF Closed, Saving
<1>16. "format" \in req' => ui \in {8, 14} /\ ui' = 4 /\ fb.known /\ io.E8 = 4
  BY <1>2, <1>4, <1>8, <1>9
<1> QED BY <1>10, <1>12, <1>13, <1>14, <1>15, <1>16 DEF file_vars, mem_vars

LEMMA ObserveDoes ==
    ASSUME IInv, Observe
    PROVE  /\ pc = "observe" /\ pc' = "poll" /\ submit' = "none"
           /\ UNCHANGED <<file, swaps, rows, io, ui, name, confirmed, req, fb, w, sessions>>
           /\ \/ submit = "none" /\ UNCHANGED <<seen, sink, dir, loaded, sw>>
              \/ /\ submit = "info"
                 /\ sw' = sw \cup {IF file = NoCard THEN 3 ELSE 1}
                 /\ UNCHANGED <<seen, sink, dir, loaded>>
              \/ /\ submit = "load"
                 /\ sw' = {IF file = NoCard THEN 3 ELSE IF file = Unformatted THEN 4 ELSE 1}
                 /\ sink' = Imported(file)
                 /\ dir' = IF file \in Image THEN RowsOf(file) ELSE Empty
                 /\ loaded' = (file \in Image)
                 /\ seen' = TRUE
BY Zenon DEF Observe, user_vars, mem_vars

LEMMA FormatDoes ==
    ASSUME IInv, FormatStep
    PROVE  /\ pc = "format" /\ pc' = "tick"
           /\ UNCHANGED <<swaps, loaded, rows, sw, io, submit, ui, name, confirmed, req,
                          fb, w, sessions>>
           /\ \/ UNCHANGED <<file, seen, dir, sink>>
              \/ "format" \in req /\ file' = Blank /\ seen' = TRUE
BY DEF FormatStep, check_vars, user_vars

LEMMA BeginDoes ==
    ASSUME IInv, BeginAttempt
    PROVE  /\ w.phase \in {"idle", "begin"}
           /\ fb' = fb
           /\ w'.dir0 = Requested.dir0 /\ w'.prev = Requested.prev
           /\ \/ /\ HasRow(dir, name)
                 /\ dir' = Renamed(dir)
                 /\ w'.phase = "wait"
                 /\ sink'.known /\ sink'.img = Serialized(Renamed(dir))
                 /\ \/ /\ w'.ok /\ seen' = TRUE
                       /\ file' = Serialized(Renamed(dir))
                    \/ ~w'.ok /\ UNCHANGED <<file, seen>>
              \/ /\ ~HasRow(dir, name)
                 /\ dir' = Requested.dir0 /\ sink' = Requested.prev
                 /\ w'.phase = "blocked" /\ w'.ok = Requested.ok
                 /\ UNCHANGED <<file, seen>>
<1>1. w.phase \in {"idle", "begin"} /\ fb' = fb
  BY DEF BeginAttempt
<1>2. CASE HasRow(dir, name)
  <2>1. PICK ok \in BOOLEAN :
          /\ dir' = Renamed(dir)
          /\ sink' = [known |-> TRUE, durable |-> ok, img |-> Serialized(Renamed(dir))]
          /\ file' = IF ok THEN Serialized(Renamed(dir)) ELSE file
          /\ seen' = (ok \/ seen)
          /\ w' = Stage("wait", Requested.try, WaitTicks, ok, Requested.dir0, Requested.prev)
    BY <1>2, Zenon DEF BeginAttempt, Renamed
  <2>2. /\ w'.phase = "wait" /\ w'.ok = ok
        /\ w'.dir0 = Requested.dir0 /\ w'.prev = Requested.prev
        /\ sink'.known /\ sink'.img = Serialized(Renamed(dir))
    BY <2>1 DEF Stage
  <2>3. CASE ok
    BY <1>1, <1>2, <2>1, <2>2, <2>3
  <2>4. CASE ~ok
    <3>1. file' = file
      BY <2>1, <2>4
    <3>2. seen' = seen
      BY <2>1, <2>4 DEF IInv, TypeOK
    <3> QED BY <1>1, <1>2, <2>1, <2>2, <2>4, <3>1, <3>2
  <2> QED BY <2>3, <2>4
<1>3. CASE ~HasRow(dir, name)
  <2>1. /\ dir' = Requested.dir0 /\ sink' = Requested.prev
        /\ w' = Stage("blocked", Requested.try, Requested.left, Requested.ok,
                      Requested.dir0, Requested.prev)
        /\ UNCHANGED <<file, seen>>
    BY <1>3 DEF BeginAttempt, Rollback
  <2>2. /\ w'.phase = "blocked" /\ w'.ok = Requested.ok
        /\ w'.dir0 = Requested.dir0 /\ w'.prev = Requested.prev
    BY <2>1 DEF Stage
  <2> QED BY <1>1, <1>3, <2>1, <2>2
<1> QED BY <1>2, <1>3

LEMMA AwaitDoes ==
    ASSUME AwaitAttempt
    PROVE  /\ w.phase = "wait"
           /\ fb' \in {fb, Reported}
           /\ UNCHANGED <<file, seen>>
           /\ w'.ok = w.ok /\ w'.dir0 = w.dir0 /\ w'.prev = w.prev
           /\ \/ w'.phase = "wait" /\ UNCHANGED <<dir, sink>>
              \/ w'.phase = "begin" /\ ~w.ok /\ UNCHANGED <<dir, sink>>
              \/ w'.phase = "done" /\ w.ok /\ UNCHANGED <<dir, sink>>
              \/ w'.phase = "done" /\ ~w.ok /\ dir' = w.dir0 /\ sink' = w.prev
<1>1. \A p, t, l : /\ Moved(p, t, l).phase = p /\ Moved(p, t, l).ok = w.ok
                   /\ Moved(p, t, l).dir0 = w.dir0 /\ Moved(p, t, l).prev = w.prev
  BY DEF Moved, Stage
<1> QED BY <1>1 DEF AwaitAttempt, Rollback

LEMMA WriteDoes ==
    ASSUME IInv, WriteStep
    PROVE  /\ pc = "write" /\ pc' = "format"
           /\ UNCHANGED <<swaps, loaded, rows, sw, io, submit, ui, name, confirmed, req, sessions>>
           /\ fb'.known = fb.known /\ fb'.io = fb.io /\ fb'.rows = fb.rows
           /\ \/ "write" \notin req /\ w' = Idle /\ UNCHANGED <<file, seen, dir, sink>>
              \/ "write" \in req /\ BeginAttempt
              \/ "write" \in req /\ AwaitAttempt
              \/ UNCHANGED <<file, seen, dir, sink, w>>
<1>1. /\ pc = "write" /\ pc' = "format"
      /\ UNCHANGED <<swaps, loaded, rows, check_vars, user_vars, sessions>>
      /\ \/ "write" \notin req /\ w' = Idle /\ UNCHANGED <<file, seen, dir, sink, fb>>
         \/ "write" \in req /\ BeginAttempt
         \/ "write" \in req /\ AwaitAttempt
         \/ fb' \in {fb, Reported} /\ UNCHANGED <<file, seen, dir, sink, w>>
  BY DEF WriteStep
<1>2. fb' \in {fb, Reported}
  BY <1>1, BeginDoes, AwaitDoes
<1>3. fb'.known = fb.known /\ fb'.io = fb.io /\ fb'.rows = fb.rows
  BY <1>2 DEF Reported
<1> QED BY <1>1, <1>3 DEF check_vars, user_vars

-----------------------------------------------------------------------------
(* Every operation keeps the memory true to the card.                      *)

LEMMA InitUntouched == Init => OInv
<1> SUFFICES ASSUME Init PROVE OInv
  OBVIOUS
<1>1. /\ ui = 2 /\ pc = "poll" /\ req = {} /\ sw = {} /\ submit = "none" /\ w = Idle
      /\ io = NoCheck /\ loaded = FALSE /\ rows = NoRows /\ seen = TRUE
  BY DEF Init
<1>2. CheckFits /\ NameCompared /\ RoomCompared
  BY <1>1 DEF CheckFits, NameCompared, RoomCompared, Answers, NoCheck
<1>3. CardRead /\ CheckTrue
  BY <1>1 DEF CardRead, CheckTrue, Answers, NoCheck
<1>4. SaveStays /\ MemoryIsCard /\ ListIsCard
  BY <1>1 DEF SaveStays, MemoryIsCard, ListIsCard, Idle, NoRows
<1> QED BY <1>2, <1>3, <1>4 DEF OInv, Untouched

LEMMA OpenUntouched == IInv /\ OInv /\ Open => OInv'
<1> SUFFICES ASSUME IInv, OInv, Open PROVE OInv'
  OBVIOUS
<1>1. /\ ui' = 2 /\ pc' = "poll" /\ req' = {} /\ sw' = {} /\ submit' = "none" /\ w' = Idle
      /\ io' = NoCheck /\ loaded' = FALSE /\ seen' = TRUE
      /\ sessions' = sessions + 1 /\ rows' = rows
  BY DEF Open, Opened
<1>2. (CheckFits /\ NameCompared /\ RoomCompared)'
  BY <1>1 DEF OInv, CheckFits, NameCompared, RoomCompared, Answers, NoCheck
<1>3. (CardRead /\ CheckTrue)'
  BY <1>1 DEF CardRead, CheckTrue, Answers, NoCheck
<1>4. sessions' # 1
  <2>1. sessions \in Nat /\ sessions >= 1
    BY ConstantsAssumption DEF IInv, TypeOK
  <2> QED BY <1>1, <2>1
<1>5. (SaveStays /\ MemoryIsCard /\ ListIsCard)'
  BY <1>1, <1>4 DEF SaveStays, MemoryIsCard, ListIsCard, Idle
<1> QED BY <1>2, <1>3, <1>5 DEF OInv, Untouched

LEMMA SwapUntouched == IInv /\ OInv /\ Swap => OInv'
<1> SUFFICES ASSUME IInv, OInv, Swap PROVE OInv'
  OBVIOUS
<1>1. /\ UNCHANGED <<ui, pc, req, sw, submit, w, io, rows, name, confirmed, fb>>
      /\ swaps' = swaps + 1
  BY DEF Swap, check_vars, user_vars
<1>2. swaps' # 0
  <2>1. swaps \in Nat
    BY ConstantsAssumption DEF IInv, TypeOK
  <2> QED BY <1>1, <2>1
<1>3. CheckFits'
  BY <1>1 DEF OInv, CheckFits, Idle
<1>4. NameCompared' /\ RoomCompared'
  BY <1>1 DEF OInv, NameCompared, RoomCompared, Answers
<1> QED BY <1>2, <1>3, <1>4 DEF OInv

LEMMA PollUntouched == IInv /\ OInv /\ PollCard => OInv'
<1> SUFFICES ASSUME IInv, OInv, PollCard PROVE OInv'
  OBVIOUS
<1>1. /\ pc = "poll" /\ pc' = "write"
      /\ UNCHANGED <<file, swaps, sink, dir, loaded, io, submit, ui, name, confirmed,
                     req, w, sessions>>
      /\ rows' = BuildRows
      /\ fb'.rows => rows'.known
  BY PollDoes
<1>2. TypeOK /\ MissingForgets /\ CheckFits /\ NameCompared /\ submit = "none"
  BY <1>1 DEF IInv, OInv, CheckFits
<1>3. CheckFits'
  BY <1>1, <1>2 DEF CheckFits, Idle
<1>4. NameCompared' /\ RoomCompared'
  <2>1. rows' = rows \/ (~rows.known /\ rows'.known)
    BY <1>1 DEF BuildRows, ListOf
  <2>2. RoomCompared /\ (~rows.known => rows.names = {})
    BY DEF OInv, RoomCompared, NoRows
  <2>3. NameCompared'
    BY <1>1, <1>2, <2>1 DEF NameCompared, Answers
  <2>4. RoomCompared'
    BY <1>1, <2>1, <2>2 DEF RoomCompared
  <2> QED BY <2>3, <2>4
<1>5. ASSUME swaps = 0 PROVE Untouched'
  <2>1. CardRead /\ CheckTrue /\ SaveStays /\ MemoryIsCard /\ ListIsCard
    BY <1>5 DEF OInv, Untouched
  <2>2. /\ seen /\ seen'
        /\ sw' \subseteq sw
        /\ fb'.known =>
              \/ io.E8 \in {0, 2, 4} /\ fb'.io = AfterCall
              \/ io.E8 = 1 /\ \E e \in sw \cap {1, 3} : fb'.io = AfterInfo(e)
              \/ io.E8 = 3 /\ \E e \in sw : fb'.io = AfterLoad(e) /\ (e # 1 => e = 3 \/ 4 \in sw)
    BY <2>1, PollDoes DEF CheckTrue
  <2>3. io.E8 = 3 => (1 \in sw => loaded) /\ (4 \in sw => file \notin Image)
    BY <1>2, <2>1 DEF CheckTrue
  <2>4. loaded => sw \subseteq {1} /\ io.F0 \in {1, 4} /\ (io.F4 \/ io.E8 = 3)
    BY <2>1 DEF CardRead
  <2>5. /\ io.F4 => loaded
        /\ io.E8 = 3 => io.F0 \in {1, 4}
    BY <1>2, <2>1 DEF CheckTrue, MissingForgets
  <2> DEFINE Told == /\ loaded => fb'.io.F4 /\ fb'.io.F0 \in {1, 4}
                     /\ fb'.io.F4 => loaded
                     /\ fb'.io.E8 = 4 /\ fb'.io.F0 = 5 => file \notin Image
  <2>6. ASSUME io.E8 \in {0, 2, 4}, fb'.io = AfterCall PROVE Told
    <3>1. io \in Check
      BY <1>2 DEF TypeOK
    <3>2. /\ fb'.io.F0 = io.F0 /\ fb'.io.F4 = io.F4
          /\ fb'.io.E8 # 4
      BY <2>6 DEF AfterCall
    <3> QED BY <2>4, <2>5, <2>6, <3>2
  <2>7. ASSUME NEW e \in sw \cap {1, 3}, io.E8 = 1, fb'.io = AfterInfo(e) PROVE Told
    <3>1. CASE e = 1
      <4>1. fb'.io.F4 = io.F4 /\ fb'.io.F0 = 1
        BY <2>7, <3>1 DEF AfterInfo
      <4> QED BY <2>4, <2>5, <2>7, <3>1, <4>1
    <3>2. CASE e = 3
      <4>1. fb'.io.F4 = FALSE /\ fb'.io.F0 = 3
        BY <2>7, <3>2 DEF AfterInfo
      <4> QED BY <2>4, <2>7, <3>2, <4>1
    <3> QED BY <2>7, <3>1, <3>2
  <2>8. ASSUME NEW e \in sw, io.E8 = 3, fb'.io = AfterLoad(e), e # 1 => e = 3 \/ 4 \in sw
        PROVE  Told
    <3>1. CASE e = 1
      <4>1. fb'.io.F0 = io.F0 /\ fb'.io.F4
        BY <2>8, <3>1 DEF AfterLoad
      <4> QED BY <2>3, <2>4, <2>5, <2>8, <3>1, <4>1
    <3>2. CASE e = 3
      <4>1. fb'.io.F0 = 3 /\ ~fb'.io.F4
        BY <2>8, <3>2 DEF AfterLoad
      <4> QED BY <2>4, <2>8, <3>2, <4>1
    <3>3. CASE e \notin {1, 3}
      <4>1. fb'.io.F0 = 5 /\ ~fb'.io.F4
        BY <2>8, <3>3 DEF AfterLoad
      <4> QED BY <2>3, <2>4, <2>8, <3>3, <4>1
    <3> QED BY <3>1, <3>2, <3>3
  <2>9. fb'.known => Told
    <3> HIDE DEF Told
    <3>1. CASE io.E8 \in {0, 2, 4} /\ fb'.io = AfterCall
      BY <2>6, <3>1 DEF Told
    <3>2. CASE io.E8 = 1 /\ \E e \in sw \cap {1, 3} : fb'.io = AfterInfo(e)
      BY <2>7, <3>2
    <3>3. CASE io.E8 = 3 /\ \E e \in sw : fb'.io = AfterLoad(e) /\ (e # 1 => e = 3 \/ 4 \in sw)
      BY <2>8, <3>3
    <3> QED BY <2>2, <3>1, <3>2, <3>3
  <2>10. CardRead'
    BY <1>1, <2>1, <2>2, <2>9 DEF CardRead
  <2>11. CheckTrue'
    BY <1>1, <1>2, <2>1, <2>2, <2>9 DEF CheckTrue, Answers
  <2>12. SaveStays' /\ MemoryIsCard'
    BY <1>1, <2>1 DEF SaveStays, MemoryIsCard, Renamed, Put
  <2>13. ListIsCard'
    <3>1. CASE rows' = rows
      BY <1>1, <2>1, <3>1 DEF ListIsCard
    <3>2. CASE loaded /\ ui \in {6, 9} /\ rows' = ListOf(dir)
      <4>1. ~(w.phase \in {"begin", "wait"}) /\ ~w.ok
        BY <2>1, <3>2 DEF SaveStays, Closed
      <4>2. w.phase \in {"idle", "begin", "wait", "done", "blocked"}
        BY <1>2, WriteFields DEF TypeOK
      <4>3. dir = RowsOf(file)
        BY <2>1, <3>2, <4>1, <4>2 DEF MemoryIsCard, Closed
      <4>4. /\ rows'.names = NamesOf(RowsOf(file))
            /\ rows'.free = Cardinality({r \in Row : RowsOf(file)[r] = Free})
        BY <3>2, <4>3 DEF ListOf, NamesOf
      <4> QED BY <1>1, <3>2, <4>4 DEF ListIsCard
    <3> QED BY <1>1, <3>1, <3>2 DEF BuildRows
  <2> QED BY <2>10, <2>11, <2>12, <2>13 DEF Untouched
<1> QED BY <1>1, <1>3, <1>4, <1>5 DEF OInv

(* The parts that a write can disturb: it goes on while the screen waits,  *)
(* and it changes the card only when it succeeds.                          *)
LEMMA WriteMemory ==
    ASSUME IInv, OInv, WriteStep, swaps = 0
    PROVE  /\ SaveStays' /\ MemoryIsCard'
           /\ seen'
           /\ file' = file \/ (loaded /\ file' \in Image /\ w'.ok)
           /\ ~w'.ok /\ ui \notin {23, Closed} => ~w.ok
           /\ w'.phase = "idle" => w' = Idle
<1> DEFINE Fits == /\ SaveStays' /\ MemoryIsCard'
                   /\ seen'
                   /\ file' = file \/ (loaded /\ file' \in Image /\ w'.ok)
                   /\ ~w'.ok /\ ui \notin {23, Closed} => ~w.ok
                   /\ w'.phase = "idle" => w' = Idle
<1>1. /\ pc = "write"
      /\ UNCHANGED <<swaps, loaded, ui, name>>
      /\ \/ "write" \notin req /\ w' = Idle /\ UNCHANGED <<file, seen, dir, sink>>
         \/ "write" \in req /\ BeginAttempt
         \/ "write" \in req /\ AwaitAttempt
         \/ UNCHANGED <<file, seen, dir, sink, w>>
  BY WriteDoes
<1>2. TypeOK /\ Requests /\ CheckFits /\ SaveStays /\ MemoryIsCard /\ seen /\ CardRead /\ CheckTrue
  BY DEF IInv, OInv, Untouched, CheckTrue
<1>3. w.phase \in {"idle", "begin", "wait", "done", "blocked"} /\ w.ok \in BOOLEAN
  BY <1>2, WriteFields DEF TypeOK
<1>4. ASSUME "write" \notin req, w' = Idle, UNCHANGED <<file, seen, dir, sink>>
      PROVE  Fits
  <2>1. ui # 15
    BY <1>1, <1>2, <1>4 DEF Requests
  <2>2. ~(w.phase \in {"begin", "wait"}) /\ (w.ok => ui \in {23, Closed})
    BY <1>2, <2>1 DEF SaveStays
  <2>3. loaded /\ ui \notin {23, Closed} => dir = RowsOf(file) /\ sink = Imported(file)
    BY <1>2, <1>3, <2>2 DEF MemoryIsCard
  <2>4. w'.phase = "idle" /\ ~w'.ok
    BY <1>4 DEF Idle
  <2>5. MemoryIsCard'
    BY <1>1, <1>4, <2>3, <2>4 DEF MemoryIsCard
  <2> QED BY <1>1, <1>2, <1>4, <2>2, <2>4, <2>5 DEF SaveStays
<1>5. ASSUME "write" \in req, BeginAttempt
      PROVE  Fits
  <2>1. w.phase \in {"idle", "begin"}
    BY <1>5, BeginDoes
  <2>2. /\ ui = 15 /\ loaded /\ file \in Image /\ ~w.ok
        /\ Requested.dir0 = RowsOf(file) /\ Requested.prev = Imported(file)
        /\ ~Requested.ok
        /\ HasRow(dir, name) =>
             /\ HasRow(RowsOf(file), name)
             /\ Renamed(dir) = Renamed(RowsOf(file))
             /\ Serialized(Renamed(dir)) = Put(file, Renamed(dir))
    BY <1>1, <1>5, <2>1, AttemptMakes
  <2>3. w'.dir0 = RowsOf(file) /\ w'.prev = Imported(file)
    BY <1>5, <2>2, BeginDoes
  <2>4. CASE HasRow(dir, name) /\ w'.ok
    <3>1. dir \in Directory /\ name \in Names
      BY <1>2 DEF TypeOK
    <3>2. Renamed(dir) \in Directory
      BY <3>1 DEF Renamed, Directory
    <3>3. Serialized(Renamed(dir)) \in Image
      BY <1>2, <3>2, SerializedType
    <3>4. w'.phase = "wait" /\ seen' = TRUE /\ file' = Serialized(Renamed(dir))
      BY <1>5, <2>4, BeginDoes
    <3>5. SaveStays' /\ MemoryIsCard'
      BY <1>1, <2>2, <2>4, <3>4 DEF SaveStays, MemoryIsCard
    <3> QED BY <2>2, <2>4, <3>3, <3>4, <3>5
  <2>5. CASE HasRow(dir, name) /\ ~w'.ok
    <3>1. /\ w'.phase = "wait" /\ UNCHANGED <<file, seen>>
          /\ dir' = Renamed(dir) /\ sink'.known /\ sink'.img = Serialized(Renamed(dir))
      BY <1>5, <2>5, BeginDoes
    <3>2. sink'.img = Put(file, dir')
      BY <2>2, <2>5, <3>1
    <3>3. Put(file', dir') = Put(file, dir)'
      BY DEF Put
    <3>4. dir' = Renamed(RowsOf(file))
      BY <2>2, <2>5, <3>1
    <3>5. Renamed(w.dir0)' = Renamed(RowsOf(file))
      BY <1>1, <2>3 DEF Renamed
    <3>6. MemoryIsCard'
      BY <1>1, <2>2, <2>3, <2>5, <3>1, <3>2, <3>4, <3>5 DEF MemoryIsCard, Put
    <3>7. SaveStays'
      BY <1>1, <2>2, <2>5, <3>1 DEF SaveStays
    <3> QED BY <1>2, <2>2, <2>5, <3>1, <3>6, <3>7
  <2>6. CASE ~HasRow(dir, name)
    <3>1. /\ w'.phase = "blocked" /\ ~w'.ok /\ UNCHANGED <<file, seen>>
          /\ dir' = RowsOf(file) /\ sink' = Imported(file)
      BY <1>5, <2>2, <2>6, BeginDoes
    <3>2. SaveStays' /\ MemoryIsCard'
      BY <1>1, <2>2, <3>1 DEF SaveStays, MemoryIsCard
    <3> QED BY <1>2, <2>2, <3>1, <3>2
  <2> QED BY <2>4, <2>5, <2>6
<1>6. ASSUME AwaitAttempt
      PROVE  Fits
  <2>1. /\ w.phase = "wait"
        /\ UNCHANGED <<file, seen>>
        /\ w'.ok = w.ok /\ w'.dir0 = w.dir0 /\ w'.prev = w.prev
        /\ \/ w'.phase = "wait" /\ UNCHANGED <<dir, sink>>
           \/ w'.phase = "begin" /\ ~w.ok /\ UNCHANGED <<dir, sink>>
           \/ w'.phase = "done" /\ w.ok /\ UNCHANGED <<dir, sink>>
           \/ w'.phase = "done" /\ ~w.ok /\ dir' = w.dir0 /\ sink' = w.prev
    BY <1>6, AwaitDoes
  <2>2. ui = 15 /\ loaded
    BY <1>2, <2>1 DEF SaveStays
  <2>3. SaveStays'
    BY <1>1, <2>1, <2>2 DEF SaveStays
  <2>4. MemoryIsCard'
    <3>1. CASE w.ok
      BY <2>1, <3>1 DEF MemoryIsCard
    <3>2. CASE ~w.ok
      <4>1. /\ w.dir0 = RowsOf(file) /\ w.prev = Imported(file)
            /\ HasRow(w.dir0, name)
            /\ dir = Renamed(w.dir0)
            /\ sink.known /\ sink.img = Put(file, dir)
        BY <1>2, <2>1, <3>2 DEF MemoryIsCard
      <4>2. CASE UNCHANGED <<dir, sink>> /\ w'.phase \in {"wait", "begin"}
        BY <1>1, <2>1, <4>1, <4>2 DEF MemoryIsCard, Put, Renamed
      <4>3. CASE w'.phase = "done" /\ dir' = w.dir0 /\ sink' = w.prev
        BY <2>1, <4>1, <4>3 DEF MemoryIsCard
      <4> QED BY <2>1, <3>2, <4>2, <4>3
    <3> QED BY <3>1, <3>2
  <2> QED BY <1>2, <2>1, <2>3, <2>4
<1>7. ASSUME UNCHANGED <<file, seen, dir, sink, w>>
      PROVE  Fits
  <2>1. SaveStays' /\ MemoryIsCard'
    BY <1>1, <1>2, <1>7 DEF SaveStays, MemoryIsCard, Renamed, Put
  <2> QED BY <1>2, <1>7, <2>1 DEF CheckFits, Idle
<1> HIDE DEF Fits
<1>8. Fits
  BY <1>1, <1>4, <1>5, <1>6, <1>7
<1> QED BY <1>8 DEF Fits

LEMMA WriteUntouched == IInv /\ OInv /\ WriteStep => OInv'
<1> SUFFICES ASSUME IInv, OInv, WriteStep PROVE OInv'
  OBVIOUS
<1>1. /\ pc = "write" /\ pc' = "format"
      /\ UNCHANGED <<swaps, loaded, rows, sw, io, submit, ui, name, confirmed, req, sessions>>
      /\ fb'.known = fb.known /\ fb'.io = fb.io /\ fb'.rows = fb.rows
  BY WriteDoes
<1>2. CheckFits /\ NameCompared /\ RoomCompared
  BY DEF OInv
<1>3. w'.phase = "idle" => w' = Idle
  <2>1. CASE w' \in {w, Idle}
    BY <1>2, <2>1 DEF CheckFits, Idle
  <2>2. CASE BeginAttempt \/ AwaitAttempt
    BY <2>2, BeginDoes, AwaitDoes
  <2> QED BY <2>1, <2>2, WriteDoes
<1>4. CheckFits'
  BY <1>1, <1>2, <1>3 DEF CheckFits, Idle
<1>5. NameCompared' /\ RoomCompared'
  BY <1>1, <1>2 DEF NameCompared, RoomCompared, Answers
<1>6. ASSUME swaps = 0 PROVE Untouched'
  <2>1. CardRead /\ CheckTrue /\ ListIsCard
    BY <1>6 DEF OInv, Untouched
  <2>2. /\ SaveStays' /\ MemoryIsCard'
        /\ seen'
        /\ file' = file \/ (loaded /\ file' \in Image /\ w'.ok)
        /\ ~w'.ok /\ ui \notin {23, Closed} => ~w.ok
    BY <1>6, WriteMemory
  <2>3. CardRead'
    BY <1>1, <2>1, <2>2 DEF CardRead, Answers
  <2>4. CheckTrue'
    <3>1. file \notin Image => file' \notin Image
      BY <2>1, <2>2 DEF CardRead
    <3> QED BY <1>1, <2>1, <2>2, <3>1 DEF CheckTrue, Answers
  <2>5. ListIsCard'
    BY <1>1, <2>1, <2>2 DEF ListIsCard
  <2> QED BY <2>2, <2>3, <2>4, <2>5 DEF Untouched
<1> QED BY <1>1, <1>4, <1>5, <1>6 DEF OInv

LEMMA FormatUntouched == IInv /\ OInv /\ FormatStep => OInv'
<1> SUFFICES ASSUME IInv, OInv, FormatStep PROVE OInv'
  OBVIOUS
<1>1. /\ pc = "format" /\ pc' = "tick"
      /\ UNCHANGED <<swaps, loaded, rows, sw, io, submit, ui, name, confirmed, req, fb, w, sessions>>
      /\ \/ UNCHANGED <<file, seen, dir, sink>>
         \/ "format" \in req /\ file' = Blank /\ seen' = TRUE
  BY FormatDoes
<1>2. CheckFits /\ NameCompared /\ RoomCompared /\ AnswerFits
  BY DEF OInv, IInv
<1>3. CheckFits' /\ NameCompared' /\ RoomCompared'
  BY <1>1, <1>2 DEF CheckFits, NameCompared, RoomCompared, Answers, Idle
<1>4. ASSUME swaps = 0 PROVE Untouched'
  <2>1. CardRead /\ CheckTrue /\ SaveStays /\ MemoryIsCard /\ ListIsCard
    BY <1>4 DEF OInv, Untouched
  <2>2. CASE UNCHANGED <<file, seen, dir, sink>>
    <3>1. (CardRead /\ CheckTrue)'
      BY <1>1, <2>1, <2>2 DEF CardRead, CheckTrue, Answers
    <3>2. (SaveStays /\ MemoryIsCard)'
      BY <1>1, <2>1, <2>2 DEF SaveStays, MemoryIsCard, Renamed, Put
    <3>3. ListIsCard'
      BY <1>1, <2>1, <2>2 DEF ListIsCard
    <3> QED BY <3>1, <3>2, <3>3 DEF Untouched
  <2>3. CASE "format" \in req /\ file' = Blank /\ seen' = TRUE
    <3>1. ui = 4 /\ io.E8 = 0 /\ ~loaded
      BY <1>2, <2>1, <2>3 DEF CheckFits, CheckTrue
    <3>2. fb.known => fb.io.E8 = 1
      BY <1>1, <1>2, <3>1 DEF AnswerFits, Answers, AfterCall
    <3>3. (CardRead /\ CheckTrue)'
      BY <1>1, <2>1, <2>3, <3>1, <3>2 DEF CardRead, CheckTrue, Answers
    <3>4. w.phase = "idle" /\ ~w.ok
      BY <2>1, <3>1 DEF SaveStays
    <3>5. (SaveStays /\ MemoryIsCard)'
      BY <1>1, <3>1, <3>4 DEF SaveStays, MemoryIsCard
    <3>6. ListIsCard'
      BY <1>1, <2>1, <3>1 DEF ListIsCard
    <3> QED BY <3>3, <3>5, <3>6 DEF Untouched
  <2> QED BY <1>1, <2>2, <2>3
<1> QED BY <1>1, <1>3, <1>4 DEF OInv

LEMMA TickUntouched == IInv /\ OInv /\ Tick => OInv'
<1> SUFFICES ASSUME IInv, OInv, Tick PROVE OInv'
  OBVIOUS
<1>1. /\ pc = "tick" /\ pc' = "observe"
      /\ UNCHANGED <<file, seen, swaps, sink, dir, loaded, rows, sw, fb, w, sessions>>
      /\ io' = IF fb.known THEN fb.io ELSE io
      /\ submit' = IF fb.known /\ io.E8 = 0 THEN "info"
                   ELSE IF fb.known /\ io.E8 = 2 THEN "load" ELSE "none"
      /\ ui' = 8 => Result = 5 \/ ui = 8
      /\ ui' = 14 => ui \in {8, 14}
      /\ ui' \in {6, 7, 9, 10, 11, 15, 18, 22} =>
           Result \in {1, 4} \/ ui \in {6, 7, 9, 10, 11, 15, 18, 22}
      /\ ui \in {23, Closed} => ui' \in {23, Closed}
      /\ ui = 15 /\ Result # 3 =>
           /\ fb.write = "none" => ui' = 15
           /\ fb.write = "ok" => ui' \in {23, Closed}
      /\ ui = 15 => name' = name
      /\ ui' = 15 => \/ ui = 15 /\ name' = name /\ confirmed' = confirmed
                     \/ ui = 22 /\ name' = name /\ confirmed'
                     \/ /\ ui = 10 /\ fb.rows
                        /\ name' \notin rows.names /\ rows.free # 0
      /\ ui' = 22 => (ui = 22 /\ name' = name) \/ name' \in rows.names
      /\ "format" \in req' => /\ ui \in {8, 14} /\ ui' = 4
                              /\ fb.known /\ io.E8 = 4
  BY TickDoes
<1>2. /\ TypeOK /\ MissingForgets /\ Requests /\ AnswerFits
      /\ CheckFits /\ NameCompared /\ RoomCompared
      /\ Answers
  BY <1>1 DEF IInv, OInv, Answers
<1>3. fb.known => \/ io.E8 \in {0, 2, 4} /\ fb.io = AfterCall
                  \/ io.E8 = 1 /\ \E e \in {1, 3, 4} : fb.io = AfterInfo(e)
                  \/ io.E8 = 3 /\ \E e \in {1, 3, 4} : fb.io = AfterLoad(e)
  BY <1>2 DEF AnswerFits
<1> DEFINE Fits(i) == /\ i.E8 = 4 => (i.F4 <=> i.F0 \in {1, 4})
                      /\ i.E8 \in {2, 3} => ~i.F4
<1>4. fb.known => /\ Fits(fb.io)
                  /\ io.E8 = 0 => fb.io.E8 = 1
                  /\ fb.io.E8 = 3 <=> io.E8 = 2
                  /\ io.E8 = 4 => fb.io.E8 = 0
  <2>1. CASE io.E8 \in {0, 2, 4} /\ fb.io = AfterCall
    BY <1>2, <2>1 DEF CheckFits, AfterCall
  <2>2. ASSUME NEW e \in {1, 3, 4}, io.E8 = 1, fb.io = AfterInfo(e) PROVE Fits(fb.io) /\ fb.io.E8 # 3
    <3>1. CASE e = 1 /\ io.F4
      BY <2>2, <3>1 DEF AfterInfo
    <3>2. CASE e = 1 /\ ~io.F4
      BY <2>2, <3>2 DEF AfterInfo
    <3>3. CASE e # 1
      BY <2>2, <3>3 DEF AfterInfo
    <3> QED BY <3>1, <3>2, <3>3
  <2>3. ASSUME NEW e \in {1, 3, 4}, io.E8 = 3, fb.io = AfterLoad(e) PROVE Fits(fb.io) /\ fb.io.E8 # 3
    <3>1. io.F0 \in {1, 4}
      BY <1>2, <2>3 DEF MissingForgets
    <3>2. CASE e = 1
      BY <2>3, <3>1, <3>2 DEF AfterLoad
    <3>3. CASE e # 1
      BY <2>3, <3>3 DEF AfterLoad
    <3> QED BY <3>2, <3>3
  <2> HIDE DEF Fits
  <2> QED BY <1>3, <2>1, <2>2, <2>3
<1>5. CheckFits'
  <2>1. Fits(io')
    BY <1>1, <1>2, <1>4 DEF CheckFits
  <2>2. (submit' = "info" => io'.E8 = 1) /\ (submit' = "load" => io'.E8 = 3)
    BY <1>1, <1>4
  <2>3. "format" \in req' => ui' = 4 /\ io'.E8 = 0
    BY <1>1, <1>4
  <2>4. w'.phase = "idle" => w' = Idle
    BY <1>1, <1>2 DEF CheckFits
  <2> QED BY <1>1, <2>1, <2>2, <2>3, <2>4 DEF CheckFits, Idle
<1>6. NameCompared' /\ RoomCompared'
  <2>1. NameCompared'
    BY <1>1, <1>2 DEF NameCompared, Answers
  <2>2. RoomCompared'
    BY <1>1, <1>2 DEF NameCompared, RoomCompared, NoRows
  <2> QED BY <2>1, <2>2
<1>7. ASSUME swaps = 0 PROVE Untouched'
  <2>1. CardRead /\ CheckTrue /\ SaveStays /\ MemoryIsCard /\ ListIsCard
    BY <1>7 DEF OInv, Untouched
  <2>2. Result # 0 => Result = io.F0 /\ io.E8 = 4
    BY DEF Result
  <2>3. CardRead'
    BY <1>1, <1>2, <2>1 DEF CardRead, CheckFits, Answers
  <2>4. CheckTrue'
    <3>1. io'.F4 => loaded
      BY <1>1, <1>2, <2>1 DEF CheckTrue
    <3>2. io'.E8 = 4 /\ io'.F0 = 5 => file \notin Image
      BY <1>1, <1>2, <2>1 DEF CheckTrue
    <3>3. io'.E8 = 3 /\ submit' # "load" => (1 \in sw => loaded) /\ (4 \in sw => file \notin Image)
      <4>1. io'.E8 = 3 /\ submit' # "load" => io.E8 = 3
        BY <1>1, <1>4
      <4>2. submit # "load"
        BY <1>1, <1>2 DEF CheckFits
      <4> QED BY <2>1, <4>1, <4>2 DEF CheckTrue
    <3>4. ui' \in {8, 14} => file \notin Image
      BY <1>1, <2>1, <2>2 DEF CheckTrue
    <3>5. ui' \in {6, 7, 9, 10, 11, 15, 18, 22} => loaded
      <4>1. Result \in {1, 4} => io.F4
        BY <1>2, <2>2 DEF CheckFits
      <4> QED BY <1>1, <2>1, <4>1 DEF CheckTrue
    <3>6. "format" \in req' => ~loaded
      BY <1>1, <2>1 DEF CardRead, CheckTrue
    <3>7. seen'
      BY <1>1, <2>1 DEF CheckTrue
    <3> QED BY <1>1, <3>1, <3>2, <3>3, <3>4, <3>5, <3>6, <3>7 DEF CheckTrue, Answers
  <2>5. w.phase \in {"begin", "wait"} => ui = 15 /\ ui' = 15
    <3>1. fb.write # "none" => w.phase = "done"
      BY <1>1, <1>2 DEF Requests
    <3>2. w.phase # "idle" => Result # 3
      BY <2>1, <2>2 DEF SaveStays, CardRead
    <3> QED BY <1>1, <2>1, <3>1, <3>2 DEF SaveStays
  <2>6. w.ok => ui' \in {15, 23, Closed}
    <3>1. w.ok => loaded /\ Result # 3
      BY <2>1, <2>2 DEF SaveStays, CardRead
    <3>2. fb.write # "none" => (fb.write = "ok" <=> w.ok)
      BY <1>1, <1>2 DEF Requests
    <3>3. fb.write \in {"none", "ok", "failed"}
      BY <1>2 DEF TypeOK, Feedback
    <3> QED BY <1>1, <2>1, <3>1, <3>2, <3>3 DEF SaveStays
  <2>7. SaveStays'
    BY <1>1, <2>1, <2>5, <2>6 DEF SaveStays
  <2>8. MemoryIsCard'
    <3>1. ui' \notin {23, Closed} => ui \notin {23, Closed}
      BY <1>1
    <3>2. w.phase \in {"begin", "wait"} => name' = name
      BY <1>1, <2>5
    <3> QED BY <1>1, <2>1, <3>1, <3>2 DEF MemoryIsCard, Renamed, Put
  <2>9. ListIsCard'
    BY <1>1, <2>1 DEF ListIsCard
  <2> QED BY <2>3, <2>4, <2>7, <2>8, <2>9 DEF Untouched
<1> QED BY <1>1, <1>5, <1>6, <1>7 DEF OInv

LEMMA ObserveUntouched == IInv /\ OInv /\ Observe => OInv'
<1> SUFFICES ASSUME IInv, OInv, Observe PROVE OInv'
  OBVIOUS
<1>1. /\ pc = "observe" /\ pc' = "poll" /\ submit' = "none"
      /\ UNCHANGED <<file, swaps, rows, io, ui, name, confirmed, req, fb, w, sessions>>
      /\ \/ submit = "none" /\ UNCHANGED <<seen, sink, dir, loaded, sw>>
         \/ /\ submit = "info"
            /\ sw' = sw \cup {IF file = NoCard THEN 3 ELSE 1}
            /\ UNCHANGED <<seen, sink, dir, loaded>>
         \/ /\ submit = "load"
            /\ sw' = {IF file = NoCard THEN 3 ELSE IF file = Unformatted THEN 4 ELSE 1}
            /\ sink' = Imported(file)
            /\ dir' = IF file \in Image THEN RowsOf(file) ELSE Empty
            /\ loaded' = (file \in Image)
            /\ seen' = TRUE
  BY ObserveDoes
<1>2. TypeOK /\ MissingForgets /\ CheckFits /\ NameCompared /\ RoomCompared
  BY DEF IInv, OInv
<1>3. CheckFits'
  BY <1>1, <1>2 DEF CheckFits, Idle
<1>4. NameCompared' /\ RoomCompared'
  BY <1>1, <1>2 DEF NameCompared, RoomCompared, Answers
<1>5. ASSUME swaps = 0 PROVE Untouched'
  <2>1. CardRead /\ CheckTrue /\ SaveStays /\ MemoryIsCard /\ ListIsCard
    BY <1>5 DEF OInv, Untouched
  <2>2. CASE submit # "load"
    <3>1. UNCHANGED <<seen, sink, dir, loaded>>
      BY <1>1, <2>2
    <3>2. loaded => sw' \subseteq {1}
      BY <1>1, <2>1, <2>2, ConstantsAssumption DEF CardRead
    <3>3. io.E8 = 3 => sw' = sw
      BY <1>1, <1>2, <2>2 DEF CheckFits
    <3>4. CardRead'
      BY <1>1, <2>1, <3>1, <3>2 DEF CardRead, Answers
    <3>5. CheckTrue'
      BY <1>1, <2>1, <2>2, <3>1, <3>3 DEF CheckTrue, Answers
    <3>6. (SaveStays /\ MemoryIsCard /\ ListIsCard)'
      BY <1>1, <2>1, <3>1 DEF SaveStays, MemoryIsCard, ListIsCard, Renamed, Put
    <3> QED BY <3>4, <3>5, <3>6 DEF Untouched
  <2>3. CASE submit = "load"
    <3>1. /\ sw' = {IF file = NoCard THEN 3 ELSE IF file = Unformatted THEN 4 ELSE 1}
          /\ sink' = Imported(file)
          /\ dir' = IF file \in Image THEN RowsOf(file) ELSE Empty
          /\ loaded' = (file \in Image)
          /\ seen' = TRUE
      BY <1>1, <2>3
    <3>2. ~loaded /\ io.E8 = 3 /\ ~io.F4 /\ io.F0 \in {1, 4}
      BY <1>2, <2>1, <2>3 DEF CardRead, CheckFits, MissingForgets
    <3>3. /\ loaded' => sw' = {1}
          /\ 1 \in sw' => loaded'
          /\ 4 \in sw' => file \notin Image
      <4>1. CASE file \in Image
        <5>1. sw' = {1} /\ loaded'
          BY <3>1, <4>1, ConstantsAssumption
        <5> QED BY <5>1
      <4>2. CASE file = NoCard
        <5>1. sw' = {3} /\ ~loaded'
          BY <3>1, <4>2, ConstantsAssumption
        <5> QED BY <5>1
      <4>3. CASE file = Unformatted /\ file # NoCard
        <5>1. sw' = {4} /\ ~loaded' /\ file \notin Image
          BY <3>1, <4>3, ConstantsAssumption
        <5> QED BY <5>1
      <4> QED BY <1>2, <4>1, <4>2, <4>3 DEF TypeOK
    <3>4. CardRead'
      BY <1>1, <3>1, <3>2, <3>3 DEF CardRead, Answers
    <3>5. CheckTrue'
      BY <1>1, <1>2, <2>1, <3>1, <3>2, <3>3 DEF CheckTrue, CheckFits, Answers
    <3>6. w.phase = "idle" /\ ~w.ok
      BY <2>1, <3>2 DEF SaveStays
    <3>7. (SaveStays /\ MemoryIsCard)'
      BY <1>1, <3>1, <3>6 DEF SaveStays, MemoryIsCard
    <3>8. ListIsCard'
      BY <1>1, <2>1, <3>2 DEF ListIsCard
    <3> QED BY <3>4, <3>5, <3>7, <3>8 DEF Untouched
  <2> QED BY <2>2, <2>3
<1> QED BY <1>1, <1>3, <1>4, <1>5 DEF OInv

LEMMA StutterUntouched == OInv /\ UNCHANGED vars => OInv'
<1> SUFFICES ASSUME OInv, UNCHANGED vars PROVE OInv'
  OBVIOUS
<1>1. /\ UNCHANGED <<file, seen, swaps, sink, dir, loaded, rows, sw, io, submit>>
      /\ UNCHANGED <<ui, name, confirmed, req, fb, w, pc, sessions>>
  BY DEF vars, file_vars, mem_vars, check_vars, user_vars
<1>2. CheckFits' /\ NameCompared' /\ RoomCompared'
  BY <1>1 DEF OInv, CheckFits, NameCompared, RoomCompared, Answers, Idle
<1>3. ASSUME swaps = 0 PROVE Untouched'
  <2>1. (CardRead /\ CheckTrue)'
    BY <1>1, <1>3 DEF OInv, Untouched, CardRead, CheckTrue, Answers
  <2>2. (SaveStays /\ MemoryIsCard /\ ListIsCard)'
    BY <1>1, <1>3 DEF OInv, Untouched, SaveStays, MemoryIsCard, ListIsCard, Renamed, Put
  <2> QED BY <2>1, <2>2 DEF Untouched
<1> QED BY <1>1, <1>2, <1>3 DEF OInv

LEMMA InvariantKeeps == IInv /\ [Next]_vars => IInv'
BY PollKeeps, WriteKeeps, FormatKeeps, TickKeeps, ObserveKeeps, SwapKeeps, OpenKeeps,
   StutterKeeps DEF Next, HostTick

LEMMA UntouchedKeeps == IInv /\ OInv /\ [Next]_vars => OInv'
BY PollUntouched, WriteUntouched, FormatUntouched, TickUntouched, ObserveUntouched,
   SwapUntouched, OpenUntouched, StutterUntouched DEF Next, HostTick

(* Only a write step changes the write, except that a new screen has none. *)
LEMMA WriteChanges ==
    ASSUME IInv, [Next]_vars
    PROVE  w' \in {w, Idle} \/ WriteStep
<1>1. CASE PollCard \/ FormatStep \/ Tick \/ Observe \/ Swap \/ UNCHANGED vars
  BY <1>1 DEF PollCard, FormatStep, Tick, Observe, Swap, vars
<1>2. CASE Open
  BY <1>2 DEF Open, Opened
<1> QED BY <1>1, <1>2 DEF Next, HostTick

(* The step that begins a save.                                            *)
LEMMA AskedStep ==
    ASSUME IInv, OInv, [Next]_vars,
           w.phase = "idle", w'.phase # "idle", \E r \in Row : dir[r] = name
    PROVE  confirmed \/ swaps > 0 \/ sessions > 1
<1> SUFFICES ASSUME ~confirmed, ~(swaps > 0), ~(sessions > 1) PROVE FALSE
  OBVIOUS
<1>1. swaps = 0 /\ sessions = 1
  <2>1. swaps \in Nat /\ sessions \in Nat /\ sessions >= 1
    BY ConstantsAssumption DEF IInv, TypeOK
  <2> QED BY <2>1
<1>2. WriteStep
  BY WriteChanges DEF Idle
<1>3. pc = "write" /\ "write" \in req
  BY <1>2, WriteDoes, AwaitDoes DEF Idle
<1>4. ui = 15 /\ loaded /\ file \in Image /\ ~w.ok /\ dir = RowsOf(file)
  BY <1>1, <1>3, AttemptMakes
<1>5. rows.known /\ name \notin rows.names
  BY <1>4 DEF OInv, NameCompared
<1>6. rows.names = NamesOf(dir)
  BY <1>1, <1>4, <1>5 DEF OInv, Untouched, ListIsCard, Closed
<1> QED BY <1>5, <1>6 DEF NamesOf, IInv, TypeOK

(* On the first visit and a card that stays, a save replaces an entry of   *)
(* the card only if the user was asked: the name was compared with the     *)
(* card's own list.                                                        *)
THEOREM OverwriteConfirmed == Spec => NoUnconfirmedOverwrite
<1>1. Init => IInv /\ OInv
  BY InitKeeps, InitUntouched
<1>2. IInv /\ OInv /\ [Next]_vars => (IInv /\ OInv)'
  BY InvariantKeeps, UntouchedKeeps
<1>3. IInv /\ OInv /\ [Next]_vars =>
        [(w.phase = "idle" /\ w'.phase # "idle" /\ \E r \in Row : dir[r] = name)
            => confirmed \/ swaps > 0 \/ sessions > 1]_vars
  BY AskedStep
<1> QED BY <1>1, <1>2, <1>3, PTL DEF Spec, NoUnconfirmedOverwrite

(* The step in which a save succeeds.                                      *)
LEMMA KeepsStep ==
    ASSUME IInv, OInv, [Next]_vars, Succeeds, swaps = 0,
           \A r \in Row : SavedFrom[r].name # Free => r >= TargetRow(RowsOf(SavedFrom), name)
    PROVE  file' = Saved(SavedFrom)
<1>1. WriteStep /\ w' # w
  BY WriteChanges DEF Succeeds, Idle
<1>2. "write" \in req /\ BeginAttempt /\ pc = "write"
  <2>1. w' # w /\ w' # Idle
    BY <1>1 DEF Succeeds, Idle
  <2>2. ~AwaitAttempt
    BY AwaitDoes DEF Succeeds
  <2> QED BY <1>1, <2>1, <2>2, WriteDoes
<1>3. w.phase \in {"idle", "begin"}
  BY <1>2, BeginDoes
<1>4. /\ file \in Image
      /\ Requested.prev = Imported(file) /\ ~Requested.ok
      /\ HasRow(dir, name) =>
           /\ HasRow(RowsOf(file), name)
           /\ Renamed(dir) = Renamed(RowsOf(file))
           /\ Serialized(Renamed(dir)) = Put(file, Renamed(dir))
  BY <1>2, <1>3, AttemptMakes
<1>5. HasRow(dir, name) /\ file' = Serialized(Renamed(dir)) /\ w'.prev = Requested.prev
  BY <1>2, <1>4, BeginDoes DEF Succeeds
<1>6. SavedFrom = file
  BY <1>4, <1>5 DEF SavedFrom, Imported
<1> DEFINE d == RowsOf(file)
           t == TargetRow(d, name)
           e == [d EXCEPT ![t] = name]
<1>7. d \in Directory /\ name \in Names /\ HasRow(d, name)
  BY <1>4, <1>5, RowsType DEF IInv, TypeOK
<1>8. t \in Row
  BY <1>7, TargetIs
<1>9. /\ e \in Directory /\ e[t] = name
      /\ \A r \in Row : r # t => e[r] = d[r]
  BY <1>7, <1>8 DEF Directory
<1>10. \A r \in Row : e[r] # Free => t <= r
  <2>1. \A r \in Row : d[r] # Free => t <= r
    <3>1. \A r \in Row : d[r] = file[r].name
      BY DEF RowsOf
    <3>2. \A r \in Row : r \in Nat
      BY ConstantsAssumption DEF Row
    <3>3. \A r \in Row : file[r].name # Free => r >= t
      BY <1>6
    <3> HIDE DEF d, t
    <3> QED BY <1>8, <3>1, <3>2, <3>3
  <2>2. t <= t
    BY <1>8, ConstantsAssumption DEF Row
  <2> HIDE DEF d, t, e
  <2> QED BY <1>8, <1>9, <2>1, <2>2
<1>11. PayloadRow(e) = t
  <2> DEFINE S == {r \in Row : e[r] # Free}
  <2>1. S \in SUBSET Row /\ t \in S /\ \A q \in S : t <= q
    BY <1>7, <1>8, <1>9, <1>10, ConstantsAssumption
  <2> HIDE DEF S, t
  <2>2. First(S) = t
    BY <2>1, FirstIs
  <2> QED BY <2>2 DEF PayloadRow, S
<1>12. Renamed(d) = e
  BY DEF Renamed
<1>13. file' = [file EXCEPT ![t] = [name |-> name, data |-> "new"]]
  <2> HIDE DEF e, t, d
  <2> QED BY <1>4, <1>5, <1>9, <1>11, <1>12 DEF Put, d
<1> QED BY <1>6, <1>13 DEF Saved

(* A save of a card that stays and has no entry before the one it is for   *)
(* keeps the rest of the card, whatever attempts failed before.            *)
THEOREM OthersKept == Spec => SaveKeepsOthers
<1>1. Init => IInv /\ OInv
  BY InitKeeps, InitUntouched
<1>2. IInv /\ OInv /\ [Next]_vars => (IInv /\ OInv)'
  BY InvariantKeeps, UntouchedKeeps
<1>3. IInv /\ OInv /\ [Next]_vars =>
        [Succeeds /\ swaps = 0
            /\ (\A r \in Row : SavedFrom[r].name # Free => r >= TargetRow(RowsOf(SavedFrom), name))
         => file' = Saved(SavedFrom)]_vars
  BY KeepsStep
<1> QED BY <1>1, <1>2, <1>3, PTL DEF Spec, SaveKeepsOthers

(* A card that stays is not refused on the first visit: the name to save   *)
(* is on the card, or the card has an unused row.                          *)
NeverBlocked == w.phase = "blocked" => swaps > 0 \/ sessions > 1

LEMMA RoomStep ==
    ASSUME IInv, OInv, pc = "write", "write" \in req, w.phase \in {"idle", "begin"},
           swaps = 0, sessions = 1
    PROVE  HasRow(dir, name)
<1>1. CASE w.phase = "begin"
  BY <1>1, AttemptMakes
<1>2. CASE w.phase = "idle"
  <2>1. ui = 15 /\ loaded /\ ~w.ok /\ dir = RowsOf(file)
    BY <1>2, AttemptMakes
  <2>2. rows.known /\ (name \in rows.names \/ rows.free # 0)
    BY <2>1 DEF OInv, RoomCompared
  <2>3. /\ rows.names = NamesOf(dir)
        /\ rows.free = Cardinality({r \in Row : dir[r] = Free})
    BY <2>1, <2>2 DEF OInv, Untouched, ListIsCard, Closed
  <2>4. CASE name \in rows.names
    BY <2>3, <2>4 DEF NamesOf, HasRow
  <2>5. CASE rows.free # 0
    <3>1. {r \in Row : dir[r] = Free} # {}
      BY <2>3, <2>5, FS_EmptySet
    <3> QED BY <3>1 DEF HasRow
  <2> QED BY <2>2, <2>4, <2>5
<1> QED BY <1>1, <1>2

LEMMA BlockedStep ==
    ASSUME IInv, OInv, NeverBlocked, [Next]_vars
    PROVE  NeverBlocked'
<1> SUFFICES ASSUME w'.phase = "blocked", ~(swaps' > 0), ~(sessions' > 1) PROVE FALSE
  BY DEF NeverBlocked
<1>1. swaps \in Nat /\ sessions \in Nat /\ sessions >= 1
  BY ConstantsAssumption DEF IInv, TypeOK
<1>2. swaps' = 0 /\ sessions' = 1
  <2>1. TypeOK'
    BY InvariantKeeps DEF IInv
  <2>2. swaps' \in Nat /\ sessions' \in Nat /\ sessions' >= 1
    BY <2>1, ConstantsAssumption DEF TypeOK
  <2> QED BY <2>2
<1>3. swaps = 0 /\ sessions = 1
  <2>1. CASE Swap
    BY <1>1, <1>2, <2>1 DEF Swap
  <2>2. CASE Open
    BY <1>1, <1>2, <2>2 DEF Open, Opened
  <2>3. CASE HostTick \/ UNCHANGED vars
    BY <1>2, <2>3 DEF HostTick, PollCard, WriteStep, FormatStep, Tick, Observe, file_vars,
                      vars
  <2> QED BY <2>1, <2>2, <2>3 DEF Next
<1>4. w.phase # "blocked"
  BY <1>3 DEF NeverBlocked
<1>5. WriteStep /\ w' # w /\ w' # Idle
  BY <1>4, WriteChanges DEF Idle
<1>6. pc = "write" /\ "write" \in req /\ (BeginAttempt \/ AwaitAttempt)
  BY <1>5, WriteDoes
<1>7. BeginAttempt /\ w.phase \in {"idle", "begin"}
  BY <1>6, AwaitDoes, BeginDoes
<1>8. HasRow(dir, name)
  BY <1>3, <1>6, <1>7, RoomStep
<1> QED BY <1>7, <1>8, BeginDoes

(* A write is refused for a full directory only on a second visit, whose   *)
(* list is that of the first, or after an exchange of the card: elsewhere  *)
(* the list that granted the save is the directory that the write finds.   *)
THEOREM FirstVisitHasRoom == Spec => []NeverBlocked
<1>1. Init => IInv /\ OInv /\ NeverBlocked
  <2>1. Init => NeverBlocked
    BY DEF Init, NeverBlocked, Idle
  <2> QED BY <2>1, InitKeeps, InitUntouched
<1>2. IInv /\ OInv /\ NeverBlocked /\ [Next]_vars => (IInv /\ OInv /\ NeverBlocked)'
  BY InvariantKeeps, UntouchedKeeps, BlockedStep
<1> QED BY <1>1, <1>2, PTL DEF Spec

-----------------------------------------------------------------------------
(* On a card that stays the check never stops: what a step of it waits for *)
(* is pending when the poll comes, so that every tick but the first of a   *)
(* visit has its answer.                                                   *)

CheckRuns ==
    /\ req # {} => "card" \in req
    /\ req = {} => ui = 2 /\ io.E8 = 0 /\ pc # "observe" /\ (Answers => ~fb.rows)
    /\ Answers /\ req # {} => fb.known
    /\ pc # "poll" \/ io.E8 \in {0, 2, 4} => sw = {}
    /\ pc = "poll" =>
         /\ io.E8 = 1 => 1 \in armed /\ sw \in {{1}, {3}}
         /\ io.E8 = 3 => 3 \in armed /\ sw # {}
    /\ pc = "observe" => (io.E8 = 1 <=> submit = "info") /\ (io.E8 = 3 <=> submit = "load")

RInv == IInv /\ OInv /\ (swaps = 0 => CheckRuns)

LEMMA PollAnswers ==
    ASSUME IInv, CheckRuns, seen, PollCard
    PROVE  /\ sw' = {}
           /\ "rows" \notin req => ~fb'.rows
           /\ req # {} => fb'.known
<1> DEFINE asked    == "card" \in req
           changed  == asked /\ ~seen
           events   == IF changed THEN sw \cup {4} ELSE sw
           hit      == LastHit(events)
           polls    == asked /\ io.E8 \in armed \cap {1, 3}
           answered == IF io.E8 = 1 THEN hit \in {1, 3} \/ (hit = 4 /\ changed)
                                    ELSE hit # 0
           next     == IF io.E8 = 1 THEN AfterInfo(hit) ELSE AfterLoad(hit)
<1>1. /\ sw' = IF polls THEN {} ELSE events
      /\ IF polls /\ answered
         THEN fb' = Answer(TRUE, next)
         ELSE fb' = IF asked /\ io.E8 \in {0, 2, 4} THEN Answer(TRUE, AfterCall)
                    ELSE Answer(FALSE, NoCheck)
      /\ pc = "poll"
  BY Zenon DEF PollCard
<1>2. events = sw
  OBVIOUS
<1>3. io.E8 \in {0, 1, 2, 3, 4} /\ sw \in SUBSET {1, 3, 4}
  BY DEF IInv, TypeOK, Check
<1>4. "rows" \notin req => ~fb'.rows
  <2> HIDE DEF polls, answered, next, asked
  <2>1. fb'.rows = RowsAnswer
    <3>1. CASE polls /\ answered
      BY <1>1, <3>1 DEF Answer
    <3>2. CASE ~(polls /\ answered) /\ asked /\ io.E8 \in {0, 2, 4}
      BY <1>1, <3>2 DEF Answer
    <3>3. CASE ~(polls /\ answered) /\ ~(asked /\ io.E8 \in {0, 2, 4})
      BY <1>1, <3>3 DEF Answer
    <3> QED BY <3>1, <3>2, <3>3
  <2> QED BY <2>1 DEF RowsAnswer
<1>5. CASE io.E8 \in {0, 2, 4}
  <2>1. ~polls /\ sw = {}
    BY <1>5 DEF CheckRuns
  <2>2. sw' = {}
    BY <1>1, <1>2, <2>1
  <2>3. req # {} => fb'.known
    <3>1. req # {} => asked
      BY DEF CheckRuns
    <3>2. asked => fb' = Answer(TRUE, AfterCall)
      BY <1>1, <1>5, <2>1
    <3> HIDE DEF asked
    <3> QED BY <3>1, <3>2 DEF Answer
  <2> QED BY <1>4, <2>2, <2>3
<1>6. CASE io.E8 \in {1, 3}
  <2>1. asked /\ polls
    BY <1>1, <1>6 DEF CheckRuns
  <2>2. answered
    <3>1. CASE io.E8 = 1
      <4>1. sw \in {{1}, {3}}
        BY <1>1, <3>1 DEF CheckRuns
      <4>2. hit \in {1, 3}
        BY <1>2, <4>1 DEF LastHit
      <4> QED BY <3>1, <4>2
    <3>2. CASE io.E8 = 3
      <4>1. sw # {}
        BY <1>1, <3>2 DEF CheckRuns
      <4>2. 1 \in sw \/ 3 \in sw \/ 4 \in sw
        BY <1>3, <4>1
      <4>3. LastHit(sw) # 0
        BY <4>2 DEF LastHit
      <4>4. hit = LastHit(sw)
        BY <1>2
      <4> HIDE DEF hit
      <4> QED BY <3>2, <4>3, <4>4
    <3> QED BY <1>6, <3>1, <3>2
  <2> HIDE DEF answered, polls, next
  <2>3. sw' = {} /\ fb' = Answer(TRUE, next)
    BY <1>1, <2>1, <2>2
  <2> QED BY <1>4, <2>3 DEF Answer
<1> QED BY <1>3, <1>5, <1>6

LEMMA RunsKeeps == RInv /\ [Next]_vars => RInv'
<1> SUFFICES ASSUME RInv, [Next]_vars PROVE RInv'
  OBVIOUS
<1>1. IInv' /\ OInv'
  BY InvariantKeeps, UntouchedKeeps DEF RInv
<1>2. IInv /\ OInv /\ TypeOK /\ CheckFits
  BY DEF RInv, IInv, OInv
<1> SUFFICES ASSUME swaps' = 0 PROVE CheckRuns'
  BY <1>1 DEF RInv
<1>3. CASE Swap
  <2>1. swaps \in Nat
    BY <1>2, ConstantsAssumption DEF TypeOK
  <2> QED BY <1>3, <2>1 DEF Swap
<1>4. CASE Open
  BY <1>4 DEF Open, Opened, CheckRuns, Answers, NoCheck
<1>5. CASE UNCHANGED vars
  <2>1. UNCHANGED <<req, ui, io, pc, fb, sw, armed, submit, swaps>>
    BY <1>5 DEF vars, file_vars, check_vars, user_vars
  <2>2. CheckRuns
    BY <2>1 DEF RInv
  <2> QED BY <2>1, <2>2 DEF CheckRuns, Answers
<1>6. CASE PollCard
  <2>1. /\ pc = "poll" /\ pc' = "write"
        /\ UNCHANGED <<swaps, io, submit, ui, req>>
    BY <1>2, <1>6, PollDoes
  <2>2. CheckRuns /\ seen
    BY <2>1 DEF RInv, OInv, Untouched, CheckTrue
  <2>3. sw' = {} /\ ("rows" \notin req => ~fb'.rows) /\ (req # {} => fb'.known)
    BY <1>2, <1>6, <2>2, PollAnswers
  <2> QED BY <2>1, <2>2, <2>3 DEF CheckRuns, Answers
<1>7. CASE WriteStep
  <2>1. /\ pc = "write" /\ pc' = "format"
        /\ UNCHANGED <<swaps, sw, io, submit, ui, req>>
        /\ fb'.known = fb.known /\ fb'.rows = fb.rows
    BY <1>2, <1>7, WriteDoes
  <2>2. CheckRuns
    BY <2>1 DEF RInv
  <2> QED BY <2>1, <2>2 DEF CheckRuns, Answers
<1>8. CASE FormatStep
  <2>1. /\ pc = "format" /\ pc' = "tick"
        /\ UNCHANGED <<swaps, sw, io, submit, ui, req, fb>>
    BY <1>2, <1>8, FormatDoes
  <2>2. CheckRuns
    BY <2>1 DEF RInv
  <2> QED BY <2>1, <2>2 DEF CheckRuns, Answers
<1>9. CASE Tick
  <2>1. /\ pc = "tick" /\ pc' = "observe"
        /\ UNCHANGED <<swaps, sw, fb>>
        /\ io' = IF fb.known THEN fb.io ELSE io
        /\ submit' = IF fb.known /\ io.E8 = 0 THEN "info"
                     ELSE IF fb.known /\ io.E8 = 2 THEN "load" ELSE "none"
    BY <1>2, <1>9, TickDoes
  <2>2. CheckRuns
    BY <2>1 DEF RInv
  <2>3. fb.known \/ ~fb.rows
    BY <2>1, <2>2 DEF CheckRuns, Answers
  <2>4. "card" \in req'
    BY <1>9, <2>3 DEF Tick, Offer
  <2>5. fb.known => \/ io.E8 \in {0, 2, 4} /\ fb.io = AfterCall
                    \/ io.E8 = 1 /\ \E e \in {1, 3, 4} : fb.io = AfterInfo(e)
                    \/ io.E8 = 3 /\ \E e \in {1, 3, 4} : fb.io = AfterLoad(e)
    BY <1>2, <2>1 DEF IInv, AnswerFits, Answers
  <2>6. fb.known => (fb.io.E8 = 1 <=> io.E8 = 0) /\ (fb.io.E8 = 3 <=> io.E8 = 2)
    BY <2>5 DEF AfterCall, AfterInfo, AfterLoad
  <2>7. ~fb.known => io.E8 = 0
    BY <2>1, <2>2 DEF CheckRuns, Answers
  <2>8. (io'.E8 = 1 <=> submit' = "info") /\ (io'.E8 = 3 <=> submit' = "load")
    BY <2>1, <2>6, <2>7
  <2>9. sw' = {}
    BY <2>1, <2>2 DEF CheckRuns
  <2> QED BY <2>1, <2>4, <2>8, <2>9 DEF CheckRuns, Answers
<1>10. CASE Observe
  <2>1. /\ pc = "observe" /\ pc' = "poll"
        /\ UNCHANGED <<swaps, io, ui, req>>
    BY <1>2, <1>10, ObserveDoes
  <2>2. CheckRuns /\ sw = {}
    BY <2>1 DEF RInv, CheckRuns
  <2>3. CASE submit = "none"
    <3>1. sw' = {} /\ io.E8 \notin {1, 3}
      BY <1>2, <1>10, <2>1, <2>2, <2>3, ObserveDoes DEF CheckRuns
    <3> QED BY <2>1, <2>2, <3>1 DEF CheckRuns, Answers
  <2>4. CASE submit = "info"
    <3>1. io.E8 = 1
      BY <1>2, <2>4 DEF CheckFits
    <3>2. sw' \in {{1}, {3}}
      BY <1>2, <1>10, <2>2, <2>4, ObserveDoes
    <3>3. 1 \in armed'
      BY <1>10, <2>2, <2>4 DEF Observe
    <3> QED BY <2>1, <2>2, <3>1, <3>2, <3>3 DEF CheckRuns, Answers
  <2>5. CASE submit = "load"
    <3>1. io.E8 = 3
      BY <1>2, <2>5 DEF CheckFits
    <3>2. sw' # {}
      BY <1>2, <1>10, <2>5, ObserveDoes
    <3>3. 3 \in armed'
      BY <1>10, <2>5 DEF Observe
    <3> QED BY <2>1, <2>2, <3>1, <3>2, <3>3 DEF CheckRuns, Answers
  <2> QED BY <1>2, <2>3, <2>4, <2>5 DEF TypeOK
<1> QED BY <1>3, <1>4, <1>5, <1>6, <1>7, <1>8, <1>9, <1>10 DEF Next, HostTick

LEMMA RunsInit == Init => RInv
<1>1. Init => CheckRuns
  BY DEF Init, CheckRuns, Answers, NoCheck
<1> QED BY <1>1, InitKeeps, InitUntouched DEF RInv

(* On a card that stays, every tick after the first of a visit has the     *)
(* check's answer.                                                         *)
CheckAnswers == pc = "tick" /\ req # {} => fb.known \/ swaps > 0

(* The check goes on as long as the card stays, whatever the screen does:  *)
(* its requests and the events they raise never miss each other.           *)
THEOREM CheckNeverStops == Spec => []CheckAnswers
<1>1. RInv => CheckAnswers
  <2> SUFFICES ASSUME RInv, pc = "tick", req # {}, ~(swaps > 0) PROVE fb.known
    BY DEF CheckAnswers
  <2>1. swaps = 0
    <3>1. swaps \in Nat
      BY ConstantsAssumption DEF RInv, IInv, TypeOK
    <3> QED BY <3>1
  <2> QED BY <2>1 DEF RInv, CheckRuns, Answers
<1> QED BY <1>1, RunsInit, RunsKeeps, PTL DEF Spec

(* A screen that was left closes in its next tick.                         *)
LeftScreenCloses == [][Tick /\ ui = 23 => ui' = Closed \/ swaps > 0]_vars

(* The screen is not held open by a check that does not answer: the step   *)
(* that ScreenCloses waits for is the next tick.                           *)
THEOREM LeavingCloses == Spec => LeftScreenCloses
<1>1. ASSUME RInv, Tick, ui = 23, ~(swaps > 0)
      PROVE  ui' = Closed
  <2>1. swaps = 0
    <3>1. swaps \in Nat
      BY <1>1, ConstantsAssumption DEF RInv, IInv, TypeOK
    <3> QED BY <1>1, <3>1
  <2>2. pc = "tick"
    BY <1>1 DEF Tick
  <2>3. fb.known
    BY <1>1, <2>1, <2>2 DEF RInv, CheckRuns, Answers
  <2>4. ASSUME NEW i \in Inputs PROVE i.ui = 23
    <3>1. TypeOK
      BY <1>1 DEF RInv, IInv
    <3> QED BY <1>1, <2>4, <3>1, InputFits
  <2> QED BY <1>1, <2>3, <2>4 DEF Tick, TickState
<1>2. RInv /\ [Next]_vars => [Tick /\ ui = 23 => ui' = Closed \/ swaps > 0]_vars
  BY <1>1
<1> QED BY <1>2, RunsInit, RunsKeeps, PTL DEF Spec, LeftScreenCloses

-----------------------------------------------------------------------------
(* A save comes to its end in a bounded number of steps.                   *)

(* What an attempt has still to wait for.                                  *)
Rest(v) == IF v.phase = "idle" THEN WaitTicks + 2
           ELSE IF v.phase = "begin" THEN WaitTicks + 1
           ELSE v.left

(* The write v is closer to its end than u: a later attempt, or less of    *)
(* the same one left.                                                      *)
Later(v, u) == v.try > u.try \/ (v.try = u.try /\ Rest(v) < Rest(u))

(* While the screen waits for the save, each step of the write brings it   *)
(* closer to its last attempt's end, reports it or refuses it for a full   *)
(* directory, and a tick with the report ends the waiting.                 *)
SaveAdvances ==
    [][/\ WriteStep /\ ui = 15 => Later(w', w) \/ fb'.write # "none" \/ w'.phase = "blocked"
       /\ Tick /\ ui = 15 /\ fb.write # "none" => ui' # 15]_vars

LEMMA WriteAdvances ==
    ASSUME IInv, CheckFits, WriteStep, ui = 15
    PROVE  Later(w', w) \/ fb'.write # "none" \/ w'.phase = "blocked"
<1>1. pc = "write" /\ "write" \in req /\ w \in Write /\ WaitTicks \in Nat /\ WaitTicks > 0
  BY ConstantsAssumption DEF WriteStep, IInv, TypeOK, Requests
<1>2. w.try \in Nat /\ w.left \in Nat /\ w.ok \in BOOLEAN
  BY <1>1, WriteFields, ConstantsAssumption
<1>3. Reported.write # "none"
  BY DEF Reported
<1>4. CASE BeginAttempt
  <2>1. w.phase \in {"idle", "begin"} /\ w'.phase \in {"wait", "blocked"}
    BY <1>4, BeginDoes
  <2>2. Requested.try = w.try
    BY <2>1 DEF CheckFits, Idle, Requested, Stage
  <2>3. w'.phase = "wait" => w'.try = w.try /\ w'.left = WaitTicks
    BY <1>4, <2>2 DEF BeginAttempt, Stage
  <2> QED BY <1>1, <1>2, <2>1, <2>3 DEF Later, Rest
<1>5. CASE AwaitAttempt
  <2>1. w.phase = "wait"
    BY <1>5 DEF AwaitAttempt
  <2>2. CASE w.left > 1
    <3>1. w'.phase = "wait" /\ w'.try = w.try /\ w'.left = w.left - 1
      BY <1>5, <2>2 DEF AwaitAttempt, Moved, Stage
    <3> QED BY <1>2, <2>1, <2>2, <3>1 DEF Later, Rest
  <2>3. CASE ~(w.left > 1) /\ ~w.ok /\ w.try < Attempts
    <3>1. w'.try = w.try + 1
      BY <1>5, <2>3 DEF AwaitAttempt, Moved, Stage
    <3> QED BY <1>2, <3>1 DEF Later
  <2>4. CASE ~(w.left > 1) /\ ~(~w.ok /\ w.try < Attempts)
    BY <1>3, <1>5, <2>4 DEF AwaitAttempt
  <2> QED BY <2>2, <2>3, <2>4
<1>6. CASE w.phase \in {"done", "blocked"} /\ w' = w /\ fb' = IF w.phase = "blocked" THEN fb ELSE Reported
  BY <1>3, <1>6
<1> QED BY <1>1, <1>4, <1>5, <1>6 DEF WriteStep

LEMMA ReportEnds ==
    ASSUME IInv, Tick, ui = 15, fb.write # "none"
    PROVE  ui' # 15
<1>1. TypeOK /\ fb.write \in {"ok", "failed"}
  BY DEF IInv, TypeOK, Feedback
<1>2. \A i \in Inputs : i.ui = 15
  BY <1>1, InputFits
<1>3. ASSUME NEW r PROVE TickState(15, r) # 15
  BY <1>1 DEF TickState
<1> QED BY <1>2, <1>3 DEF Tick, Closed

(* However often the backend fails or the card is exchanged, a save makes  *)
(* no more than its attempts and waits, and its report is not waited past. *)
THEOREM SaveIsBounded == Spec => SaveAdvances
<1>1. RInv /\ [Next]_vars =>
        [/\ WriteStep /\ ui = 15 => Later(w', w) \/ fb'.write # "none" \/ w'.phase = "blocked"
         /\ Tick /\ ui = 15 /\ fb.write # "none" => ui' # 15]_vars
  BY WriteAdvances, ReportEnds DEF RInv, OInv
<1> QED BY <1>1, RunsInit, RunsKeeps, PTL DEF Spec, SaveAdvances
=============================================================================
