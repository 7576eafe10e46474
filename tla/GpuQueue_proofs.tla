---------------------------- MODULE GpuQueue_proofs ----------------------------
(***************************************************************************)
(* The command ring of GpuQueue for every number of slots, frame shape,     *)
(* time limit and number of scanout edges: types, no lost wake-up, a fed    *)
(* device, order without loss, and the content of copied packets; and the   *)
(* presentation of finished pages when no scene is loading.                 *)
(***************************************************************************)
EXTENDS GpuQueue, TLAPS

\* The command holds what it was submitted with.
Intact(c) == Copied(c.kind) => c.copy = c.want

\* The ring holds the last Depth(q) of n commands submitted, in order.
InRing(q, n) ==
  /\ Depth(q) <= n
  /\ \A k \in 0..Depth(q) - 1 :
       /\ q.slots[Place(q, k)] \in Commands
       /\ q.slots[Place(q, k)].id = n - Depth(q) + 1 + k
       /\ Intact(q.slots[Place(q, k)])

GotIntact(q) == q.dma # Idle /\ Copied(q.dma.kind) => q.dma.got = q.dma.want

\* What the queue is like between any two pieces of code.
QueueOK(q, n) == q \in Queues /\ InRing(q, n) /\ GotIntact(q)

-----------------------------------------------------------------------------
(* The ring. *)

\* The parts of a queue.
LEMMA QueueParts ==
  ASSUME NEW q \in Queues
  PROVE  /\ Slots \in Nat /\ Slots >= 2
         /\ q.head \in 0..Slots - 1 /\ q.tail \in 0..Slots - 1
         /\ q.slots \in [0..Slots - 1 -> Commands \cup {Idle}]
         /\ q.armed \in BOOLEAN /\ q.dma \in Starts \cup {Idle}
         /\ q = [slots |-> q.slots, head |-> q.head, tail |-> q.tail,
                 armed |-> q.armed, dma |-> q.dma]
  BY GpuAssumption DEF Queues

\* The depth of a ring, and where its head is.
LEMMA DepthFacts ==
  ASSUME NEW q \in Queues
  PROVE  /\ Depth(q) \in 0..Slots - 1
         /\ Empty(q) <=> Depth(q) = 0
         /\ Full(q) <=> Depth(q) = Slots - 1
         /\ Place(q, Depth(q)) = q.head
         /\ \A k \in 0..Slots - 1 : Place(q, k) \in 0..Slots - 1
         /\ \A k, l \in 0..Slots - 1 : Place(q, k) = Place(q, l) => k = l
<1>1. /\ Slots \in Nat /\ Slots >= 2
      /\ q.head \in 0..Slots - 1 /\ q.tail \in 0..Slots - 1
  BY QueueParts
<1>2. Depth(q) \in 0..Slots - 1
  BY <1>1 DEF Depth
<1>3. Empty(q) <=> Depth(q) = 0
  BY <1>1 DEF Depth, Empty
<1>4. Full(q) <=> Depth(q) = Slots - 1
  BY <1>1 DEF Depth, Full, Succ
<1>5. Place(q, Depth(q)) = q.head
  BY <1>1 DEF Depth, Place
<1>6. \A k \in 0..Slots - 1 : Place(q, k) \in 0..Slots - 1
  BY <1>1 DEF Place
<1>7. \A k, l \in 0..Slots - 1 : Place(q, k) = Place(q, l) => k = l
  BY <1>1 DEF Place
<1> QED BY <1>2, <1>3, <1>4, <1>5, <1>6, <1>7

LEMMA DepthNat == \A q \in Queues : Depth(q) \in Nat
<1> TAKE q \in Queues
<1>1. Depth(q) \in 0..Slots - 1
  BY DepthFacts
<1> QED BY <1>1

\* A command put at the head leaves a queue.
LEMMA PushedType ==
  ASSUME NEW q \in Queues, NEW c \in Commands
  PROVE  [q EXCEPT !.slots[q.head] = c, !.head = Succ(@), !.armed = TRUE] \in Queues
<1> DEFINE slots == [q.slots EXCEPT ![q.head] = c]
           head == Succ(q.head)
<1>1. /\ Slots \in Nat /\ Slots >= 2
      /\ q.head \in 0..Slots - 1 /\ q.slots \in [0..Slots - 1 -> Commands \cup {Idle}]
  BY QueueParts
<1>2. [q EXCEPT !.slots[q.head] = c, !.head = Succ(@), !.armed = TRUE]
        = [q EXCEPT !.slots = slots, !.head = head, !.armed = TRUE]
  BY DEF Queues
<1>3. head \in 0..Slots - 1
  BY <1>1 DEF Succ
<1>4. slots \in [0..Slots - 1 -> Commands \cup {Idle}]
  BY <1>1
<1> HIDE DEF slots, head
<1>5. [q EXCEPT !.slots = slots, !.head = head, !.armed = TRUE] \in Queues
  BY <1>3, <1>4 DEF Queues
<1> QED BY <1>2, <1>5

\* A command put behind the others: DrainQueue's caller has seen a free slot.
LEMMA PushKeeps ==
  ASSUME NEW q, NEW n \in Nat, QueueOK(q, n), ~Full(q),
         NEW c \in Commands, c.id = n + 1, Intact(c)
  PROVE  LET p == [q EXCEPT !.slots[q.head] = c, !.head = Succ(@), !.armed = TRUE] IN
         /\ QueueOK(p, n + 1)
         /\ Depth(p) = Depth(q) + 1 /\ p.armed /\ p.dma = q.dma
<1> DEFINE p == [q EXCEPT !.slots[q.head] = c, !.head = Succ(@), !.armed = TRUE]
<1>1. q \in Queues /\ InRing(q, n) /\ GotIntact(q)
  BY DEF QueueOK
<1>2. /\ p.slots = [q.slots EXCEPT ![q.head] = c] /\ p.head = Succ(q.head)
      /\ p.tail = q.tail /\ p.armed = TRUE /\ p.dma = q.dma
  BY <1>1 DEF Queues
<1>3. p \in Queues
  BY <1>1, PushedType
<1>4. Depth(p) = Depth(q) + 1
  <2> HIDE DEF p
  <2>1. /\ Slots \in Nat /\ Slots >= 2
        /\ q.head \in 0..Slots - 1 /\ q.tail \in 0..Slots - 1
    BY <1>1, QueueParts
  <2> QED BY <1>2, <2>1 DEF Depth, Full, Succ
<1>5. \A k \in 0..Depth(q) : Place(p, k) = Place(q, k)
  BY <1>2 DEF Place
<1>6. \A k \in 0..Depth(q) - 1 : p.slots[Place(p, k)] = q.slots[Place(q, k)]
  <2> TAKE k \in 0..Depth(q) - 1
  <2>1. Depth(q) \in 0..Slots - 1 /\ Place(q, Depth(q)) = q.head
    BY <1>1, DepthFacts
  <2>2. Place(q, k) # q.head /\ Place(q, k) \in 0..Slots - 1
    BY <1>1, <2>1, DepthFacts, GpuAssumption
  <2> QED BY <1>1, <1>2, <1>5, <2>1, <2>2 DEF Queues
<1>7. p.slots[Place(p, Depth(q))] = c
  <2>1. Depth(q) \in 0..Slots - 1 /\ Place(q, Depth(q)) = q.head
    BY <1>1, DepthFacts
  <2>2. Place(p, Depth(q)) = q.head
    BY <1>5, <2>1
  <2> QED BY <1>1, <1>2, <2>2, QueueParts
<1>8. InRing(p, n + 1)
  <2>1. Depth(q) \in Nat /\ Depth(q) <= n
    BY <1>1, DepthFacts DEF InRing
  <2>2. ASSUME NEW k \in 0..Depth(p) - 1
        PROVE  /\ p.slots[Place(p, k)] \in Commands
               /\ p.slots[Place(p, k)].id = n + 1 - Depth(p) + 1 + k
               /\ Intact(p.slots[Place(p, k)])
    <3>1. CASE k = Depth(q)
      BY <1>4, <1>7, <2>1, <3>1
    <3>2. CASE k \in 0..Depth(q) - 1
      BY <1>1, <1>4, <1>6, <2>1, <3>2 DEF InRing
    <3> QED BY <1>4, <2>1, <3>1, <3>2
  <2> QED BY <1>4, <2>1, <2>2 DEF InRing
<1>9. GotIntact(p)
  BY <1>1, <1>2 DEF GotIntact
<1> QED BY <1>2, <1>3, <1>4, <1>8, <1>9 DEF QueueOK

\* DrainQueue80046BC4 leaves the queue alone or begins the next command.
LEMMA DrainKeeps ==
  ASSUME NEW q, NEW n \in Nat, QueueOK(q, n), table \in [Pages -> Nat]
  PROVE  LET d == DrainQueue(q) IN
         /\ QueueOK(d, n)
         /\ \/ d = q /\ (Empty(q) \/ DmaBusy(q))
            \/ /\ ~Empty(q) /\ ~DmaBusy(q) /\ DmaBusy(d)
               /\ Depth(d) = Depth(q) - 1
               /\ d.dma.id = n - Depth(d)
               /\ d.armed = (q.armed /\ ~Empty(d))
<1> DEFINE d == DrainQueue(q)
<1>1. q \in Queues /\ InRing(q, n) /\ GotIntact(q)
  BY DEF QueueOK
<1>2. CASE Empty(q) \/ DmaBusy(q)
  BY <1>2 DEF DrainQueue
<1>3. CASE ~(Empty(q) \/ DmaBusy(q))
  <2> DEFINE c == q.slots[q.tail]
             got == Source(c)
             dma == [id |-> c.id, kind |-> c.kind, page |-> c.page, want |-> c.want, got |-> got]
  <2>1. Depth(q) \in 1..Slots - 1 /\ Place(q, 0) = q.tail
    <3>1. Depth(q) \in 0..Slots - 1 /\ Depth(q) # 0
      BY <1>1, <1>3, DepthFacts
    <3>2. Place(q, 0) = q.tail
      BY <1>1, QueueParts DEF Place
    <3> QED BY <1>1, <3>1, <3>2, QueueParts
  <2>2. c \in Commands /\ c.id = n - Depth(q) + 1 /\ Intact(c)
    BY <1>1, <2>1 DEF InRing
  <2>3. got \in Nat /\ (Copied(c.kind) => got = c.want)
    BY <2>2 DEF Source, Intact, Commands
  <2>4. dma \in Starts /\ dma # Idle
    BY <2>2, <2>3 DEF Starts, Commands, Idle
  <2>5. /\ d.slots = q.slots /\ d.head = q.head /\ d.tail = Succ(q.tail)
        /\ d.armed = (q.armed /\ Succ(q.tail) # q.head) /\ d.dma = dma
    BY <1>1, <1>3 DEF DrainQueue, StartLinkedDma, Queues
  <2>6. d \in Queues
    <3>1. Succ(q.tail) \in 0..Slots - 1
      BY <1>1, QueueParts DEF Succ
    <3>2. d = [slots |-> q.slots, head |-> q.head, tail |-> Succ(q.tail),
               armed |-> q.armed /\ Succ(q.tail) # q.head, dma |-> dma]
      <4> DEFINE r == [slots |-> q.slots, head |-> q.head, tail |-> q.tail,
                       armed |-> q.armed, dma |-> q.dma]
      <4>1. q = r
        BY <1>1, QueueParts
      <4>2. d = [[q EXCEPT !.tail = Succ(@), !.armed = @ /\ Succ(q.tail) # q.head]
                  EXCEPT !.dma = dma]
        BY <1>3 DEF DrainQueue, StartLinkedDma
      <4> HIDE DEF d, dma
      <4> QED BY <4>1, <4>2
    <3>3. (q.armed /\ Succ(q.tail) # q.head) \in BOOLEAN
      OBVIOUS
    <3> HIDE DEF d, dma
    <3> QED BY <1>1, <2>4, <3>1, <3>2, <3>3, QueueParts DEF Queues
  <2>7. Depth(d) = Depth(q) - 1
    <3> HIDE DEF d
    <3>1. /\ Slots \in Nat /\ Slots >= 2
          /\ q.head \in 0..Slots - 1 /\ q.tail \in 0..Slots - 1
      BY <1>1, QueueParts
    <3> QED BY <1>3, <2>5, <3>1 DEF Depth, Empty, Succ
  <2>8. \A k \in 0..Depth(d) - 1 : Place(d, k) = Place(q, k + 1)
    <3> HIDE DEF d
    <3>1. Slots \in Nat /\ Slots >= 2 /\ q.tail \in 0..Slots - 1
      BY <1>1, QueueParts
    <3> QED BY <2>1, <2>5, <2>7, <3>1 DEF Place, Succ
  <2>9. InRing(d, n)
    <3>1. ASSUME NEW k \in 0..Depth(d) - 1
          PROVE  /\ d.slots[Place(d, k)] \in Commands
                 /\ d.slots[Place(d, k)].id = n - Depth(d) + 1 + k
                 /\ Intact(d.slots[Place(d, k)])
      <4>1. k + 1 \in 0..Depth(q) - 1
        BY <2>1, <2>7
      <4>2. d.slots[Place(d, k)] = q.slots[Place(q, k + 1)]
        BY <2>5, <2>8
      <4> QED BY <1>1, <2>1, <2>7, <4>1, <4>2 DEF InRing
    <3> QED BY <1>1, <2>1, <2>7, <3>1 DEF InRing
  <2>10. GotIntact(d)
    BY <2>3, <2>5 DEF GotIntact
  <2>11. Empty(d) <=> Succ(q.tail) = q.head
    BY <2>5 DEF Empty
  <2> QED BY <1>1, <1>3, <2>1, <2>2, <2>4, <2>5, <2>6, <2>7, <2>9, <2>10, <2>11
          DEF QueueOK, DmaBusy
<1> QED BY <1>2, <1>3

\* One step of the queue: the next command begun, or none and none lost.
Progress(q, n, r, k) ==
  \/ k - Depth(r) = n - Depth(q) /\ r.dma \in {q.dma, Idle}
  \/ k - Depth(r) = n - Depth(q) + 1 /\ r.dma.id = k - Depth(r)

Awake(q, f) == ~Empty(q) => q.armed /\ (DmaBusy(q) \/ f)

\* Draining keeps the queue awake, and leaves no command behind an idle device.
LEMMA DrainWakes ==
  ASSUME NEW q, NEW n \in Nat, NEW f \in BOOLEAN, QueueOK(q, n), table \in [Pages -> Nat],
         ~Empty(q) => q.armed
  PROVE  LET d == DrainQueue(q) IN
         /\ QueueOK(d, n) /\ Awake(d, f) /\ Progress(q, n, d, n)
         /\ ~Empty(d) => DmaBusy(d)
<1> DEFINE d == DrainQueue(q)
<1>1. /\ QueueOK(d, n)
      /\ \/ d = q /\ (Empty(q) \/ DmaBusy(q))
         \/ /\ ~Empty(q) /\ ~DmaBusy(q) /\ DmaBusy(d)
            /\ Depth(d) = Depth(q) - 1
            /\ d.dma.id = n - Depth(d)
            /\ d.armed = (q.armed /\ ~Empty(d))
  BY DrainKeeps
<1> HIDE DEF d
<1>2. Depth(q) \in Nat /\ Depth(d) \in Nat
  <2>1. q \in Queues /\ d \in Queues
    BY <1>1 DEF QueueOK
  <2> QED BY <2>1, DepthNat
<1>3. Awake(d, f) /\ (~Empty(d) => DmaBusy(d))
  BY <1>1, Zenon DEF Awake
<1>4. Progress(q, n, d, n)
  BY <1>1, <1>2 DEF Progress
<1> QED BY <1>1, <1>3, <1>4 DEF d

\* EnqueueSource, with a slot free, takes the command as the last one.
LEMMA EnqueueKeeps ==
  ASSUME NEW q, NEW n \in Nat, NEW f \in BOOLEAN, QueueOK(q, n), ~Full(q),
         NEW c \in Commands, c.id = n + 1, Intact(c), table \in [Pages -> Nat]
  PROVE  LET e == EnqueueSource(q, c) IN
         /\ QueueOK(e, n + 1) /\ Awake(e, f) /\ Progress(q, n, e, n + 1)
         /\ DmaBusy(e)
<1> DEFINE e == EnqueueSource(q, c)
           p == [q EXCEPT !.slots[q.head] = c, !.head = Succ(@), !.armed = TRUE]
           d == DrainQueue(p)
<1>1. q \in Queues /\ Depth(q) \in Nat
  BY DepthFacts DEF QueueOK
<1>2. CASE Empty(q) /\ ~DmaBusy(q)
  <2> DEFINE dma == [id |-> c.id, kind |-> c.kind, page |-> c.page, want |-> c.want,
                     got |-> Source(c)]
  <2>1. Source(c) \in Nat /\ (Copied(c.kind) => Source(c) = c.want)
    BY DEF Source, Intact, Commands
  <2>2. dma \in Starts /\ dma # Idle
    BY <2>1 DEF Starts, Commands, Idle
  <2>3. e = [q EXCEPT !.dma = dma]
    BY <1>2 DEF EnqueueSource, StartLinkedDma
  <2>4. /\ e.slots = q.slots /\ e.head = q.head /\ e.tail = q.tail /\ e.armed = q.armed
        /\ e.dma = dma
    BY <1>1, <2>3 DEF Queues
  <2>5. e \in Queues
    BY <1>1, <2>2, <2>3 DEF Queues
  <2>6. Empty(e) /\ Depth(e) = 0 /\ Depth(q) = 0
    BY <1>1, <1>2, <2>4, <2>5, DepthFacts DEF Empty
  <2>7. InRing(e, n + 1) /\ GotIntact(e)
    BY <2>1, <2>4, <2>6 DEF InRing, GotIntact
  <2> QED BY <2>2, <2>4, <2>5, <2>6, <2>7 DEF QueueOK, Awake, Progress, DmaBusy
<1>3. CASE ~(Empty(q) /\ ~DmaBusy(q))
  <2>1. e = d
    BY <1>3 DEF EnqueueSource
  <2>2. /\ QueueOK(p, n + 1)
        /\ Depth(p) = Depth(q) + 1 /\ p.armed /\ p.dma = q.dma
    BY PushKeeps
  <2> HIDE DEF p
  <2>3. /\ QueueOK(d, n + 1) /\ Awake(d, f) /\ Progress(p, n + 1, d, n + 1)
        /\ ~Empty(d) => DmaBusy(d)
    BY <2>2, DrainWakes
  <2>4. Depth(d) \in Nat
    BY <2>3, DepthFacts DEF QueueOK
  <2>5. ~Empty(p)
    BY <1>1, <2>2, DepthFacts DEF QueueOK
  <2>6. DmaBusy(d)
    <3>1. \/ d = p /\ (Empty(p) \/ DmaBusy(p))
          \/ DmaBusy(d)
      BY <2>2, DrainKeeps
    <3> QED BY <2>5, <3>1
  <2>7. Progress(q, n, d, n + 1)
    BY <1>1, <2>2, <2>3, <2>4 DEF Progress
  <2> QED BY <2>1, <2>3, <2>6, <2>7
<1> QED BY <1>2, <1>3
-----------------------------------------------------------------------------
(* The inductive invariant. *)

\* Outside the callback and the delivery of an edge, no command waits behind an
\* idle device.
Covered == phase \in {"run", "show", "host", "gpu"} /\ ~irq /\ ~Empty(queue) => DmaBusy(queue)

\* The frame code that waits for a slot holds a command whose packet is built,
\* and inside the callback its time does not run out.
FullInv ==
  draw = "full" =>
    /\ todo # <<>>
    /\ Head(todo) = "env" => env = issued + 1
    /\ irq => ticks <= deadline

\* Only a loading scene has a callback; DrawSync runs after the last frame, and
\* waits for the device with the ring empty.
PlaceInv ==
  /\ irq => at = "load" /\ phase # "deliver"
  /\ at = "load" => Loading
  /\ at \in {"sync", "device", "done"} => draw = "none"
  /\ at = "device" => Empty(queue)
  /\ phase = "done" => at = "done" /\ Empty(queue) /\ ~DmaBusy(queue)

Others == Covered /\ FullInv /\ PlaceInv
GpuInv == TypeOK /\ QueueOK(queue, issued) /\ Awake(queue, flag) /\ Others

\* A step keeps the invariant and the order of the commands.
Keeps == GpuInv' /\ Progress(queue, issued, queue', issued')

LEMMA KeepsParts ==
  ASSUME QueueOK(queue', issued'), Awake(queue', flag'), TypeOK', Others',
         Progress(queue, issued, queue', issued')
  PROVE  Keeps
BY DEF Keeps, GpuInv, QueueOK, InRing, GotIntact, Awake, Intact, Copied, Depth, Place,
       Empty, DmaBusy

LEMMA ProgressStutters ==
  ASSUME TypeOK, UNCHANGED issued, queue'.dma \in {queue.dma, Idle}, Depth(queue') = Depth(queue)
  PROVE  Progress(queue, issued, queue', issued')
<1>1. Depth(queue) \in Nat
  BY DepthNat DEF TypeOK
<1> QED BY <1>1 DEF Progress, TypeOK

\* A step that leaves the queue alone has only the small parts to keep.
LEMMA QuietKeeps ==
  ASSUME GpuInv, UNCHANGED <<queue, issued>>, flag' = flag, TypeOK', Others'
  PROVE  Keeps
<1>1. Progress(queue, issued, queue', issued')
  BY ProgressStutters DEF GpuInv
<1>2. QueueOK(queue, issued)' /\ Awake(queue, flag)'
  BY DEF GpuInv, QueueOK, InRing, GotIntact, Awake, Intact, Copied, Depth, Place, Empty, DmaBusy
<1> QED BY <1>1, <1>2 DEF Keeps, GpuInv

-----------------------------------------------------------------------------
(* The frame code. *)

\* The command the frame code hands over holds what it is submitted with.
LEMMA CommandIsIntact ==
  ASSUME GpuInv, todo # <<>>, env' \in Nat, Head(todo) = "env" => env' = issued + 1
  PROVE  LET c == Command(Head(todo)) IN
         c \in Commands /\ c.id = issued + 1 /\ Intact(c)
<1> DEFINE k == Head(todo)
<1>1. k \in Kinds
  BY DEF GpuInv, TypeOK
<1>2. issued \in Nat /\ frame \in Nat /\ buffer \in Pages /\ work \in Pages
  BY DEF GpuInv, TypeOK
<1> HIDE DEF k
<1>3. k = "env" => env' = issued + 1
  BY DEF k
<1>4. Command(k) \in Commands /\ Command(k).id = issued + 1 /\ Intact(Command(k))
  <2>1. CASE k = "env"
    BY <1>1, <1>2, <1>3, <2>1 DEF Command, Commands, Kinds, Intact, Copied
  <2>2. CASE k = "clear"
    BY <1>1, <1>2, <2>2 DEF Command, Commands, Kinds, Intact, Copied
  <2>3. CASE k = "table"
    BY <1>1, <1>2, <2>3 DEF Command, Commands, Kinds, Intact, Copied
  <2> QED BY <1>1, <2>1, <2>2, <2>3 DEF Kinds
<1> QED BY <1>4 DEF k

LEMMA EnqueueStep ==
  ASSUME GpuInv, todo # <<>>, ~Full(queue), Enqueue,
         env' \in Nat, Head(todo) = "env" => env' = issued + 1
  PROVE  /\ QueueOK(queue', issued') /\ Awake(queue', flag)
         /\ Progress(queue, issued, queue', issued') /\ DmaBusy(queue')
         /\ queue' \in Queues /\ issued' \in Nat /\ todo' \in Seq(Kinds) /\ draw' = "submit"
<1> DEFINE c == Command(Head(todo))
<1>1. c \in Commands /\ c.id = issued + 1 /\ Intact(c)
  BY CommandIsIntact
<1>2. queue' = EnqueueSource(queue, c) /\ issued' = issued + 1
      /\ todo' = Tail(todo) /\ draw' = "submit"
  BY DEF Enqueue
<1>3. QueueOK(queue, issued) /\ issued \in Nat /\ flag \in BOOLEAN
      /\ table \in [Pages -> Nat] /\ todo \in Seq(Kinds)
  BY DEF GpuInv, TypeOK
<1> HIDE DEF c
<1>4. /\ QueueOK(queue', issued + 1) /\ Awake(queue', flag)
      /\ Progress(queue, issued, queue', issued + 1) /\ DmaBusy(queue')
  BY <1>1, <1>2, <1>3, EnqueueKeeps
<1>5. queue' \in Queues
  BY <1>4 DEF QueueOK
<1>6. todo' \in Seq(Kinds)
  BY <1>2, <1>3
<1> QED BY <1>2, <1>3, <1>4, <1>5, <1>6

LEMMA WaitStep ==
  ASSUME GpuInv, queue' = DrainQueue(queue)
  PROVE  /\ QueueOK(queue', issued) /\ Awake(queue', flag)
         /\ Progress(queue, issued, queue', issued)
         /\ ~Empty(queue') => DmaBusy(queue')
         /\ queue' \in Queues
<1>1. /\ QueueOK(queue, issued) /\ issued \in Nat /\ flag \in BOOLEAN
      /\ table \in [Pages -> Nat] /\ (~Empty(queue) => queue.armed)
  BY DEF GpuInv, TypeOK, Awake
<1>2. /\ QueueOK(queue', issued) /\ Awake(queue', flag)
      /\ Progress(queue, issued, queue', issued)
      /\ ~Empty(queue') => DmaBusy(queue')
  BY <1>1, DrainWakes
<1> QED BY <1>2 DEF QueueOK

LEMMA SubmitKeeps ==
  ASSUME GpuInv, Submit
  PROVE  Keeps
<1>1. /\ phase = "run" /\ draw = "submit" /\ todo # <<>>
      /\ env' = (IF Head(todo) = "env" THEN issued + 1 ELSE env)
      /\ deadline' = ticks + Limit
      /\ UNCHANGED <<flag, table, frame, buffer, work, shown, drawn, at, until,
                     previous, ticks, edges, requested, irq>>
  BY DEF Submit, Running, Build, clock
<1>2. TypeOK /\ PlaceInv /\ Limit \in Nat
  BY GpuAssumption DEF GpuInv, Others
<1>3. env' \in Nat /\ deadline' \in Nat /\ ticks <= deadline'
      /\ (Head(todo) = "env" => env' = issued + 1)
  BY <1>1, <1>2 DEF TypeOK
<1>4. at \notin {"sync", "device", "done"}
  BY <1>1, <1>2 DEF PlaceInv
<1>5. CASE Full(queue)
  <2>1. queue' = DrainQueue(queue) /\ draw' = "full" /\ phase' = "show"
        /\ UNCHANGED <<issued, todo>>
    BY <1>5 DEF Submit, WaitForSlot, Suspend
  <2>2. /\ QueueOK(queue', issued) /\ Awake(queue', flag)
        /\ Progress(queue, issued, queue', issued)
        /\ ~Empty(queue') => DmaBusy(queue')
        /\ queue' \in Queues
    BY <2>1, WaitStep
  <2>3. TypeOK'
    BY <1>1, <1>2, <1>3, <2>1, <2>2 DEF TypeOK
  <2>4. Covered' /\ FullInv' /\ PlaceInv'
    BY <1>1, <1>2, <1>3, <1>4, <2>1, <2>2 DEF Covered, FullInv, PlaceInv, Empty, DmaBusy
  <2> QED BY <1>1, <2>1, <2>2, <2>3, <2>4, KeepsParts DEF Others
<1>6. CASE ~Full(queue)
  <2>1. Enqueue /\ phase' = phase
    BY <1>6 DEF Submit
  <2>2. /\ QueueOK(queue', issued') /\ Awake(queue', flag)
        /\ Progress(queue, issued, queue', issued') /\ DmaBusy(queue')
        /\ queue' \in Queues /\ issued' \in Nat /\ todo' \in Seq(Kinds) /\ draw' = "submit"
    BY <1>1, <1>3, <1>6, <2>1, EnqueueStep
  <2>3. TypeOK'
    BY <1>1, <1>2, <1>3, <2>1, <2>2 DEF TypeOK
  <2>4. Covered' /\ FullInv' /\ PlaceInv'
    BY <1>1, <1>2, <1>4, <2>1, <2>2 DEF Covered, FullInv, PlaceInv, Empty, DmaBusy
  <2> QED BY <1>1, <2>2, <2>3, <2>4, KeepsParts DEF Others
<1> QED BY <1>5, <1>6

\* The timeout finds the device busy: outside the callback because no command
\* waits behind an idle device, and inside it no time passes.
LEMMA DiscardRefused ==
  ASSUME GpuInv, phase = "run", draw = "full", Full(queue), Expired
  PROVE  DmaBusy(queue) /\ ~irq
<1>1. TypeOK /\ Covered /\ FullInv
  BY DEF GpuInv, Others
<1>2. ~irq
  BY <1>1 DEF Expired, FullInv, TypeOK
<1>3. ~Empty(queue)
  BY <1>1, QueueParts, DepthFacts DEF TypeOK
<1> QED BY <1>1, <1>2, <1>3 DEF Covered

LEMMA RetryKeeps ==
  ASSUME GpuInv, Retry
  PROVE  Keeps
<1>1. /\ phase = "run" /\ draw = "full" /\ env' = env
      /\ UNCHANGED <<flag, table, frame, buffer, work, shown, drawn, at, until,
                     previous, deadline, ticks, edges, requested, irq>>
  BY DEF Retry, Running, clock, wait
<1>2. TypeOK /\ PlaceInv /\ FullInv /\ Covered /\ QueueOK(queue, issued) /\ Awake(queue, flag)
  BY DEF GpuInv, Others
<1>3. todo # <<>> /\ (Head(todo) = "env" => env' = issued + 1) /\ env' \in Nat
      /\ at \notin {"sync", "device", "done"}
  BY <1>1, <1>2 DEF FullInv, TypeOK, PlaceInv
<1>4. CASE ~Full(queue) /\ Enqueue /\ UNCHANGED phase
  <2>2. /\ QueueOK(queue', issued') /\ Awake(queue', flag)
        /\ Progress(queue, issued, queue', issued') /\ DmaBusy(queue')
        /\ queue' \in Queues /\ issued' \in Nat /\ todo' \in Seq(Kinds) /\ draw' = "submit"
    BY <1>3, <1>4, EnqueueStep
  <2>3. TypeOK'
    BY <1>1, <1>2, <1>3, <1>4, <2>2 DEF TypeOK
  <2>4. Covered' /\ FullInv' /\ PlaceInv'
    BY <1>1, <1>2, <1>3, <1>4, <2>2 DEF Covered, FullInv, PlaceInv, Empty, DmaBusy
  <2> QED BY <1>1, <2>2, <2>3, <2>4, KeepsParts DEF Others
<1>5. CASE /\ Full(queue) /\ Expired /\ Discard
           /\ todo' = Tail(todo) /\ draw' = "submit" /\ UNCHANGED issued
  <2>1. phase' = "failed" /\ UNCHANGED queue
    BY <1>1, <1>5, DiscardRefused DEF Discard
  <2>2. TypeOK'
    BY <1>1, <1>2, <1>3, <1>5, <2>1 DEF TypeOK
  <2>3. Covered' /\ FullInv' /\ PlaceInv'
    BY <1>1, <1>2, <1>3, <1>5, <2>1 DEF Covered, FullInv, PlaceInv, Empty, DmaBusy
  <2> QED BY <1>1, <1>5, <2>1, <2>2, <2>3, QuietKeeps DEF Others
<1>6. CASE Full(queue) /\ ~Expired /\ WaitForSlot
  <2>1. queue' = DrainQueue(queue) /\ draw' = "full" /\ phase' = "show"
        /\ UNCHANGED <<issued, todo>> /\ ticks <= deadline
    BY <1>2, <1>6 DEF WaitForSlot, Suspend, Expired, TypeOK
  <2>2. /\ QueueOK(queue', issued) /\ Awake(queue', flag)
        /\ Progress(queue, issued, queue', issued)
        /\ ~Empty(queue') => DmaBusy(queue')
        /\ queue' \in Queues
    BY <2>1, WaitStep
  <2>3. TypeOK'
    BY <1>1, <1>2, <1>3, <2>1, <2>2 DEF TypeOK
  <2>4. Covered' /\ FullInv' /\ PlaceInv'
    BY <1>1, <1>2, <1>3, <2>1, <2>2 DEF Covered, FullInv, PlaceInv, Empty, DmaBusy
  <2> QED BY <1>1, <2>1, <2>2, <2>3, <2>4, KeepsParts DEF Others
<1> QED BY <1>4, <1>5, <1>6 DEF Retry

-----------------------------------------------------------------------------
(* The steps that leave the queue alone. *)

LEMMA CallbackReturnsKeeps ==
  ASSUME GpuInv, CallbackReturns
  PROVE  Keeps
<1>1. /\ phase = "run" /\ irq /\ draw' = "none" /\ phase' = "dispatch" /\ drawn' \in BOOLEAN
      /\ UNCHANGED <<queue, flag, env, table, frame, issued, buffer, work, shown, todo,
                     at, until, previous, deadline, ticks, edges, requested, irq>>
  BY DEF CallbackReturns, Running, wait, clock
<1>2. TypeOK /\ PlaceInv
  BY DEF GpuInv, Others
<1>3. TypeOK'
  BY <1>1, <1>2 DEF TypeOK
<1>4. Others'
  BY <1>1, <1>2 DEF Others, Covered, FullInv, PlaceInv
<1> QED BY <1>1, <1>3, <1>4, QuietKeeps

\* What Prepare and Present leave alone, and the types of what they change.
LEMMA PrepareFacts ==
  ASSUME TypeOK, Prepare
  PROVE  /\ frame' \in Nat /\ work' \in Pages /\ table' \in [Pages -> Nat]
         /\ draw' = "otc" /\ phase' = "show"
         /\ UNCHANGED <<queue, env, issued, buffer, shown, drawn, todo>>
BY DEF TypeOK, Prepare, ClearTable, Suspend

LEMMA PresentFacts ==
  ASSUME TypeOK, Present
  PROVE  /\ shown' \in Pages /\ buffer' \in Pages /\ todo' \in Seq(Kinds)
         /\ draw' = "submit"
         /\ UNCHANGED <<queue, env, table, frame, issued, work, drawn>>
BY GpuAssumption DEF TypeOK, Present, SwapBuffers, Pages

LEMMA LoadWaitsKeeps ==
  ASSUME GpuInv, LoadWaits
  PROVE  Keeps
<1>1. TypeOK /\ Covered /\ FullInv /\ PlaceInv
  BY DEF GpuInv, Others
<1>2. /\ phase = "run" /\ ~irq /\ phase' = "show"
      /\ UNCHANGED <<queue, flag, env, table, frame, issued,
                     buffer, work, shown, drawn, todo, draw, at,
                     until, previous, deadline, ticks, edges,
                     requested, irq>>
  BY DEF LoadWaits, Foreground, Running, Suspend, scene, wait, clock
<1>3. TypeOK'
  BY <1>1, <1>2 DEF TypeOK
<1>4. Covered' /\ FullInv' /\ PlaceInv'
  BY <1>1, <1>2 DEF Covered, FullInv, PlaceInv, Empty, DmaBusy
<1> QED BY <1>2, <1>3, <1>4, QuietKeeps DEF Others

LEMMA LoadEndsKeeps ==
  ASSUME GpuInv, LoadEnds
  PROVE  Keeps
<1>1. TypeOK /\ Covered /\ FullInv /\ PlaceInv
  BY DEF GpuInv, Others
<1>2. /\ phase = "run" /\ ~irq /\ at = "load" /\ at' = "frame"
      /\ draw' \in {"none", "submit"} /\ todo' \in Seq(Kinds)
      /\ shown' \in Pages /\ buffer' \in Pages
      /\ UNCHANGED <<queue, flag, env, table, frame, issued, work,
                     drawn, until, previous, deadline, ticks,
                     edges, requested, irq, phase>>
  BY <1>1, PresentFacts DEF LoadEnds, Foreground, Running, Suspend, scene, wait, clock, TypeOK
<1>3. TypeOK'
  BY <1>1, <1>2 DEF TypeOK
<1>4. Covered' /\ FullInv' /\ PlaceInv'
  BY <1>1, <1>2 DEF Covered, FullInv, PlaceInv, Empty, DmaBusy
<1> QED BY <1>2, <1>3, <1>4, QuietKeeps DEF Others

LEMMA BeginFrameKeeps ==
  ASSUME GpuInv, BeginFrame
  PROVE  Keeps
<1>1. TypeOK /\ Covered /\ FullInv /\ PlaceInv
  BY DEF GpuInv, Others
<1>2. /\ phase = "run" /\ ~irq /\ at = "frame" /\ at' = "vsync"
      /\ draw' = "otc" /\ phase' = "show"
      /\ frame' \in Nat /\ work' \in Pages /\ table' \in [Pages -> Nat]
      /\ UNCHANGED <<queue, flag, env, issued, buffer, shown,
                     drawn, todo, until, previous, deadline,
                     ticks, edges, requested, irq>>
  BY <1>1, PrepareFacts DEF BeginFrame, Foreground, Running, Suspend, scene, wait, clock
<1>3. TypeOK'
  BY <1>1, <1>2 DEF TypeOK
<1>4. Covered' /\ FullInv' /\ PlaceInv'
  BY <1>1, <1>2 DEF Covered, FullInv, PlaceInv, Empty, DmaBusy
<1> QED BY <1>2, <1>3, <1>4, QuietKeeps DEF Others

LEMMA VSyncKeeps ==
  ASSUME GpuInv, VSync
  PROVE  Keeps
<1>1. TypeOK /\ Covered /\ FullInv /\ PlaceInv
  BY DEF GpuInv, Others
<1>2. /\ phase = "run" /\ ~irq /\ at = "vsync" /\ at' \in {"vsync", "blank"}
      /\ until' \in Nat /\ draw' = "none" /\ phase' = "show"
      /\ UNCHANGED <<queue, flag, env, table, frame, issued,
                     buffer, work, shown, drawn, todo, previous,
                     deadline, ticks, edges, requested, irq>>
  BY <1>1 DEF VSync, Foreground, Running, Suspend, scene, wait, clock, TypeOK
<1>3. TypeOK'
  BY <1>1, <1>2 DEF TypeOK
<1>4. Covered' /\ FullInv' /\ PlaceInv'
  BY <1>1, <1>2 DEF Covered, FullInv, PlaceInv, Empty, DmaBusy
<1> QED BY <1>2, <1>3, <1>4, QuietKeeps DEF Others

LEMMA BlankWaitsKeeps ==
  ASSUME GpuInv, BlankWaits
  PROVE  Keeps
<1>1. TypeOK /\ Covered /\ FullInv /\ PlaceInv
  BY DEF GpuInv, Others
<1>2. /\ phase = "run" /\ ~irq /\ phase' = "show"
      /\ UNCHANGED <<queue, flag, env, table, frame, issued,
                     buffer, work, shown, drawn, todo, draw, at,
                     until, previous, deadline, ticks, edges,
                     requested, irq>>
  BY DEF BlankWaits, Foreground, Running, Suspend, scene, wait, clock
<1>3. TypeOK'
  BY <1>1, <1>2 DEF TypeOK
<1>4. Covered' /\ FullInv' /\ PlaceInv'
  BY <1>1, <1>2 DEF Covered, FullInv, PlaceInv, Empty, DmaBusy
<1> QED BY <1>2, <1>3, <1>4, QuietKeeps DEF Others

LEMMA EndFrameKeeps ==
  ASSUME GpuInv, EndFrame
  PROVE  Keeps
<1>1. TypeOK /\ Covered /\ FullInv /\ PlaceInv
  BY DEF GpuInv, Others
<1>2. /\ phase = "run" /\ ~irq /\ at = "blank" /\ at' = "frame"
      /\ previous' = ticks
      /\ draw' = "submit" /\ todo' \in Seq(Kinds)
      /\ shown' \in Pages /\ buffer' \in Pages
      /\ UNCHANGED <<queue, flag, env, table, frame, issued, work,
                     drawn, until, deadline, ticks, edges,
                     requested, irq, phase>>
  BY <1>1, PresentFacts DEF EndFrame, Foreground, Running, Suspend, scene, wait, clock
<1>3. TypeOK'
  BY <1>1, <1>2 DEF TypeOK
<1>4. Covered' /\ FullInv' /\ PlaceInv'
  BY <1>1, <1>2 DEF Covered, FullInv, PlaceInv, Empty, DmaBusy
<1> QED BY <1>2, <1>3, <1>4, QuietKeeps DEF Others

LEMMA SceneReturnsKeeps ==
  ASSUME GpuInv, SceneReturns
  PROVE  Keeps
<1>1. TypeOK /\ Covered /\ FullInv /\ PlaceInv
  BY DEF GpuInv, Others
<1>2. /\ phase = "run" /\ ~irq /\ at = "frame" /\ at' = "sync"
      /\ draw' = "none" /\ deadline' \in Nat
      /\ UNCHANGED <<queue, flag, env, table, frame, issued,
                     buffer, work, shown, drawn, todo, until,
                     previous, ticks, edges, requested, irq,
                     phase>>
  BY <1>1, GpuAssumption DEF SceneReturns, Foreground, Running, Suspend, scene, wait, clock, TypeOK
<1>3. TypeOK'
  BY <1>1, <1>2 DEF TypeOK
<1>4. Covered' /\ FullInv' /\ PlaceInv'
  BY <1>1, <1>2 DEF Covered, FullInv, PlaceInv, Empty, DmaBusy
<1> QED BY <1>2, <1>3, <1>4, QuietKeeps DEF Others

LEMMA SyncDeviceKeeps ==
  ASSUME GpuInv, SyncDevice
  PROVE  Keeps
<1>1. TypeOK /\ Covered /\ FullInv /\ PlaceInv
  BY DEF GpuInv, Others
<1>2. /\ phase = "run" /\ ~irq /\ at \in {"sync", "device"} /\ Empty(queue)
      /\ \/ at' = "done" /\ phase' = "done" /\ ~DmaBusy(queue)
         \/ at' \in {"sync", "device"} /\ phase' = "failed"
         \/ at' = "device" /\ phase' = "show"
      /\ UNCHANGED <<queue, flag, env, table, frame, issued,
                     buffer, work, shown, drawn, todo, draw,
                     until, previous, deadline, ticks, edges,
                     requested, irq>>
  BY <1>1 DEF SyncDevice, Foreground, Running, Suspend, scene, wait, clock, PlaceInv
<1>3. TypeOK'
  BY <1>1, <1>2 DEF TypeOK
<1>4. Covered' /\ FullInv' /\ PlaceInv'
  BY <1>1, <1>2 DEF Covered, FullInv, PlaceInv, Empty, DmaBusy
<1> QED BY <1>2, <1>3, <1>4, QuietKeeps DEF Others

LEMMA ShowKeeps ==
  ASSUME GpuInv, Show
  PROVE  Keeps
<1>1. TypeOK /\ Covered /\ FullInv /\ PlaceInv
  BY DEF GpuInv, Others
<1>2. /\ phase = "show" /\ phase' = "host" /\ requested' \in BOOLEAN
      /\ UNCHANGED <<queue, flag, env, table, frame, issued,
                     buffer, work, shown, drawn, todo, draw, at,
                     until, previous, deadline, ticks, edges,
                     irq>>
  BY <1>1 DEF Show, TypeOK, scene, wait, clock
<1>3. TypeOK'
  BY <1>1, <1>2 DEF TypeOK
<1>4. Covered' /\ FullInv' /\ PlaceInv'
  BY <1>1, <1>2 DEF Covered, FullInv, PlaceInv, Empty, DmaBusy
<1> QED BY <1>2, <1>3, <1>4, QuietKeeps DEF Others

LEMMA SampleEdgeKeeps ==
  ASSUME GpuInv, SampleEdge
  PROVE  Keeps
<1>1. TypeOK /\ Covered /\ FullInv /\ PlaceInv
  BY DEF GpuInv, Others
<1>2. /\ phase = "host" /\ phase' = "gpu"
      /\ edges' = edges + 1 /\ requested' = TRUE
      /\ UNCHANGED <<queue, flag, env, table, frame, issued,
                     buffer, work, shown, drawn, todo, draw, at,
                     until, previous, deadline, ticks, irq>>
  BY DEF SampleEdge, Serviced, scene, wait, clock
<1>3. TypeOK'
  BY <1>1, <1>2 DEF TypeOK
<1>4. Covered' /\ FullInv' /\ PlaceInv'
  BY <1>1, <1>2 DEF Covered, FullInv, PlaceInv, Empty, DmaBusy
<1> QED BY <1>2, <1>3, <1>4, QuietKeeps DEF Others

LEMMA NoEdgeKeeps ==
  ASSUME GpuInv, NoEdge
  PROVE  Keeps
<1>1. TypeOK /\ Covered /\ FullInv /\ PlaceInv
  BY DEF GpuInv, Others
<1>2. /\ phase = "host" /\ phase' = "gpu"
      /\ UNCHANGED <<queue, flag, env, table, frame, issued,
                     buffer, work, shown, drawn, todo, draw, at,
                     until, previous, deadline, ticks, edges,
                     requested, irq>>
  BY DEF NoEdge, Serviced, scene, wait, clock
<1>3. TypeOK'
  BY <1>1, <1>2 DEF TypeOK
<1>4. Covered' /\ FullInv' /\ PlaceInv'
  BY <1>1, <1>2 DEF Covered, FullInv, PlaceInv, Empty, DmaBusy
<1> QED BY <1>2, <1>3, <1>4, QuietKeeps DEF Others

LEMMA GpuWaitsKeeps ==
  ASSUME GpuInv, GpuWaits
  PROVE  Keeps
<1>1. TypeOK /\ Covered /\ FullInv /\ PlaceInv
  BY DEF GpuInv, Others
<1>2. /\ phase = "gpu" /\ phase' = (IF irq THEN "run" ELSE "deliver")
      /\ UNCHANGED <<queue, flag, env, table, frame, issued,
                     buffer, work, shown, drawn, todo, draw, at,
                     until, previous, deadline, ticks, edges,
                     requested, irq>>
  BY DEF GpuWaits, Serviced, scene, wait, clock
<1>3. TypeOK'
  BY <1>1, <1>2 DEF TypeOK
<1>4. Covered' /\ FullInv' /\ PlaceInv'
  BY <1>1, <1>2 DEF Covered, FullInv, PlaceInv, Empty, DmaBusy
<1> QED BY <1>2, <1>3, <1>4, QuietKeeps DEF Others

LEMMA NoDeliveryKeeps ==
  ASSUME GpuInv, NoDelivery
  PROVE  Keeps
<1>1. TypeOK /\ Covered /\ FullInv /\ PlaceInv
  BY DEF GpuInv, Others
<1>2. /\ phase = "deliver" /\ phase' = "dispatch"
      /\ UNCHANGED <<queue, flag, env, table, frame, issued,
                     buffer, work, shown, drawn, todo, draw, at,
                     until, previous, deadline, ticks, edges,
                     requested, irq>>
  BY DEF NoDelivery, Serviced, scene, wait, clock
<1>3. TypeOK'
  BY <1>1, <1>2 DEF TypeOK
<1>4. Covered' /\ FullInv' /\ PlaceInv'
  BY <1>1, <1>2 DEF Covered, FullInv, PlaceInv, Empty, DmaBusy
<1> QED BY <1>2, <1>3, <1>4, QuietKeeps DEF Others

\* The callback, or no callback.
LEMMA DeliverEdgeKeeps ==
  ASSUME GpuInv, DeliverEdge
  PROVE  Keeps
<1>1. TypeOK /\ Covered /\ FullInv /\ PlaceInv
  BY DEF GpuInv, Others
<1>2. /\ phase = "deliver" /\ ~irq
      /\ edges' \in Nat /\ ticks' \in Nat
      /\ UNCHANGED <<flag, at, until, previous, deadline, requested>>
  BY <1>1 DEF DeliverEdge, PlaceInv, TypeOK, wait
<1>3. CASE at # "load"
  <2>1. /\ phase' = "dispatch"
        /\ UNCHANGED <<queue, env, table, frame, issued, buffer, work, shown, drawn,
                       todo, draw, irq>>
    BY <1>3 DEF DeliverEdge, scene
  <2>2. TypeOK'
    BY <1>1, <1>2, <2>1 DEF TypeOK
  <2>3. Covered' /\ FullInv' /\ PlaceInv'
    BY <1>1, <1>2, <2>1 DEF Covered, FullInv, PlaceInv, Empty, DmaBusy
  <2> QED BY <1>2, <2>1, <2>2, <2>3, QuietKeeps DEF Others
<1>4. CASE at = "load" /\ ~drawn
  <2>1. Prepare /\ irq' = TRUE
    BY <1>4 DEF DeliverEdge
  <2>2. /\ frame' \in Nat /\ work' \in Pages /\ table' \in [Pages -> Nat]
        /\ draw' = "otc" /\ phase' = "show"
        /\ UNCHANGED <<queue, env, issued, buffer, shown, drawn, todo>>
    BY <1>1, <2>1, PrepareFacts
  <2>3. TypeOK'
    BY <1>1, <1>2, <2>1, <2>2 DEF TypeOK
  <2>4. Covered' /\ FullInv' /\ PlaceInv'
    BY <1>1, <1>2, <1>4, <2>1, <2>2 DEF Covered, FullInv, PlaceInv, Empty, DmaBusy
  <2> QED BY <1>2, <2>2, <2>3, <2>4, QuietKeeps DEF Others
<1>5. CASE at = "load" /\ drawn
  <2>1. Present /\ phase' = "run" /\ irq' = TRUE
    BY <1>5 DEF DeliverEdge
  <2>2. /\ shown' \in Pages /\ buffer' \in Pages /\ todo' \in Seq(Kinds)
        /\ draw' = "submit"
        /\ UNCHANGED <<queue, env, table, frame, issued, work, drawn>>
    BY <1>1, <2>1, PresentFacts
  <2>3. TypeOK'
    BY <1>1, <1>2, <2>1, <2>2 DEF TypeOK
  <2>4. Covered' /\ FullInv' /\ PlaceInv'
    BY <1>1, <1>2, <1>5, <2>1, <2>2 DEF Covered, FullInv, PlaceInv, Empty, DmaBusy
  <2> QED BY <1>2, <2>2, <2>3, <2>4, QuietKeeps DEF Others
<1>6. drawn \in BOOLEAN
  BY <1>1 DEF TypeOK
<1> QED BY <1>3, <1>4, <1>5, <1>6

-----------------------------------------------------------------------------
(* The steps that move the queue. *)

LEMMA SyncRingKeeps ==
  ASSUME GpuInv, SyncRing
  PROVE  Keeps
<1>1. TypeOK /\ Covered /\ FullInv /\ PlaceInv
  BY DEF GpuInv, Others
<1>2. /\ phase = "run" /\ ~irq /\ at = "sync" /\ phase' \in {"failed", "show"}
      /\ queue' = DrainQueue(queue)
      /\ UNCHANGED <<flag, env, table, frame, issued, buffer, work, shown, drawn, todo,
                     draw, at, until, previous, deadline, ticks, edges, requested, irq>>
  BY DEF SyncRing, Foreground, Running, Suspend, scene, wait, clock
<1>3. /\ QueueOK(queue', issued) /\ Awake(queue', flag)
      /\ Progress(queue, issued, queue', issued)
      /\ ~Empty(queue') => DmaBusy(queue')
      /\ queue' \in Queues
  BY <1>2, WaitStep
<1>4. TypeOK'
  BY <1>1, <1>2, <1>3 DEF TypeOK
<1>5. Covered' /\ FullInv' /\ PlaceInv'
  BY <1>1, <1>2, <1>3 DEF Covered, FullInv, PlaceInv, Empty, DmaBusy
<1> QED BY <1>2, <1>3, <1>4, <1>5, KeepsParts DEF Others

\* A completion leaves the ring as it is, and is flagged where the ring holds a
\* command, for then the callback is installed.
LEMMA GpuCompletesKeeps ==
  ASSUME GpuInv, GpuCompletes
  PROVE  Keeps
<1>1. TypeOK /\ Covered /\ FullInv /\ PlaceInv /\ QueueOK(queue, issued) /\ Awake(queue, flag)
  BY DEF GpuInv, Others
<1>2. /\ phase = "gpu" /\ DmaBusy(queue)
      /\ queue' = [queue EXCEPT !.dma = Idle] /\ flag' = (flag \/ queue.armed)
      /\ phase' = (IF irq THEN "run" ELSE "deliver")
      /\ UNCHANGED <<env, table, frame, issued, buffer, work, shown, drawn, todo,
                     draw, at, until, previous, deadline, ticks, edges, requested, irq>>
  BY DEF GpuCompletes, Serviced, scene, wait, clock
<1>3. /\ queue'.slots = queue.slots /\ queue'.head = queue.head
      /\ queue'.tail = queue.tail /\ queue'.armed = queue.armed /\ queue'.dma = Idle
  BY <1>1, <1>2 DEF QueueOK, Queues
<1>4. queue' \in Queues
  BY <1>1, <1>2 DEF QueueOK, Queues
<1>5. Depth(queue') = Depth(queue) /\ (Empty(queue') <=> Empty(queue))
  BY <1>3 DEF Depth, Empty
<1>6. \A k \in Nat : queue'.slots[Place(queue', k)] = queue.slots[Place(queue, k)]
  BY <1>3 DEF Place
<1>7. InRing(queue', issued)
  <2>1. InRing(queue, issued) /\ Depth(queue) \in Nat
    BY <1>1, DepthNat DEF QueueOK
  <2> QED BY <2>1, <1>5, <1>6 DEF InRing
<1>8. QueueOK(queue', issued')
  BY <1>2, <1>3, <1>4, <1>7 DEF QueueOK, GotIntact
<1>9. Awake(queue', flag')
  BY <1>1, <1>2, <1>3, <1>5, Zenon DEF Awake
<1>10. Progress(queue, issued, queue', issued')
  BY <1>1, <1>2, <1>3, <1>5, ProgressStutters
<1>11. TypeOK'
  <2>1. flag' \in BOOLEAN
    BY <1>2
  <2> QED BY <1>1, <1>2, <1>4, <2>1 DEF TypeOK
<1>12. Covered' /\ FullInv' /\ PlaceInv'
  <2>1. Covered'
    BY <1>1, <1>2 DEF Covered
  <2>2. FullInv'
    BY <1>1, <1>2 DEF FullInv
  <2>3. PlaceInv'
    BY <1>1, <1>2, <1>3 DEF PlaceInv, Empty
  <2> QED BY <2>1, <2>2, <2>3
<1> QED BY <1>8, <1>9, <1>10, <1>11, <1>12, KeepsParts DEF Others

\* The callback drains; where no completion is flagged the ring is empty or a
\* transfer is in flight.
LEMMA DispatchKeeps ==
  ASSUME GpuInv, Dispatch
  PROVE  Keeps
<1>1. /\ TypeOK /\ Covered /\ FullInv /\ PlaceInv
      /\ QueueOK(queue, issued) /\ Awake(queue, flag)
  BY DEF GpuInv, Others
<1>2. /\ phase = "dispatch" /\ phase' = "run" /\ flag' = FALSE /\ irq' = FALSE
      /\ UNCHANGED <<env, table, frame, issued, buffer, work, shown, drawn, todo,
                     draw, at, until, previous, deadline, ticks, edges, requested>>
  BY DEF Dispatch, scene, wait, clock
<1>3. /\ QueueOK(queue', issued) /\ Awake(queue', FALSE)
      /\ Progress(queue, issued, queue', issued)
      /\ ~Empty(queue') => DmaBusy(queue')
      /\ queue' \in Queues
      /\ Empty(queue) => Empty(queue')
  <2>1. CASE flag /\ queue.armed
    <3>1. queue' = DrainQueue(queue)
      BY <2>1 DEF Dispatch
    <3>2. /\ issued \in Nat /\ table \in [Pages -> Nat] /\ (~Empty(queue) => queue.armed)
      BY <1>1, <2>1 DEF TypeOK
    <3>3. /\ QueueOK(queue', issued) /\ Awake(queue', FALSE)
          /\ Progress(queue, issued, queue', issued)
          /\ ~Empty(queue') => DmaBusy(queue')
      BY <1>1, <3>1, <3>2, DrainWakes
    <3>4. Empty(queue) => Empty(queue')
      BY <3>1 DEF DrainQueue
    <3> QED BY <3>3, <3>4 DEF QueueOK
  <2>2. CASE ~(flag /\ queue.armed)
    <3>1. queue' = queue
      BY <2>2 DEF Dispatch
    <3>2. Progress(queue, issued, queue', issued')
      BY <1>1, <1>2, <3>1, ProgressStutters
    <3>3. ~Empty(queue) => queue.armed /\ DmaBusy(queue)
      BY <1>1, <2>2, Zenon DEF Awake
    <3>4. Awake(queue, FALSE)
      BY <3>3, Zenon DEF Awake
    <3> QED BY <1>1, <1>2, <3>1, <3>2, <3>3, <3>4 DEF QueueOK
  <2> QED BY <2>1, <2>2
<1>4. TypeOK'
  BY <1>1, <1>2, <1>3 DEF TypeOK
<1>5. Covered' /\ FullInv' /\ PlaceInv'
  <2>1. Covered'
    BY <1>3 DEF Covered, Empty, DmaBusy
  <2>2. FullInv'
    BY <1>1, <1>2 DEF FullInv
  <2>3. PlaceInv'
    BY <1>1, <1>2, <1>3 DEF PlaceInv, Empty
  <2> QED BY <2>1, <2>2, <2>3
<1> QED BY <1>2, <1>3, <1>4, <1>5, KeepsParts DEF Others

-----------------------------------------------------------------------------
(* The theorems. *)

LEMMA InitKeeps == Init => GpuInv
<1> SUFFICES ASSUME Init PROVE GpuInv
  OBVIOUS
<1>1. /\ Slots \in Nat /\ Slots >= 2 /\ Loading \in BOOLEAN
  BY GpuAssumption
<1>2. /\ queue.slots = [i \in 0..Slots - 1 |-> Idle] /\ queue.head = 0 /\ queue.tail = 0
      /\ queue.armed = FALSE /\ queue.dma = Idle
  BY DEF Init
<1>3. queue \in Queues
  BY <1>1 DEF Init, Queues
<1>4. Depth(queue) = 0 /\ Empty(queue) /\ ~DmaBusy(queue)
  BY <1>2 DEF Depth, Empty, DmaBusy
<1>5. QueueOK(queue, issued)
  <2>1. issued = 0
    BY DEF Init
  <2> QED BY <1>2, <1>3, <1>4, <2>1 DEF QueueOK, InRing, GotIntact
<1>6. TypeOK
  <2>1. todo \in Seq(Kinds) /\ table \in [Pages -> Nat] /\ at \in {"load", "frame"}
    BY DEF Init
  <2> QED BY <1>3, <2>1 DEF Init, TypeOK, Pages
<1>7. Awake(queue, flag)
  BY <1>4 DEF Awake
<1>8. Others
  BY <1>4 DEF Init, Others, Covered, FullInv, PlaceInv
<1> QED BY <1>5, <1>6, <1>7, <1>8 DEF GpuInv

LEMMA NextKeeps ==
  ASSUME GpuInv, [Next]_vars
  PROVE  Keeps
<1>1. CASE UNCHANGED vars
  <2>1. UNCHANGED <<queue, issued, flag>> /\ TypeOK /\ Covered /\ FullInv /\ PlaceInv
    BY <1>1 DEF vars, scene, GpuInv, Others
  <2>2. TypeOK'
    BY <1>1, <2>1 DEF TypeOK, vars, scene, wait, clock
  <2>3. Covered' /\ FullInv' /\ PlaceInv'
    BY <1>1, <2>1 DEF Covered, FullInv, PlaceInv, Empty, DmaBusy, vars, scene, wait, clock
  <2> QED BY <2>1, <2>2, <2>3, QuietKeeps DEF Others
<1>2. CASE Frames
  BY <1>2, SubmitKeeps, RetryKeeps, CallbackReturnsKeeps, LoadEndsKeeps, BeginFrameKeeps,
     VSyncKeeps, EndFrameKeeps DEF Frames
<1>3. CASE Waits
  BY <1>3, LoadWaitsKeeps, BlankWaitsKeeps, SyncRingKeeps, SyncDeviceKeeps DEF Waits
<1>4. CASE Host
  BY <1>4, ShowKeeps, NoEdgeKeeps, GpuWaitsKeeps, NoDeliveryKeeps, DeliverEdgeKeeps,
     DispatchKeeps DEF Host
<1>5. CASE SceneReturns
  BY <1>5, SceneReturnsKeeps
<1>6. CASE SampleEdge
  BY <1>6, SampleEdgeKeeps
<1>7. CASE GpuCompletes
  BY <1>7, GpuCompletesKeeps
<1> QED BY <1>1, <1>2, <1>3, <1>4, <1>5, <1>6, <1>7 DEF Next, Stopped

\* The inductive invariant holds throughout.
THEOREM QueueInvariant == Spec => []GpuInv
<1>1. GpuInv /\ [Next]_vars => GpuInv'
  BY NextKeeps DEF Keeps
<1> QED BY InitKeeps, <1>1, PTL DEF Spec

\* Type correctness of the ring, the frame code and the host.
THEOREM QueueTypes == Spec => []TypeOK
<1>1. GpuInv => TypeOK
  BY DEF GpuInv
<1> QED BY QueueInvariant, <1>1, PTL

\* DrainQueue80046BC4 and EnqueueSource never leave a command in the ring
\* without somebody to start it.
THEOREM WakeupNeverLost == Spec => []NoLostWakeup
<1>1. GpuInv => NoLostWakeup
  BY DEF GpuInv, Awake, NoLostWakeup
<1> QED BY QueueInvariant, <1>1, PTL

\* The packet copied into a slot is the one submitted, whatever the shared
\* draw-environment packet holds by then.
THEOREM PacketsDrawnAsSubmitted == Spec => []DrawnAsSubmitted
<1>1. GpuInv => DrawnAsSubmitted
  BY DEF GpuInv, QueueOK, GotIntact, DrawnAsSubmitted
<1> QED BY QueueInvariant, <1>1, PTL

\* DrawSync80044B3C(0) returns on an empty ring and an idle device.
THEOREM HandoffIsDrained == Spec => []HandoffDrained
<1>1. GpuInv => HandoffDrained
  BY DEF GpuInv, Others, PlaceInv, HandoffDrained
<1> QED BY QueueInvariant, <1>1, PTL

\* Whenever the scene runs or the device is served, outside a waiting callback,
\* the device works on the ring: the dispatch that follows a completion
\* (DrainQueue80046BC4 as callback) has begun the next command of a ring that
\* is not empty.
THEOREM DeviceIsFed == Spec => []Covered
<1>1. GpuInv => Covered
  BY DEF GpuInv, Others
<1> QED BY QueueInvariant, <1>1, PTL

\* Every command is begun once and in the order of submission; the timeout's
\* discard of the ring is never reached.
THEOREM CommandsInOrder == Spec => InOrder
<1>1. GpuInv /\ [Next]_vars =>
        [\/ Begun' = Begun /\ queue'.dma \in {queue.dma, Idle}
         \/ Begun' = Begun + 1 /\ queue'.dma.id = Begun']_vars
  <2> SUFFICES ASSUME GpuInv, [Next]_vars
               PROVE  \/ Begun' = Begun /\ queue'.dma \in {queue.dma, Idle}
                      \/ Begun' = Begun + 1 /\ queue'.dma.id = Begun'
    OBVIOUS
  <2>1. Progress(queue, issued, queue', issued')
    BY NextKeeps DEF Keeps
  <2>2. Begun = issued - Depth(queue) /\ Begun' = issued' - Depth(queue')
    BY DEF Begun, Depth
  <2> QED BY <2>1, <2>2 DEF Progress
<1> QED BY QueueInvariant, <1>1, PTL DEF Spec, InOrder

\* Outside a waiting callback only pages whose drawing is done are presented.
THEOREM PresentsFinished == Spec => QuietPresentsFinished
<1>1. GpuInv /\ [Next]_vars =>
        [requested /\ ~requested' /\ ~irq => \A c \in Queued(queue) : c.page # shown]_vars
  <2> SUFFICES ASSUME GpuInv, [Next]_vars, requested, ~requested', ~irq
               PROVE  Queued(queue) = {}
    OBVIOUS
  <2>1. Show
    <3>1. Next
      BY DEF vars, clock
    <3> QED BY <3>1 DEF Next, Frames, Waits, Host, Stopped, Submit, Retry,
               CallbackReturns, LoadEnds, BeginFrame, VSync, EndFrame, LoadWaits,
               BlankWaits, SyncRing, SyncDevice, NoEdge, GpuWaits, NoDelivery,
               DeliverEdge, Dispatch, SceneReturns, SampleEdge, GpuCompletes,
               vars, clock
  <2>2. phase = "show" /\ ~DmaBusy(queue)
    BY <2>1 DEF Show, Presentable
  <2>3. Covered /\ queue \in Queues
    BY DEF GpuInv, Others, PlaceInv, TypeOK
  <2>4. Empty(queue)
    BY <2>2, <2>3 DEF Covered
  <2>5. Depth(queue) = 0
    BY <2>3, <2>4, DepthFacts
  <2> QED BY <2>5 DEF Queued
<1> QED BY QueueInvariant, <1>1, PTL DEF Spec, QuietPresentsFinished

-----------------------------------------------------------------------------
(* The ordering tables: not copied, so that a command in the ring depends on   *)
(* what the frame code has since done to the buffer it names.                  *)

\* Where the frame code is between Prepare8001EA74, which leaves the page and the
\* buffer in step, and Present8001EBF4, which turns the page.
PageInv ==
  /\ draw = "otc" => work = buffer
  /\ draw \in {"submit", "full"} => work # buffer
  /\ at \in {"vsync", "blank"} => work = buffer
  /\ at = "load" /\ draw = "none" /\ drawn => work = buffer
  /\ at = "load" /\ (~irq \/ phase = "dispatch") => draw = "none"
  /\ table[work] = frame

\* The table of a command less than two frames old is still the one built for it;
\* and the newest frame's table is not in the buffer prepared next.
TableHeld(c) ==
  c.kind = "table" =>
    /\ c.want <= frame
    /\ c.want = frame => c.buffer = work /\ work # buffer
    /\ frame < c.want + 2 => table[c.buffer] = c.want
TablesHeld == \A c \in Queued(queue) : TableHeld(c)

TableInv == PageInv /\ TablesHeld /\ TableOneBehind

StartOf(c) == [id |-> c.id, kind |-> c.kind, page |-> c.page, want |-> c.want,
               got |-> Source(c)]

\* What drains comes from the ring.
LEMMA DrainedFrom ==
  ASSUME NEW q \in Queues
  PROVE  LET d == DrainQueue(q) IN
         /\ Queued(d) \subseteq Queued(q)
         /\ d.dma = q.dma \/ \E c \in Queued(q) : d.dma = StartOf(c)
<1> DEFINE d == DrainQueue(q)
<1>1. CASE Empty(q) \/ DmaBusy(q)
  BY <1>1 DEF DrainQueue
<1>2. CASE ~(Empty(q) \/ DmaBusy(q))
  <2>1. /\ d.slots = q.slots /\ d.head = q.head /\ d.tail = Succ(q.tail)
        /\ d.dma = StartOf(q.slots[q.tail])
    BY <1>2 DEF DrainQueue, StartLinkedDma, Queues, StartOf
  <2> HIDE DEF d
  <2>2. /\ Slots \in Nat /\ Slots >= 2
        /\ q.head \in 0..Slots - 1 /\ q.tail \in 0..Slots - 1
    BY QueueParts
  <2>3. Depth(q) \in 1..Slots - 1 /\ Place(q, 0) = q.tail
    <3>1. Depth(q) \in 0..Slots - 1 /\ Depth(q) # 0
      BY <1>2, DepthFacts
    <3> QED BY <2>2, <3>1 DEF Place
  <2>4. Depth(d) = Depth(q) - 1
    BY <1>2, <2>1, <2>2 DEF Depth, Empty, Succ
  <2>5. \A k \in 0..Depth(d) - 1 : Place(d, k) = Place(q, k + 1)
    BY <2>1, <2>2, <2>3, <2>4 DEF Place, Succ
  <2>6. \A k \in 0..Depth(d) - 1 : k + 1 \in 0..Depth(q) - 1
    BY <2>3, <2>4
  <2>7. Queued(d) \subseteq Queued(q)
    BY <2>1, <2>5, <2>6 DEF Queued
  <2>8. q.slots[q.tail] \in Queued(q)
    <3>1. 0 \in 0..Depth(q) - 1
      BY <2>3
    <3> QED BY <2>3, <3>1 DEF Queued
  <2> QED BY <2>1, <2>7, <2>8 DEF d
<1> QED BY <1>1, <1>2

\* What EnqueueSource leaves in the ring or begins was there, or is the new
\* command.
LEMMA EnqueuedFrom ==
  ASSUME NEW q \in Queues, ~Full(q), NEW c \in Commands
  PROVE  LET e == EnqueueSource(q, c) IN
         /\ Queued(e) \subseteq Queued(q) \cup {c}
         /\ e.dma = q.dma \/ \E x \in Queued(q) \cup {c} : e.dma = StartOf(x)
<1> DEFINE e == EnqueueSource(q, c)
           p == [q EXCEPT !.slots[q.head] = c, !.head = Succ(@), !.armed = TRUE]
<1>1. CASE Empty(q) /\ ~DmaBusy(q)
  <2>1. /\ e.slots = q.slots /\ e.head = q.head /\ e.tail = q.tail
        /\ e.dma = StartOf(c)
    BY <1>1 DEF EnqueueSource, StartLinkedDma, Queues, StartOf
  <2>2. Queued(e) = Queued(q)
    BY <2>1 DEF Queued, Depth, Place
  <2> QED BY <2>1, <2>2
<1>2. CASE ~(Empty(q) /\ ~DmaBusy(q))
  <2>1. e = DrainQueue(p)
    BY <1>2 DEF EnqueueSource
  <2>2. /\ p.slots = [q.slots EXCEPT ![q.head] = c] /\ p.head = Succ(q.head)
        /\ p.tail = q.tail /\ p.dma = q.dma
    BY DEF Queues
  <2>3. p \in Queues
    BY PushedType
  <2> HIDE DEF p
  <2>4. /\ Slots \in Nat /\ Slots >= 2 /\ q.slots \in [0..Slots - 1 -> Commands \cup {Idle}]
        /\ q.head \in 0..Slots - 1 /\ q.tail \in 0..Slots - 1
    BY QueueParts
  <2>5. Depth(p) = Depth(q) + 1
    BY <2>2, <2>4 DEF Depth, Full, Succ
  <2>6. Depth(q) \in 0..Slots - 1
    BY DepthFacts
  <2>7. ASSUME NEW k \in 0..Depth(p) - 1
        PROVE  p.slots[Place(p, k)] \in Queued(q) \cup {c}
    <3>1. Place(p, k) = Place(q, k) /\ Place(q, k) \in 0..Slots - 1
      <4>1. Place(p, k) = Place(q, k)
        BY <2>2 DEF Place
      <4>2. k \in 0..Slots - 1
        BY <2>4, <2>5, <2>6
      <4> QED BY <4>1, <4>2, DepthFacts
    <3>2. p.slots[Place(p, k)] \in {c, q.slots[Place(q, k)]}
      BY <2>2, <2>4, <3>1
    <3>3. CASE k = Depth(q)
      <4>1. Place(q, k) = q.head
        BY <3>3, DepthFacts
      <4> QED BY <2>2, <2>4, <3>1, <4>1
    <3>4. CASE k # Depth(q)
      <4>1. k \in 0..Depth(q) - 1
        BY <2>5, <2>6, <3>4
      <4> QED BY <3>2, <4>1 DEF Queued
    <3> QED BY <3>3, <3>4
  <2>8. Queued(p) \subseteq Queued(q) \cup {c}
    BY <2>7 DEF Queued
  <2>9. /\ Queued(e) \subseteq Queued(p)
        /\ e.dma = p.dma \/ \E x \in Queued(p) : e.dma = StartOf(x)
    BY <2>1, <2>3, DrainedFrom
  <2> QED BY <2>2, <2>8, <2>9
<1> QED BY <1>1, <1>2

\* A transfer begun for a held table is at most one frame old.
LEMMA HeldStarts ==
  ASSUME TypeOK, NEW c \in Commands, TableHeld(c)
  PROVE  LET s == StartOf(c) IN
         s.kind = "table" /\ s.got # s.want => frame >= s.want + 2
<1>1. c.want \in Nat /\ frame \in Nat
  BY DEF TypeOK, Commands
<1> QED BY <1>1 DEF StartOf, Source, Copied, TableHeld

LEMMA RingCommands ==
  ASSUME GpuInv
  PROVE  queue \in Queues /\ \A c \in Queued(queue) : c \in Commands
BY DEF GpuInv, QueueOK, InRing, Queued

\* Steps that put nothing new into the ring, and leave frames and pages alone.
LEMMA QuietTables ==
  ASSUME GpuInv, TablesHeld, TableOneBehind,
         UNCHANGED <<table, frame, work>>,
         UNCHANGED buffer \/ (work = buffer /\ work # buffer'),
         \/ queue'.dma = queue.dma \/ queue'.dma = Idle
         \/ \E c \in Queued(queue) : queue'.dma = StartOf(c),
         Queued(queue') \subseteq Queued(queue)
  PROVE  TablesHeld' /\ TableOneBehind'
<1>1. TypeOK /\ \A c \in Queued(queue) : c \in Commands
  BY RingCommands DEF GpuInv
<1>2. \A c \in Queued(queue) : TableHeld(c)'
  BY DEF TablesHeld, TableHeld
<1>3. Queued(queue)' = Queued(queue')
  BY DEF Queued, Depth, Place
<1>4. TableOneBehind'
  <2>1. CASE queue'.dma = queue.dma \/ queue'.dma = Idle
    BY <2>1 DEF TableOneBehind
  <2>2. ASSUME NEW c \in Queued(queue), queue'.dma = StartOf(c)
        PROVE  TableOneBehind'
    BY <1>1, <2>2, HeldStarts DEF TablesHeld, TableOneBehind
  <2> QED BY <2>1, <2>2
<1> QED BY <1>2, <1>3, <1>4 DEF TablesHeld

\* The next table goes into the buffer of the page about to be shown, which the
\* newest frame does not use once it is presented.
LEMMA PrepareTables ==
  ASSUME GpuInv, TableInv, Prepare
  PROVE  TablesHeld' /\ TableOneBehind' /\ table'[work'] = frame'
<1>1. /\ frame' = frame + 1 /\ work' = buffer /\ UNCHANGED <<queue, buffer>>
      /\ table' = [table EXCEPT ![buffer] = frame']
  BY DEF Prepare, ClearTable
<1>2. /\ frame \in Nat /\ buffer \in Pages /\ table \in [Pages -> Nat]
      /\ queue.dma \in Starts \cup {Idle}
  BY QueueParts DEF GpuInv, TypeOK
<1>3. ASSUME NEW c \in Queued(queue) PROVE TableHeld(c)'
  <2>1. TableHeld(c) /\ c \in Commands
    BY RingCommands DEF TableInv, TablesHeld
  <2>2. c.kind = "table" => c.want \in Nat /\ c.want < frame' /\ c.buffer \in Pages
    BY <1>1, <1>2, <2>1 DEF TableHeld, Commands
  <2>3. c.kind = "table" /\ frame' < c.want + 2 => c.want = frame /\ c.buffer # buffer
    BY <1>1, <1>2, <2>1, <2>2 DEF TableHeld
  <2>4. c.kind = "table" /\ frame' < c.want + 2 => table'[c.buffer] = c.want
    BY <1>1, <1>2, <2>1, <2>2, <2>3 DEF TableHeld
  <2> QED BY <1>1, <1>2, <2>2, <2>4 DEF TableHeld
<1>4. TablesHeld'
  BY <1>1, <1>3 DEF TablesHeld, Queued, Depth, Place
<1>5. TableOneBehind'
  BY <1>1, <1>2 DEF TableInv, TableOneBehind, Starts
<1> QED BY <1>1, <1>2, <1>4, <1>5

\* The command handed over by the frame code holds its table.
LEMMA EnqueueTables ==
  ASSUME GpuInv, TableInv, todo # <<>>, ~Full(queue), Enqueue,
         draw \in {"submit", "full"},
         env' \in Nat, Head(todo) = "env" => env' = issued + 1,
         UNCHANGED <<table, frame, work, buffer>>
  PROVE  TablesHeld' /\ TableOneBehind'
<1> DEFINE c == Command(Head(todo))
<1>1. c \in Commands
  BY CommandIsIntact
<1>2. TableHeld(c)
  <2>1. c.kind = "table" => c.want = frame /\ c.buffer = work
    BY DEF Command
  <2>2. work # buffer /\ table[work] = frame /\ frame \in Nat
    BY DEF TableInv, PageInv, GpuInv, TypeOK
  <2> QED BY <2>1, <2>2 DEF TableHeld
<1>3. queue' = EnqueueSource(queue, c)
  BY DEF Enqueue
<1> HIDE DEF c
<1>4. /\ Queued(queue') \subseteq Queued(queue) \cup {c}
      /\ \/ queue'.dma = queue.dma
         \/ \E x \in Queued(queue) \cup {c} : queue'.dma = StartOf(x)
  BY <1>1, <1>3, RingCommands, EnqueuedFrom
<1>5. \A x \in Queued(queue) \cup {c} : x \in Commands /\ TableHeld(x)
  BY <1>1, <1>2, RingCommands DEF TableInv, TablesHeld
<1>6. \A x \in Queued(queue) \cup {c} : TableHeld(x)'
  BY <1>5 DEF TableHeld
<1>7. TablesHeld'
  <2>1. Queued(queue)' = Queued(queue')
    BY DEF Queued, Depth, Place
  <2> QED BY <1>4, <1>6, <2>1 DEF TablesHeld
<1>8. TableOneBehind'
  <2>1. CASE queue'.dma = queue.dma
    BY <2>1 DEF TableInv, TableOneBehind
  <2>2. ASSUME NEW x \in Queued(queue) \cup {c}, queue'.dma = StartOf(x)
        PROVE  TableOneBehind'
    <3>1. TypeOK
      BY DEF GpuInv
    <3> QED BY <1>5, <2>2, <3>1, HeldStarts DEF TableOneBehind
  <2> QED BY <1>4, <2>1, <2>2
<1> QED BY <1>7, <1>8

\* Flipping the page keeps the tables.
LEMMA PresentTables ==
  ASSUME GpuInv, TableInv, Present, work = buffer
  PROVE  TablesHeld' /\ TableOneBehind' /\ work' # buffer'
         /\ UNCHANGED <<table, work, frame>> /\ draw' = "submit"
<1>1. /\ UNCHANGED <<queue, table, frame, work>> /\ buffer' = 1 - buffer
      /\ draw' = "submit"
  BY DEF Present, SwapBuffers
<1>2. buffer \in Pages
  BY DEF GpuInv, TypeOK
<1>3. work # buffer'
  BY <1>1, <1>2 DEF Pages
<1>4. Queued(queue') \subseteq Queued(queue)
  BY <1>1
<1> QED BY <1>1, <1>3, <1>4, QuietTables DEF TableInv, PageInv

\* The steps that neither prepare, present nor submit.
LEMMA PlainTables ==
  ASSUME GpuInv, TableInv, UNCHANGED <<table, frame, work, buffer>>,
         \/ queue' = queue \/ queue' = DrainQueue(queue)
         \/ queue' = [queue EXCEPT !.dma = Idle]
  PROVE  TablesHeld' /\ TableOneBehind'
<1>1. queue \in Queues
  BY RingCommands
<1>2. /\ Queued(queue') \subseteq Queued(queue)
      /\ \/ queue'.dma = queue.dma \/ queue'.dma = Idle
         \/ \E c \in Queued(queue) : queue'.dma = StartOf(c)
  <2>1. CASE queue' = queue
    BY <2>1
  <2>2. CASE queue' = DrainQueue(queue)
    BY <1>1, <2>2, DrainedFrom
  <2>3. CASE queue' = [queue EXCEPT !.dma = Idle]
    <3>1. /\ queue'.slots = queue.slots /\ queue'.head = queue.head
          /\ queue'.tail = queue.tail /\ queue'.dma = Idle
      BY <1>1, <2>3 DEF Queues
    <3> QED BY <3>1 DEF Queued, Depth, Place
  <2> QED BY <2>1, <2>2, <2>3
<1> QED BY <1>2, QuietTables DEF TableInv

LEMMA FramesTables ==
  ASSUME GpuInv, TableInv, Frames
  PROVE  TableInv'
<1>0. /\ TypeOK /\ PlaceInv /\ FullInv /\ PageInv
  BY DEF GpuInv, Others, TableInv
<1>1. CASE Submit
  <2>1. /\ draw = "submit" /\ todo # <<>>
        /\ env' = (IF Head(todo) = "env" THEN issued + 1 ELSE env)
        /\ UNCHANGED <<table, frame, work, buffer, at, irq, drawn>>
        /\ draw' \in {"submit", "full"}
    BY <1>1 DEF Submit, Build, WaitForSlot, Enqueue
  <2>2. env' \in Nat /\ (Head(todo) = "env" => env' = issued + 1)
    BY <1>0, <2>1 DEF TypeOK
  <2>3. CASE Full(queue)
    <3>1. queue' = DrainQueue(queue)
      BY <1>1, <2>3 DEF Submit, WaitForSlot
    <3>2. TablesHeld' /\ TableOneBehind'
      BY <2>1, <3>1, PlainTables
    <3>3. PageInv'
      BY <1>0, <1>1, <2>1 DEF PageInv, PlaceInv, Submit, Running, Suspend, WaitForSlot
    <3> QED BY <3>2, <3>3 DEF TableInv
  <2>4. CASE ~Full(queue)
    <3>1. Enqueue /\ phase' = phase
      BY <1>1, <2>4 DEF Submit
    <3>2. TablesHeld' /\ TableOneBehind'
      BY <2>1, <2>2, <2>4, <3>1, EnqueueTables
    <3>3. PageInv'
      BY <1>0, <1>1, <2>1, <3>1 DEF PageInv, PlaceInv, Submit, Running
    <3> QED BY <3>2, <3>3 DEF TableInv
  <2> QED BY <2>3, <2>4
<1>2. CASE Retry
  <2>1. /\ draw = "full" /\ todo # <<>> /\ env' \in Nat /\ phase = "run"
        /\ Head(todo) = "env" => env' = issued + 1
        /\ UNCHANGED <<table, frame, work, buffer, at, irq, drawn>>
    BY <1>0, <1>2 DEF Retry, FullInv, TypeOK, wait, Running
  <2>2. CASE ~Full(queue) /\ Enqueue /\ UNCHANGED phase
    <3>1. TablesHeld' /\ TableOneBehind' /\ draw' = "submit"
      BY <2>1, <2>2, EnqueueTables DEF Enqueue
    <3> QED BY <1>0, <2>1, <2>2, <3>1 DEF PageInv, TableInv
  <2>3. CASE /\ Full(queue) /\ Expired /\ Discard
             /\ todo' = Tail(todo) /\ draw' = "submit" /\ UNCHANGED issued
    <3>1. phase' = "failed" /\ UNCHANGED queue
      BY <2>1, <2>3, DiscardRefused DEF Discard
    <3>2. TablesHeld' /\ TableOneBehind'
      BY <2>1, <3>1, PlainTables
    <3> QED BY <1>0, <2>1, <2>3, <3>1, <3>2 DEF PageInv, TableInv
  <2>4. CASE Full(queue) /\ ~Expired /\ WaitForSlot
    <3>1. queue' = DrainQueue(queue) /\ draw' = "full" /\ phase' = "show"
      BY <2>4 DEF WaitForSlot, Suspend
    <3>2. TablesHeld' /\ TableOneBehind'
      BY <2>1, <3>1, PlainTables
    <3> QED BY <1>0, <2>1, <3>1, <3>2 DEF PageInv, TableInv
  <2> QED BY <1>2, <2>2, <2>3, <2>4 DEF Retry
<1>3. CASE CallbackReturns
  <2>1. /\ UNCHANGED <<queue, table, frame, work, buffer, at, irq>>
        /\ draw' = "none" /\ irq /\ at = "load"
        /\ \/ draw = "otc" /\ drawn' = TRUE
           \/ drawn' = FALSE
    BY <1>0, <1>3 DEF CallbackReturns, wait, PlaceInv
  <2>2. TablesHeld' /\ TableOneBehind'
    BY <2>1, PlainTables
  <2> QED BY <1>0, <2>1, <2>2 DEF PageInv, TableInv
<1>4. CASE LoadEnds
  <2>1. /\ at = "load" /\ draw = "none" /\ ~irq /\ at' = "frame" /\ UNCHANGED irq
    BY <1>4 DEF LoadEnds, Foreground
  <2>2. CASE drawn
    <3>1. Present /\ work = buffer
      BY <1>0, <1>4, <2>1, <2>2 DEF LoadEnds, PageInv
    <3>2. /\ TablesHeld' /\ TableOneBehind' /\ work' # buffer'
          /\ UNCHANGED <<table, work, frame>> /\ draw' = "submit"
      BY <3>1, PresentTables
    <3> QED BY <1>0, <2>1, <3>2 DEF PageInv, TableInv
  <2>3. CASE ~drawn
    <3>1. UNCHANGED <<queue, table, frame, work, buffer, draw>>
      BY <1>4, <2>3 DEF LoadEnds
    <3>2. TablesHeld' /\ TableOneBehind'
      BY <3>1, PlainTables
    <3> QED BY <1>0, <2>1, <3>1, <3>2 DEF PageInv, TableInv
  <2> QED BY <2>2, <2>3
<1>5. CASE BeginFrame
  <2>1. Prepare /\ at' = "vsync" /\ draw' = "otc" /\ work' = buffer'
    BY <1>5 DEF BeginFrame, Prepare
  <2>2. TablesHeld' /\ TableOneBehind' /\ table'[work'] = frame'
    BY <2>1, PrepareTables
  <2> QED BY <2>1, <2>2 DEF PageInv, TableInv
<1>6. CASE VSync
  <2>1. /\ UNCHANGED <<queue, table, frame, work, buffer, irq, drawn>>
        /\ at = "vsync" /\ at' \in {"vsync", "blank"} /\ draw' = "none"
    BY <1>6 DEF VSync, Foreground
  <2>2. TablesHeld' /\ TableOneBehind'
    BY <2>1, PlainTables
  <2> QED BY <1>0, <2>1, <2>2 DEF PageInv, TableInv
<1>7. CASE EndFrame
  <2>1. Present /\ at' = "frame" /\ work = buffer
    BY <1>0, <1>7 DEF EndFrame, Foreground, PageInv
  <2>2. /\ TablesHeld' /\ TableOneBehind' /\ work' # buffer'
        /\ UNCHANGED <<table, work, frame>> /\ draw' = "submit"
    BY <2>1, PresentTables
  <2> QED BY <1>0, <2>1, <2>2 DEF PageInv, TableInv
<1> QED BY <1>1, <1>2, <1>3, <1>4, <1>5, <1>6, <1>7 DEF Frames

LEMMA DeliverEdgeTables ==
  ASSUME GpuInv, TableInv, DeliverEdge
  PROVE  TableInv'
<1>0. TypeOK /\ PlaceInv /\ PageInv
  BY DEF GpuInv, Others, TableInv
<1>1. phase = "deliver" /\ ~irq /\ at' = at
  BY <1>0 DEF DeliverEdge, PlaceInv, wait
<1>2. CASE at # "load"
  <2>1. UNCHANGED <<queue, table, frame, work, buffer, draw, drawn>>
    BY <1>2 DEF DeliverEdge, scene
  <2>2. TablesHeld' /\ TableOneBehind'
    BY <2>1, PlainTables
  <2> QED BY <1>0, <1>1, <1>2, <2>1, <2>2 DEF PageInv, TableInv
<1>3. CASE at = "load" /\ ~drawn
  <2>1. /\ Prepare /\ draw' = "otc" /\ work' = buffer' /\ irq' = TRUE
        /\ phase' = "show"
    BY <1>3 DEF DeliverEdge, Prepare, Suspend
  <2>2. TablesHeld' /\ TableOneBehind' /\ table'[work'] = frame'
    BY <2>1, PrepareTables
  <2> QED BY <1>1, <1>3, <2>1, <2>2 DEF PageInv, TableInv
<1>4. CASE at = "load" /\ drawn
  <2>1. /\ Present /\ work = buffer /\ irq' = TRUE /\ phase' = "run"
    BY <1>0, <1>1, <1>4 DEF DeliverEdge, PageInv
  <2>2. /\ TablesHeld' /\ TableOneBehind' /\ work' # buffer'
        /\ UNCHANGED <<table, work, frame>> /\ draw' = "submit"
    BY <2>1, PresentTables
  <2> QED BY <1>0, <1>1, <1>4, <2>1, <2>2 DEF PageInv, TableInv
<1>5. drawn \in BOOLEAN
  BY <1>0 DEF TypeOK
<1> QED BY <1>2, <1>3, <1>4, <1>5

\* The other steps of the host, and the waits of the foreground.
LEMMA PassTables ==
  ASSUME GpuInv, TableInv,
         \/ Waits \/ SceneReturns \/ SampleEdge \/ GpuCompletes \/ UNCHANGED vars
         \/ Show \/ NoEdge \/ GpuWaits \/ NoDelivery \/ Dispatch
  PROVE  TableInv'
<1>0. TypeOK /\ PlaceInv /\ PageInv
  BY DEF GpuInv, Others, TableInv
<1>1. /\ UNCHANGED <<table, frame, work, buffer, drawn>>
      /\ \/ queue' = queue \/ queue' = DrainQueue(queue)
         \/ queue' = [queue EXCEPT !.dma = Idle]
  BY DEF Waits, LoadWaits, BlankWaits, SyncRing, SyncDevice, SceneReturns,
     SampleEdge, GpuCompletes, Show, NoEdge, GpuWaits, NoDelivery, Dispatch,
     scene, vars
<1>2. TablesHeld' /\ TableOneBehind'
  BY <1>1, PlainTables
<1>3. PageInv'
  <2>1. CASE SceneReturns
    BY <1>0, <1>1, <2>1 DEF PageInv, SceneReturns
  <2>2. CASE SyncDevice
    BY <1>0, <1>1, <2>2 DEF PageInv, SyncDevice, scene, Foreground, PlaceInv
  <2>3. CASE Dispatch
    BY <1>0, <1>1, <2>3 DEF PageInv, Dispatch, scene, wait
  <2>4. CASE NoDelivery
    BY <1>0, <1>1, <2>4 DEF PageInv, NoDelivery, scene, wait, PlaceInv
  <2>5. CASE LoadWaits \/ BlankWaits \/ SyncRing
    BY <1>0, <1>1, <2>5 DEF PageInv, LoadWaits, BlankWaits, SyncRing, scene, wait,
       Suspend, Running, Foreground
  <2>6. CASE \/ SampleEdge \/ GpuCompletes \/ UNCHANGED vars
             \/ Show \/ NoEdge \/ GpuWaits
    BY <1>0, <1>1, <2>6 DEF PageInv, SampleEdge, GpuCompletes, vars, Show, NoEdge,
       GpuWaits, Serviced, scene, wait
  <2> QED BY <2>1, <2>2, <2>3, <2>4, <2>5, <2>6 DEF Waits
<1> QED BY <1>2, <1>3 DEF TableInv

\* An ordering table is drawn as built, or the device is two frames behind.
THEOREM TablesOneBehind == Spec => []TableOneBehind
<1>1. Init => TableInv
  <2>1. ASSUME Init PROVE TableInv
    <3>1. Depth(queue) = 0 /\ queue.dma = Idle
      BY <2>1 DEF Init, Depth
    <3>2. TablesHeld /\ TableOneBehind
      BY <3>1 DEF TablesHeld, Queued, TableOneBehind
    <3>3. PageInv
      BY <2>1 DEF Init, PageInv, Pages
    <3> QED BY <3>2, <3>3 DEF TableInv
  <2> QED BY <2>1
<1>2. GpuInv /\ TableInv /\ [Next]_vars => TableInv'
  BY FramesTables, DeliverEdgeTables, PassTables DEF Next, Host, Stopped
<1>3. TableInv => TableOneBehind
  BY DEF TableInv
<1> QED BY QueueInvariant, <1>1, <1>2, <1>3, PTL DEF Spec
==============================================================================
