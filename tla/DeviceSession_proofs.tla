------------------------ MODULE DeviceSession_proofs ------------------------
(***************************************************************************)
(* The device manager's queue is driven and in order, its sessions are     *)
(* backed, and applications learn what they lose: for any descriptors and  *)
(* applications, however often the device fails or is switched behind the  *)
(* queue.                                                                  *)
(***************************************************************************)
EXTENDS DeviceSession, TLAPS, WellFoundedInduction

-----------------------------------------------------------------------------
\* Sequences

LEMMA AppendSeq ==
    ASSUME NEW S, NEW q \in Seq(S), NEW x \in S
    PROVE  /\ Append(q, x) \in Seq(S) /\ Append(q, x) # <<>>
           /\ Len(Append(q, x)) = Len(q) + 1
           /\ DOMAIN Append(q, x) = DOMAIN q \cup {Len(q) + 1}
           /\ \A i \in DOMAIN q : Append(q, x)[i] = q[i]
           /\ Append(q, x)[Len(q) + 1] = x
           /\ Len(q) \in Nat /\ DOMAIN q = 1..Len(q)
  OBVIOUS

LEMMA TailSeq ==
    ASSUME NEW S, NEW q \in Seq(S), q # <<>>
    PROVE  /\ Tail(q) \in Seq(S) /\ Head(q) \in S
           /\ Len(q) \in Nat \ {0} /\ Len(Tail(q)) = Len(q) - 1
           /\ Head(q) = q[1] /\ 1 \in DOMAIN q
           /\ DOMAIN q = 1..Len(q) /\ DOMAIN Tail(q) = 1..(Len(q) - 1)
           /\ \A i \in DOMAIN Tail(q) : i + 1 \in DOMAIN q /\ Tail(q)[i] = q[i + 1]
           /\ \A i \in DOMAIN q : i # 1 => i - 1 \in DOMAIN Tail(q) /\ Tail(q)[i - 1] = q[i]
  OBVIOUS

LEMMA ConcatSeq ==
    ASSUME NEW S, NEW q \in Seq(S), NEW r \in Seq(S)
    PROVE  /\ q \o r \in Seq(S) /\ Len(q \o r) = Len(q) + Len(r)
           /\ DOMAIN (q \o r) = 1..(Len(q) + Len(r))
           /\ \A i \in DOMAIN q : (q \o r)[i] = q[i]
           /\ \A i \in DOMAIN r : (q \o r)[Len(q) + i] = r[i]
           /\ \A i \in DOMAIN (q \o r) :
                  i \in DOMAIN q \/ (i - Len(q) \in DOMAIN r /\ (q \o r)[i] = r[i - Len(q)])
  OBVIOUS

LEMMA EmptySeq == ASSUME NEW S PROVE <<>> \in Seq(S) /\ Len(<<>>) = 0
  OBVIOUS

LEMMA OneSeq ==
    ASSUME NEW S, NEW x \in S
    PROVE  <<x>> \in Seq(S) /\ Len(<<x>>) = 1 /\ <<x>>[1] = x /\ <<x>> # <<>>
  OBVIOUS

\* The lowest free descriptor is a free descriptor
LEMMA MinIn ==
    ASSUME NEW S, S \subseteq Nat, S # {}
    PROVE  Min(S) \in S
  <1>1. PICK x \in S : \A y \in S : ~(<<y, x>> \in OpToRel(<, Nat))
    BY WFMin, NatLessThanWellFounded, Zenon
  <1>2. \A y \in S : ~(y < x)
    BY <1>1 DEF OpToRel
  <1>3. \A y \in S : x <= y
    BY <1>2
  <1> QED
    BY <1>3 DEF Min

-----------------------------------------------------------------------------
\* The order of the queue

\* The event that brings the device up for a session is at the head, before
\* the SESSION_OPEN it was made for, and a SESSION_OPEN is at the head but for it
OrderedIn(q) ==
    \A i \in DOMAIN q :
        /\ q[i].type = "DEVICE_UP_SESSION" =>
               i = 1 /\ Len(q) > 1 /\ q[2].type = "SESSION_OPEN"
        /\ q[i].type = "SESSION_OPEN" =>
               i = 1 \/ (i = 2 /\ q[1].type = "DEVICE_UP_SESSION")

LEMMA OrderedEmpty == OrderedIn(<<>>)
  BY DEF OrderedIn

LEMMA OrderedAppend ==
    ASSUME NEW q \in Seq(Event), NEW e \in Event, OrderedIn(q),
           e.type \notin {"DEVICE_UP_SESSION", "SESSION_OPEN"}
    PROVE  OrderedIn(Append(q, e))
  <1> HIDE DEF Event
  <1> DEFINE r == Append(q, e)
  <1>1. /\ DOMAIN r = DOMAIN q \cup {Len(q) + 1} /\ Len(r) = Len(q) + 1 /\ Len(q) \in Nat
        /\ \A i \in DOMAIN q : r[i] = q[i]
        /\ r[Len(q) + 1] = e /\ DOMAIN q = 1..Len(q)
    BY AppendSeq
  <1> HIDE DEF r
  <1>2. ASSUME NEW i \in DOMAIN r
        PROVE  /\ r[i].type = "DEVICE_UP_SESSION" =>
                      i = 1 /\ Len(r) > 1 /\ r[2].type = "SESSION_OPEN"
               /\ r[i].type = "SESSION_OPEN" =>
                      i = 1 \/ (i = 2 /\ r[1].type = "DEVICE_UP_SESSION")
    <2>1. CASE i = Len(q) + 1
      BY <1>1, <2>1
    <2>2. CASE i \in DOMAIN q
      BY <1>1, <2>2 DEF OrderedIn
    <2> QED
      BY <1>1, <2>1, <2>2
  <1> QED
    BY <1>2 DEF OrderedIn, r

LEMMA OrderedTail ==
    ASSUME NEW q \in Seq(Event), q # <<>>, OrderedIn(q)
    PROVE  OrderedIn(Tail(q))
  <1> HIDE DEF Event
  <1> DEFINE r == Tail(q)
  <1>1. /\ Len(q) \in Nat \ {0} /\ Len(r) = Len(q) - 1 /\ 1 \in DOMAIN q
        /\ DOMAIN q = 1..Len(q) /\ DOMAIN r = 1..(Len(q) - 1)
        /\ \A i \in DOMAIN r : i + 1 \in DOMAIN q /\ r[i] = q[i + 1]
    BY TailSeq
  <1> HIDE DEF r
  <1>2. ASSUME NEW i \in DOMAIN r
        PROVE  /\ r[i].type # "DEVICE_UP_SESSION"
               /\ r[i].type = "SESSION_OPEN" => i = 1
    BY <1>1 DEF OrderedIn
  <1> QED
    BY <1>2 DEF OrderedIn, r

\* What is at the head when an event is taken off
LEMMA BehindHead ==
    ASSUME NEW q \in Seq(Event), q # <<>>, OrderedIn(q)
    PROVE  /\ Head(q).type = "DEVICE_UP_SESSION" =>
                  Tail(q) # <<>> /\ Head(Tail(q)).type = "SESSION_OPEN"
           /\ Head(q).type # "DEVICE_UP_SESSION" /\ Tail(q) # <<>> =>
                  Head(Tail(q)).type # "SESSION_OPEN"
           /\ Tail(q) # <<>> /\ Tail(Tail(q)) # <<>> =>
                  Head(Tail(Tail(q))).type # "SESSION_OPEN"
  <1> HIDE DEF Event
  <1>1. /\ Tail(q) \in Seq(Event) /\ Head(q) = q[1] /\ 1 \in DOMAIN q
        /\ Len(q) \in Nat \ {0} /\ Len(Tail(q)) = Len(q) - 1
        /\ DOMAIN q = 1..Len(q) /\ DOMAIN Tail(q) = 1..(Len(q) - 1)
        /\ \A i \in DOMAIN Tail(q) : i + 1 \in DOMAIN q /\ Tail(q)[i] = q[i + 1]
    BY TailSeq
  <1>2. Tail(q) # <<>> => Head(Tail(q)) = q[2] /\ 2 \in DOMAIN q
    <2> SUFFICES ASSUME Tail(q) # <<>> PROVE Head(Tail(q)) = q[2] /\ 2 \in DOMAIN q
      OBVIOUS
    <2>1. Head(Tail(q)) = Tail(q)[1] /\ 1 \in DOMAIN Tail(q)
      BY <1>1, TailSeq
    <2> QED
      BY <1>1, <2>1
  <1>3. Len(q) > 1 => Tail(q) # <<>>
    <2> DEFINE n == Len(q)
               m == Len(Tail(q))
    <2>1. m = n - 1 /\ n \in Nat
      BY <1>1
    <2>2. Tail(q) = <<>> => m = 0
      BY EmptySeq
    <2> HIDE DEF m, n
    <2>3. Tail(q) = <<>> => n = 1
      BY <2>1, <2>2
    <2> QED
      BY <2>3 DEF n
  <1>4. Tail(q) # <<>> /\ Tail(Tail(q)) # <<>> =>
            Head(Tail(Tail(q))) = q[3] /\ 3 \in DOMAIN q
    <2> SUFFICES ASSUME Tail(q) # <<>>, Tail(Tail(q)) # <<>>
                 PROVE  Head(Tail(Tail(q))) = q[3] /\ 3 \in DOMAIN q
      OBVIOUS
    <2>1. /\ Tail(Tail(q)) \in Seq(Event)
          /\ \A i \in DOMAIN Tail(Tail(q)) :
                 i + 1 \in DOMAIN Tail(q) /\ Tail(Tail(q))[i] = Tail(q)[i + 1]
      BY <1>1, TailSeq
    <2>2. Head(Tail(Tail(q))) = Tail(Tail(q))[1] /\ 1 \in DOMAIN Tail(Tail(q))
      BY <2>1, TailSeq
    <2>3. Tail(Tail(q))[1] = Tail(q)[1 + 1] /\ 1 + 1 \in DOMAIN Tail(q)
      BY <2>1, <2>2
    <2>4. Tail(q)[1 + 1] = q[1 + 1 + 1] /\ 1 + 1 + 1 \in DOMAIN q
      BY <1>1, <2>3
    <2> QED
      BY <2>2, <2>3, <2>4
  <1>5. q[1].type = "DEVICE_UP_SESSION" => Len(q) > 1 /\ q[2].type = "SESSION_OPEN"
    BY <1>1 DEF OrderedIn
  <1>6. /\ 2 \in DOMAIN q /\ q[2].type = "SESSION_OPEN" => q[1].type = "DEVICE_UP_SESSION"
        /\ 3 \in DOMAIN q => q[3].type # "SESSION_OPEN"
    BY DEF OrderedIn
  <1> QED
    BY <1>1, <1>2, <1>3, <1>4, <1>5, <1>6

\* doPreOpenSession() puts its events where the SESSION_PRE_OPEN was
Opening(q, isUp, id) ==
    (IF isUp THEN <<>> ELSE <<Ev("DEVICE_UP_SESSION", 0)>>)
      \o <<Ev("SESSION_OPEN", id)>> \o Tail(q)

LEMMA OrderedOpening ==
    ASSUME NEW q \in Seq(Event), q # <<>>, OrderedIn(q), NEW isUp \in BOOLEAN,
           NEW id \in Ids, Head(q).type = "SESSION_PRE_OPEN"
    PROVE  /\ Opening(q, isUp, id) \in Seq(Event)
           /\ OrderedIn(Opening(q, isUp, id))
           /\ Opening(q, isUp, id) # <<>>
           /\ ~isUp => Head(Opening(q, isUp, id)).type # "SESSION_OPEN"
           /\ \A i \in DOMAIN Opening(q, isUp, id) :
                  Opening(q, isUp, id)[i].type = "SESSION_CLOSE" =>
                      \E k \in DOMAIN q : q[k] = Opening(q, isUp, id)[i]
           /\ \A k \in DOMAIN q : k # 1 =>
                  \E i \in DOMAIN Opening(q, isUp, id) : Opening(q, isUp, id)[i] = q[k]
  <1> DEFINE o == Ev("SESSION_OPEN", id)
             u == Ev("DEVICE_UP_SESSION", 0)
             r == Tail(q)
  <1>1. o \in Event /\ u \in Event /\ o.type = "SESSION_OPEN" /\ u.type = "DEVICE_UP_SESSION"
    BY DEF Ev, Event, DeviceUps
  <1> HIDE DEF Event
  <1>2. /\ r \in Seq(Event) /\ Head(q) = q[1] /\ 1 \in DOMAIN q
        /\ Len(q) \in Nat \ {0} /\ Len(r) = Len(q) - 1 /\ Len(r) \in Nat
        /\ DOMAIN q = 1..Len(q) /\ DOMAIN r = 1..Len(r)
        /\ \A i \in DOMAIN r : i + 1 \in DOMAIN q /\ r[i] = q[i + 1]
        /\ \A i \in DOMAIN q : i # 1 => i - 1 \in DOMAIN r /\ r[i - 1] = q[i]
    BY TailSeq
  <1>3. \A i \in DOMAIN r : r[i].type \notin {"SESSION_OPEN", "DEVICE_UP_SESSION"}
    BY <1>2 DEF OrderedIn
  <1> DEFINE s == IF isUp THEN <<o>> \o r ELSE <<u, o>> \o r
  <1>4. Opening(q, isUp, id) = s
    BY <1>2 DEF Opening
  <1> DEFINE n == IF isUp THEN 1 ELSE 2
  <1>5. /\ s \in Seq(Event) /\ Len(s) = n + Len(r) /\ DOMAIN s = 1..(n + Len(r))
        /\ s[n] = o /\ (~isUp => s[1] = u)
        /\ \A i \in DOMAIN r : s[n + i] = r[i]
    BY <1>1, <1>2
  <1>n. n \in {1, 2} /\ (n = 1 <=> isUp)
    OBVIOUS
  <1> HIDE DEF o, u, r, s, n
  <1>6. OrderedIn(s)
    <2>1. ASSUME NEW i \in DOMAIN s, i > n
          PROVE  s[i].type \notin {"SESSION_OPEN", "DEVICE_UP_SESSION"} 
                 /\ \E k \in DOMAIN q : q[k] = s[i]
      <3>1. i - n \in DOMAIN r /\ s[n + (i - n)] = r[i - n] /\ n + (i - n) = i
        BY <1>2, <1>5, <1>n, <2>1
      <3> QED
        BY <1>2, <1>3, <3>1
    <2> QED
      BY <1>1, <1>2, <1>5, <1>n, <2>1 DEF OrderedIn
  <1>7. s # <<>> /\ (~isUp => Head(s).type # "SESSION_OPEN")
    BY <1>1, <1>2, <1>5, <1>n
  <1>8. ASSUME NEW i \in DOMAIN s, s[i].type = "SESSION_CLOSE"
        PROVE  \E k \in DOMAIN q : q[k] = s[i]
    <2>1. i > n
      BY <1>1, <1>2, <1>5, <1>n, <1>8
    <2>2. i - n \in DOMAIN r /\ s[n + (i - n)] = r[i - n] /\ n + (i - n) = i
      BY <1>2, <1>5, <1>n, <2>1
    <2> QED
      BY <1>2, <2>2
  <1>9. ASSUME NEW k \in DOMAIN q, k # 1
        PROVE  \E i \in DOMAIN s : s[i] = q[k]
    <2>1. k - 1 \in DOMAIN r /\ r[k - 1] = q[k]
      BY <1>2, <1>9
    <2>2. n + (k - 1) \in DOMAIN s /\ s[n + (k - 1)] = r[k - 1]
      BY <1>2, <1>5, <1>n, <2>1
    <2> QED
      BY <2>1, <2>2
  <1> QED
    BY <1>4, <1>5, <1>6, <1>7, <1>8, <1>9

-----------------------------------------------------------------------------
\* Signals and requests on their way

LossIn(q) == \E i \in DOMAIN q : q[i].to = "down"
In(q, x) == \E i \in DOMAIN q : q[i] = x

Signal == [to : {"up", "down"}, error : BOOLEAN]
Answers == {"SESSION_STARTED", "SESSION_FAILED", "SESSION_CLOSED"}
Asks == {"SESSION_OPEN", "SESSION_CLOSE"}

LEMMA LossAppend ==
    ASSUME NEW q \in Seq(Signal), NEW x \in Signal
    PROVE  LossIn(Append(q, x)) <=> LossIn(q) \/ x.to = "down"
  <1> HIDE DEF Signal
  <1> QED
    BY AppendSeq DEF LossIn

LEMMA LossTail ==
    ASSUME NEW q \in Seq(Signal), q # <<>>, Head(q).to # "down", LossIn(q)
    PROVE  LossIn(Tail(q))
  <1> HIDE DEF Signal
  <1>1. /\ Head(q) = q[1]
        /\ \A i \in DOMAIN q : i # 1 => i - 1 \in DOMAIN Tail(q) /\ Tail(q)[i - 1] = q[i]
    BY TailSeq
  <1>2. PICK i \in DOMAIN q : q[i].to = "down"
    BY DEF LossIn
  <1> QED
    BY <1>1, <1>2 DEF LossIn

LEMMA InAppend ==
    ASSUME NEW S, NEW q \in Seq(S), NEW x \in S, NEW y
    PROVE  In(Append(q, x), y) <=> In(q, y) \/ x = y
  BY AppendSeq DEF In

LEMMA InTail ==
    ASSUME NEW S, NEW q \in Seq(S), NEW y, q # <<>>
    PROVE  /\ In(Tail(q), y) => In(q, y)
           /\ In(q, y) /\ Head(q) # y => In(Tail(q), y)
           /\ In(q, Head(q))
  <1>1. /\ Head(q) = q[1] /\ 1 \in DOMAIN q
        /\ \A i \in DOMAIN Tail(q) : i + 1 \in DOMAIN q /\ Tail(q)[i] = q[i + 1]
        /\ \A i \in DOMAIN q : i # 1 => i - 1 \in DOMAIN Tail(q) /\ Tail(q)[i - 1] = q[i]
    BY TailSeq
  <1>2. ASSUME In(q, y), Head(q) # y
        PROVE  In(Tail(q), y)
    <2>1. PICK i \in DOMAIN q : q[i] = y
      BY <1>2 DEF In
    <2> QED
      BY <1>1, <1>2, <2>1 DEF In
  <1> QED
    BY <1>1, <1>2 DEF In

-----------------------------------------------------------------------------
\* The parts of TypeOK, by the tuples the actions leave unchanged

ManagerTyped ==
    /\ events \in Seq(Event) /\ posts \in Nat /\ sessions \subseteq Ids
    /\ state \in States /\ server \in {"running", "spinning", "crashed"}
    /\ timer \in BOOLEAN /\ lost \in BOOLEAN
DeviceTyped ==
    /\ up \in BOOLEAN /\ upRequest \in BOOLEAN /\ before \in BOOLEAN
    /\ plane \in BOOLEAN /\ misnamed \in BOOLEAN
    /\ requests \in Seq({"up", "down"}) /\ status \in Seq(Signal)
    /\ troubles \in 0..MaxTroubles
SocketsTyped ==
    /\ conns \subseteq Ids /\ reused \in BOOLEAN
    /\ peer \in [Ids -> {"none", "open", "closed"}]
    /\ toServer \in [Ids -> Seq(Asks)]
    /\ toClient \in [Ids -> Seq(Answers)]
ClientTyped ==
    /\ sock \in [Clients -> Ids \cup {0}]
    /\ isOpen \in [Clients -> BOOLEAN] /\ inRequest \in [Clients -> BOOLEAN]
    /\ starts \in 0..MaxStarts
ServerTyped == ManagerTyped /\ DeviceTyped /\ SocketsTyped

LEMMA TypeParts == TypeOK <=> ServerTyped /\ ClientTyped
  BY DEF TypeOK, ServerTyped, ManagerTyped, DeviceTyped, SocketsTyped, ClientTyped,
         Signal, Answers, Asks

LEMMA ManagerKept == ASSUME ManagerTyped, UNCHANGED manager PROVE ManagerTyped'
  BY DEF ManagerTyped, manager
LEMMA DeviceKept == ASSUME DeviceTyped, UNCHANGED device PROVE DeviceTyped'
  BY DEF DeviceTyped, device
LEMMA SocketsKept == ASSUME SocketsTyped, UNCHANGED sockets PROVE SocketsTyped'
  BY DEF SocketsTyped, sockets

\* While the manager's queue waits for the device, it waits for an answer to
\* the request its head made, or for a signal it takes for one
Awaited ==
    Running /\ ~lost /\ ~misnamed /\ posts = 0 /\ events # <<>> =>
        \/ HeadIs(DeviceUps) /\ (status # <<>> \/ (~up /\ In(requests, "up")))
        \/ HeadIs({"DEVICE_DOWN"}) /\ (LossIn(status) \/ (up /\ In(requests, "down")))

Ordered == OrderedIn(events)
Queue == ServerTyped /\ Ordered /\ Awaited

LEMMA QueueFacts ==
    ASSUME Queue
    PROVE  /\ ManagerTyped /\ DeviceTyped /\ SocketsTyped /\ Ordered /\ Awaited
           /\ events \in Seq(Event) /\ posts \in Nat /\ OrderedIn(events)
           /\ status \in Seq(Signal) /\ requests \in Seq({"up", "down"})
           /\ conns \subseteq Ids /\ sessions \subseteq Ids
  BY DEF Queue, ServerTyped, ManagerTyped, DeviceTyped, SocketsTyped, Ordered

LEMMA QueueFrom ==
    ASSUME ManagerTyped', DeviceTyped', SocketsTyped', OrderedIn(events'), Awaited'
    PROVE  Queue'
  BY DEF Queue, ServerTyped, Ordered

LEMMA HeadEvent ==
    ASSUME Queue, events # <<>>
    PROVE  /\ Head(events) \in Event /\ Head(events).id \in Ids \cup {0}
           /\ Tail(events) \in Seq(Event)
           /\ OrderedIn(Tail(events))
  <1>1. Head(events) \in Event /\ Tail(events) \in Seq(Event)
    BY QueueFacts, TailSeq
  <1> QED
    BY <1>1, QueueFacts, OrderedTail DEF Event

\* What enqueues an event at the end, and posts doPending() when it is needed
PlainEvent == {e \in Event : e.type \notin {"DEVICE_UP_SESSION", "SESSION_OPEN"}}

LEMMA AppendQueue ==
    ASSUME NEW q \in Seq(Event), NEW e \in PlainEvent, OrderedIn(q)
    PROVE  /\ Append(q, e) \in Seq(Event) /\ OrderedIn(Append(q, e))
           /\ Append(q, e) # <<>>
           /\ q # <<>> => Head(Append(q, e)) = Head(q)
  <1>1. e \in Event /\ e.type \notin {"DEVICE_UP_SESSION", "SESSION_OPEN"}
    BY DEF PlainEvent
  <1> HIDE DEF Event
  <1>2. Append(q, e) \in Seq(Event) /\ OrderedIn(Append(q, e)) /\ Append(q, e) # <<>>
    BY <1>1, AppendSeq, OrderedAppend
  <1> QED
    BY <1>1, <1>2, AppendSeq, TailSeq

LEMMA Enqueued ==
    ASSUME Queue, NEW e \in PlainEvent, Enqueue(e), UNCHANGED <<server, lost>>,
           UNCHANGED <<up, requests, status, misnamed>>
    PROVE  /\ events' \in Seq(Event) /\ posts' \in Nat /\ OrderedIn(events') /\ Awaited'
           /\ events' # <<>> /\ events' = Append(events, e)
           /\ events # <<>> => Head(events') = Head(events)
           /\ events = <<>> => posts' > 0
  <1>1. events \in Seq(Event) /\ posts \in Nat /\ OrderedIn(events) /\ Awaited
    BY QueueFacts
  <1>2. /\ events' = Append(events, e)
        /\ posts' = IF events = <<>> THEN posts + 1 ELSE posts
    BY DEF Enqueue
  <1>3. /\ events' \in Seq(Event) /\ posts' \in Nat /\ OrderedIn(events')
        /\ events' # <<>> /\ (events # <<>> => Head(events') = Head(events))
        /\ (events = <<>> => posts' > 0)
    BY <1>1, <1>2, AppendQueue
  <1>4. Awaited'
    <2>1. events # <<>> => posts' = posts
      BY <1>2
    <2>2. \A types : events # <<>> /\ HeadIs(types) => HeadIs(types)'
      BY <1>3 DEF HeadIs
    <2> QED
      BY <1>1, <1>3, <2>1, <2>2 DEF Awaited, Running
  <1> QED
    BY <1>2, <1>3, <1>4

LEMMA Plain ==
    /\ \A type \in {"SESSION_PRE_OPEN", "SESSION_CLOSE", "DEVICE_DOWN", "DEVICE_UP",
                    "DEVICE_UP_TIMED", "DEVICE_UP_ONE_ITEM"} :
           \A id \in Ids \cup {0} :
               /\ Ev(type, id) \in PlainEvent
               /\ Ev(type, id).type = type /\ Ev(type, id).id = id
  BY DEF PlainEvent, Ev, Event, DeviceUps

\* A line that the manager writes to its applications
LEMMA TellEffect ==
    ASSUME SocketsTyped, NEW D, NEW line \in Answers, Tell(D, line)
    PROVE  /\ toClient' \in [Ids -> Seq(Answers)]
           /\ \A d \in Ids : toClient'[d] = IF d \in D /\ peer[d] = "open"
                                 THEN Append(toClient[d], line) ELSE toClient[d]
  <1>1. \A d \in Ids : toClient[d] \in Seq(Answers)
    BY DEF SocketsTyped
  <1>2. \A d \in Ids : Append(toClient[d], line) \in Seq(Answers)
    BY <1>1, AppendSeq
  <1> QED
    BY <1>1, <1>2 DEF Tell

-----------------------------------------------------------------------------
\* One step of the queue, by the action

LEMMA EmptyStep ==
    ASSUME Queue, DoPendingEmpty
    PROVE  Queue'
  <1>1. events = <<>> /\ posts > 0 /\ posts' = posts - 1 /\ UNCHANGED <<events, device, sockets>>
    BY DEF DoPendingEmpty
  <1>2. ManagerTyped'
    BY QueueFacts DEF DoPendingEmpty, ManagerTyped
  <1>3. OrderedIn(events') /\ Awaited'
    BY <1>1, QueueFacts DEF Awaited
  <1> QED
    BY <1>1, <1>2, <1>3, QueueFacts, DeviceKept, SocketsKept, QueueFrom

LEMMA PreOpenStep ==
    ASSUME Queue, DoPreOpenSession
    PROVE  Queue'
  <1> DEFINE id == Head(events).id
  <1>1. /\ posts > 0 /\ events # <<>> /\ Head(events).type = "SESSION_PRE_OPEN"
        /\ UNCHANGED <<posts, sessions, state, timer, server, lost, device,
                       conns, peer, toServer, reused>>
    BY DEF DoPreOpenSession, Pending, HeadIs
  <1>2. \/ events' = Tail(events) /\ UNCHANGED toClient
        \/ id \in Ids /\ events' = Tail(events) /\ Tell({id}, "SESSION_FAILED")
        \/ id \in Ids /\ events' = Opening(events, up, id) /\ UNCHANGED toClient
    BY QueueFacts DEF DoPreOpenSession, Opening
  <1>3. events' \in Seq(Event) /\ OrderedIn(events')
    <2>1. up \in BOOLEAN
      BY QueueFacts DEF DeviceTyped
    <2>2. CASE id \in Ids /\ events' = Opening(events, up, id)
      BY <1>1, <2>1, <2>2, QueueFacts, OrderedOpening
    <2> QED
      BY <1>1, <1>2, <2>2, HeadEvent
  <1>4. ManagerTyped'
    BY <1>1, <1>3, QueueFacts DEF ManagerTyped
  <1>5. SocketsTyped'
    <2>1. toClient' \in [Ids -> Seq(Answers)]
      <3>1. CASE UNCHANGED toClient
        BY <3>1, QueueFacts DEF SocketsTyped
      <3>2. CASE Tell({id}, "SESSION_FAILED")
        BY <3>2, QueueFacts, TellEffect DEF Answers
      <3> QED
        BY <1>2, <3>1, <3>2
    <2> QED
      BY <1>1, <2>1, QueueFacts DEF SocketsTyped
  <1>6. Awaited'
    BY <1>1 DEF Awaited
  <1> QED
    BY <1>1, <1>3, <1>4, <1>5, <1>6, QueueFacts, DeviceKept, QueueFrom

\* The early returns that post nothing note it when they leave events behind
LEMMA Left ==
    ASSUME Queue, events # <<>>, posts > 0, LeaveQueue
    PROVE  /\ posts' \in Nat /\ lost' \in BOOLEAN
           /\ posts' = 0 /\ Tail(events) # <<>> => lost'
  <1> DEFINE n == Len(events)
             m == Len(Tail(events))
  <1>1. posts' = posts - 1 /\ lost' = (lost \/ (posts = 1 /\ n > 1))
    BY DEF LeaveQueue
  <1>2. n \in Nat \ {0} /\ m = n - 1 /\ posts \in Nat /\ (Tail(events) # <<>> => m # 0)
    BY QueueFacts, TailSeq
  <1>3. lost' \in BOOLEAN
    BY <1>1, Zenon
  <1> HIDE DEF n, m
  <1>4. posts' \in Nat /\ (posts' = 0 => posts = 1) /\ (m # 0 => n > 1)
    BY <1>1, <1>2
  <1>5. posts = 1 /\ n > 1 => lost'
    BY <1>1, Zenon
  <1> QED
    BY <1>2, <1>3, <1>4, <1>5

LEMMA OpenStep ==
    ASSUME Queue, DoOpenSession
    PROVE  Queue'
  <1> DEFINE id == Head(events).id
  <1>1. /\ Running /\ posts > 0 /\ events # <<>>
        /\ events' = Tail(events)
        /\ UNCHANGED <<state, timer, server, device, conns, peer, toServer, reused>>
    BY DEF DoOpenSession, Pending, HeadIs
  <1>2. \/ LeaveQueue /\ UNCHANGED <<sessions, toClient>>
        \/ /\ id \in conns /\ sessions' = sessions \cup {id}
           /\ Tell({id}, "SESSION_STARTED") /\ UNCHANGED <<posts, lost>>
    BY DEF DoOpenSession
  <1>3. events' \in Seq(Event) /\ OrderedIn(events')
    BY <1>1, HeadEvent
  <1>4. ManagerTyped'
    BY <1>1, <1>2, <1>3, QueueFacts, Left DEF ManagerTyped
  <1>5. SocketsTyped'
    <2>1. toClient' \in [Ids -> Seq(Answers)]
      BY <1>2, QueueFacts, TellEffect DEF Answers, SocketsTyped
    <2> QED
      BY <1>1, <2>1, QueueFacts DEF SocketsTyped
  <1>6. Awaited'
    <2>1. CASE LeaveQueue
      BY <1>1, <2>1, Left DEF Awaited
    <2>2. CASE UNCHANGED posts
      BY <1>1, <2>2 DEF Awaited
    <2> QED
      BY <1>2, <2>1, <2>2
  <1> QED
    BY <1>1, <1>3, <1>4, <1>5, <1>6, QueueFacts, DeviceKept, QueueFrom

LEMMA CloseStep ==
    ASSUME Queue, DoCloseSession
    PROVE  Queue'
  <1> DEFINE rest == Tail(events)
  <1>1. /\ Running /\ posts > 0 /\ events # <<>>
        /\ sessions' = sessions \ {Head(events).id}
        /\ UNCHANGED <<state, timer, server, device, sockets>>
    BY DEF DoCloseSession, Pending, HeadIs
  <1>2. \/ events' = rest /\ LeaveQueue
        \/ events' = rest /\ UNCHANGED <<posts, lost>>
        \/ /\ events' = Append(rest, Ev("DEVICE_DOWN", 0))
           /\ posts' = IF rest = <<>> THEN posts + 1 ELSE posts
           /\ UNCHANGED lost
    BY DEF DoCloseSession
  <1>3. rest \in Seq(Event) /\ OrderedIn(rest) /\ Ev("DEVICE_DOWN", 0) \in PlainEvent
    BY <1>1, HeadEvent, Plain
  <1>4. events' \in Seq(Event) /\ OrderedIn(events')
    BY <1>2, <1>3, AppendQueue
  <1>5. ManagerTyped'
    BY <1>1, <1>2, <1>4, QueueFacts, Left DEF ManagerTyped
  <1>6. Awaited'
    <2>1. CASE events' = rest /\ LeaveQueue
      BY <1>1, <2>1, Left DEF Awaited
    <2>2. CASE posts' \in {posts, posts + 1}
      BY <1>1, <2>2, QueueFacts DEF Awaited
    <2> QED
      BY <1>2, <2>1, <2>2
  <1> QED
    BY <1>1, <1>4, <1>5, <1>6, QueueFacts, DeviceKept, SocketsKept, QueueFrom

\* What bringUp() and bringDown() of BtPowerService do to a typed device
LEMMA Requested ==
    ASSUME DeviceTyped, NEW kind \in {"up", "down"}, BtRequest(kind)
    PROVE  /\ requests' \in Seq({"up", "down"}) /\ status' \in Seq(Signal)
           /\ upRequest' \in BOOLEAN /\ troubles' \in 0..MaxTroubles
           /\ \/ In(requests', kind) /\ status' = status
              \/ status' # <<>> /\ (kind = "down" => LossIn(status'))
           /\ \/ status' = status
              \/ \E x \in Signal : x.to = kind /\ x.error /\ status' = Append(status, x)
  <1> DEFINE x == [to |-> kind, error |-> TRUE]
  <1>1. x \in Signal /\ x.to = kind /\ x.error
    BY DEF Signal
  <1>2. /\ requests \in Seq({"up", "down"}) /\ status \in Seq(Signal)
        /\ troubles \in 0..MaxTroubles /\ MaxTroubles \in Nat
    BY BoundsAssumption DEF DeviceTyped
  <1>3. CASE Ask(kind) /\ UNCHANGED troubles
    BY <1>2, <1>3, AppendSeq, InAppend DEF Ask
  <1>4. CASE /\ troubles < MaxTroubles /\ troubles' = troubles + 1
             /\ upRequest' = (kind = "up")
             /\ status' = Append(status, x) /\ UNCHANGED requests
    <2>1. /\ Append(status, x) \in Seq(Signal) /\ Append(status, x) # <<>>
          /\ kind = "down" => LossIn(Append(status, x))
      <3> HIDE DEF x, Signal
      <3> QED
        BY <1>1, <1>2, AppendSeq, LossAppend
    <2> QED
      BY <1>1, <1>2, <1>4, <2>1
  <1> QED
    BY <1>3, <1>4 DEF BtRequest

LEMMA UpStep ==
    ASSUME Queue, DoUp
    PROVE  Queue'
  <1>1. /\ Running /\ posts > 0 /\ events # <<>> /\ Head(events).type \in DeviceUps
        /\ UNCHANGED <<sessions, server, lost, up, before, plane, misnamed, sockets>>
    BY DEF DoUp, Pending, HeadIs
  <1>2. \A type \in DeviceUps : UpState(type) \in States
    BY DEF DeviceUps, UpState, States
  <1>3. timer' \in BOOLEAN
    BY DEF DoUp
  <1>4. CASE /\ events' = Tail(events) /\ state' = UpState(Head(events).type)
             /\ UNCHANGED <<posts, requests, status, upRequest, troubles>>
    <2>1. ManagerTyped' /\ DeviceTyped'
      BY <1>1, <1>2, <1>3, <1>4, QueueFacts, HeadEvent DEF ManagerTyped, DeviceTyped
    <2>2. OrderedIn(events') /\ Awaited'
      BY <1>1, <1>4, HeadEvent DEF Awaited
    <2> QED
      BY <1>1, <2>1, <2>2, QueueFacts, SocketsKept, QueueFrom
  <1>5. CASE ~up /\ BtRequest("up") /\ posts' = posts - 1 /\ UNCHANGED <<events, state>>
    <2>1. ManagerTyped'
      BY <1>1, <1>3, <1>5, QueueFacts DEF ManagerTyped
    <2>2. DeviceTyped' /\ (status' # <<>> \/ In(requests', "up"))
      BY <1>1, <1>5, QueueFacts, Requested DEF DeviceTyped
    <2>3. Awaited'
      BY <1>1, <1>5, <2>2 DEF Awaited, HeadIs
    <2> QED
      BY <1>1, <1>5, <2>1, <2>2, <2>3, QueueFacts, SocketsKept, QueueFrom
  <1> QED
    BY <1>4, <1>5 DEF DoUp

LEMMA DownStep ==
    ASSUME Queue, DoDown
    PROVE  Queue'
  <1>1. /\ Running /\ posts > 0 /\ events # <<>> /\ Head(events).type = "DEVICE_DOWN"
        /\ timer' \in BOOLEAN
        /\ UNCHANGED <<sessions, state, server, lost, up, before, plane, misnamed, sockets>>
    BY DEF DoDown, Pending, HeadIs
  <1>2. CASE /\ events' = Tail(events)
             /\ UNCHANGED <<posts, requests, status, upRequest, troubles>>
    <2>1. ManagerTyped' /\ DeviceTyped'
      BY <1>1, <1>2, QueueFacts, HeadEvent DEF ManagerTyped, DeviceTyped
    <2>2. OrderedIn(events') /\ Awaited'
      BY <1>1, <1>2, HeadEvent DEF Awaited
    <2> QED
      BY <1>1, <2>1, <2>2, QueueFacts, SocketsKept, QueueFrom
  <1>3. CASE up /\ BtRequest("down") /\ posts' = posts - 1 /\ UNCHANGED events
    <2>1. ManagerTyped'
      BY <1>1, <1>3, QueueFacts DEF ManagerTyped
    <2>2. DeviceTyped' /\ (LossIn(status') \/ In(requests', "down"))
      BY <1>1, <1>3, QueueFacts, Requested DEF DeviceTyped
    <2>3. Awaited'
      BY <1>1, <1>3, <2>2 DEF Awaited, HeadIs
    <2> QED
      BY <1>1, <1>3, <2>1, <2>2, <2>3, QueueFacts, SocketsKept, QueueFrom
  <1> QED
    BY <1>2, <1>3 DEF DoDown

\* A signal taken off the queue of signals
LEMMA StatusTaken ==
    ASSUME Queue, status # <<>>, status' = Tail(status),
           UNCHANGED <<up, requests, upRequest, before, plane, troubles, misnamed>>
    PROVE  /\ DeviceTyped'
           /\ Head(status).to = "up" /\ LossIn(status) => LossIn(status')
  <1>1. status \in Seq(Signal)
    BY QueueFacts
  <1> HIDE DEF Signal
  <1>2. Tail(status) \in Seq(Signal)
    BY <1>1, TailSeq
  <1>3. Head(status).to = "up" /\ LossIn(status) => LossIn(Tail(status))
    BY <1>1, LossTail
  <1> QED
    BY <1>2, <1>3, QueueFacts DEF DeviceTyped

LEMMA SpuriousUpStep ==
    ASSUME Queue, SpuriousUp
    PROVE  Queue'
  <1>1. /\ Running /\ status # <<>> /\ Head(status).to = "up" /\ ~HeadIs(DeviceUps)
        /\ status' = Tail(status) /\ state' = "On"
        /\ UNCHANGED <<events, posts, sessions, timer, server, lost, sockets,
                       up, requests, upRequest, before, plane, troubles, misnamed>>
    BY DEF SpuriousUp, StatusIs
  <1>2. ManagerTyped'
    BY <1>1, QueueFacts DEF ManagerTyped, States
  <1>3. DeviceTyped' /\ (LossIn(status) => LossIn(status'))
    BY <1>1, StatusTaken
  <1>4. Awaited'
    BY <1>1, <1>3, QueueFacts DEF Awaited, HeadIs, Running
  <1> QED
    BY <1>1, <1>2, <1>3, <1>4, QueueFacts, SocketsKept, QueueFrom

LEMMA UpStatusStep ==
    ASSUME Queue, UpStatus
    PROVE  Queue'
  <1> DEFINE rest == Tail(events)
  <1>1. /\ Running /\ status # <<>> /\ Head(status).to = "up"
        /\ events # <<>> /\ Head(events).type \in DeviceUps
        /\ status' = Tail(status)
        /\ UNCHANGED <<sessions, timer, lost, conns, peer, toServer, reused,
                       up, requests, upRequest, before, plane, troubles, misnamed>>
    BY DEF UpStatus, StatusIs, HeadIs
  <1>2. /\ rest \in Seq(Event) /\ OrderedIn(rest)
        /\ Head(events).type = "DEVICE_UP_SESSION" => rest # <<>>
    BY <1>1, HeadEvent, QueueFacts, BehindHead
  <1>3. rest # <<>> => Tail(rest) \in Seq(Event) /\ OrderedIn(Tail(rest))
    BY <1>2, TailSeq, OrderedTail
  <1>4. \/ events' = rest /\ UNCHANGED toClient
        \/ /\ rest # <<>> /\ events' = Tail(rest)
           /\ Tell({Head(rest).id} \cap conns, "SESSION_FAILED")
    BY <1>2 DEF UpStatus
  <1>5. posts' = posts + 1 /\ server' \in {server, "crashed"}
        /\ state' \in {state} \cup {UpState(type) : type \in DeviceUps}
    BY <1>1, <1>2 DEF UpStatus
  <1>6. \A type \in DeviceUps : UpState(type) \in States
    BY DEF DeviceUps, UpState, States
  <1>7. ManagerTyped'
    <2>1. events' \in Seq(Event)
      BY <1>2, <1>3, <1>4
    <2>a. posts' \in Nat
      BY <1>5, QueueFacts
    <2>2. state' \in States
      BY <1>5, <1>6, QueueFacts DEF ManagerTyped
    <2> QED
      BY <1>1, <1>5, <2>1, <2>a, <2>2, QueueFacts DEF ManagerTyped
  <1>8. SocketsTyped'
    <2>1. toClient' \in [Ids -> Seq(Answers)]
      BY <1>4, QueueFacts, TellEffect DEF Answers, SocketsTyped
    <2> QED
      BY <1>1, <2>1, QueueFacts DEF SocketsTyped
  <1>9. Awaited'
    BY <1>5, QueueFacts DEF Awaited
  <1> QED
    BY <1>1, <1>2, <1>3, <1>4, <1>7, <1>8, <1>9, QueueFacts, StatusTaken, QueueFrom

\* closeAllSessions() leaves an empty queue, or the server is lost
LEMMA Closed ==
    ASSUME Queue, Running, NEW q \in Seq(Event), CloseAllSessions(q)
    PROVE  /\ toClient' \in [Ids -> Seq(Answers)]
           /\ \A d \in Ids : toClient'[d] = IF d \in sessions \cap conns /\ peer[d] = "open"
                                 THEN Append(toClient[d], "SESSION_CLOSED") ELSE toClient[d]
           /\ server' \in {"running", "spinning", "crashed"}
           /\ sessions' \subseteq Ids
           /\ events' \in {q, <<>>}
           /\ server' = "running" => events' = <<>> /\ sessions' = {} /\ sessions \subseteq conns
  <1>1. Tell(sessions \cap conns, "SESSION_CLOSED") /\ server = "running"
    BY DEF CloseAllSessions, Running
  <1>2. /\ toClient' \in [Ids -> Seq(Answers)]
        /\ \A d \in Ids : toClient'[d] = IF d \in sessions \cap conns /\ peer[d] = "open"
                              THEN Append(toClient[d], "SESSION_CLOSED") ELSE toClient[d]
    BY <1>1, QueueFacts, TellEffect DEF Answers
  <1>3. \/ server' = "crashed" /\ events' = q /\ UNCHANGED sessions
        \/ server' = "spinning" /\ events' = q /\ UNCHANGED sessions
        \/ events' = <<>> /\ sessions' = {} /\ UNCHANGED server /\ sessions \subseteq conns
    BY DEF CloseAllSessions
  <1> QED
    BY <1>1, <1>2, <1>3, QueueFacts

LEMMA DownStatusStep ==
    ASSUME Queue, DownStatus
    PROVE  Queue'
  <1>1. /\ Running /\ status # <<>> /\ Head(status).to = "down"
        /\ status' = Tail(status) /\ state' = "Off" /\ posts' \in {posts, posts + 1}
        /\ UNCHANGED <<timer, lost, conns, peer, toServer, reused,
                       up, requests, upRequest, before, plane, troubles, misnamed>>
    BY DEF DownStatus, StatusIs
  <1>2. PICK q \in Seq(Event) : CloseAllSessions(q) /\ OrderedIn(q)
    <2>1. CASE CloseAllSessions(events)
      BY <2>1, QueueFacts
    <2>2. CASE events # <<>> /\ CloseAllSessions(Tail(events))
      BY <2>2, HeadEvent
    <2> QED
      BY <2>1, <2>2 DEF DownStatus, HeadIs
  <1>3. /\ toClient' \in [Ids -> Seq(Answers)]
        /\ server' \in {"running", "spinning", "crashed"}
        /\ sessions' \subseteq Ids
        /\ events' \in {q, <<>>}
        /\ server' = "running" => events' = <<>>
    BY <1>1, <1>2, Closed
  <1>4. events' \in Seq(Event) /\ OrderedIn(events')
    BY <1>2, <1>3, EmptySeq, OrderedEmpty
  <1>5. ManagerTyped'
    BY <1>1, <1>3, <1>4, QueueFacts DEF ManagerTyped, States
  <1>6. SocketsTyped'
    BY <1>1, <1>3, QueueFacts DEF SocketsTyped
  <1>7. Awaited'
    BY <1>3 DEF Awaited, Running
  <1> QED
    BY <1>1, <1>4, <1>5, <1>6, <1>7, StatusTaken, QueueFrom

LEMMA TimeoutStep ==
    ASSUME Queue, Timeout
    PROVE  Queue'
  <1>1. /\ timer' \in BOOLEAN
        /\ UNCHANGED <<sessions, server, lost, device, sockets>>
        /\ \/ state' \in {state, "OnOneItem"} /\ UNCHANGED <<events, posts>>
           \/ Enqueue(Ev("DEVICE_DOWN", 0)) /\ UNCHANGED state
    BY DEF Timeout
  <1>2. CASE UNCHANGED <<events, posts>> /\ state' \in {state, "OnOneItem"}
    <2>1. ManagerTyped'
      BY <1>1, <1>2, QueueFacts DEF ManagerTyped, States
    <2>2. OrderedIn(events') /\ Awaited'
      BY <1>1, <1>2, QueueFacts DEF Awaited, HeadIs, Running, device
    <2> QED
      BY <1>1, <2>1, <2>2, QueueFacts, DeviceKept, SocketsKept, QueueFrom
  <1>3. CASE Enqueue(Ev("DEVICE_DOWN", 0)) /\ UNCHANGED state
    <2>1. Ev("DEVICE_DOWN", 0) \in PlainEvent
      BY Plain
    <2>2. /\ events' \in Seq(Event) /\ posts' \in Nat /\ OrderedIn(events') /\ Awaited'
      BY <1>1, <1>3, <2>1, Enqueued DEF device
    <2>3. ManagerTyped'
      BY <1>1, <1>3, <2>2, QueueFacts DEF ManagerTyped
    <2> QED
      BY <1>1, <2>2, <2>3, QueueFacts, DeviceKept, SocketsKept, QueueFrom
  <1> QED
    BY <1>1, <1>2, <1>3

-----------------------------------------------------------------------------
\* The device

LEMMA HardwareDoneStep ==
    ASSUME Queue, HardwareDone
    PROVE  Queue'
  <1> DEFINE x == [to |-> Head(requests), error |-> FALSE]
  <1>1. /\ requests # <<>> /\ requests' = Tail(requests)
        /\ up' = (Head(requests) = "up")
        /\ status' = IF up' = up THEN status ELSE Append(status, x)
        /\ UNCHANGED <<manager, sockets, upRequest, before, plane, troubles, misnamed>>
    BY DEF HardwareDone
  <1>2. /\ Head(requests) \in {"up", "down"} /\ Tail(requests) \in Seq({"up", "down"})
        /\ requests \in Seq({"up", "down"}) /\ status \in Seq(Signal) /\ up \in BOOLEAN
    BY <1>1, QueueFacts, TailSeq DEF DeviceTyped
  <1>3. x \in Signal /\ x.to = Head(requests)
    BY <1>2 DEF Signal
  <1>4. /\ Append(status, x) \in Seq(Signal) /\ Append(status, x) # <<>>
        /\ LossIn(status) \/ Head(requests) = "down" => LossIn(Append(status, x))
    <2> HIDE DEF x, Signal
    <2> QED
      BY <1>2, <1>3, AppendSeq, LossAppend
  <1>5. \A kind : In(requests, kind) /\ kind # Head(requests) => In(requests', kind)
    BY <1>1, <1>2, InTail
  <1>6. up' \in BOOLEAN /\ status' \in Seq(Signal)
    BY <1>1, <1>2, <1>4
  <1>7. DeviceTyped'
    BY <1>1, <1>2, <1>6, QueueFacts DEF DeviceTyped
  <1>8. Awaited'
    <2>1. UNCHANGED <<events, posts, server, lost, misnamed>>
      BY <1>1 DEF manager
    <2>2. /\ status # <<>> => status' # <<>>
          /\ LossIn(status) => LossIn(status')
      BY <1>1, <1>4
    <2>3. ~up /\ In(requests, "up") => status' # <<>> \/ (~up' /\ In(requests', "up"))
      BY <1>1, <1>2, <1>4, <1>5
    <2>4. up /\ In(requests, "down") => LossIn(status') \/ (up' /\ In(requests', "down"))
      BY <1>1, <1>2, <1>4, <1>5
    <2> HIDE DEF x
    <2> QED
      BY <2>1, <2>2, <2>3, <2>4, QueueFacts DEF Awaited, HeadIs, Running
  <1> QED
    BY <1>1, <1>7, <1>8, QueueFacts, ManagerKept, SocketsKept, QueueFrom DEF manager

LEMMA HardwareFailsStep ==
    ASSUME Queue, HardwareFails
    PROVE  Queue'
  <1> DEFINE x == [to |-> IF upRequest THEN "up" ELSE "down", error |-> TRUE]
  <1>1. /\ requests # <<>> /\ requests' = Tail(requests)
        /\ status' = Append(status, x)
        /\ troubles < MaxTroubles /\ troubles' = troubles + 1
        /\ misnamed' = (misnamed \/ upRequest # (Head(requests) = "up"))
        /\ UNCHANGED <<manager, sockets, up, upRequest, before, plane>>
    BY DEF HardwareFails
  <1>2. /\ Head(requests) \in {"up", "down"} /\ Tail(requests) \in Seq({"up", "down"})
        /\ requests \in Seq({"up", "down"}) /\ status \in Seq(Signal) /\ upRequest \in BOOLEAN
    BY <1>1, QueueFacts, TailSeq DEF DeviceTyped
  <1>3. x \in Signal /\ x.to = IF upRequest THEN "up" ELSE "down"
    BY DEF Signal
  <1>4. /\ Append(status, x) \in Seq(Signal) /\ Append(status, x) # <<>>
        /\ LossIn(status) \/ ~upRequest => LossIn(Append(status, x))
    <2> HIDE DEF x, Signal
    <2> QED
      BY <1>2, <1>3, AppendSeq, LossAppend
  <1>5. In(requests, "down") /\ "down" # Head(requests) => In(requests', "down")
    BY <1>1, <1>2, InTail
  <1>6. /\ misnamed' \in BOOLEAN
        /\ ~misnamed' => ~misnamed /\ upRequest = (Head(requests) = "up")
    BY <1>1, Zenon
  <1>7. DeviceTyped'
    BY <1>1, <1>2, <1>4, <1>6, QueueFacts, BoundsAssumption DEF DeviceTyped
  <1>8. Awaited'
    <2>1. UNCHANGED <<events, posts, server, lost, up>>
      BY <1>1 DEF manager
    <2>2. status' # <<>> /\ (LossIn(status) => LossIn(status'))
      BY <1>1, <1>4
    <2>3. ~misnamed' /\ In(requests, "down") => LossIn(status') \/ In(requests', "down")
      BY <1>1, <1>2, <1>4, <1>5, <1>6
    <2> HIDE DEF x
    <2> QED
      BY <1>6, <2>1, <2>2, <2>3, QueueFacts DEF Awaited, HeadIs, Running
  <1> QED
    BY <1>1, <1>7, <1>8, QueueFacts, ManagerKept, SocketsKept, QueueFrom DEF manager

LEMMA PlaneStep ==
    ASSUME Queue, PlaneModeChanged
    PROVE  Queue'
  <1>1. /\ troubles < MaxTroubles /\ troubles' = troubles + 1
        /\ plane' = ~plane
        /\ before' \in {up, before}
        /\ UNCHANGED <<manager, sockets, up, misnamed, status>>
        /\ \/ Ask("down") \/ Ask("up") \/ UNCHANGED <<requests, upRequest>>
    BY DEF PlaneModeChanged, Ask
  <1>2. requests \in Seq({"up", "down"})
    BY QueueFacts
  <1>3. /\ requests' \in Seq({"up", "down"}) /\ upRequest' \in BOOLEAN
        /\ \A kind : In(requests, kind) => In(requests', kind)
    <2>1. ASSUME NEW k \in {"up", "down"}, Ask(k)
          PROVE  /\ requests' \in Seq({"up", "down"}) /\ upRequest' \in BOOLEAN
                 /\ \A kind : In(requests, kind) => In(requests', kind)
      BY <1>2, <2>1, AppendSeq, InAppend DEF Ask
    <2>2. CASE UNCHANGED <<requests, upRequest>>
      BY <1>2, <2>2, QueueFacts DEF DeviceTyped
    <2> QED
      BY <1>1, <2>1, <2>2
  <1>4. DeviceTyped'
    BY <1>1, <1>3, QueueFacts, BoundsAssumption DEF DeviceTyped
  <1>5. Awaited'
    BY <1>1, <1>3, QueueFacts DEF Awaited, HeadIs, Running, manager
  <1> QED
    BY <1>1, <1>4, <1>5, QueueFacts, ManagerKept, SocketsKept, QueueFrom DEF manager

-----------------------------------------------------------------------------
\* Connections, controllers and applications

LEMMA ReadyReadStep ==
    ASSUME Queue, NEW d \in Ids, ReadyRead(d)
    PROVE  Queue'
  <1>1. /\ toServer[d] # <<>>
        /\ toServer' = [toServer EXCEPT ![d] = Tail(@)]
        /\ UNCHANGED <<sessions, state, timer, server, lost, device, conns, peer, toClient, reused>>
        /\ \/ \E type \in {"SESSION_PRE_OPEN", "SESSION_CLOSE"} : Enqueue(Ev(type, d))
           \/ UNCHANGED <<events, posts>>
    BY DEF ReadyRead
  <1>2. SocketsTyped'
    <2>1. toServer \in [Ids -> Seq(Asks)]
      BY QueueFacts DEF SocketsTyped
    <2>2. Tail(toServer[d]) \in Seq(Asks)
      BY <1>1, <2>1, TailSeq
    <2>3. toServer' \in [Ids -> Seq(Asks)]
      BY <1>1, <2>1, <2>2
    <2> QED
      BY <1>1, <2>3, QueueFacts DEF SocketsTyped
  <1>3. /\ events' \in Seq(Event) /\ posts' \in Nat /\ OrderedIn(events') /\ Awaited'
    <2>1. CASE UNCHANGED <<events, posts>>
      BY <1>1, <2>1, QueueFacts DEF Awaited, HeadIs, Running, device
    <2>2. ASSUME NEW type \in {"SESSION_PRE_OPEN", "SESSION_CLOSE"}, Enqueue(Ev(type, d))
          PROVE  /\ events' \in Seq(Event) /\ posts' \in Nat /\ OrderedIn(events') /\ Awaited'
      <3>1. Ev(type, d) \in PlainEvent
        BY Plain
      <3> QED
        BY <1>1, <2>2, <3>1, Enqueued DEF device
    <2> QED
      BY <1>1, <2>1, <2>2
  <1>4. ManagerTyped'
    BY <1>1, <1>3, QueueFacts DEF ManagerTyped
  <1> QED
    BY <1>1, <1>2, <1>3, <1>4, QueueFacts, DeviceKept, QueueFrom

LEMMA StateChangedStep ==
    ASSUME Queue, NEW d \in Ids, StateChanged(d)
    PROVE  Queue'
  <1>1. /\ conns' = conns \ {d}
        /\ peer' = [peer EXCEPT ![d] = "none"]
        /\ toClient' = [toClient EXCEPT ![d] = <<>>]
        /\ UNCHANGED <<sessions, state, timer, server, lost, device, toServer, reused>>
        /\ Enqueue(Ev("SESSION_CLOSE", d)) \/ UNCHANGED <<events, posts>>
    BY DEF StateChanged
  <1>2. SocketsTyped'
    <2>1. <<>> \in Seq(Answers)
      BY EmptySeq
    <2> QED
      BY <1>1, <2>1, QueueFacts DEF SocketsTyped
  <1>3. /\ events' \in Seq(Event) /\ posts' \in Nat /\ OrderedIn(events') /\ Awaited'
    <2>1. CASE UNCHANGED <<events, posts>>
      BY <1>1, <2>1, QueueFacts DEF Awaited, HeadIs, Running, device
    <2>2. CASE Enqueue(Ev("SESSION_CLOSE", d))
      <3>1. Ev("SESSION_CLOSE", d) \in PlainEvent
        BY Plain
      <3> QED
        BY <1>1, <2>2, <3>1, Enqueued DEF device
    <2> QED
      BY <1>1, <2>1, <2>2
  <1>4. ManagerTyped'
    BY <1>1, <1>3, QueueFacts DEF ManagerTyped
  <1> QED
    BY <1>1, <1>2, <1>3, <1>4, QueueFacts, DeviceKept, QueueFrom

LEMMA ControllerStep ==
    ASSUME Queue, Controller
    PROVE  Queue'
  <1>1. PICK type \in Controls : Control(type)
    BY DEF Controller
  <1>2. /\ troubles < MaxTroubles /\ troubles' = troubles + 1
        /\ Enqueue(Ev(type, 0))
        /\ UNCHANGED <<sessions, state, timer, server, lost, sockets,
                       up, requests, status, upRequest, before, plane, misnamed>>
    BY <1>1 DEF Control
  <1>3. Ev(type, 0) \in PlainEvent
    BY Plain, ControlsAssumption
  <1>4. events' \in Seq(Event) /\ posts' \in Nat /\ OrderedIn(events') /\ Awaited'
    BY <1>2, <1>3, Enqueued
  <1>5. ManagerTyped' /\ DeviceTyped'
    BY <1>2, <1>4, QueueFacts, BoundsAssumption DEF ManagerTyped, DeviceTyped
  <1> QED
    BY <1>2, <1>4, <1>5, QueueFacts, SocketsKept, QueueFrom

\* The applications' steps touch neither the queue nor the device
LEMMA ClientsStep ==
    ASSUME Queue, UNCHANGED <<manager, device>>, SocketsTyped'
    PROVE  Queue'
  <1>1. Awaited' /\ OrderedIn(events')
    BY QueueFacts DEF Awaited, HeadIs, Running, manager, device
  <1> QED
    BY <1>1, QueueFacts, ManagerKept, DeviceKept, QueueFrom

\* A line written by the application on its socket
LEMMA Written ==
    ASSUME SocketsTyped, NEW d \in Ids, NEW line \in Asks
    PROVE  /\ [toServer EXCEPT ![d] = Append(@, line)] \in [Ids -> Seq(Asks)]
           /\ [toServer EXCEPT ![d] = <<"SESSION_OPEN">>] \in [Ids -> Seq(Asks)]
  <1>1. toServer \in [Ids -> Seq(Asks)]
    BY DEF SocketsTyped
  <1>2. Append(toServer[d], line) \in Seq(Asks)
    BY <1>1, AppendSeq
  <1>3. <<"SESSION_OPEN">> \in Seq(Asks)
    BY OneSeq DEF Asks
  <1> QED
    BY <1>1, <1>2, <1>3

\* The descriptor a connection is accepted with
LEMMA FreeIsFree ==
    ASSUME conns \subseteq Ids, Ids \ conns # {}
    PROVE  Min(Ids \ conns) \in Ids \ conns
  BY MinIn, IdsAssumption

LEMMA StartStep ==
    ASSUME Queue, ClientTyped, NEW c \in Clients, StartSession(c)
    PROVE  Queue' /\ ClientTyped'
  <1> DEFINE d == Min(Ids \ conns)
  <1>1. /\ starts < MaxStarts /\ starts' = starts + 1
        /\ inRequest' = [inRequest EXCEPT ![c] = TRUE]
        /\ UNCHANGED <<manager, device, toClient, isOpen>>
    BY DEF StartSession
  <1>2. CASE /\ sock[c] # 0
             /\ toServer' = [toServer EXCEPT ![sock[c]] = Append(@, "SESSION_OPEN")]
             /\ UNCHANGED <<sock, conns, peer, reused>>
    <2>1. sock[c] \in Ids
      BY <1>2 DEF ClientTyped
    <2>2. toServer' \in [Ids -> Seq(Asks)]
      BY <1>2, <2>1, QueueFacts, Written DEF Asks
    <2>3. SocketsTyped'
      BY <1>1, <1>2, <2>2, QueueFacts DEF SocketsTyped
    <2>4. ClientTyped'
      BY <1>1, <1>2, SessionBounds DEF ClientTyped
    <2> QED
      BY <1>1, <2>3, <2>4, ClientsStep
  <1>3. CASE /\ sock[c] = 0 /\ Ids \ conns # {}
             /\ sock' = [sock EXCEPT ![c] = d]
             /\ conns' = conns \cup {d}
             /\ peer' = [peer EXCEPT ![d] = "open"]
             /\ toServer' = [toServer EXCEPT ![d] = <<"SESSION_OPEN">>]
             /\ reused' = (reused \/ \E i \in DOMAIN events : events[i].id = d)
    <2>1. d \in Ids
      BY <1>3, QueueFacts, FreeIsFree
    <2>2. reused' \in BOOLEAN
      BY <1>3, Zenon
    <2> HIDE DEF d
    <2>3. toServer' \in [Ids -> Seq(Asks)]
      BY <1>3, <2>1, QueueFacts, Written DEF Asks
    <2>4. SocketsTyped'
      BY <1>1, <1>3, <2>1, <2>2, <2>3, QueueFacts DEF SocketsTyped
    <2>5. ClientTyped'
      BY <1>1, <1>3, <2>1, SessionBounds DEF ClientTyped
    <2> QED
      BY <1>1, <2>4, <2>5, ClientsStep
  <1> QED
    BY <1>2, <1>3 DEF StartSession

LEMMA EndStep ==
    ASSUME Queue, ClientTyped, NEW c \in Clients, EndSession(c)
    PROVE  Queue' /\ ClientTyped'
  <1>1. /\ sock[c] # 0
        /\ toServer' = [toServer EXCEPT ![sock[c]] = Append(@, "SESSION_CLOSE")]
        /\ peer' = [peer EXCEPT ![sock[c]] = "closed"]
        /\ isOpen' = [isOpen EXCEPT ![c] = FALSE]
        /\ sock' = [sock EXCEPT ![c] = 0]
        /\ UNCHANGED <<manager, device, conns, reused, toClient, inRequest, starts>>
    BY DEF EndSession
  <1>2. sock[c] \in Ids
    BY <1>1 DEF ClientTyped
  <1>3. toServer' \in [Ids -> Seq(Asks)]
    BY <1>1, <1>2, QueueFacts, Written DEF Asks
  <1>4. SocketsTyped' /\ ClientTyped'
    BY <1>1, <1>2, <1>3, QueueFacts DEF SocketsTyped, ClientTyped
  <1> QED
    BY <1>1, <1>4, ClientsStep

LEMMA DiesStep ==
    ASSUME Queue, ClientTyped, NEW c \in Clients, Dies(c)
    PROVE  Queue' /\ ClientTyped'
  <1>1. SocketsTyped' /\ ClientTyped'
    BY QueueFacts DEF Dies, SocketsTyped, ClientTyped
  <1> QED
    BY <1>1, ClientsStep DEF Dies

LEMMA SessionReadStep ==
    ASSUME Queue, ClientTyped, NEW c \in Clients, SessionReadyRead(c)
    PROVE  Queue' /\ ClientTyped'
  <1> DEFINE line == Head(toClient[sock[c]])
  <1>1. /\ sock[c] # 0 /\ toClient[sock[c]] # <<>>
        /\ toClient' = [toClient EXCEPT ![sock[c]] = Tail(@)]
        /\ isOpen' = [isOpen EXCEPT ![c] =
                        line = "SESSION_STARTED" \/ (line = "SESSION_FAILED" /\ isOpen[c])]
        /\ inRequest' = [inRequest EXCEPT ![c] = line = "SESSION_CLOSED" /\ inRequest[c]]
        /\ \/ /\ sock' = [sock EXCEPT ![c] = 0]
              /\ peer' = [peer EXCEPT ![sock[c]] = "closed"]
           \/ UNCHANGED <<sock, peer>>
        /\ UNCHANGED <<manager, device, conns, reused, toServer, starts>>
    BY DEF SessionReadyRead, ClientTyped
  <1>2. sock[c] \in Ids
    BY <1>1 DEF ClientTyped
  <1>3. Tail(toClient[sock[c]]) \in Seq(Answers)
    BY <1>1, <1>2, QueueFacts, TailSeq DEF SocketsTyped
  <1>4. SocketsTyped'
    BY <1>1, <1>2, <1>3, QueueFacts DEF SocketsTyped
  <1>5. ClientTyped'
    <2>1. isOpen' \in [Clients -> BOOLEAN]
      BY <1>1 DEF ClientTyped
    <2>2. inRequest' \in [Clients -> BOOLEAN]
      BY <1>1 DEF ClientTyped
    <2> QED
      BY <1>1, <1>2, <2>1, <2>2 DEF ClientTyped
  <1> QED
    BY <1>1, <1>4, <1>5, ClientsStep

-----------------------------------------------------------------------------
\* The first theorem

Handled ==
    \/ DoPendingEmpty \/ DoPreOpenSession \/ DoOpenSession \/ DoCloseSession
    \/ DoUp \/ DoDown \/ SpuriousUp \/ UpStatus \/ DownStatus
    \/ HardwareDone \/ HardwareFails \/ Timeout \/ PlaneModeChanged
    \/ \E d \in Ids : ReadyRead(d) \/ StateChanged(d)

\* What the manager and the device do, and what applications do
LEMMA StepKinds ==
    ASSUME Next
    PROVE  \/ Handled /\ UNCHANGED <<client, starts>>
           \/ Controller /\ UNCHANGED <<client, starts>>
           \/ \E c \in Clients : \/ SessionReadyRead(c) \/ StartSession(c)
                                 \/ EndSession(c) \/ Dies(c)
  BY Zenon DEF Next, Progress, Pendings, Statuses, Hardware, Lines, Handled, Controller

LEMMA HandledStep ==
    ASSUME Queue, Handled
    PROVE  Queue'
  BY EmptyStep, PreOpenStep, OpenStep, CloseStep, UpStep, DownStep, SpuriousUpStep,
     UpStatusStep, DownStatusStep, HardwareDoneStep, HardwareFailsStep, TimeoutStep,
     PlaneStep, ReadyReadStep, StateChangedStep DEF Handled

QueueInv == Queue /\ ClientTyped

LEMMA InitQueue == Init => QueueInv
  <1> SUFFICES ASSUME Init PROVE QueueInv
    OBVIOUS
  <1> USE EmptySeq, BoundsAssumption, SessionBounds DEF Init, ManagerInit
  <1>1. ManagerTyped
    <2>1. <<>> \in Seq(Event)
      BY EmptySeq
    <2> QED
      BY <2>1 DEF ManagerTyped, States
  <1>2. DeviceTyped
    <2>1. <<>> \in Seq(Signal) /\ <<>> \in Seq({"up", "down"})
      BY EmptySeq
    <2>2. /\ up \in BOOLEAN /\ upRequest \in BOOLEAN /\ plane \in BOOLEAN
          /\ misnamed \in BOOLEAN
      OBVIOUS
    <2>3. before \in BOOLEAN
      BY <2>2, Zenon
    <2>4. requests = <<>> /\ status = <<>> /\ troubles \in 0..MaxTroubles
      OBVIOUS
    <2> HIDE DEF Init, ManagerInit
    <2> QED
      BY <2>1, <2>2, <2>3, <2>4, Zenon DEF DeviceTyped
  <1>3. SocketsTyped
    <2>1. <<>> \in Seq(Asks) /\ <<>> \in Seq(Answers)
      BY EmptySeq
    <2> QED
      BY <2>1 DEF SocketsTyped
  <1>4. ClientTyped
    BY DEF ClientTyped
  <1>5. Ordered /\ Awaited
    BY OrderedEmpty DEF Ordered, Awaited
  <1> QED
    BY <1>1, <1>2, <1>3, <1>4, <1>5 DEF QueueInv, Queue, ServerTyped

LEMMA NextQueue == QueueInv /\ [Next]_vars => QueueInv'
  <1> SUFFICES ASSUME Queue, ClientTyped, [Next]_vars PROVE Queue' /\ ClientTyped'
    BY DEF QueueInv
  <1>1. CASE Handled /\ UNCHANGED <<client, starts>>
    BY <1>1, HandledStep DEF client, ClientTyped
  <1>2. CASE Controller /\ UNCHANGED <<client, starts>>
    BY <1>2, ControllerStep DEF client, ClientTyped
  <1>3. ASSUME NEW c \in Clients,
               SessionReadyRead(c) \/ StartSession(c) \/ EndSession(c) \/ Dies(c)
        PROVE  Queue' /\ ClientTyped'
    BY <1>3, SessionReadStep, StartStep, EndStep, DiesStep
  <1>4. CASE UNCHANGED vars
    <2>1. UNCHANGED <<manager, device, sockets, client, starts>>
      BY <1>4 DEF vars
    <2>2. SocketsTyped' /\ ClientTyped'
      BY <2>1, QueueFacts, SocketsKept DEF ClientTyped, client
    <2> QED
      BY <2>1, <2>2, ClientsStep
  <1> QED
    BY <1>1, <1>2, <1>3, <1>4, StepKinds

LEMMA AlwaysQueue == Spec => []QueueInv
  BY InitQueue, NextQueue, PTL DEF Spec

\* The queue neither stops nor gets out of order, whatever descriptors are
\* given out, however often the device fails and settings switch it
\* (doPending(), upStatus(), the early returns of doOpenSession() and
\* doCloseSession())
THEOREM QueueNeverStops == Spec => []QueueInOrder
  <1>1. QueueInv => QueueInOrder
    <2> SUFFICES ASSUME Queue, ClientTyped PROVE QueueInOrder
      BY DEF QueueInv
    <2>1. TypeOK
      BY TypeParts DEF Queue
    <2>2. UpBeforeOpen
      BY QueueFacts DEF OrderedIn, UpBeforeOpen
    <2>3. Driven
      <3> SUFFICES ASSUME Running, ~lost, ~misnamed, events # <<>>, posts = 0
                   PROVE  requests # <<>> \/ status # <<>>
        BY QueueFacts DEF Driven
      <3>1. /\ \A kind : In(<<>>, kind) = FALSE
            /\ LossIn(<<>>) = FALSE
        BY DEF In, LossIn
      <3> QED
        BY <3>1, QueueFacts DEF Awaited
    <2> QED
      BY <2>1, <2>2, <2>3 DEF QueueInOrder
  <1> QED
    BY <1>1, AlwaysQueue, PTL

-----------------------------------------------------------------------------
\* What sessions are backed by

\* A signal that the device came up is true, or followed by one that it went
UpsIn(q, isUp) ==
    \A i \in DOMAIN q : q[i].to = "up" /\ ~q[i].error =>
        isUp \/ \E j \in DOMAIN q : i < j /\ q[j].to = "down"

CloseIn(q, d) == \E i \in DOMAIN q : q[i] = Ev("SESSION_CLOSE", d)

LEMMA UpsAppend ==
    ASSUME NEW q \in Seq(Signal), NEW x \in Signal, NEW u \in BOOLEAN, NEW v \in BOOLEAN,
           UpsIn(q, u), x.to = "up" /\ ~x.error => v, u => v \/ x.to = "down"
    PROVE  UpsIn(Append(q, x), v)
  <1> HIDE DEF Signal
  <1> DEFINE r == Append(q, x)
  <1>1. /\ DOMAIN r = DOMAIN q \cup {Len(q) + 1} /\ Len(q) \in Nat /\ DOMAIN q = 1..Len(q)
        /\ \A i \in DOMAIN q : r[i] = q[i]
        /\ r[Len(q) + 1] = x
    BY AppendSeq
  <1> HIDE DEF r
  <1>2. ASSUME NEW i \in DOMAIN r, r[i].to = "up", ~r[i].error, ~v
        PROVE  \E j \in DOMAIN r : i < j /\ r[j].to = "down"
    <2>1. i \in DOMAIN q /\ q[i].to = "up" /\ ~q[i].error
      BY <1>1, <1>2
    <2>2. CASE \E j \in DOMAIN q : i < j /\ q[j].to = "down"
      BY <1>1, <2>2
    <2>3. CASE u
      BY <1>1, <1>2, <2>1, <2>3
    <2> QED
      BY <2>1, <2>2, <2>3 DEF UpsIn
  <1> QED
    BY <1>2 DEF UpsIn, r

LEMMA UpsTail ==
    ASSUME NEW q \in Seq(Signal), NEW u \in BOOLEAN, UpsIn(q, u), q # <<>>
    PROVE  /\ UpsIn(Tail(q), u)
           /\ Head(q).to = "up" /\ ~Head(q).error => u \/ LossIn(Tail(q))
  <1> HIDE DEF Signal
  <1> DEFINE r == Tail(q)
  <1>1. /\ DOMAIN q = 1..Len(q) /\ Len(q) \in Nat \ {0} /\ Head(q) = q[1] /\ 1 \in DOMAIN q
        /\ DOMAIN r = 1..(Len(q) - 1)
        /\ \A i \in DOMAIN r : i + 1 \in DOMAIN q /\ r[i] = q[i + 1]
        /\ \A i \in DOMAIN q : i # 1 => i - 1 \in DOMAIN r /\ r[i - 1] = q[i]
    BY TailSeq
  <1> HIDE DEF r
  <1>2. ASSUME NEW i \in DOMAIN r, r[i].to = "up", ~r[i].error, ~u
        PROVE  \E j \in DOMAIN r : i < j /\ r[j].to = "down"
    <2>1. PICK j \in DOMAIN q : i + 1 < j /\ q[j].to = "down"
      BY <1>1, <1>2 DEF UpsIn
    <2>2. j - 1 \in DOMAIN r /\ r[j - 1] = q[j] /\ i < j - 1
      BY <1>1, <2>1
    <2> QED
      BY <2>1, <2>2
  <1>3. ASSUME q[1].to = "up", ~q[1].error, ~u
        PROVE  LossIn(r)
    <2>1. PICK j \in DOMAIN q : 1 < j /\ q[j].to = "down"
      BY <1>1, <1>3 DEF UpsIn
    <2>2. j - 1 \in DOMAIN r /\ r[j - 1] = q[j]
      BY <1>1, <2>1
    <2> QED
      BY <2>1, <2>2 DEF LossIn
  <1> QED
    BY <1>1, <1>2, <1>3 DEF UpsIn, r

LEMMA CloseAppend ==
    ASSUME NEW q \in Seq(Event), NEW e \in Event, NEW d
    PROVE  CloseIn(Append(q, e), d) <=> CloseIn(q, d) \/ e = Ev("SESSION_CLOSE", d)
  <1> HIDE DEF Event
  <1> QED
    BY AppendSeq DEF CloseIn

LEMMA CloseTail ==
    ASSUME NEW q \in Seq(Event), q # <<>>, NEW d
    PROVE  /\ CloseIn(Tail(q), d) => CloseIn(q, d)
           /\ CloseIn(q, d) /\ Head(q) # Ev("SESSION_CLOSE", d) => CloseIn(Tail(q), d)
  <1> HIDE DEF Event
  <1>1. /\ Head(q) = q[1]
        /\ \A i \in DOMAIN Tail(q) : i + 1 \in DOMAIN q /\ Tail(q)[i] = q[i + 1]
        /\ \A i \in DOMAIN q : i # 1 => i - 1 \in DOMAIN Tail(q) /\ Tail(q)[i - 1] = q[i]
    BY TailSeq
  <1>2. ASSUME CloseIn(q, d), Head(q) # Ev("SESSION_CLOSE", d)
        PROVE  CloseIn(Tail(q), d)
    <2>1. PICK i \in DOMAIN q : q[i] = Ev("SESSION_CLOSE", d)
      BY <1>2 DEF CloseIn
    <2>2. i # 1
      BY <1>1, <1>2, <2>1
    <2> QED
      BY <1>1, <2>1, <2>2 DEF CloseIn
  <1> QED
    BY <1>1, <1>2 DEF CloseIn

LEMMA CloseOpening ==
    ASSUME NEW q \in Seq(Event), q # <<>>, OrderedIn(q), NEW isUp \in BOOLEAN,
           NEW id \in Ids, Head(q).type = "SESSION_PRE_OPEN", NEW d
    PROVE  CloseIn(Opening(q, isUp, id), d) <=> CloseIn(q, d)
  <1> DEFINE o == Opening(q, isUp, id)
             x == Ev("SESSION_CLOSE", d)
  <1>1. /\ \A i \in DOMAIN o : o[i].type = "SESSION_CLOSE" => \E k \in DOMAIN q : q[k] = o[i]
        /\ \A k \in DOMAIN q : k # 1 => \E i \in DOMAIN o : o[i] = q[k]
    BY OrderedOpening
  <1>2. q[1].type = "SESSION_PRE_OPEN"
    BY TailSeq
  <1>3. x.type = "SESSION_CLOSE"
    BY DEF Ev
  <1> HIDE DEF o, x
  <1>4. (\E i \in DOMAIN o : o[i] = x) <=> (\E k \in DOMAIN q : q[k] = x)
    BY <1>1, <1>2, <1>3
  <1> QED
    BY <1>4 DEF CloseIn, o, x

\* A session, and an event that grants one, stand on a device that is up, or
\* whose loss the manager is about to be told
Granted == Running /\ (sessions # {} \/ HeadIs({"SESSION_OPEN"})) => up \/ LossIn(status)
Connected == Running => \A d \in sessions \ conns : CloseIn(events, d)
Backed == UpsIn(status, up) /\ Granted /\ Connected

LEMMA BackedKept ==
    ASSUME Backed, Queue, UNCHANGED <<server, sessions, up, status>>, conns \subseteq conns',
           ~HeadIs({"SESSION_OPEN"})' \/ (UNCHANGED events),
           \A d \in sessions \ conns : CloseIn(events, d) => CloseIn(events', d)
    PROVE  Backed'
  <1>1. UpsIn(status, up)'
    BY DEF Backed
  <1>2. Granted'
    BY DEF Backed, Granted, HeadIs, Running
  <1>3. Connected'
    BY DEF Backed, Connected, Running
  <1> QED
    BY <1>1, <1>2, <1>3 DEF Backed

LEMMA PreOpenBacked ==
    ASSUME Queue, Backed, DoPreOpenSession
    PROVE  Backed'
  <1> DEFINE id == Head(events).id
  <1>1. /\ events # <<>> /\ Head(events).type = "SESSION_PRE_OPEN"
        /\ UNCHANGED <<sessions, server, up, status, conns>>
    BY DEF DoPreOpenSession, Pending, HeadIs, device
  <1>2. \/ events' = Tail(events)
        \/ id \in Ids /\ events' = Opening(events, up, id)
    BY QueueFacts DEF DoPreOpenSession, Opening
  <1>3. \A d : Head(events) # Ev("SESSION_CLOSE", d)
    BY <1>1 DEF Ev
  <1>4. events \in Seq(Event) /\ OrderedIn(events) /\ up \in BOOLEAN
    BY QueueFacts DEF DeviceTyped
  <1>5. CASE events' = Tail(events)
    <2>1. ~HeadIs({"SESSION_OPEN"})'
      BY <1>1, <1>4, <1>5, BehindHead DEF HeadIs
    <2>2. \A d : CloseIn(events, d) => CloseIn(events', d)
      BY <1>1, <1>3, <1>4, <1>5, CloseTail
    <2> QED
      BY <1>1, <2>1, <2>2, BackedKept
  <1>6. CASE id \in Ids /\ events' = Opening(events, up, id)
    <2>1. \A d : CloseIn(events, d) => CloseIn(events', d)
      BY <1>1, <1>4, <1>6, CloseOpening
    <2>2. CASE ~up
      <3>1. ~HeadIs({"SESSION_OPEN"})'
        BY <1>1, <1>4, <1>6, <2>2, OrderedOpening DEF HeadIs
      <3> QED
        BY <1>1, <2>1, <3>1, BackedKept
    <2>3. CASE up
      BY <1>1, <2>1, <2>3 DEF Backed, Granted, Connected, Running
    <2> QED
      BY <2>2, <2>3
  <1> QED
    BY <1>2, <1>5, <1>6

LEMMA OpenBacked ==
    ASSUME Queue, Backed, DoOpenSession
    PROVE  Backed'
  <1> DEFINE id == Head(events).id
  <1>1. /\ Running /\ events # <<>> /\ Head(events).type = "SESSION_OPEN"
        /\ events' = Tail(events)
        /\ UNCHANGED <<server, up, status, conns>>
        /\ sessions' = sessions \/ (id \in conns /\ sessions' = sessions \cup {id})
    BY DEF DoOpenSession, Pending, HeadIs, device
  <1>2. up \/ LossIn(status)
    BY <1>1 DEF Backed, Granted, HeadIs
  <1>3. \A d : Head(events) # Ev("SESSION_CLOSE", d)
    BY <1>1 DEF Ev
  <1>4. \A d : CloseIn(events, d) => CloseIn(events', d)
    BY <1>1, <1>3, QueueFacts, CloseTail
  <1> QED
    BY <1>1, <1>2, <1>4 DEF Backed, Granted, Connected, Running

LEMMA CloseBacked ==
    ASSUME Queue, Backed, DoCloseSession
    PROVE  Backed'
  <1> DEFINE rest == Tail(events)
             id == Head(events).id
             e == Ev("DEVICE_DOWN", 0)
  <1>1. /\ Running /\ events # <<>> /\ Head(events).type = "SESSION_CLOSE"
        /\ sessions' = sessions \ {id}
        /\ UNCHANGED <<server, up, status, conns>>
        /\ events' = rest \/ events' = Append(rest, e)
    BY DEF DoCloseSession, Pending, HeadIs, device, sockets
  <1>2. /\ events \in Seq(Event) /\ OrderedIn(events) /\ rest \in Seq(Event) /\ OrderedIn(rest)
        /\ e \in PlainEvent /\ e \in Event /\ e.type = "DEVICE_DOWN"
    BY <1>1, QueueFacts, HeadEvent, Plain DEF PlainEvent
  <1>3. rest # <<>> => Head(rest).type # "SESSION_OPEN"
    BY <1>1, <1>2, BehindHead
  <1>4. ~HeadIs({"SESSION_OPEN"})'
    <2>1. CASE events' = rest
      BY <1>3, <2>1 DEF HeadIs
    <2>2. CASE events' = Append(rest, e)
      <3>1. rest # <<>> => Head(Append(rest, e)) = Head(rest)
        BY <1>2, AppendQueue
      <3> HIDE DEF e, rest
      <3>2. rest = <<>> => Append(rest, e) = <<e>>
        OBVIOUS
      <3> QED
        BY <1>2, <1>3, <2>2, <3>1, <3>2 DEF HeadIs
    <2> QED
      BY <1>1, <2>1, <2>2
  <1>5. ASSUME NEW d, d # id, CloseIn(events, d)
        PROVE  CloseIn(events', d)
    <2>1. Head(events) # Ev("SESSION_CLOSE", d)
      BY <1>5 DEF Ev
    <2>2. CloseIn(rest, d)
      BY <1>1, <1>2, <1>5, <2>1, CloseTail
    <2> HIDE DEF e, rest
    <2>3. CloseIn(Append(rest, e), d)
      BY <1>2, <2>2, CloseAppend
    <2> QED
      BY <1>1, <2>2, <2>3
  <1>6. Granted'
    BY <1>1, <1>4 DEF Backed, Granted, Running
  <1>7. Connected'
    BY <1>1, <1>5 DEF Backed, Connected
  <1> QED
    BY <1>1, <1>6, <1>7 DEF Backed

\* bringUp() and bringDown() can only add a failure to the signals
LEMMA RequestBacked ==
    ASSUME Queue, Backed, NEW kind \in {"up", "down"}, BtRequest(kind),
           UNCHANGED <<events, server, sessions, up, conns>>
    PROVE  Backed'
  <1>1. \/ status' = status
        \/ \E x \in Signal : x.to = kind /\ x.error /\ status' = Append(status, x)
    BY QueueFacts, Requested
  <1>2. status \in Seq(Signal) /\ up \in BOOLEAN /\ UpsIn(status, up)
    BY QueueFacts DEF DeviceTyped, Backed
  <1>3. UpsIn(status', up) /\ (LossIn(status) => LossIn(status'))
    BY <1>1, <1>2, UpsAppend, LossAppend
  <1>4. Granted'
    BY <1>3 DEF Backed, Granted, HeadIs, Running
  <1> QED
    BY <1>3, <1>4 DEF Backed, Connected, Running

LEMMA UpBacked ==
    ASSUME Queue, Backed, DoUp
    PROVE  Backed'
  <1>1. /\ events # <<>> /\ Head(events).type \in DeviceUps
        /\ UNCHANGED <<sessions, server, up, conns>>
        /\ \/ up /\ events' = Tail(events) /\ UNCHANGED status
           \/ BtRequest("up") /\ UNCHANGED events
    BY DEF DoUp, Pending, HeadIs, sockets
  <1>2. CASE BtRequest("up") /\ UNCHANGED events
    BY <1>1, <1>2, RequestBacked
  <1>3. CASE up /\ events' = Tail(events) /\ UNCHANGED status
    <2>1. \A d : Head(events) # Ev("SESSION_CLOSE", d)
      BY <1>1 DEF Ev, DeviceUps
    <2>2. \A d : CloseIn(events, d) => CloseIn(events', d)
      BY <1>1, <1>3, <2>1, QueueFacts, CloseTail
    <2> QED
      BY <1>1, <1>3, <2>2 DEF Backed, Granted, Connected, Running
  <1> QED
    BY <1>1, <1>2, <1>3

LEMMA DownBacked ==
    ASSUME Queue, Backed, DoDown
    PROVE  Backed'
  <1>1. /\ events # <<>> /\ Head(events).type = "DEVICE_DOWN"
        /\ UNCHANGED <<sessions, server, up, conns>>
        /\ \/ events' = Tail(events) /\ UNCHANGED status
           \/ BtRequest("down") /\ UNCHANGED events
    BY DEF DoDown, Pending, HeadIs, sockets
  <1>2. CASE BtRequest("down") /\ UNCHANGED events
    BY <1>1, <1>2, RequestBacked
  <1>3. CASE events' = Tail(events) /\ UNCHANGED status
    <2>1. \A d : Head(events) # Ev("SESSION_CLOSE", d)
      BY <1>1 DEF Ev
    <2>2. \A d : CloseIn(events, d) => CloseIn(events', d)
      BY <1>1, <1>3, <2>1, QueueFacts, CloseTail
    <2>3. ~HeadIs({"SESSION_OPEN"})'
      BY <1>1, <1>3, QueueFacts, BehindHead DEF HeadIs
    <2> QED
      BY <1>1, <1>3, <2>2, <2>3, BackedKept
  <1> QED
    BY <1>1, <1>2, <1>3

LEMMA SpuriousUpBacked ==
    ASSUME Queue, Backed, SpuriousUp
    PROVE  Backed'
  <1>1. /\ status # <<>> /\ Head(status).to = "up" /\ status' = Tail(status)
        /\ UNCHANGED <<events, sessions, server, conns, up>>
    BY DEF SpuriousUp, StatusIs, sockets
  <1>2. status \in Seq(Signal) /\ up \in BOOLEAN /\ UpsIn(status, up)
    BY QueueFacts DEF DeviceTyped, Backed
  <1>3. UpsIn(status', up) /\ (LossIn(status) => LossIn(status'))
    BY <1>1, <1>2, UpsTail, LossTail
  <1>4. Granted'
    BY <1>1, <1>3 DEF Backed, Granted, HeadIs, Running
  <1> QED
    BY <1>1, <1>3, <1>4 DEF Backed, Connected, Running

LEMMA UpStatusBacked ==
    ASSUME Queue, Backed, UpStatus
    PROVE  Backed'
  <1> DEFINE rest == Tail(events)
  <1>1. /\ status # <<>> /\ Head(status).to = "up" /\ status' = Tail(status)
        /\ events # <<>> /\ Head(events).type \in DeviceUps /\ server = "running"
        /\ UNCHANGED <<sessions, conns, up>>
    BY DEF UpStatus, StatusIs, HeadIs, Running
  <1>2. /\ status \in Seq(Signal) /\ up \in BOOLEAN /\ UpsIn(status, up)
        /\ events \in Seq(Event) /\ OrderedIn(events) /\ rest \in Seq(Event)
    BY <1>1, QueueFacts, HeadEvent DEF DeviceTyped, Backed
  <1>3. UpsIn(status', up) /\ (LossIn(status) => LossIn(status'))
    BY <1>1, <1>2, UpsTail, LossTail
  <1>4. \A d : CloseIn(events, d) => CloseIn(rest, d)
    <2>1. \A d : Head(events) # Ev("SESSION_CLOSE", d)
      BY <1>1 DEF Ev, DeviceUps
    <2> QED
      BY <1>1, <1>2, <2>1, CloseTail
  <1>5. \/ ~Head(status).error /\ events' = rest
        \/ Head(events).type # "DEVICE_UP_SESSION" /\ events' = rest
        \/ Head(events).type = "DEVICE_UP_SESSION" /\ events' = Tail(rest) /\ rest # <<>>
    BY <1>1, <1>2, BehindHead DEF UpStatus
  <1>6. CASE events' = rest /\ ~Head(status).error
    <2>1. up \/ LossIn(status')
      BY <1>1, <1>2, <1>6, UpsTail
    <2> QED
      BY <1>1, <1>3, <1>4, <1>6, <2>1 DEF Backed, Granted, Connected, Running
  <1>7. CASE events' = rest /\ Head(events).type # "DEVICE_UP_SESSION"
    <2>1. ~HeadIs({"SESSION_OPEN"})'
      BY <1>1, <1>2, <1>7, BehindHead DEF HeadIs
    <2> QED
      BY <1>1, <1>3, <1>4, <1>7, <2>1 DEF Backed, Granted, Connected, Running
  <1>8. CASE Head(events).type = "DEVICE_UP_SESSION" /\ events' = Tail(rest) /\ rest # <<>>
    <2>1. ~HeadIs({"SESSION_OPEN"})'
      BY <1>1, <1>2, <1>8, BehindHead DEF HeadIs
    <2>2. \A d : Head(rest) # Ev("SESSION_CLOSE", d)
      BY <1>1, <1>2, <1>8, BehindHead DEF Ev
    <2>3. \A d : CloseIn(rest, d) => CloseIn(events', d)
      BY <1>2, <1>8, <2>2, CloseTail
    <2> QED
      BY <1>1, <1>3, <1>4, <2>1, <2>3 DEF Backed, Granted, Connected, Running
  <1> QED
    BY <1>5, <1>6, <1>7, <1>8

LEMMA DownStatusBacked ==
    ASSUME Queue, Backed, DownStatus
    PROVE  Backed'
  <1>1. /\ Running /\ status # <<>> /\ status' = Tail(status) /\ UNCHANGED up
    BY DEF DownStatus, StatusIs
  <1>2. PICK q \in Seq(Event) : CloseAllSessions(q)
    <2>1. events # <<>> => Tail(events) \in Seq(Event)
      BY HeadEvent
    <2> QED
      BY <2>1, QueueFacts DEF DownStatus, HeadIs
  <1>3. server' = "running" => events' = <<>> /\ sessions' = {}
    BY <1>1, <1>2, Closed
  <1>4. UpsIn(status', up')
    BY <1>1, QueueFacts, UpsTail DEF DeviceTyped, Backed
  <1>5. Granted' /\ Connected'
    BY <1>3 DEF Granted, Connected, Running, HeadIs
  <1> QED
    BY <1>4, <1>5 DEF Backed

\* An event at the end of the queue does not become the head of one that
\* held an event, and is no SESSION_OPEN
LEMMA EnqueueBacked ==
    ASSUME Queue, Backed, NEW e \in PlainEvent, Enqueue(e),
           UNCHANGED <<server, lost, sessions, up, requests, status, misnamed>>,
           \A d \in sessions : d \in conns /\ d \notin conns' => e = Ev("SESSION_CLOSE", d)
    PROVE  Backed'
  <1>1. events' = Append(events, e) /\ (events # <<>> => Head(events') = Head(events))
    BY Enqueued
  <1>2. e \in Event /\ e.type # "SESSION_OPEN"
    BY DEF PlainEvent
  <1>3. events = <<>> => events' = <<e>>
    BY <1>1
  <1>4. HeadIs({"SESSION_OPEN"})' => HeadIs({"SESSION_OPEN"})
    BY <1>1, <1>2, <1>3 DEF HeadIs
  <1>5. \A d : CloseIn(events', d) <=> CloseIn(events, d) \/ e = Ev("SESSION_CLOSE", d)
    BY <1>1, <1>2, QueueFacts, CloseAppend
  <1>6. Granted'
    BY <1>4 DEF Backed, Granted, Running
  <1>7. Connected'
    BY <1>5 DEF Backed, Connected, Running
  <1> QED
    BY <1>6, <1>7 DEF Backed

LEMMA HardwareDoneBacked ==
    ASSUME Queue, Backed, HardwareDone
    PROVE  Backed'
  <1> DEFINE x == [to |-> Head(requests), error |-> FALSE]
  <1>1. /\ requests # <<>> /\ up' = (Head(requests) = "up")
        /\ status' = IF up' = up THEN status ELSE Append(status, x)
        /\ UNCHANGED <<events, sessions, server, conns>>
    BY DEF HardwareDone, manager, sockets
  <1>2. /\ Head(requests) \in {"up", "down"} /\ status \in Seq(Signal)
        /\ up \in BOOLEAN /\ UpsIn(status, up)
    BY <1>1, QueueFacts, TailSeq DEF DeviceTyped, Backed
  <1>3. x \in Signal /\ x.to = Head(requests)
    BY <1>2 DEF Signal
  <1>4. up' \in BOOLEAN /\ (up' <=> Head(requests) = "up")
    BY <1>1, Zenon
  <1> HIDE DEF x
  <1>5. UpsIn(Append(status, x), up')
    BY <1>2, <1>3, <1>4, UpsAppend
  <1>6. LossIn(Append(status, x)) <=> LossIn(status) \/ x.to = "down"
    BY <1>2, <1>3, LossAppend
  <1>7. UpsIn(status', up') /\ (up \/ LossIn(status) => up' \/ LossIn(status'))
    <2>1. CASE up' = up
      BY <1>1, <1>2, <2>1
    <2>2. CASE up' # up
      BY <1>1, <1>2, <1>3, <1>4, <1>5, <1>6, <2>2
    <2> QED
      BY <2>1, <2>2
  <1>8. Granted'
    BY <1>1, <1>7 DEF Backed, Granted, HeadIs, Running
  <1> QED
    BY <1>1, <1>7, <1>8 DEF Backed, Connected, Running

LEMMA HardwareFailsBacked ==
    ASSUME Queue, Backed, HardwareFails
    PROVE  Backed'
  <1> DEFINE x == [to |-> IF upRequest THEN "up" ELSE "down", error |-> TRUE]
  <1>1. /\ status' = Append(status, x)
        /\ UNCHANGED <<events, sessions, server, conns, up>>
    BY DEF HardwareFails, manager, sockets
  <1>2. x \in Signal /\ x.error
    BY DEF Signal
  <1>3. status \in Seq(Signal) /\ up \in BOOLEAN /\ UpsIn(status, up)
    BY QueueFacts DEF DeviceTyped, Backed
  <1> HIDE DEF x
  <1>4. UpsIn(status', up) /\ (LossIn(status) => LossIn(status'))
    BY <1>1, <1>2, <1>3, UpsAppend, LossAppend
  <1>5. Granted'
    BY <1>1, <1>4 DEF Backed, Granted, HeadIs, Running
  <1> QED
    BY <1>1, <1>4, <1>5 DEF Backed, Connected, Running

LEMMA TimeoutBacked ==
    ASSUME Queue, Backed, Timeout
    PROVE  Backed'
  <1>1. /\ UNCHANGED <<server, lost, sessions, up, requests, status, misnamed, conns>>
        /\ UNCHANGED events \/ Enqueue(Ev("DEVICE_DOWN", 0))
    BY DEF Timeout, device, sockets
  <1>2. Ev("DEVICE_DOWN", 0) \in PlainEvent
    BY Plain
  <1> QED
    BY <1>1, <1>2, EnqueueBacked, BackedKept

LEMMA ReadyReadBacked ==
    ASSUME Queue, Backed, NEW d \in Ids, ReadyRead(d)
    PROVE  Backed'
  <1>1. /\ UNCHANGED <<server, lost, sessions, up, requests, status, misnamed, conns>>
        /\ \/ UNCHANGED events
           \/ \E type \in {"SESSION_PRE_OPEN", "SESSION_CLOSE"} : Enqueue(Ev(type, d))
    BY DEF ReadyRead, device
  <1>2. \A type \in {"SESSION_PRE_OPEN", "SESSION_CLOSE"} : Ev(type, d) \in PlainEvent
    BY Plain
  <1> QED
    BY <1>1, <1>2, EnqueueBacked, BackedKept

LEMMA StateChangedBacked ==
    ASSUME Queue, Backed, NEW d \in Ids, StateChanged(d)
    PROVE  Backed'
  <1>1. /\ UNCHANGED <<server, lost, sessions, up, requests, status, misnamed>>
        /\ conns' = conns \ {d}
        /\ \/ d \notin sessions /\ UNCHANGED events
           \/ Enqueue(Ev("SESSION_CLOSE", d))
    BY DEF StateChanged, device
  <1>2. Ev("SESSION_CLOSE", d) \in PlainEvent
    BY Plain
  <1>3. CASE d \notin sessions /\ UNCHANGED events
    BY <1>1, <1>3 DEF Backed, Granted, Connected, HeadIs, Running
  <1>4. CASE Enqueue(Ev("SESSION_CLOSE", d))
    BY <1>1, <1>2, <1>4, EnqueueBacked
  <1> QED
    BY <1>1, <1>3, <1>4

LEMMA ControllerBacked ==
    ASSUME Queue, Backed, Controller
    PROVE  Backed'
  <1>1. PICK type \in Controls : Control(type)
    BY DEF Controller
  <1>2. Ev(type, 0) \in PlainEvent
    BY Plain, ControlsAssumption
  <1>3. /\ Enqueue(Ev(type, 0))
        /\ UNCHANGED <<server, lost, sessions, up, requests, status, misnamed, conns>>
    BY <1>1 DEF Control, sockets
  <1> QED
    BY <1>2, <1>3, EnqueueBacked

LEMMA ClientsBacked ==
    ASSUME Queue, Backed, UNCHANGED <<manager, device>>, conns \subseteq conns'
    PROVE  Backed'
  BY BackedKept DEF manager, device

LEMMA HandledBacked ==
    ASSUME Queue, Backed, Handled
    PROVE  Backed'
  <1>1. CASE DoPendingEmpty
    BY <1>1, BackedKept DEF DoPendingEmpty, device, sockets
  <1>2. CASE PlaneModeChanged
    BY <1>2, BackedKept DEF PlaneModeChanged, Ask, manager, sockets
  <1> QED
    BY <1>1, <1>2, PreOpenBacked, OpenBacked, CloseBacked, UpBacked, DownBacked,
       SpuriousUpBacked, UpStatusBacked, DownStatusBacked, HardwareDoneBacked,
       HardwareFailsBacked, TimeoutBacked, ReadyReadBacked, StateChangedBacked DEF Handled

LEMMA InitBacked == Init => Backed
  BY DEF Init, ManagerInit, Backed, UpsIn, Granted, Connected, HeadIs

LEMMA NextBacked == QueueInv /\ Backed /\ [Next]_vars => Backed'
  <1> SUFFICES ASSUME Queue, Backed, [Next]_vars PROVE Backed'
    BY DEF QueueInv
  <1>1. ASSUME NEW c \in Clients,
               SessionReadyRead(c) \/ StartSession(c) \/ EndSession(c) \/ Dies(c)
        PROVE  Backed'
    <2>1. UNCHANGED <<manager, device>> /\ conns \subseteq conns'
      BY <1>1 DEF SessionReadyRead, StartSession, EndSession, Dies
    <2> QED
      BY <2>1, ClientsBacked
  <1>2. CASE UNCHANGED vars
    BY <1>2, ClientsBacked DEF vars, sockets
  <1> QED
    BY <1>1, <1>2, HandledBacked, ControllerBacked, StepKinds

\* What the manager holds as a session has a connection or is about to be
\* closed, and stands on a device that is up or whose loss is about to be told
\* (doPreOpenSession(), doOpenSession(), stateChanged(), downStatus())
THEOREM SessionsAreBacked == Spec => []SessionsBacked
  <1>1. Backed => SessionsBacked
    <2> SUFFICES ASSUME Backed PROVE SessionsConnected /\ SessionHasDevice
      BY DEF SessionsBacked
    <2>1. SessionsConnected
      BY DEF Backed, Connected, CloseIn, SessionsConnected
    <2>2. SessionHasDevice
      BY DEF Backed, Granted, LossIn, SessionHasDevice
    <2> QED
      BY <2>1, <2>2
  <1> QED
    BY <1>1, AlwaysQueue, InitBacked, NextBacked, PTL DEF Spec

-----------------------------------------------------------------------------
\* What applications know

\* Every application has a connection of its own, open at both ends, and a
\* descriptor that is free has no lines left from the last connection
SocketsOwned ==
    /\ \A c \in Clients : sock[c] # 0 => peer[sock[c]] = "open"
    /\ \A c, k \in Clients : sock[c] = sock[k] /\ sock[c] # 0 => c = k
    /\ \A c \in Clients : isOpen[c] => sock[c] # 0
    /\ \A d \in Ids : peer[d] = "open" => d \in conns
    /\ \A d \in Ids : d \notin conns => toClient[d] = <<>>

\* The end of a session is on its way only when its application's end of the
\* connection is closed
ClosedBehind ==
    ~reused => \A d \in Ids : peer[d] = "open" =>
        ~CloseIn(events, d) /\ ~In(toServer[d], "SESSION_CLOSE")

\* Who has read, or is about to read, that the session started
Believes(d) ==
    \/ In(toClient[d], "SESSION_STARTED")
    \/ \E c \in Clients : sock[c] = d /\ isOpen[c]

Told ==
    Running /\ ~reused => \A d \in Ids : peer[d] = "open" /\ Believes(d) =>
        d \in sessions \/ In(toClient[d], "SESSION_CLOSED")

Knows == SocketsOwned /\ ClosedBehind /\ Told

\* What the manager's own steps do
LEMMA ManagerKnows ==
    ASSUME Knows, UNCHANGED <<client, conns, peer, toServer, reused>>,
           \A d \in Ids : peer[d] # "open" => toClient'[d] = toClient[d],
           \A d \in Ids : CloseIn(events', d) => CloseIn(events, d),
           Running' => Running,
           Running' => \A d \in Ids : peer[d] = "open" /\ ~CloseIn(events, d) =>
               /\ In(toClient'[d], "SESSION_STARTED") =>
                      In(toClient[d], "SESSION_STARTED") \/ d \in sessions'
               /\ d \in sessions \/ In(toClient[d], "SESSION_CLOSED") =>
                      d \in sessions' \/ In(toClient'[d], "SESSION_CLOSED")
    PROVE  Knows'
  <1>1. SocketsOwned'
    BY DEF Knows, SocketsOwned, client
  <1>2. ClosedBehind'
    BY DEF Knows, ClosedBehind
  <1>3. Told'
    <2> SUFFICES ASSUME Running', ~reused', NEW d \in Ids, peer'[d] = "open", Believes(d)'
                 PROVE  d \in sessions' \/ In(toClient'[d], "SESSION_CLOSED")
      BY DEF Told
    <2>1. ~CloseIn(events, d) /\ peer[d] = "open" /\ Running /\ ~reused
      BY DEF Knows, ClosedBehind
    <2>2. Believes(d) \/ d \in sessions'
      BY <2>1 DEF Believes, client
    <2> QED
      BY <2>1, <2>2 DEF Knows, Told
  <1> QED
    BY <1>1, <1>2, <1>3 DEF Knows

\* An event of a controller, of the timer or of an application's start
LEMMA NoCloseAppended ==
    ASSUME NEW q \in Seq(Event), NEW e \in PlainEvent, e.type # "SESSION_CLOSE", NEW d,
           CloseIn(Append(q, e), d)
    PROVE  CloseIn(q, d)
  <1>1. e # Ev("SESSION_CLOSE", d) /\ e \in Event
    BY DEF Ev, PlainEvent
  <1> QED
    BY <1>1, CloseAppend

\* What a line written to an application adds to its lines
LEMMA AnswerAdded ==
    ASSUME Queue, NEW d \in Ids, NEW line \in Answers
    PROVE  \A y : In(Append(toClient[d], line), y) <=> In(toClient[d], y) \/ line = y
  <1>1. toClient[d] \in Seq(Answers)
    BY QueueFacts DEF SocketsTyped
  <1> QED
    BY <1>1, InAppend

LEMMA PreOpenKnows ==
    ASSUME Queue, Knows, DoPreOpenSession, UNCHANGED client
    PROVE  Knows'
  <1> DEFINE id == Head(events).id
  <1>1. /\ events # <<>> /\ Head(events).type = "SESSION_PRE_OPEN"
        /\ UNCHANGED <<server, sessions, conns, peer, toServer, reused>>
    BY DEF DoPreOpenSession, Pending, HeadIs
  <1>2. \/ events' = Tail(events) /\ UNCHANGED toClient
        \/ id \in Ids /\ events' = Tail(events) /\ Tell({id}, "SESSION_FAILED")
        \/ id \in Ids /\ events' = Opening(events, up, id) /\ UNCHANGED toClient
    BY QueueFacts DEF DoPreOpenSession, Opening
  <1>3. events \in Seq(Event) /\ OrderedIn(events) /\ up \in BOOLEAN
    BY QueueFacts DEF DeviceTyped
  <1>4. ASSUME NEW d \in Ids, CloseIn(events', d)
        PROVE  CloseIn(events, d)
    <2>1. CASE events' = Tail(events)
      BY <1>1, <1>3, <1>4, <2>1, CloseTail
    <2>2. CASE id \in Ids /\ events' = Opening(events, up, id)
      BY <1>1, <1>3, <1>4, <2>2, CloseOpening
    <2> QED
      BY <1>2, <2>1, <2>2
  <1>5. \A d \in Ids : toClient'[d] = toClient[d] \/
            (peer[d] = "open" /\ toClient'[d] = Append(toClient[d], "SESSION_FAILED"))
    BY <1>2, QueueFacts, TellEffect DEF Answers
  <1>6. \A d \in Ids : /\ In(toClient'[d], "SESSION_STARTED") => In(toClient[d], "SESSION_STARTED")
                       /\ In(toClient[d], "SESSION_CLOSED") => In(toClient'[d], "SESSION_CLOSED")
    <2>1. "SESSION_FAILED" \in Answers
      BY DEF Answers
    <2>2. \A d \in Ids : \A y : In(Append(toClient[d], "SESSION_FAILED"), y) <=>
                                  In(toClient[d], y) \/ "SESSION_FAILED" = y
      BY <2>1, AnswerAdded
    <2> QED
      BY <1>5, <2>2
  <1> QED
    BY <1>1, <1>4, <1>5, <1>6, ManagerKnows DEF Running

LEMMA OpenKnows ==
    ASSUME Queue, Knows, DoOpenSession, UNCHANGED client
    PROVE  Knows'
  <1> DEFINE id == Head(events).id
  <1>1. /\ events # <<>> /\ events' = Tail(events)
        /\ UNCHANGED <<server, conns, peer, toServer, reused>>
        /\ \/ UNCHANGED <<sessions, toClient>>
           \/ sessions' = sessions \cup {id} /\ Tell({id}, "SESSION_STARTED")
    BY DEF DoOpenSession, Pending, HeadIs
  <1>2. \A d \in Ids : CloseIn(events', d) => CloseIn(events, d)
    BY <1>1, QueueFacts, CloseTail
  <1>3. \A d \in Ids : toClient'[d] = toClient[d] \/
            (peer[d] = "open" /\ d \in sessions'
               /\ toClient'[d] = Append(toClient[d], "SESSION_STARTED"))
    BY <1>1, QueueFacts, TellEffect DEF Answers
  <1>4. \A d \in Ids : /\ In(toClient'[d], "SESSION_STARTED") =>
                              In(toClient[d], "SESSION_STARTED") \/ d \in sessions'
                       /\ In(toClient[d], "SESSION_CLOSED") => In(toClient'[d], "SESSION_CLOSED")
    <2>1. "SESSION_STARTED" \in Answers
      BY DEF Answers
    <2>2. \A d \in Ids : \A y : In(Append(toClient[d], "SESSION_STARTED"), y) <=>
                                  In(toClient[d], y) \/ "SESSION_STARTED" = y
      BY <2>1, AnswerAdded
    <2> QED
      BY <1>3, <2>2
  <1> QED
    BY <1>1, <1>2, <1>3, <1>4, ManagerKnows DEF Running

LEMMA CloseKnows ==
    ASSUME Queue, Knows, DoCloseSession, UNCHANGED client
    PROVE  Knows'
  <1> DEFINE id == Head(events).id
             rest == Tail(events)
             e == Ev("DEVICE_DOWN", 0)
  <1>1. /\ events # <<>> /\ Head(events).type = "SESSION_CLOSE"
        /\ UNCHANGED <<server, sockets>>
        /\ sessions' = sessions \ {id}
        /\ events' = rest \/ events' = Append(rest, e)
    BY DEF DoCloseSession, Pending, HeadIs
  <1>2. /\ events \in Seq(Event) /\ rest \in Seq(Event) /\ Head(events) \in Event
        /\ e \in PlainEvent /\ e.type # "SESSION_CLOSE"
    BY <1>1, QueueFacts, HeadEvent, Plain
  <1>3. ASSUME NEW d \in Ids, CloseIn(events', d)
        PROVE  CloseIn(events, d)
    <2> HIDE DEF e
    <2>1. CloseIn(rest, d)
      BY <1>1, <1>2, <1>3, NoCloseAppended
    <2> QED
      BY <1>1, <1>2, <2>1, CloseTail
  <1>4. CloseIn(events, id)
    <2>1. Head(events) = Ev("SESSION_CLOSE", id)
      BY <1>1, <1>2 DEF Ev, Event
    <2>2. Head(events) = events[1] /\ 1 \in DOMAIN events
      BY <1>1, <1>2, TailSeq
    <2> QED
      BY <2>1, <2>2 DEF CloseIn
  <1> QED
    BY <1>1, <1>3, <1>4, ManagerKnows DEF Running, sockets

LEMMA UpStatusKnows ==
    ASSUME Queue, Knows, UpStatus, UNCHANGED client
    PROVE  Knows'
  <1> DEFINE rest == Tail(events)
  <1>1. /\ events # <<>> /\ Running
        /\ UNCHANGED <<sessions, conns, peer, toServer, reused>>
        /\ \/ events' = rest /\ UNCHANGED toClient
           \/ rest # <<>> /\ events' = Tail(rest) /\ Tell({Head(rest).id} \cap conns, "SESSION_FAILED")
    BY DEF UpStatus, StatusIs, HeadIs
  <1>2. events \in Seq(Event) /\ rest \in Seq(Event)
    BY <1>1, QueueFacts, HeadEvent
  <1>3. ASSUME NEW d \in Ids, CloseIn(events', d)
        PROVE  CloseIn(events, d)
    <2>1. CloseIn(rest, d)
      BY <1>1, <1>2, <1>3, CloseTail
    <2> QED
      BY <1>1, <1>2, <2>1, CloseTail
  <1>4. \A d \in Ids : toClient'[d] = toClient[d] \/
            (peer[d] = "open" /\ toClient'[d] = Append(toClient[d], "SESSION_FAILED"))
    BY <1>1, QueueFacts, TellEffect DEF Answers
  <1>5. \A d \in Ids : /\ In(toClient'[d], "SESSION_STARTED") => In(toClient[d], "SESSION_STARTED")
                       /\ In(toClient[d], "SESSION_CLOSED") => In(toClient'[d], "SESSION_CLOSED")
    <2>1. "SESSION_FAILED" \in Answers
      BY DEF Answers
    <2>2. \A d \in Ids : \A y : In(Append(toClient[d], "SESSION_FAILED"), y) <=>
                                  In(toClient[d], y) \/ "SESSION_FAILED" = y
      BY <2>1, AnswerAdded
    <2> QED
      BY <1>4, <2>2
  <1> QED
    BY <1>1, <1>3, <1>4, <1>5, ManagerKnows

LEMMA DownStatusKnows ==
    ASSUME Queue, Knows, DownStatus, UNCHANGED client
    PROVE  Knows'
  <1>1. Running /\ UNCHANGED <<conns, peer, toServer, reused>>
    BY DEF DownStatus, StatusIs
  <1>2. PICK q \in Seq(Event) :
            CloseAllSessions(q) /\ \A d : CloseIn(q, d) => CloseIn(events, d)
    <2>1. events # <<>> => Tail(events) \in Seq(Event)
                           /\ \A d : CloseIn(Tail(events), d) => CloseIn(events, d)
      BY HeadEvent, QueueFacts, CloseTail
    <2> QED
      BY <2>1, QueueFacts DEF DownStatus, HeadIs
  <1>3. /\ \A d \in Ids : toClient'[d] = IF d \in sessions \cap conns /\ peer[d] = "open"
                              THEN Append(toClient[d], "SESSION_CLOSED") ELSE toClient[d]
        /\ events' \in {q, <<>>}
        /\ server' = "running" => sessions \subseteq conns
    BY <1>1, <1>2, Closed
  <1>4. \A d : ~CloseIn(<<>>, d)
    BY DEF CloseIn
  <1>5. \A d \in Ids : CloseIn(events', d) => CloseIn(events, d)
    BY <1>2, <1>3, <1>4
  <1>6. \A d \in Ids : toClient[d] \in Seq(Answers)
    BY QueueFacts DEF SocketsTyped
  <1>7. ASSUME Running', NEW d \in Ids, peer[d] = "open"
        PROVE  /\ In(toClient'[d], "SESSION_STARTED") => In(toClient[d], "SESSION_STARTED")
               /\ d \in sessions \/ In(toClient[d], "SESSION_CLOSED") =>
                      In(toClient'[d], "SESSION_CLOSED")
    BY <1>3, <1>6, <1>7, InAppend DEF Answers, Running
  <1> QED
    BY <1>1, <1>3, <1>5, <1>7, ManagerKnows

\* The manager's steps that write to no application
LEMMA QuietKnows ==
    ASSUME Queue, Knows, UNCHANGED <<client, sockets, server, sessions>>,
           \/ UNCHANGED events
           \/ events # <<>> /\ events' = Tail(events)
           \/ \E e \in PlainEvent : e.type # "SESSION_CLOSE" /\ Enqueue(e)
    PROVE  Knows'
  <1>1. ASSUME NEW d \in Ids, CloseIn(events', d)
        PROVE  CloseIn(events, d)
    BY <1>1, QueueFacts, CloseTail, NoCloseAppended DEF Enqueue
  <1> QED
    BY <1>1, ManagerKnows DEF sockets, Running

LEMMA ReadyReadKnows ==
    ASSUME Queue, Knows, NEW d \in Ids, ReadyRead(d), UNCHANGED client
    PROVE  Knows'
  <1> DEFINE line == Head(toServer[d])
  <1>1. /\ toServer[d] # <<>> /\ toServer' = [toServer EXCEPT ![d] = Tail(@)]
        /\ UNCHANGED <<sessions, server, conns, peer, toClient, reused>>
        /\ \/ line = "SESSION_OPEN" /\ Enqueue(Ev("SESSION_PRE_OPEN", d))
           \/ line = "SESSION_CLOSE" /\ Enqueue(Ev("SESSION_CLOSE", d))
           \/ UNCHANGED events
    BY DEF ReadyRead
  <1>2. /\ toServer \in [Ids -> Seq(Asks)] /\ events \in Seq(Event)
        /\ Ev("SESSION_PRE_OPEN", d) \in PlainEvent /\ Ev("SESSION_CLOSE", d) \in Event
        /\ Ev("SESSION_PRE_OPEN", d).type # "SESSION_CLOSE"
    BY QueueFacts, Plain DEF SocketsTyped, PlainEvent
  <1>3. In(toServer[d], line) /\ \A x : In(Tail(toServer[d]), x) => In(toServer[d], x)
    BY <1>1, <1>2, InTail
  <1>4. ASSUME NEW k \in Ids, CloseIn(events', k)
        PROVE  CloseIn(events, k) \/ (k = d /\ In(toServer[d], "SESSION_CLOSE"))
    <2>1. CASE Enqueue(Ev("SESSION_PRE_OPEN", d))
      BY <1>2, <1>4, <2>1, NoCloseAppended DEF Enqueue
    <2>2. CASE line = "SESSION_CLOSE" /\ Enqueue(Ev("SESSION_CLOSE", d))
      <3>1. CloseIn(events, k) \/ Ev("SESSION_CLOSE", d) = Ev("SESSION_CLOSE", k)
        BY <1>2, <1>4, <2>2, CloseAppend DEF Enqueue
      <3> QED
        BY <1>3, <2>2, <3>1 DEF Ev
    <2>3. CASE UNCHANGED events
      BY <1>4, <2>3
    <2> QED
      BY <1>1, <2>1, <2>2, <2>3
  <1>5. ClosedBehind'
    BY <1>1, <1>2, <1>3, <1>4 DEF Knows, ClosedBehind
  <1>6. SocketsOwned' /\ Told'
    BY <1>1 DEF Knows, SocketsOwned, Told, Believes, Running, client
  <1> QED
    BY <1>5, <1>6 DEF Knows

LEMMA StateChangedKnows ==
    ASSUME Queue, Knows, NEW d \in Ids, StateChanged(d), UNCHANGED client
    PROVE  Knows'
  <1>1. /\ peer[d] = "closed" /\ conns' = conns \ {d}
        /\ peer' = [peer EXCEPT ![d] = "none"]
        /\ toClient' = [toClient EXCEPT ![d] = <<>>]
        /\ UNCHANGED <<sessions, server, toServer, reused>>
        /\ Enqueue(Ev("SESSION_CLOSE", d)) \/ UNCHANGED events
    BY DEF StateChanged
  <1>2. /\ peer \in [Ids -> {"none", "open", "closed"}] /\ toClient \in [Ids -> Seq(Answers)]
        /\ events \in Seq(Event) /\ Ev("SESSION_CLOSE", d) \in Event
    BY QueueFacts, Plain DEF SocketsTyped, PlainEvent
  <1>3. ASSUME NEW k \in Ids, k # d
        PROVE  /\ CloseIn(events', k) => CloseIn(events, k)
               /\ peer'[k] = peer[k] /\ toClient'[k] = toClient[k]
    <2>1. Ev("SESSION_CLOSE", d) # Ev("SESSION_CLOSE", k)
      BY <1>3 DEF Ev
    <2> QED
      BY <1>1, <1>2, <1>3, <2>1, CloseAppend DEF Enqueue
  <1>4. peer'[d] = "none" /\ toClient'[d] = <<>>
    BY <1>1, <1>2
  <1>5. SocketsOwned'
    BY <1>1, <1>2, <1>3, <1>4 DEF Knows, SocketsOwned, client
  <1>6. ClosedBehind'
    BY <1>1, <1>3, <1>4 DEF Knows, ClosedBehind
  <1>7. Told'
    BY <1>1, <1>3, <1>4 DEF Knows, Told, Believes, Running, client
  <1> QED
    BY <1>5, <1>6, <1>7 DEF Knows

-----------------------------------------------------------------------------
\* What the applications' own steps do

LEMMA StartKnows ==
    ASSUME Queue, ClientTyped, Knows, NEW c \in Clients, StartSession(c)
    PROVE  Knows'
  <1> DEFINE d == Min(Ids \ conns)
  <1>1. /\ ~isOpen[c] /\ UNCHANGED <<events, sessions, server, toClient, isOpen>>
    BY DEF StartSession, manager
  <1>2. /\ toServer \in [Ids -> Seq(Asks)] /\ sock \in [Clients -> Ids \cup {0}]
        /\ peer \in [Ids -> {"none", "open", "closed"}] /\ conns \subseteq Ids
        /\ "SESSION_OPEN" \in Asks
    BY QueueFacts DEF SocketsTyped, ClientTyped, Asks
  <1>3. CASE /\ sock[c] # 0
             /\ toServer' = [toServer EXCEPT ![sock[c]] = Append(@, "SESSION_OPEN")]
             /\ UNCHANGED <<sock, conns, peer, reused>>
    <2>1. sock[c] \in Ids
      BY <1>2, <1>3
    <2>2. \A k \in Ids : In(toServer'[k], "SESSION_CLOSE") => In(toServer[k], "SESSION_CLOSE")
      BY <1>2, <1>3, <2>1, InAppend
    <2>3. ClosedBehind'
      BY <1>1, <1>3, <2>2 DEF Knows, ClosedBehind
    <2>4. SocketsOwned' /\ Told'
      BY <1>1, <1>3 DEF Knows, SocketsOwned, Told, Believes, Running
    <2> QED
      BY <2>3, <2>4 DEF Knows
  <1>4. CASE /\ sock[c] = 0 /\ Ids \ conns # {}
             /\ sock' = [sock EXCEPT ![c] = d]
             /\ conns' = conns \cup {d}
             /\ peer' = [peer EXCEPT ![d] = "open"]
             /\ toServer' = [toServer EXCEPT ![d] = <<"SESSION_OPEN">>]
             /\ reused' = (reused \/ \E i \in DOMAIN events : events[i].id = d)
    <2>1. d \in Ids \ conns
      BY <1>2, <1>4, FreeIsFree
    <2>2. reused => reused'
      BY <1>4, Zenon
    <2>3. (\E i \in DOMAIN events : events[i].id = d) => reused'
      BY <1>4, Zenon
    <2> HIDE DEF d
    <2>4. /\ sock' = [sock EXCEPT ![c] = d] /\ conns' = conns \cup {d}
          /\ peer' = [peer EXCEPT ![d] = "open"]
          /\ toServer' = [toServer EXCEPT ![d] = <<"SESSION_OPEN">>]
      BY <1>4
    <2>5. CloseIn(events, d) => reused'
      BY <2>3 DEF CloseIn, Ev
    <2>6. /\ \A k \in Ids : k # d => peer'[k] = peer[k] /\ toServer'[k] = toServer[k]
          /\ peer'[d] = "open" /\ ~In(toServer'[d], "SESSION_CLOSE")
          /\ \A k \in Clients : k # c => sock'[k] = sock[k]
          /\ sock'[c] = d /\ d \in Ids
      BY <1>2, <2>1, <2>4, OneSeq DEF In
    <2>7. \A k \in Clients : sock[k] # d \/ sock[k] = 0
      BY <1>2, <2>1 DEF Knows, SocketsOwned
    <2>8. d # 0
      BY <2>1, IdsAssumption
    <2>9. SocketsOwned'
      <3>1. \A k \in Clients : sock'[k] # 0 => peer'[sock'[k]] = "open"
        BY <1>2, <2>6 DEF Knows, SocketsOwned
      <3>2. \A k, m \in Clients : sock'[k] = sock'[m] /\ sock'[k] # 0 => k = m
        BY <2>6, <2>7, <2>8 DEF Knows, SocketsOwned
      <3>3. \A k \in Clients : isOpen'[k] => sock'[k] # 0
        BY <1>1, <2>6 DEF Knows, SocketsOwned
      <3>4. \A k \in Ids : peer'[k] = "open" => k \in conns'
        BY <2>4, <2>6 DEF Knows, SocketsOwned
      <3>5. \A k \in Ids : k \notin conns' => toClient'[k] = <<>>
        BY <1>1, <2>4 DEF Knows, SocketsOwned
      <3> QED
        BY <3>1, <3>2, <3>3, <3>4, <3>5 DEF SocketsOwned
    <2>10. ClosedBehind'
      BY <1>1, <2>2, <2>5, <2>6 DEF Knows, ClosedBehind
    <2>11. Told'
      <3> SUFFICES ASSUME Running', ~reused', NEW k \in Ids, peer'[k] = "open", Believes(k)'
                   PROVE  k \in sessions' \/ In(toClient'[k], "SESSION_CLOSED")
        BY DEF Told
      <3>1. k # d
        <4>1. toClient'[d] = <<>> /\ ~In(<<>>, "SESSION_STARTED")
          BY <1>1, <2>1 DEF Knows, SocketsOwned, In
        <4>2. \A m \in Clients : ~(sock'[m] = d /\ isOpen'[m])
          BY <1>1, <2>6, <2>7, <2>8
        <4> QED
          BY <4>1, <4>2 DEF Believes
      <3>2. Believes(k) /\ peer[k] = "open" /\ ~reused /\ Running
        BY <1>1, <2>2, <2>6, <3>1 DEF Believes, Running
      <3> QED
        BY <1>1, <3>2 DEF Knows, Told
    <2> QED
      BY <2>9, <2>10, <2>11 DEF Knows
  <1> QED
    BY <1>3, <1>4 DEF StartSession

\* The application's end of its connection is closed
LEMMA LeaveKnows ==
    ASSUME Queue, ClientTyped, Knows, NEW c \in Clients, sock[c] # 0,
           peer' = [peer EXCEPT ![sock[c]] = "closed"],
           sock' = [sock EXCEPT ![c] = 0],
           isOpen' = [isOpen EXCEPT ![c] = FALSE],
           UNCHANGED <<events, sessions, server, conns, reused>>,
           \A d \in Ids : d # sock[c] =>
               UNCHANGED <<toServer[d], toClient[d]>>
    PROVE  Knows'
  <1>1. /\ sock \in [Clients -> Ids \cup {0}] /\ isOpen \in [Clients -> BOOLEAN]
        /\ peer \in [Ids -> {"none", "open", "closed"}] /\ sock[c] \in Ids
    BY QueueFacts DEF SocketsTyped, ClientTyped
  <1>2. /\ peer'[sock[c]] = "closed" /\ sock'[c] = 0 /\ ~isOpen'[c]
        /\ \A d \in Ids : d # sock[c] => peer'[d] = peer[d] /\ toServer'[d] = toServer[d]
                                         /\ toClient'[d] = toClient[d]
        /\ \A k \in Clients : k # c => sock'[k] = sock[k] /\ (isOpen'[k] <=> isOpen[k])
    BY <1>1
  <1>3. \A k \in Clients : k # c /\ sock[k] # 0 => sock[k] # sock[c]
    BY DEF Knows, SocketsOwned
  <1>4. sock[c] \in conns
    BY <1>1 DEF Knows, SocketsOwned
  <1>5. SocketsOwned'
    <2>1. \A k \in Clients : sock'[k] # 0 => peer'[sock'[k]] = "open"
      BY <1>1, <1>2, <1>3 DEF Knows, SocketsOwned
    <2>2. \A k, m \in Clients : sock'[k] = sock'[m] /\ sock'[k] # 0 => k = m
      BY <1>2 DEF Knows, SocketsOwned
    <2>3. \A k \in Clients : isOpen'[k] => sock'[k] # 0
      BY <1>2 DEF Knows, SocketsOwned
    <2>4. \A k \in Ids : peer'[k] = "open" => k \in conns'
      BY <1>2 DEF Knows, SocketsOwned
    <2>5. \A k \in Ids : k \notin conns' => toClient'[k] = <<>>
      BY <1>2, <1>4 DEF Knows, SocketsOwned
    <2> QED
      BY <2>1, <2>2, <2>3, <2>4, <2>5 DEF SocketsOwned
  <1>6. ClosedBehind'
    BY <1>2 DEF Knows, ClosedBehind
  <1>7. Told'
    <2> SUFFICES ASSUME Running', ~reused', NEW k \in Ids, peer'[k] = "open", Believes(k)'
                 PROVE  k \in sessions' \/ In(toClient'[k], "SESSION_CLOSED")
      BY DEF Told
    <2>1. k # sock[c]
      BY <1>2
    <2>2. Believes(k) /\ peer[k] = "open" /\ ~reused /\ Running
      BY <1>2, <2>1 DEF Believes, Running
    <2> QED
      BY <1>2, <2>1, <2>2 DEF Knows, Told
  <1> QED
    BY <1>5, <1>6, <1>7 DEF Knows

LEMMA EndKnows ==
    ASSUME Queue, ClientTyped, Knows, NEW c \in Clients, EndSession(c) \/ Dies(c)
    PROVE  Knows'
  <1>1. /\ sock[c] # 0
        /\ peer' = [peer EXCEPT ![sock[c]] = "closed"]
        /\ sock' = [sock EXCEPT ![c] = 0]
        /\ isOpen' = [isOpen EXCEPT ![c] = FALSE]
        /\ UNCHANGED <<events, sessions, server, conns, reused, toClient>>
        /\ \/ UNCHANGED toServer
           \/ toServer' = [toServer EXCEPT ![sock[c]] = Append(@, "SESSION_CLOSE")]
    BY DEF EndSession, Dies, manager
  <1>2. \A d \in Ids : d # sock[c] => UNCHANGED <<toServer[d], toClient[d]>>
    BY <1>1, QueueFacts DEF SocketsTyped
  <1> QED
    BY <1>1, <1>2, LeaveKnows

LEMMA SessionReadKnows ==
    ASSUME Queue, ClientTyped, Knows, NEW c \in Clients, SessionReadyRead(c)
    PROVE  Knows'
  <1> DEFINE d == sock[c]
             line == Head(toClient[d])
  <1>1. /\ d # 0 /\ toClient[d] # <<>>
        /\ toClient' = [toClient EXCEPT ![d] = Tail(@)]
        /\ isOpen' = [isOpen EXCEPT ![c] =
                        line = "SESSION_STARTED" \/ (line = "SESSION_FAILED" /\ isOpen[c])]
        /\ IF line = "SESSION_CLOSED"
             THEN /\ sock' = [sock EXCEPT ![c] = 0]
                  /\ peer' = [peer EXCEPT ![d] = "closed"]
             ELSE UNCHANGED <<sock, peer>>
        /\ UNCHANGED <<events, sessions, server, conns, reused, toServer>>
    BY DEF SessionReadyRead, ClientTyped, manager
  <1>2. /\ sock \in [Clients -> Ids \cup {0}] /\ isOpen \in [Clients -> BOOLEAN]
        /\ toClient \in [Ids -> Seq(Answers)] /\ d \in Ids /\ toClient[d] \in Seq(Answers)
    BY <1>1, QueueFacts DEF SocketsTyped, ClientTyped
  <1>3. \A k \in Ids : k # d => toClient'[k] = toClient[k]
    BY <1>1, <1>2
  <1>4. CASE line = "SESSION_CLOSED"
    <2>1. isOpen' = [isOpen EXCEPT ![c] = FALSE]
      BY <1>1, <1>4
    <2>2. \A k \in Ids : k # sock[c] => UNCHANGED <<toServer[k], toClient[k]>>
      BY <1>1, <1>3
    <2> QED
      BY <1>1, <1>4, <2>1, <2>2, LeaveKnows
  <1>5. CASE line # "SESSION_CLOSED"
    <2>1. /\ toClient'[d] = Tail(toClient[d])
          /\ \A x : In(toClient'[d], x) => In(toClient[d], x)
          /\ In(toClient[d], "SESSION_CLOSED") => In(toClient'[d], "SESSION_CLOSED")
          /\ In(toClient[d], line)
      BY <1>1, <1>2, <1>5, InTail
    <2>2. /\ \A k \in Clients : k # c => (isOpen'[k] <=> isOpen[k])
          /\ isOpen'[c] => line = "SESSION_STARTED" \/ isOpen[c]
      BY <1>1, <1>2
    <2>3. SocketsOwned'
      <3>1. \A k \in Clients : isOpen'[k] => sock'[k] # 0
        BY <1>1, <1>5, <2>2 DEF Knows, SocketsOwned
      <3>2. \A k \in Ids : k \notin conns' => toClient'[k] = <<>>
        BY <1>1, <1>2, <1>3 DEF Knows, SocketsOwned
      <3> QED
        BY <1>1, <1>5, <3>1, <3>2 DEF Knows, SocketsOwned
    <2>4. ClosedBehind'
      BY <1>1, <1>5 DEF Knows, ClosedBehind
    <2>5. Told'
      <3> SUFFICES ASSUME Running', ~reused', NEW k \in Ids, peer'[k] = "open", Believes(k)'
                   PROVE  k \in sessions' \/ In(toClient'[k], "SESSION_CLOSED")
        BY DEF Told
      <3>1. Believes(k)
        <4>1. CASE In(toClient'[k], "SESSION_STARTED")
          BY <1>3, <2>1, <4>1 DEF Believes
        <4>2. CASE \E m \in Clients : sock'[m] = k /\ isOpen'[m]
          BY <1>1, <1>5, <2>1, <2>2, <4>2 DEF Believes
        <4> QED
          BY <4>1, <4>2 DEF Believes
      <3>2. peer[k] = "open" /\ ~reused /\ Running
        BY <1>1, <1>5 DEF Running
      <3> QED
        BY <1>1, <1>3, <2>1, <3>1, <3>2 DEF Knows, Told
    <2> QED
      BY <2>3, <2>4, <2>5 DEF Knows
  <1> QED
    BY <1>4, <1>5

LEMMA HandledKnows ==
    ASSUME Queue, Knows, Handled, UNCHANGED client
    PROVE  Knows'
  <1>1. CASE DoPendingEmpty
    BY <1>1, QuietKnows DEF DoPendingEmpty
  <1>2. CASE DoUp
    BY <1>2, QuietKnows DEF DoUp, Pending, HeadIs
  <1>3. CASE DoDown
    BY <1>3, QuietKnows DEF DoDown, Pending, HeadIs
  <1>4. CASE SpuriousUp
    BY <1>4, QuietKnows DEF SpuriousUp
  <1>5. CASE HardwareDone
    BY <1>5, QuietKnows DEF HardwareDone, manager
  <1>6. CASE HardwareFails
    BY <1>6, QuietKnows DEF HardwareFails, manager
  <1>7. CASE PlaneModeChanged
    BY <1>7, QuietKnows DEF PlaneModeChanged, manager
  <1>8. CASE Timeout
    <2>1. Ev("DEVICE_DOWN", 0) \in PlainEvent /\ Ev("DEVICE_DOWN", 0).type # "SESSION_CLOSE"
      BY Plain
    <2>2. /\ UNCHANGED <<sockets, server, sessions>>
          /\ UNCHANGED events \/ Enqueue(Ev("DEVICE_DOWN", 0))
      BY <1>8 DEF Timeout
    <2> QED
      BY <2>1, <2>2, QuietKnows
  <1> QED
    BY <1>1, <1>2, <1>3, <1>4, <1>5, <1>6, <1>7, <1>8, PreOpenKnows, OpenKnows, CloseKnows,
       UpStatusKnows, DownStatusKnows, ReadyReadKnows, StateChangedKnows DEF Handled

LEMMA ControllerKnows ==
    ASSUME Queue, Knows, Controller, UNCHANGED client
    PROVE  Knows'
  <1>1. PICK type \in Controls : Control(type)
    BY DEF Controller
  <1>2. Ev(type, 0) \in PlainEvent /\ Ev(type, 0).type # "SESSION_CLOSE"
    BY Plain, ControlsAssumption
  <1>3. Enqueue(Ev(type, 0)) /\ UNCHANGED <<sessions, server, sockets>>
    BY <1>1 DEF Control
  <1> QED
    BY <1>2, <1>3, QuietKnows

LEMMA InitKnows == Init => Knows
  <1> SUFFICES ASSUME Init PROVE Knows
    OBVIOUS
  <1>1. \A x : ~In(<<>>, x) /\ ~CloseIn(<<>>, x)
    BY DEF In, CloseIn
  <1> QED
    BY <1>1 DEF Init, ManagerInit, Knows, SocketsOwned, ClosedBehind, Told, Believes

LEMMA NextKnows == QueueInv /\ Knows /\ [Next]_vars => Knows'
  <1> SUFFICES ASSUME Queue, ClientTyped, Knows, [Next]_vars PROVE Knows'
    BY DEF QueueInv
  <1>1. ASSUME NEW c \in Clients,
               SessionReadyRead(c) \/ StartSession(c) \/ EndSession(c) \/ Dies(c)
        PROVE  Knows'
    BY <1>1, SessionReadKnows, StartKnows, EndKnows
  <1>2. CASE UNCHANGED vars
    BY <1>2, QuietKnows DEF vars, manager
  <1> QED
    BY <1>1, <1>2, HandledKnows, ControllerKnows, StepKinds

\* An application that believes its session open has it at the manager, or
\* the line that it lost it is on its way, unless a descriptor was given out
\* while events of its last connection were in the queue (doOpenSession(),
\* doCloseSession(), closeAllSessions(), stateChanged(), readyRead())
THEOREM ApplicationsKnow == Spec => []ClientKnows
  <1>1. QueueInv /\ Knows => ClientKnows
    <2> SUFFICES ASSUME ClientTyped, Knows, Running, ~reused, NEW c \in Clients, isOpen[c]
                 PROVE  sock[c] \in sessions \/ In(toClient[sock[c]], "SESSION_CLOSED")
      BY DEF QueueInv, ClientKnows, In
    <2>1. sock[c] \in Ids /\ peer[sock[c]] = "open" /\ Believes(sock[c])
      BY DEF ClientTyped, Knows, SocketsOwned, Believes
    <2> QED
      BY <2>1 DEF Knows, Told
  <1> QED
    BY <1>1, AlwaysQueue, InitKnows, NextKnows, PTL DEF Spec
=============================================================================
