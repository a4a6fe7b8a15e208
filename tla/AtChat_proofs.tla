---------------------------- MODULE AtChat_proofs ----------------------------
(***************************************************************************)
(* Theorems about AtChat for every value of its constants.  First the      *)
(* queue of commands and the timers; then the line: every answer reaches   *)
(* the command it was sent for, and every announced PDU the notification   *)
(* it belongs to, for every number of commands, slots, notifications,      *)
(* suspensions and losses.                                                 *)
(***************************************************************************)
EXTENDS AtChat, TLAPS, FiniteSetTheorems

\* The part of the invariant that every member function preserves by itself.
Good(s) ==
    /\ s \in ChatType
    /\ InOrderIn(s)
    /\ OnlyHeadPrimedIn(s)
    /\ TimersHaveCommandIn(s)

NonePrimed(s) == \A i \in DOMAIN s.queue : ~s.queue[i].primed

LEMMA ExceptSeq ==
    ASSUME NEW S, NEW q \in Seq(S), NEW i \in 1..Len(q), NEW x \in S
    PROVE  /\ [q EXCEPT ![i] = x] \in Seq(S)
           /\ Len([q EXCEPT ![i] = x]) = Len(q)
  OBVIOUS

LEMMA TailSeq ==
    ASSUME NEW S, NEW q \in Seq(S), q # <<>>
    PROVE  /\ Tail(q) \in Seq(S)
           /\ Len(Tail(q)) = Len(q) - 1
           /\ \A i \in 1..Len(q) - 1 : Tail(q)[i] = q[i + 1]
           /\ Len(q) \in Nat \ {0}
           /\ q[1] \in S
  OBVIOUS

LEMMA AppendSeq ==
    ASSUME NEW S, NEW q \in Seq(S), NEW x \in S
    PROVE  /\ Append(q, x) \in Seq(S)
           /\ Len(Append(q, x)) = Len(q) + 1
           /\ \A i \in 1..Len(q) : Append(q, x)[i] = q[i]
           /\ Append(q, x)[Len(q) + 1] = x
           /\ Len(q) \in Nat /\ DOMAIN q = 1..Len(q)
           /\ DOMAIN Append(q, x) = 1..Len(q) + 1
  OBVIOUS

\* What Write, ArmTimers and the like leave alone.
SameQueue(s, t) ==
    /\ t.queue = s.queue /\ t.ended = s.ended /\ t.queued = s.queued
    /\ t.failing = s.failing

SameTimers(s, t) == t.deadTimer = s.deadTimer /\ t.retryTimer = s.retryTimer

LEMMA SameQueueGood ==
    ASSUME NEW s, NEW t, SameQueue(s, t)
    PROVE  /\ InOrderIn(s) => InOrderIn(t)
           /\ OnlyHeadPrimedIn(s) => OnlyHeadPrimedIn(t)
           /\ Busy(t) = Busy(s) /\ Head1(t) = Head1(s)
           /\ SameTimers(s, t) /\ TimersHaveCommandIn(s) => TimersHaveCommandIn(t)
  BY Zenon DEF SameQueue, SameTimers, InOrderIn, OnlyHeadPrimedIn, Busy, Head1,
               TimersHaveCommandIn

LEMMA WriteType ==
    ASSUME NEW s \in ChatType, NEW what \in {"cmd", "wake", "abort", "pdu"},
           NEW id \in Tags, NEW kind \in Kinds \cup {NoSlot}
    PROVE  /\ Write(s, what, id, kind) \in ChatType
           /\ SameQueue(s, Write(s, what, id, kind))
           /\ SameTimers(s, Write(s, what, id, kind))
           /\ Write(s, what, id, kind).wakeupShots = s.wakeupShots
  <1>1. [what |-> what, id |-> id, kind |-> kind] \in Written
    BY DEF Written
  <1>2. Append(s.tx, [what |-> what, id |-> id, kind |-> kind]) \in Seq(Written)
    BY <1>1 DEF ChatType
  <1>3. CASE s.valid
    BY <1>2, <1>3 DEF Write, ChatType, SameQueue, SameTimers
  <1>4. CASE ~s.valid
    BY <1>4 DEF Write, ChatType, SameQueue, SameTimers
  <1> QED
    BY <1>3, <1>4

LEMMA PopGood ==
    ASSUME NEW s, Good(s), Busy(s), NEW r \in Results, NEW by \in Tags
    PROVE  /\ Good(Pop(s, r, by))
           /\ NonePrimed(Pop(s, r, by))
           /\ Pop(s, r, by).queued = s.queued
           /\ Pop(s, r, by).wakeupShots = s.wakeupShots
           /\ Pop(s, r, by).failing = s.failing
  <1> DEFINE cmd == Head1(s)
             e == [id |-> cmd.id, result |-> r, by |-> by, text |-> cmd.text]
             p == Pop(s, r, by)
  <1>1. cmd \in Command
    BY TailSeq DEF Good, ChatType, Busy, Head1
  <1>2. e \in Ending
    BY <1>1 DEF Command, Ending
  <1>3. p = [s EXCEPT !.deadTimer = FALSE, !.retryTimer = FALSE,
                      !.queue = Tail(@), !.ended = Append(@, e)]
    BY DEF Pop, StopTimers, Good, ChatType
  <1>4. /\ p.queue = Tail(s.queue) /\ p.ended = Append(s.ended, e)
        /\ p.queued = s.queued /\ p.wakeupShots = s.wakeupShots
        /\ p.failing = s.failing
        /\ p.deadTimer = FALSE /\ p.retryTimer = FALSE
    BY <1>3 DEF Good, ChatType
  <1>5. p \in ChatType
    <2>1. Tail(s.queue) \in Seq(Command)
      BY TailSeq DEF Good, ChatType, Busy
    <2>2. Append(s.ended, e) \in Seq(Ending)
      BY <1>2 DEF Good, ChatType
    <2> QED
      BY <1>3, <2>1, <2>2 DEF Good, ChatType
  <1>6. InOrderIn(p)
    <2>1. s.queue \in Seq(Command) /\ s.ended \in Seq(Ending) /\ s.queue # <<>>
      BY DEF Good, ChatType, Busy
    <2>2. Len(p.ended) = Len(s.ended) + 1 /\ Len(p.queue) = Len(s.queue) - 1
      BY <1>4, <2>1, TailSeq
    <2>3. e.id = Len(s.ended) + 1
      BY <2>1, TailSeq DEF Good, InOrderIn, Head1
    <2>4. \A i \in DOMAIN p.ended : p.ended[i].id = i
      <3> HIDE DEF e, p
      <3>1. /\ \A i \in 1..Len(s.ended) : p.ended[i] = s.ended[i]
            /\ p.ended[Len(s.ended) + 1] = e
            /\ DOMAIN p.ended = 1..Len(s.ended) + 1
            /\ DOMAIN s.ended = 1..Len(s.ended) /\ Len(s.ended) \in Nat
        BY <1>2, <1>4, <2>1, AppendSeq
      <3>2. \A i \in 1..Len(s.ended) : s.ended[i].id = i
        BY <3>1 DEF Good, InOrderIn
      <3> QED
        BY <2>3, <3>1, <3>2
    <2>5. \A i \in DOMAIN p.queue : p.queue[i].id = Len(p.ended) + i
      <3> HIDE DEF e, p
      <3>1. /\ DOMAIN s.queue = 1..Len(s.queue) /\ Len(s.queue) \in Nat
            /\ DOMAIN p.queue = 1..Len(s.queue) - 1
            /\ \A i \in 1..Len(s.queue) - 1 : p.queue[i] = s.queue[i + 1]
            /\ Len(s.ended) \in Nat
        BY <1>4, <2>1, TailSeq
      <3>2. \A i \in 1..Len(s.queue) : s.queue[i].id = Len(s.ended) + i
        BY <3>1 DEF Good, InOrderIn
      <3>3. ASSUME NEW i \in 1..Len(s.queue) - 1
            PROVE  p.queue[i].id = Len(s.ended) + 1 + i
        <4>1. /\ i + 1 \in 1..Len(s.queue) /\ i \in Nat
              /\ Len(s.ended) \in Nat /\ p.queue[i] = s.queue[i + 1]
          BY <3>1
        <4>2. PICK n \in Nat : n = Len(s.ended)
          BY <4>1
        <4>3. s.queue[i + 1].id = n + (i + 1)
          BY <3>2, <4>1, <4>2
        <4>4. p.queue[i].id = n + 1 + i
          BY <4>1, <4>3
        <4> QED
          BY <4>2, <4>4
      <3> QED
        BY <2>2, <3>1, <3>3
    <2>6. Len(s.ended) \in Nat /\ Len(s.queue) \in Nat
      BY <2>1
    <2>7. Len(s.ended) + Len(s.queue) = s.queued
      BY DEF Good, InOrderIn
    <2>8. Len(p.ended) + Len(p.queue) = p.queued
      <3>1. p.queued = s.queued
        BY <1>4
      <3> HIDE DEF e, p
      <3>2. PICK n \in Nat, k \in Nat : n = Len(s.ended) /\ k = Len(s.queue)
        BY <2>6
      <3>3. Len(p.ended) = n + 1 /\ Len(p.queue) = k - 1 /\ n + k = s.queued
        BY <2>2, <2>7, <3>2
      <3>4. (n + 1) + (k - 1) = n + k
        BY SMT
      <3> QED
        BY <3>1, <3>3, <3>4
    <2> HIDE DEF e, p
    <2> QED
      BY <2>4, <2>5, <2>8 DEF InOrderIn
  <1>7. NonePrimed(p)
    <2>1. s.queue \in Seq(Command) /\ s.queue # <<>>
      BY DEF Good, ChatType, Busy
    <2>2. /\ DOMAIN p.queue = 1..Len(s.queue) - 1
          /\ \A i \in 1..Len(s.queue) - 1 : p.queue[i] = s.queue[i + 1]
          /\ Len(s.queue) \in Nat /\ DOMAIN s.queue = 1..Len(s.queue)
      BY <1>4, <2>1, TailSeq
    <2>3. \A i \in 1..Len(s.queue) : i > 1 => ~s.queue[i].primed
      BY <2>2 DEF Good, OnlyHeadPrimedIn
    <2> HIDE DEF e, p
    <2> QED
      BY <2>2, <2>3 DEF NonePrimed
  <1>8. OnlyHeadPrimedIn(p) /\ TimersHaveCommandIn(p)
    BY <1>4, <1>7 DEF OnlyHeadPrimedIn, TimersHaveCommandIn, NonePrimed
  <1> QED
    BY <1>4, <1>5, <1>6, <1>7, <1>8 DEF Good

LEMMA MarkPrimedGood ==
    ASSUME NEW s, Good(s), Busy(s)
    PROVE  LET m == MarkPrimed(s) IN
           /\ m \in ChatType /\ InOrderIn(m) /\ OnlyHeadPrimedIn(m)
           /\ Busy(m) /\ Head1(m).primed /\ Head1(m).id = Head1(s).id
           /\ m.queued = s.queued /\ m.failing = s.failing
  <1> DEFINE cmd == Head1(s)
             sent == [cmd EXCEPT !.primed = TRUE]
             q == [s.queue EXCEPT ![1] = sent]
             m == MarkPrimed(s)
  <1>1. /\ cmd \in Command /\ s.queue \in Seq(Command)
        /\ Len(s.queue) \in Nat \ {0} /\ DOMAIN s.queue = 1..Len(s.queue)
        /\ s \in ChatType
    BY TailSeq DEF Good, ChatType, Busy, Head1
  <1>2. sent \in Command /\ sent.primed /\ sent.id = cmd.id
    BY <1>1 DEF Command
  <1>3. q \in Seq(Command) /\ Len(q) = Len(s.queue) /\ q[1] = sent
        /\ DOMAIN q = 1..Len(s.queue)
        /\ \A i \in 2..Len(s.queue) : q[i] = s.queue[i]
    BY <1>1, <1>2, ExceptSeq
  <1>4. m.queue = q
    BY <1>1 DEF MarkPrimed, ChatType, Head1
  <1>5. m.ended = s.ended /\ m.queued = s.queued /\ m.failing = s.failing
    BY <1>1 DEF MarkPrimed, ChatType
  <1>6. m \in ChatType
    <2>1. cmd.primed \in BOOLEAN
      BY <1>1 DEF Command
    <2> DEFINE r == s.resent \/ cmd.primed
               f == IF s.valid THEN s.failShots ELSE s.failShots + 1
    <2>2. r \in BOOLEAN /\ f \in Nat
      BY <1>1, <2>1 DEF ChatType
    <2>3. m = [s EXCEPT !.queue = q, !.resent = r, !.lineIdle = FALSE,
                        !.failShots = f]
      BY <1>1 DEF MarkPrimed, ChatType, Head1
    <2> HIDE DEF r, f, q, m
    <2> QED
      BY <1>1, <1>3, <2>2, <2>3 DEF ChatType
  <1>7. InOrderIn(m)
    <2>1. /\ Len(s.ended) + Len(s.queue) = s.queued
          /\ \A i \in DOMAIN s.ended : s.ended[i].id = i
          /\ \A i \in 1..Len(s.queue) : s.queue[i].id = Len(s.ended) + i
      BY <1>1 DEF InOrderIn, Good
    <2>2. q[1].id = s.queue[1].id
      BY <1>2, <1>3 DEF Head1
    <2> HIDE DEF m, q, sent
    <2>3. ASSUME NEW i \in 1..Len(s.queue) PROVE q[i].id = Len(s.ended) + i
      BY <1>1, <1>3, <2>1, <2>2
    <2> QED
      BY <1>3, <1>4, <1>5, <2>1, <2>3 DEF InOrderIn
  <1>8. OnlyHeadPrimedIn(m)
    <2>1. \A i \in 1..Len(s.queue) : i > 1 => ~s.queue[i].primed
      BY <1>1 DEF OnlyHeadPrimedIn, Good
    <2> HIDE DEF m, q
    <2> QED
      BY <1>1, <1>3, <1>4, <2>1 DEF OnlyHeadPrimedIn
  <1>9. Busy(m) /\ Head1(m) = sent
    BY <1>1, <1>3, <1>4 DEF Busy, Head1
  <1> QED
    BY <1>2, <1>5, <1>6, <1>7, <1>8, <1>9

LEMMA ArmTimersType ==
    ASSUME NEW m \in ChatType
    PROVE  ArmTimers(m) \in ChatType /\ SameQueue(m, ArmTimers(m))
  <1> DEFINE dt == m.deadTimer \/ DeadTimeout
             rt == m.retryTimer \/ RetryOnNonEcho
  <1>1. dt \in BOOLEAN /\ rt \in BOOLEAN
    OBVIOUS
  <1>2. ArmTimers(m) = [m EXCEPT !.deadTimer = dt, !.retryTimer = rt]
    BY DEF ArmTimers, ChatType
  <1> HIDE DEF dt, rt
  <1> QED
    BY <1>1, <1>2 DEF ChatType, SameQueue

LEMMA TransmitGood ==
    ASSUME NEW s, Good(s), Busy(s)
    PROVE  LET t == Transmit(s) IN
           /\ Good(t) /\ Busy(t) /\ Head1(t).primed
           /\ Head1(t).id = Head1(s).id
           /\ t.queued = s.queued /\ t.failing = s.failing
  <1> DEFINE cmd == Head1(s)
             w == Write(s, "cmd", cmd.id, cmd.kind)
             m == MarkPrimed(w)
             t == ArmTimers(m)
  <1>1. w \in ChatType /\ SameQueue(s, w) /\ SameTimers(s, w)
    <2>1. cmd \in Command /\ s \in ChatType
      BY TailSeq DEF Good, ChatType, Busy, Head1
    <2>2. cmd.id \in Tags /\ cmd.kind \in Kinds \cup {NoSlot}
      BY <2>1, BoundsAssumption DEF Command, Ids, Tags
    <2>3. "cmd" \in {"cmd", "wake", "abort", "pdu"}
      OBVIOUS
    <2> HIDE DEF cmd
    <2> QED
      BY <2>1, <2>2, <2>3, WriteType, ZenonT(20)
  <1> HIDE DEF w
  <1>2. Good(w) /\ Busy(w) /\ Head1(w) = Head1(s)
    BY <1>1, SameQueueGood DEF Good
  <1>3. /\ m \in ChatType /\ InOrderIn(m) /\ OnlyHeadPrimedIn(m)
        /\ Busy(m) /\ Head1(m).primed /\ Head1(m).id = Head1(w).id
        /\ m.queued = w.queued /\ m.failing = w.failing
    BY <1>2, MarkPrimedGood
  <1> HIDE DEF m
  <1>4. t \in ChatType /\ SameQueue(m, t)
    BY <1>3, ArmTimersType
  <1> HIDE DEF t
  <1>5. InOrderIn(t) /\ OnlyHeadPrimedIn(t) /\ Busy(t) /\ Head1(t) = Head1(m)
    BY <1>3, <1>4, SameQueueGood
  <1>6. t.queued = s.queued /\ t.failing = s.failing
    BY <1>1, <1>3, <1>4 DEF SameQueue
  <1>7. Good(t) /\ Busy(t) /\ Head1(t).primed /\ Head1(t).id = Head1(s).id
    BY <1>2, <1>3, <1>4, <1>5 DEF Good, TimersHaveCommandIn
  <1> QED
    BY <1>6, <1>7 DEF Transmit, t, m, w

LEMMA PerformWakeupGood ==
    ASSUME NEW s, Good(s)
    PROVE  LET u == PerformWakeup(s) IN
           /\ Good(u) /\ SameQueue(s, u) /\ u.wakeupShots > 0
  <1> DEFINE w == Write(s, "wake", 0, NoSlot)
             u == PerformWakeup(s)
  <1>1. w \in ChatType /\ SameQueue(s, w) /\ SameTimers(s, w)
    <2>1. /\ s \in ChatType /\ 0 \in Tags /\ NoSlot \in Kinds \cup {NoSlot}
          /\ "wake" \in {"cmd", "wake", "abort", "pdu"}
      BY BoundsAssumption DEF Good, Tags
    <2> QED
      BY <2>1, WriteType, ZenonT(20)
  <1> HIDE DEF w
  <1>2. u = [w EXCEPT !.wakeupInProgress = TRUE, !.lineIdle = FALSE,
                      !.wakeupShots = @ + 1]
    BY DEF PerformWakeup, w
  <1>3. u \in ChatType /\ SameQueue(s, u) /\ SameTimers(s, u) /\ u.wakeupShots > 0
    <2> HIDE DEF u
    <2>1. u \in ChatType
      <3>1. PICK n \in Nat : n = w.wakeupShots + 1
        BY <1>1 DEF ChatType
      <3>2. u = [w EXCEPT !.wakeupInProgress = TRUE, !.lineIdle = FALSE,
                          !.wakeupShots = n]
        BY <1>2, <3>1
      <3> QED
        BY <1>1, <3>2 DEF ChatType
    <2>2. /\ u.queue = w.queue /\ u.ended = w.ended /\ u.queued = w.queued
          /\ u.failing = w.failing /\ SameTimers(w, u)
          /\ u.wakeupShots = w.wakeupShots + 1
      BY <1>1, <1>2 DEF ChatType, SameTimers
    <2>3. PICK n \in Nat : n = w.wakeupShots
      BY <1>1 DEF ChatType
    <2>4. n + 1 > 0
      OBVIOUS
    <2>5. u.wakeupShots > 0
      BY <2>2, <2>3, <2>4
    <2> QED
      BY <1>1, <2>1, <2>2, <2>5 DEF SameQueue, SameTimers
  <1> HIDE DEF u
  <1>4. Good(u)
    BY <1>3, SameQueueGood DEF Good
  <1> QED
    BY <1>3, <1>4 DEF u

LEMMA PrimeGood ==
    ASSUME NEW s, Good(s)
    PROVE  LET p == Prime(s) IN
           /\ Good(p) /\ p.queued = s.queued /\ p.failing = s.failing
           /\ "silent" \notin Kinds => HeadOnItsWay(p)
  <1>1. CASE ~Busy(s)
    BY <1>1 DEF Prime, HeadOnItsWay
  <1>2. CASE Busy(s) /\ WakeupActive /\ s.lineIdle
    BY <1>2, PerformWakeupGood DEF Prime, HeadOnItsWay, SameQueue
  <1>3. CASE Busy(s) /\ ~(WakeupActive /\ s.lineIdle) /\ Head1(s).kind # "silent"
    BY <1>3, TransmitGood DEF Prime, HeadOnItsWay
  <1>4. CASE Busy(s) /\ ~(WakeupActive /\ s.lineIdle) /\ Head1(s).kind = "silent"
    <2> DEFINE t == Transmit(s)
    <2>1. Head1(s) \in Command
      BY <1>4, TailSeq DEF Good, ChatType, Busy, Head1
    <2>2. Good(t) /\ Busy(t) /\ t.queued = s.queued /\ t.failing = s.failing
      BY <1>4, TransmitGood
    <2>3. Head1(s).id \in Tags /\ "ok" \in Results /\ "silent" \in Kinds
      BY <1>4, <2>1 DEF Command, Ids, Tags, Results
    <2>4. Prime(s) = Pop(t, "ok", Head1(s).id)
      BY <1>4 DEF Prime
    <2> HIDE DEF t
    <2> QED
      BY <2>2, <2>3, <2>4, PopGood
  <1> QED
    BY <1>1, <1>2, <1>3, <1>4

LEMMA LinkGood ==
    ASSUME NEW s, Good(s), NEW kind \in Kinds, s.queued < MaxCommands
    PROVE  LET n == Link(s, kind) IN
           /\ Good(n) /\ n.failing = s.failing
           /\ "silent" \notin Kinds /\ HeadOnItsWay(s) => HeadOnItsWay(n)
  <1> DEFINE cmd == NewCommand(s, kind)
             q == [s EXCEPT !.queue = LinkLast(s.queue, cmd),
                            !.queued = s.queued + 1]
  <1>1. /\ s \in ChatType /\ s.queue \in Seq(Command) /\ s.queued \in Nat
        /\ s.ended \in Seq(Ending)
    BY BoundsAssumption DEF Good, ChatType
  <1>2. cmd \in Command /\ ~cmd.primed /\ cmd.id = s.queued + 1
    BY <1>1, BoundsAssumption DEF NewCommand, Command, Ids
  <1> HIDE DEF cmd
  <1>3. /\ q.queue = Append(s.queue, cmd) /\ q.queued = s.queued + 1
        /\ q.ended = s.ended /\ q.failing = s.failing /\ SameTimers(s, q)
        /\ q.wakeupShots = s.wakeupShots
    BY <1>1 DEF LinkLast, ChatType, SameTimers
  <1>4. /\ Append(s.queue, cmd) \in Seq(Command)
        /\ Len(Append(s.queue, cmd)) = Len(s.queue) + 1
        /\ \A i \in 1..Len(s.queue) : Append(s.queue, cmd)[i] = s.queue[i]
        /\ Append(s.queue, cmd)[Len(s.queue) + 1] = cmd
        /\ Len(s.queue) \in Nat /\ DOMAIN s.queue = 1..Len(s.queue)
        /\ DOMAIN Append(s.queue, cmd) = 1..Len(s.queue) + 1
    BY <1>1, <1>2, AppendSeq
  <1>5. q \in ChatType
    <2>1. s.queued + 1 \in 0..MaxCommands
      BY <1>1, BoundsAssumption
    <2> QED
      BY <1>1, <1>4, <2>1 DEF LinkLast, ChatType
  <1>6. PICK n \in Nat, k \in Nat : n = Len(s.ended) /\ k = Len(s.queue)
    BY <1>1
  <1>7. /\ n + k = s.queued
        /\ \A i \in DOMAIN s.ended : s.ended[i].id = i
        /\ \A i \in 1..k : s.queue[i].id = n + i
        /\ \A i \in 1..k : i > 1 => ~s.queue[i].primed
    BY <1>4, <1>6 DEF Good, InOrderIn, OnlyHeadPrimedIn
  <1> HIDE DEF q
  <1>8. /\ \A i \in 1..k : q.queue[i] = s.queue[i]
        /\ q.queue[k + 1] = cmd /\ DOMAIN q.queue = 1..k + 1
        /\ Len(q.queue) = k + 1 /\ Len(q.ended) = n
    BY <1>3, <1>4, <1>6
  <1>9. InOrderIn(q)
    <2>1. n + (k + 1) = q.queued
      <3>1. n + (k + 1) = (n + k) + 1
        OBVIOUS
      <3> QED
        BY <1>3, <1>7, <3>1
    <2>2. q.queue[k + 1].id = n + (k + 1)
      BY <1>2, <1>7, <1>8
    <2>3. ASSUME NEW i \in 1..k + 1 PROVE q.queue[i].id = n + i
      <3>1. CASE i \in 1..k
        BY <1>7, <1>8, <3>1
      <3>2. CASE i = k + 1
        BY <2>2, <3>2
      <3> QED
        BY <3>1, <3>2
    <2> QED
      BY <1>3, <1>7, <1>8, <2>1, <2>3 DEF InOrderIn
  <1>10. OnlyHeadPrimedIn(q)
    BY <1>2, <1>7, <1>8 DEF OnlyHeadPrimedIn
  <1>11. CASE Busy(s)
    <2>1. k \in 1..k /\ 1 \in 1..k
      BY <1>1, <1>6, <1>11, TailSeq DEF Busy
    <2>2. Busy(q) /\ Head1(q) = Head1(s)
      BY <1>4, <1>3, <1>8, <2>1 DEF Busy, Head1
    <2>3. TimersHaveCommandIn(q)
      BY <1>3, <1>11, <2>2 DEF Good, TimersHaveCommandIn, SameTimers
    <2>4. Link(s, kind) = q
      BY <1>1, <1>11 DEF Link, Linked, q, cmd, ChatType
    <2> QED
      BY <1>3, <1>5, <1>9, <1>10, <1>11, <2>2, <2>3, <2>4 DEF Good, HeadOnItsWay
  <1>12. CASE ~Busy(s)
    <2>1. Good(q)
      BY <1>3, <1>5, <1>9, <1>10, <1>12 DEF Good, TimersHaveCommandIn, SameTimers
    <2>2. Link(s, kind) = Prime(q)
      BY <1>1, <1>12 DEF Link, Linked, q, cmd, ChatType
    <2> QED
      BY <1>3, <2>1, <2>2, PrimeGood
  <1> QED
    BY <1>11, <1>12

LEMMA ReopenGood ==
    ASSUME NEW s, Good(s)
    PROVE  LET t == Reopen(s) IN
           /\ t \in ChatType /\ Good(t) /\ SameQueue(s, t) /\ SameTimers(s, t)
           /\ t.wakeupShots = s.wakeupShots /\ t.queued = s.queued
  <1> DEFINE t == Reopen(s)
  <1>1. /\ t \in ChatType /\ SameQueue(s, t) /\ SameTimers(s, t)
        /\ t.wakeupShots = s.wakeupShots /\ t.queued = s.queued
    BY DEF Reopen, Good, ChatType, SameQueue, SameTimers
  <1> HIDE DEF t
  <1>2. Good(t)
    BY <1>1, SameQueueGood DEF Good
  <1> QED
    BY <1>1, <1>2 DEF t

\* queue() keeps the queue good, also when it resumes the chat first.
LEMMA EnqueueGood ==
    ASSUME NEW s, Good(s), NEW kind \in Kinds, s.queued < MaxCommands
    PROVE  LET n == Enqueue(s, kind) IN
           /\ Good(n) /\ n.failing = s.failing
           /\ "silent" \notin Kinds /\ HeadOnItsWay(s) => HeadOnItsWay(n)
  <1>1. CASE s.suspended
    <2> DEFINE t == Reopen(s)
    <2>1. /\ Good(t) /\ SameQueue(s, t) /\ t.queued < MaxCommands
          /\ t.wakeupShots = s.wakeupShots
      BY ReopenGood
    <2>2. Enqueue(s, kind) = Link(t, kind)
      BY <1>1 DEF Enqueue, Resumed
    <2> HIDE DEF t
    <2>3. t.failing = s.failing /\ (HeadOnItsWay(s) => HeadOnItsWay(t))
      BY <2>1 DEF SameQueue, HeadOnItsWay, Busy, Head1
    <2> QED
      BY <2>1, <2>2, <2>3, LinkGood
  <1>2. CASE ~s.suspended
    <2>1. Enqueue(s, kind) = Link(s, kind)
      BY <1>2 DEF Enqueue, Resumed
    <2> QED
      BY <2>1, LinkGood
  <1> QED
    BY <1>1, <1>2

\* What a slot may queue, as Slots offers it.
SlotOK(s, slot) == slot = NoSlot \/ (slot \in Kinds /\ s.queued < MaxCommands)

LEMMA SlotsOK ==
    ASSUME NEW s, NEW slot \in Slots(s)
    PROVE  SlotOK(s, slot)
  BY SlotKindsAssumption DEF Slots, SlotOK

LEMMA DoneGood ==
    ASSUME NEW s, Good(s), Busy(s), NEW r \in Results, NEW by \in Tags,
           NEW slot, SlotOK(s, slot)
    PROVE  Good(Done(s, r, by, slot)) /\ Done(s, r, by, slot).failing = s.failing
  <1> DEFINE p == Pop(s, r, by)
  <1>1. Good(p) /\ p.queued = s.queued /\ p.failing = s.failing
    BY PopGood
  <1>2. CASE slot = NoSlot
    BY <1>1, <1>2 DEF Done
  <1>3. CASE slot # NoSlot
    <2> HIDE DEF p
    <2>1. slot \in Kinds /\ p.queued < MaxCommands
      BY <1>1, <1>3 DEF SlotOK
    <2>2. Good(Enqueue(p, slot)) /\ Enqueue(p, slot).failing = p.failing
      BY <1>1, <2>1, EnqueueGood
    <2> QED
      BY <1>1, <1>3, <2>2 DEF Done, p
  <1> QED
    BY <1>2, <1>3

LEMMA PrimeIfNecessaryGood ==
    ASSUME NEW s, Good(s)
    PROVE  LET p == PrimeIfNecessary(s) IN
           /\ Good(p) /\ p.failing = s.failing
           /\ "silent" \notin Kinds => HeadOnItsWay(p)
  <1>1. CASE Busy(s) /\ ~Head1(s).primed
    BY <1>1, PrimeGood DEF PrimeIfNecessary
  <1>2. CASE ~(Busy(s) /\ ~Head1(s).primed)
    BY <1>2 DEF PrimeIfNecessary, HeadOnItsWay
  <1> QED
    BY <1>1, <1>2

\* The outcome of handling a line or a timer in state s.
Handled(s, t) ==
    /\ Good(t) /\ t.failing = s.failing
    /\ "silent" \notin Kinds /\ HeadOnItsWay(s) => HeadOnItsWay(t)

LEMMA EndHandled ==
    ASSUME NEW s, Good(s), Busy(s), NEW r \in Results, NEW by \in Tags,
           NEW slot, SlotOK(s, slot)
    PROVE  Handled(s, PrimeIfNecessary(Done(s, r, by, slot)))
  <1> DEFINE d == Done(s, r, by, slot)
  <1>1. Good(d) /\ d.failing = s.failing
    BY DoneGood
  <1> HIDE DEF d
  <1> QED
    BY <1>1, PrimeIfNecessaryGood DEF Handled, d

LEMMA SameHandled ==
    ASSUME NEW s, Good(s), NEW t \in ChatType, SameQueue(s, t), SameTimers(s, t),
           t.wakeupShots = s.wakeupShots
    PROVE  Handled(s, t)
  <1>1. Good(t) /\ Busy(t) = Busy(s) /\ Head1(t) = Head1(s)
    BY SameQueueGood DEF Good
  <1> QED
    BY <1>1 DEF Handled, HeadOnItsWay, SameQueue

\* A change of the head that keeps its number and whether it is primed.
LEMMA HeadChangeHandled ==
    ASSUME NEW s, Good(s), Busy(s), NEW x \in Command,
           x.id = Head1(s).id, x.primed = Head1(s).primed,
           NEW t \in ChatType, t.queue = [s.queue EXCEPT ![1] = x],
           t.ended = s.ended, t.queued = s.queued, t.failing = s.failing,
           t.wakeupShots = s.wakeupShots, SameTimers(s, t)
    PROVE  Handled(s, t)
  <1> DEFINE q == [s.queue EXCEPT ![1] = x]
  <1>1. /\ s.queue \in Seq(Command)
        /\ Len(s.queue) \in Nat \ {0} /\ DOMAIN s.queue = 1..Len(s.queue)
    BY TailSeq DEF Good, ChatType, Busy, Head1
  <1>2. /\ q \in Seq(Command) /\ Len(q) = Len(s.queue) /\ q[1] = x
        /\ DOMAIN q = 1..Len(s.queue)
        /\ \A i \in 2..Len(s.queue) : q[i] = s.queue[i]
    BY <1>1, ExceptSeq
  <1> HIDE DEF q
  <1>3. t.queue = q
    BY DEF q
  <1>4. ASSUME NEW i \in 1..Len(s.queue)
        PROVE q[i].id = s.queue[i].id /\ q[i].primed = s.queue[i].primed
    <2>1. CASE i = 1
      BY <1>2, <2>1 DEF Head1
    <2>2. CASE i # 1
      <3>1. i \in 2..Len(s.queue)
        BY <1>1, <2>2
      <3> QED
        BY <1>2, <3>1
    <2> QED
      BY <2>1, <2>2
  <1>5. InOrderIn(t)
    <2>1. /\ Len(s.ended) + Len(s.queue) = s.queued
          /\ \A i \in DOMAIN s.ended : s.ended[i].id = i
          /\ \A i \in 1..Len(s.queue) : s.queue[i].id = Len(s.ended) + i
      BY <1>1 DEF InOrderIn, Good
    <2> QED
      BY <1>2, <1>3, <1>4, <2>1 DEF InOrderIn
  <1>6. OnlyHeadPrimedIn(t)
    <2>1. \A i \in 1..Len(s.queue) : i > 1 => ~s.queue[i].primed
      BY <1>1 DEF OnlyHeadPrimedIn, Good
    <2> QED
      BY <1>2, <1>3, <1>4, <2>1 DEF OnlyHeadPrimedIn
  <1>7. Busy(t) /\ Head1(t).primed = Head1(s).primed
    <2>1. q # <<>>
      BY <1>1, <1>2
    <2> QED
      BY <1>2, <1>3, <2>1 DEF Busy, Head1
  <1>8. TimersHaveCommandIn(t)
    BY <1>7 DEF TimersHaveCommandIn, Good, SameTimers
  <1> QED
    BY <1>5, <1>6, <1>7, <1>8 DEF Handled, Good, HeadOnItsWay

LEMMA ToCommandHandled ==
    ASSUME NEW s, Good(s), NEW line \in Line
    PROVE  Handled(s, ToCommand(s, line))
  <1>1. CASE ~Busy(s)
    BY <1>1 DEF ToCommand, Handled, HeadOnItsWay
  <1>2. CASE Busy(s)
    <2> DEFINE cmd == Head1(s)
               longer == [cmd EXCEPT !.text = cmd.text \cup {line.id}]
               q == [s.queue EXCEPT ![1] = longer]
               c == ToCommand(s, line)
    <2>1. /\ cmd \in Command /\ s.queue \in Seq(Command)
          /\ Len(s.queue) \in Nat \ {0} /\ s \in ChatType
      BY <1>2, TailSeq DEF Good, ChatType, Busy, Head1
    <2>2. /\ longer \in Command /\ longer.primed = cmd.primed
          /\ longer.id = cmd.id
      BY <2>1 DEF Command, Line
    <2>3. q \in Seq(Command)
      BY <2>1, <2>2, ExceptSeq
    <2>4. c = [s EXCEPT !.queue = q]
      BY <1>2, <2>1 DEF ToCommand, ChatType, Head1
    <2> HIDE DEF c, longer
    <2>5. /\ c \in ChatType /\ c.queue = q /\ c.ended = s.ended
          /\ c.queued = s.queued /\ c.failing = s.failing
          /\ c.wakeupShots = s.wakeupShots /\ SameTimers(s, c)
      BY <2>1, <2>3, <2>4 DEF ChatType, SameTimers
    <2>6. Handled(s, c)
      BY <1>2, <2>2, <2>5, HeadChangeHandled
    <2> QED
      BY <2>6 DEF c
  <1> QED
    BY <1>1, <1>2

LEMMA UnknownLineHandled ==
    ASSUME NEW s, Good(s), NEW line \in Line
    PROVE  Handled(s, UnknownLine(s, line))
  <1> DEFINE stolen == s.stolen \/ line.id # 0
  <1>1. s \in ChatType /\ stolen \in BOOLEAN
    BY DEF Good
  <1>2. CASE s.lastNotification
    <2> DEFINE t == [s EXCEPT !.lastNotification = FALSE, !.pdus = s.pdus + 1,
                              !.stolen = stolen]
    <2>1. UnknownLine(s, line) = t
      BY <1>1, <1>2 DEF UnknownLine, ToNotification, ChatType
    <2>2. PICK n \in Nat : n = s.pdus + 1
      BY <1>1 DEF ChatType
    <2> HIDE DEF stolen
    <2>3. /\ t \in ChatType /\ SameQueue(s, t) /\ SameTimers(s, t)
          /\ t.wakeupShots = s.wakeupShots
      BY <1>1, <2>2 DEF ChatType, SameQueue, SameTimers
    <2> QED
      BY <2>1, <2>3, SameHandled
  <1>3. CASE ~s.lastNotification /\ s.requestor
    <2> DEFINE t == [s EXCEPT !.requestor = FALSE, !.stolen = stolen]
    <2>1. UnknownLine(s, line) = t
      BY <1>1, <1>3 DEF UnknownLine, ChatType
    <2> HIDE DEF stolen
    <2>2. /\ t \in ChatType /\ SameQueue(s, t) /\ SameTimers(s, t)
          /\ t.wakeupShots = s.wakeupShots
      BY <1>1 DEF ChatType, SameQueue, SameTimers
    <2> QED
      BY <2>1, <2>2, SameHandled
  <1>4. CASE ~s.lastNotification /\ ~s.requestor
    BY <1>4, ToCommandHandled DEF UnknownLine
  <1> QED
    BY <1>2, <1>3, <1>4

LEMMA TerminateHandled ==
    ASSUME NEW s, Good(s), NEW line \in Line, NEW r \in Results,
           NEW slot, SlotOK(s, slot)
    PROVE  Handled(s, Terminate(s, line, r, slot))
  <1>1. CASE Busy(s)
    BY <1>1, EndHandled DEF Terminate, Line
  <1>2. CASE ~Busy(s)
    BY <1>2 DEF Terminate, Handled
  <1> QED
    BY <1>1, <1>2

LEMMA ProcessLineHandled ==
    ASSUME NEW s, Good(s), NEW line \in Line, NEW slot, SlotOK(s, slot)
    PROVE  Handled(s, ProcessLine(s, line, slot))
  <1>1. s \in ChatType /\ "ok" \in Results /\ "error" \in Results /\ "call" \in Results
    BY DEF Good, Results
  <1>2. CASE line.type = "text"
    BY <1>2, UnknownLineHandled DEF ProcessLine
  <1>3. CASE line.type = "ok"
    BY <1>1, <1>3, TerminateHandled DEF ProcessLine
  <1>4. CASE line.type = "error"
    BY <1>1, <1>4, TerminateHandled DEF ProcessLine
  <1>5. CASE line.type = "call"
    <2>1. CASE Busy(s) /\ Head1(s).kind = "dial"
      BY <1>1, <1>5, <2>1, TerminateHandled DEF ProcessLine
    <2>2. CASE ~(Busy(s) /\ Head1(s).kind = "dial")
      BY <1>5, <2>2 DEF ProcessLine, Handled
    <2> QED
      BY <2>1, <2>2
  <1>6. CASE line.type = "echo"
    <2> DEFINE t == [s EXCEPT !.retryTimer = FALSE, !.lastNotification = FALSE]
    <2>1. /\ t \in ChatType /\ SameQueue(s, t)
          /\ t.wakeupShots = s.wakeupShots /\ t.deadTimer = s.deadTimer
          /\ t.retryTimer = FALSE
      BY <1>1 DEF ChatType, SameQueue
    <2> HIDE DEF t
    <2>2. /\ InOrderIn(t) /\ OnlyHeadPrimedIn(t)
          /\ Busy(t) = Busy(s) /\ Head1(t) = Head1(s)
      BY <2>1, SameQueueGood DEF Good
    <2>3. Handled(s, t)
      BY <2>1, <2>2 DEF Handled, Good, TimersHaveCommandIn, HeadOnItsWay, SameQueue
    <2> QED
      BY <1>6, <2>3 DEF ProcessLine, t
  <1>7. CASE line.type = "pduNote"
    <2> DEFINE t == [s EXCEPT !.lastNotification = TRUE]
    <2>1. /\ t \in ChatType /\ SameQueue(s, t) /\ SameTimers(s, t)
          /\ t.wakeupShots = s.wakeupShots
      BY <1>1 DEF ChatType, SameQueue, SameTimers
    <2> QED
      BY <1>7, <2>1, SameHandled DEF ProcessLine
  <1>8. CASE line.type = "reqNote"
    <2> DEFINE t == [s EXCEPT !.requestor = TRUE]
    <2>1. /\ t \in ChatType /\ SameQueue(s, t) /\ SameTimers(s, t)
          /\ t.wakeupShots = s.wakeupShots
      BY <1>1 DEF ChatType, SameQueue, SameTimers
    <2> QED
      BY <1>8, <2>1, SameHandled DEF ProcessLine
  <1>9. CASE line.type \in {"note", "prompt"}
    BY <1>9 DEF ProcessLine, Handled
  <1> QED
    BY <1>2, <1>3, <1>4, <1>5, <1>6, <1>7, <1>8, <1>9 DEF Line, LineTypes

LEMMA ReadLineHandled ==
    ASSUME NEW s, Good(s), NEW line \in Line, NEW slot, SlotOK(s, slot)
    PROVE  Handled(s, ReadLine(s, line, slot))
  <1>1. s \in ChatType
    BY DEF Good
  <1>2. CASE line.type = "prompt"
    <2>1. CASE Busy(s)
      <3> DEFINE cmd == Head1(s)
      <3>1. cmd \in Command
        BY <2>1, TailSeq DEF Good, ChatType, Busy, Head1
      <3>2. /\ cmd.id \in Tags /\ cmd.kind \in Kinds \cup {NoSlot}
            /\ "pdu" \in {"cmd", "wake", "abort", "pdu"}
        BY <3>1, BoundsAssumption DEF Command, Ids, Tags
      <3> HIDE DEF cmd
      <3> DEFINE w == Write(s, "pdu", cmd.id, cmd.kind)
      <3>3. /\ w \in ChatType /\ SameQueue(s, w) /\ SameTimers(s, w)
            /\ w.wakeupShots = s.wakeupShots
        BY <1>1, <3>2, WriteType, ZenonT(20)
      <3>4. Handled(s, w)
        BY <3>3, SameHandled
      <3> QED
        BY <1>2, <2>1, <3>4 DEF ReadLine, cmd
    <2>2. CASE ~Busy(s)
      <3> DEFINE t == [s EXCEPT !.partial = TRUE]
      <3>1. /\ t \in ChatType /\ SameQueue(s, t) /\ SameTimers(s, t)
            /\ t.wakeupShots = s.wakeupShots
        BY <1>1 DEF ChatType, SameQueue, SameTimers
      <3> QED
        BY <1>2, <2>2, <3>1, SameHandled DEF ReadLine
    <2> QED
      BY <2>1, <2>2
  <1>3. CASE line.type # "prompt"
    <2> DEFINE whole == [s EXCEPT !.partial = FALSE]
               seen == IF s.partial THEN [line EXCEPT !.type = "text"] ELSE line
               req == [whole EXCEPT !.requestor = TRUE]
    <2>1. /\ whole \in ChatType /\ SameQueue(s, whole) /\ SameTimers(s, whole)
          /\ whole.wakeupShots = s.wakeupShots /\ whole.queued = s.queued
      BY <1>1 DEF ChatType, SameQueue, SameTimers
    <2>2. /\ req \in ChatType /\ SameQueue(s, req) /\ SameTimers(s, req)
          /\ req.wakeupShots = s.wakeupShots
      BY <1>1 DEF ChatType, SameQueue, SameTimers
    <2>3. seen \in Line
      BY DEF Line, LineTypes
    <2>4. ReadLine(s, line, slot) =
            IF ~s.wakeupInProgress THEN ProcessLine(whole, seen, slot)
            ELSE IF seen.type = "reqNote" THEN req ELSE whole
      BY <1>3 DEF ReadLine
    <2> HIDE DEF whole, seen, req
    <2>5. Handled(s, whole) /\ Handled(s, req)
      BY <2>1, <2>2, SameHandled
    <2>6. Handled(whole, ProcessLine(whole, seen, slot))
      BY <2>1, <2>3, <2>5, ProcessLineHandled DEF Handled, SlotOK
    <2>7. Handled(s, ProcessLine(whole, seen, slot))
      BY <2>5, <2>6 DEF Handled
    <2> QED
      BY <2>4, <2>5, <2>7
  <1> QED
    BY <1>2, <1>3

----------------------------------------------------------------------------
\* The inductive invariant: Good is what the member functions preserve; the
\* loop of timeout() goes on only while there is a command to fail.
IInv ==
    /\ TypeOK
    /\ Good(chat)
    /\ chat.failing => Busy(chat)
    /\ "silent" \notin Kinds => NoStall

LEMMA InitIInv == Init => IInv
  <1> SUFFICES ASSUME Init PROVE IInv
    OBVIOUS
  <1>1. chat \in ChatType
    BY BoundsAssumption DEF Init, ChatType
  <1>2. /\ chat.queue = <<>> /\ chat.ended = <<>> /\ chat.queued = 0
        /\ chat.deadTimer = FALSE /\ chat.retryTimer = FALSE
        /\ chat.failing = FALSE
    BY DEF Init
  <1>3. TypeOK
    <2>1. modem \in [id : Tags, kind : Kinds \cup {NoSlot, "plain"},
                     prompted : BOOLEAN]
      BY BoundsAssumption DEF Init, NoCmd, Tags
    <2>2. rx \in Seq(Line)
      BY DEF Init
    <2>3. budget \in [notes : 0..MaxNotes, suspends : 0..MaxSuspends,
                      failures : 0..MaxFailures, pdus : Nat]
      BY BoundsAssumption DEF Init
    <2> QED
      BY <1>1, <2>1, <2>2, <2>3 DEF TypeOK
  <1>4. Good(chat)
    BY <1>1, <1>2 DEF Good, InOrderIn, OnlyHeadPrimedIn, TimersHaveCommandIn
  <1> QED
    BY <1>2, <1>3, <1>4 DEF IInv, NoStall, HeadOnItsWay, Busy

\* A step that takes the record through one of the functions above and is
\* not inside the loop of timeout().
LEMMA HandledIInv ==
    ASSUME IInv, Idle, NEW s, Good(s), s.failing = FALSE,
           "silent" \notin Kinds => HeadOnItsWay(s),
           Handled(s, chat'), rx' \in Seq(Line), UNCHANGED <<modem, budget>>
    PROVE  IInv'
  <1>1. Good(chat') /\ chat'.failing = FALSE
    BY DEF Handled
  <1>2. TypeOK'
    BY <1>1 DEF IInv, TypeOK, Good
  <1>3. "silent" \notin Kinds => HeadOnItsWay(chat')
    BY DEF Handled
  <1> QED
    BY <1>1, <1>2, <1>3 DEF IInv, NoStall, Good, HeadOnItsWay, Busy, InOrderIn,
       OnlyHeadPrimedIn, TimersHaveCommandIn, Head1

LEMMA RxHeadTail ==
    ASSUME TypeOK, rx # <<>>
    PROVE  Head(rx) \in Line /\ Tail(rx) \in Seq(Line)
  BY DEF TypeOK

LEMMA SayType ==
    ASSUME TypeOK, NEW types \in Seq(LineTypes), NEW id \in Tags
    PROVE  Say(types, id) \in Seq(Line)
  <1> DEFINE f == [i \in 1..Len(types) |-> [type |-> types[i], id |-> id]]
  <1>1. \A i \in 1..Len(types) : [type |-> types[i], id |-> id] \in Line
    BY DEF Line
  <1>2. f \in Seq(Line)
    BY <1>1
  <1> HIDE DEF f
  <1>3. rx \o f \in Seq(Line)
    BY <1>2 DEF TypeOK
  <1> QED
    BY <1>3 DEF Say, f

LEMMA SayOne ==
    ASSUME TypeOK, NEW type \in LineTypes, NEW id \in Tags
    PROVE  Say(<<type>>, id) \in Seq(Line)
  <1>1. <<type>> \in Seq(LineTypes)
    OBVIOUS
  <1> QED
    BY <1>1, SayType

LEMMA ReopenHandled ==
    ASSUME NEW s, Good(s)
    PROVE  Handled(s, Reopen(s)) /\ Reopen(s).queued = s.queued
  <1> DEFINE t == Reopen(s)
  <1>1. /\ t \in ChatType /\ SameQueue(s, t) /\ SameTimers(s, t)
        /\ t.wakeupShots = s.wakeupShots /\ t.queued = s.queued
    BY ReopenGood
  <1> HIDE DEF t
  <1>2. Handled(s, t)
    BY <1>1, SameHandled
  <1> QED
    BY <1>1, <1>2 DEF t

LEMMA EnqueueHandled ==
    ASSUME NEW s, Good(s), NEW kind \in Kinds, s.queued < MaxCommands
    PROVE  Handled(s, Enqueue(s, kind))
  BY EnqueueGood DEF Handled

LEMMA HandledTransitive ==
    ASSUME NEW s, NEW t, NEW u, Handled(s, t), Handled(t, u)
    PROVE  Handled(s, u)
  BY DEF Handled

LEMMA ChatStep ==
    ASSUME IInv, NEW kind \in Kinds, NEW slot \in Slots(chat), Chat(kind, slot)
    PROVE  IInv'
  <1>1. /\ Good(chat) /\ chat.failing = FALSE /\ SlotOK(chat, slot)
        /\ "silent" \notin Kinds => HeadOnItsWay(chat)
        /\ rx \in Seq(Line)
    BY SlotsOK DEF IInv, Chat, Idle, NoStall, Good, ChatType, TypeOK
  <1> DEFINE open == Reopen(chat)
  <1>2. Handled(chat, open) /\ open.queued = chat.queued
    BY <1>1, ReopenHandled
  <1> HIDE DEF open
  <1>3. CASE chat' = Enqueue(chat, kind) /\ UNCHANGED rx
    <2>1. Handled(chat, chat')
      BY <1>1, <1>3, EnqueueHandled DEF Chat
    <2> QED
      BY <1>1, <1>3, <2>1, HandledIInv DEF Chat
  <1>4. CASE /\ chat.suspended /\ rx # <<>>
             /\ ReadLine(open, Head(rx), slot).queued < MaxCommands
             /\ chat' = Enqueue(ReadLine(open, Head(rx), slot), kind)
             /\ rx' = Tail(rx)
    <2> DEFINE read == ReadLine(open, Head(rx), slot)
    <2>1. Head(rx) \in Line /\ Tail(rx) \in Seq(Line)
      BY <1>4, RxHeadTail DEF IInv
    <2>2. Good(open) /\ SlotOK(open, slot)
      BY <1>1, <1>2 DEF Handled, SlotOK
    <2>3. Handled(open, read)
      BY <2>1, <2>2, ReadLineHandled
    <2> HIDE DEF read
    <2>4. Handled(read, chat')
      BY <1>4, <2>3, EnqueueHandled DEF Handled, read
    <2>5. Handled(chat, chat')
      BY <1>2, <2>3, <2>4, HandledTransitive
    <2> QED
      BY <1>1, <1>4, <2>1, <2>5, HandledIInv DEF Chat
  <1> QED
    BY <1>3, <1>4 DEF Chat, open

LEMMA IncomingStep ==
    ASSUME IInv, NEW slot \in Slots(chat), Incoming(slot)
    PROVE  IInv'
  <1>1. /\ Good(chat) /\ chat.failing = FALSE /\ SlotOK(chat, slot)
        /\ "silent" \notin Kinds => HeadOnItsWay(chat)
    BY SlotsOK DEF IInv, Incoming, Idle, NoStall, Good, ChatType
  <1>2. Head(rx) \in Line /\ Tail(rx) \in Seq(Line)
    BY RxHeadTail DEF IInv, Incoming
  <1>3. Handled(chat, chat')
    BY <1>1, <1>2, ReadLineHandled DEF Incoming
  <1> QED
    BY <1>1, <1>2, <1>3, HandledIInv DEF Incoming

\* The steps that change nothing Good speaks of but flags of the record.
LEMMA SameIInv ==
    ASSUME IInv, chat' \in ChatType, SameQueue(chat, chat'),
           SameTimers(chat, chat'), chat'.wakeupShots = chat.wakeupShots,
           TypeOK'
    PROVE  IInv'
  <1>1. Handled(chat, chat')
    BY SameHandled DEF IInv
  <1>2. Busy(chat') = Busy(chat)
    BY DEF SameQueue, Busy
  <1> QED
    BY <1>1, <1>2 DEF IInv, Handled, NoStall, Good, HeadOnItsWay, Busy, InOrderIn,
       OnlyHeadPrimedIn, TimersHaveCommandIn, Head1

LEMMA ReadTxType ==
    ASSUME chat \in ChatType, chat.tx # <<>>, ReadTx
    PROVE  /\ chat' \in ChatType /\ SameQueue(chat, chat')
           /\ SameTimers(chat, chat') /\ chat'.wakeupShots = chat.wakeupShots
  <1>1. Tail(chat.tx) \in Seq(Written)
    BY DEF ChatType
  <1> QED
    BY <1>1 DEF ReadTx, ChatType, SameQueue, SameTimers

LEMMA AbortDialStep ==
    ASSUME IInv, AbortDial
    PROVE  IInv'
  <1> DEFINE cmd == Head1(chat)
             x == [cmd EXCEPT !.forcedAbort = TRUE]
             q == [chat.queue EXCEPT ![1] = x]
             w == Write(chat, "abort", 0, NoSlot)
  <1>1. /\ Good(chat) /\ Busy(chat) /\ chat.failing = FALSE /\ chat \in ChatType
        /\ "silent" \notin Kinds => HeadOnItsWay(chat)
        /\ rx' \in Seq(Line)
    BY DEF IInv, AbortDial, Idle, NoStall, Good, ChatType, TypeOK
  <1>2. cmd \in Command /\ chat.queue \in Seq(Command) /\ 1 \in 1..Len(chat.queue)
    BY <1>1, TailSeq DEF ChatType, Busy, Head1
  <1>3. x \in Command /\ x.id = cmd.id /\ x.primed = cmd.primed
    BY <1>2 DEF Command
  <1>4. q \in Seq(Command)
    BY <1>2, <1>3, ExceptSeq
  <1>5. /\ w \in ChatType /\ SameQueue(chat, w) /\ SameTimers(chat, w)
        /\ w.wakeupShots = chat.wakeupShots
    <2>1. /\ 0 \in Tags /\ NoSlot \in Kinds \cup {NoSlot}
          /\ "abort" \in {"cmd", "wake", "abort", "pdu"}
      BY BoundsAssumption DEF Tags
    <2> QED
      BY <1>1, <2>1, WriteType, ZenonT(20)
  <1>6. chat' = [w EXCEPT !.queue = q]
    <2>1. chat' = [w EXCEPT !.queue = [@ EXCEPT ![1].forcedAbort = TRUE]]
      BY DEF AbortDial
    <2> HIDE DEF w
    <2> QED
      BY <1>5, <2>1 DEF ChatType, SameQueue, Head1
  <1> HIDE DEF w, x, cmd
  <1>7. /\ chat' \in ChatType /\ chat'.queue = q /\ chat'.ended = chat.ended
        /\ chat'.queued = chat.queued /\ chat'.failing = chat.failing
        /\ chat'.wakeupShots = chat.wakeupShots /\ SameTimers(chat, chat')
    BY <1>4, <1>5, <1>6 DEF ChatType, SameTimers, SameQueue
  <1>8. Handled(chat, chat')
    BY <1>1, <1>3, <1>7, HeadChangeHandled DEF cmd
  <1> QED
    BY <1>1, <1>8, HandledIInv DEF AbortDial

\* The steps of prime()'s timers.
LEMMA PrimeStep ==
    ASSUME IInv, NEW s, Good(s), s.failing = FALSE, chat' = Prime(s),
           UNCHANGED <<modem, rx, budget>>
    PROVE  IInv'
  <1>1. /\ Good(chat') /\ chat'.failing = FALSE
        /\ "silent" \notin Kinds => HeadOnItsWay(chat')
    BY PrimeGood
  <1>2. TypeOK'
    BY <1>1 DEF IInv, TypeOK, Good
  <1> QED
    BY <1>1, <1>2 DEF IInv, NoStall, Good, HeadOnItsWay, Busy, InOrderIn,
       OnlyHeadPrimedIn, TimersHaveCommandIn, Head1

LEMMA TimerSteps ==
    ASSUME IInv, RetryTimeout \/ WakeupFinished
    PROVE  IInv'
  <1>1. Good(chat) /\ chat.failing = FALSE /\ chat \in ChatType
    BY DEF IInv, Good, RetryTimeout, WakeupFinished, Idle, ChatType
  <1>2. CASE RetryTimeout
    <2> DEFINE s == [chat EXCEPT !.retryTimer = FALSE]
    <2>1. /\ s \in ChatType /\ SameQueue(chat, s) /\ s.failing = FALSE
          /\ s.deadTimer = chat.deadTimer /\ s.retryTimer = FALSE
      BY <1>1 DEF ChatType, SameQueue
    <2>2. chat' = Prime(s)
      BY <1>2, Zenon DEF RetryTimeout
    <2> HIDE DEF s
    <2>3. Good(s)
      BY <1>1, <2>1, SameQueueGood DEF Good, TimersHaveCommandIn
    <2> QED
      BY <1>2, <2>1, <2>2, <2>3, PrimeStep DEF RetryTimeout
  <1>3. CASE WakeupFinished
    <2>1. PICK n \in Nat : n = chat.wakeupShots - 1
      BY <1>1, <1>3 DEF WakeupFinished, ChatType
    <2> DEFINE s == [chat EXCEPT !.wakeupInProgress = FALSE, !.wakeupShots = n]
    <2>2. chat' = Prime(s)
      BY <1>3, <2>1 DEF WakeupFinished
    <2>3. /\ s \in ChatType /\ SameQueue(chat, s) /\ SameTimers(chat, s)
          /\ s.failing = FALSE
      BY <1>1 DEF ChatType, SameQueue, SameTimers
    <2> HIDE DEF s
    <2>4. Good(s)
      BY <1>1, <2>3, SameQueueGood DEF Good
    <2> QED
      BY <1>3, <2>2, <2>3, <2>4, PrimeStep DEF WakeupFinished
  <1> QED
    BY <1>2, <1>3

LEMMA FlagSteps ==
    ASSUME IInv, Suspend \/ Resume \/ LineIdle \/ DeviceClosed
    PROVE  IInv'
  <1>1. chat \in ChatType /\ TypeOK
    BY DEF IInv, Good
  <1>2. CASE Suspend
    <2>1. /\ chat' \in ChatType /\ SameQueue(chat, chat')
          /\ SameTimers(chat, chat') /\ chat'.wakeupShots = chat.wakeupShots
      BY <1>1, <1>2 DEF Suspend, ChatType, SameQueue, SameTimers
    <2>2. budget' \in [notes : 0..MaxNotes, suspends : 0..MaxSuspends,
                       failures : 0..MaxFailures, pdus : Nat]
      <3>1. PICK n \in 0..MaxSuspends : n = budget.suspends - 1
        BY <1>1, <1>2, BoundsAssumption DEF Suspend, TypeOK
      <3> QED
        BY <1>1, <1>2, <3>1 DEF Suspend, TypeOK
    <2>3. TypeOK'
      BY <1>1, <1>2, <2>1, <2>2 DEF Suspend, TypeOK
    <2> QED
      BY <2>1, <2>3, SameIInv
  <1>3. CASE Resume \/ LineIdle
    <2>1. /\ chat' \in ChatType /\ SameQueue(chat, chat')
          /\ SameTimers(chat, chat') /\ chat'.wakeupShots = chat.wakeupShots
      <3>1. CASE Resume
        <4>1. chat' = [chat EXCEPT !.suspended = FALSE, !.valid = TRUE]
          BY <3>1 DEF Resume, Reopen
        <4> QED
          BY <1>1, <4>1 DEF ChatType, SameQueue, SameTimers
      <3>2. CASE LineIdle
        <4>1. chat' = [chat EXCEPT !.lineIdle = TRUE]
          BY <3>2 DEF LineIdle
        <4> QED
          BY <1>1, <4>1 DEF ChatType, SameQueue, SameTimers
      <3> QED
        BY <1>3, <3>1, <3>2
    <2>2. UNCHANGED <<modem, rx, budget>>
      BY <1>3 DEF Resume, LineIdle
    <2>3. TypeOK'
      BY <1>1, <2>1, <2>2 DEF TypeOK
    <2> QED
      BY <2>1, <2>3, SameIInv
  <1>4. CASE DeviceClosed
    <2>1. /\ chat' \in ChatType /\ SameQueue(chat, chat')
          /\ SameTimers(chat, chat') /\ chat'.wakeupShots = chat.wakeupShots
      <3>1. <<>> \in Seq(Written)
        OBVIOUS
      <3>2. chat' = [chat EXCEPT !.valid = FALSE, !.tx = <<>>]
        BY <1>4 DEF DeviceClosed
      <3> QED
        BY <1>1, <3>1, <3>2 DEF ChatType, SameQueue, SameTimers
    <2>2. budget' \in [notes : 0..MaxNotes, suspends : 0..MaxSuspends,
                       failures : 0..MaxFailures, pdus : Nat]
      <3>1. PICK n \in 0..MaxFailures : n = budget.failures - 1
        BY <1>1, <1>4, BoundsAssumption DEF DeviceClosed, TypeOK
      <3> QED
        BY <1>1, <1>4, <3>1 DEF DeviceClosed, TypeOK
    <2>3. rx' \in Seq(Line)
      BY <1>4 DEF DeviceClosed
    <2>4. modem' \in [id : Tags, kind : Kinds \cup {NoSlot, "plain"},
                      prompted : BOOLEAN]
      BY <1>4, BoundsAssumption DEF DeviceClosed, NoCmd, Tags
    <2>5. TypeOK'
      BY <2>1, <2>2, <2>3, <2>4 DEF TypeOK
    <2> QED
      BY <2>1, <2>5, SameIInv
  <1> QED
    BY <1>2, <1>3, <1>4

\* timeout() and the rounds of its loop.
LEMMA TimeoutStep ==
    ASSUME IInv, Timeout
    PROVE  IInv'
  <1>1. Good(chat) /\ chat \in ChatType /\ TypeOK
    BY DEF IInv, Good
  <1>2. /\ chat' \in ChatType /\ chat'.deadTimer = FALSE
        /\ chat'.retryTimer = chat.retryTimer
        /\ chat'.wakeupShots = chat.wakeupShots
        /\ chat'.queue = chat.queue /\ chat'.ended = chat.ended
        /\ chat'.queued = chat.queued /\ chat'.failing = Busy(chat)
    <2>1. Busy(chat) \in BOOLEAN
      BY DEF Busy
    <2> QED
      BY <1>1, <2>1 DEF Timeout, ChatType
  <1>3. Good(chat') /\ Busy(chat') = Busy(chat)
    BY <1>1, <1>2, Zenon DEF Good, InOrderIn, OnlyHeadPrimedIn, TimersHaveCommandIn, Busy, Head1
  <1>4. TypeOK'
    BY <1>1, <1>2 DEF Timeout, TypeOK
  <1>5. NoStall'
    BY <1>2, <1>3 DEF NoStall, HeadOnItsWay, Busy
  <1> QED
    BY <1>2, <1>3, <1>4, <1>5 DEF IInv, Good, Busy, InOrderIn,
       OnlyHeadPrimedIn, TimersHaveCommandIn, Head1

LEMMA FailSteps ==
    ASSUME IInv, NEW slot \in Slots(chat), FailNext(slot) \/ FailCommand(slot)
    PROVE  IInv'
  <1>1. /\ Good(chat) /\ chat \in ChatType /\ TypeOK /\ SlotOK(chat, slot)
        /\ 0 \in Tags /\ "dead" \in Results /\ "error" \in Results
        /\ UNCHANGED <<modem, rx, budget>>
    BY SlotsOK, BoundsAssumption
    DEF IInv, Good, Tags, Results, FailNext, FailCommand
  <1>2. CASE FailNext(slot)
    <2> DEFINE d == Done(chat, "dead", 0, slot)
               t == [d EXCEPT !.failing = Busy(d)]
    <2>1. Busy(chat)
      BY <1>2 DEF IInv, FailNext
    <2>2. Good(d)
      BY <1>1, <2>1, DoneGood
    <2> HIDE DEF d
    <2>3. /\ t \in ChatType /\ t.failing = Busy(d)
          /\ t.queue = d.queue /\ t.ended = d.ended /\ t.queued = d.queued
          /\ SameTimers(d, t)
      <3>1. Busy(d) \in BOOLEAN
        BY DEF Busy
      <3> QED
        BY <2>2, <3>1 DEF Good, ChatType, SameTimers
    <2>4. chat' = t
      BY <1>2 DEF FailNext, d
    <2> HIDE DEF t
    <2>5. Good(t) /\ Busy(t) = Busy(d)
      BY <2>2, <2>3, Zenon DEF Good, InOrderIn, OnlyHeadPrimedIn,
                        TimersHaveCommandIn, Busy, Head1, SameTimers
    <2>6. Good(chat') /\ chat'.failing = Busy(chat')
      BY <2>3, <2>4, <2>5
    <2>7. TypeOK'
      BY <1>1, <2>6 DEF TypeOK, Good
    <2> QED
      BY <2>6, <2>7 DEF IInv, NoStall, HeadOnItsWay, Good, Busy, InOrderIn,
       OnlyHeadPrimedIn, TimersHaveCommandIn, Head1
  <1>3. CASE FailCommand(slot)
    <2>1. PICK n \in Nat : n = chat.failShots - 1
      BY <1>1, <1>3 DEF FailCommand, ChatType
    <2> DEFINE s == [chat EXCEPT !.failShots = n]
    <2>2. s \in ChatType /\ SameQueue(chat, s) /\ SameTimers(chat, s)
          /\ s.wakeupShots = chat.wakeupShots
      BY <1>1 DEF ChatType, SameQueue, SameTimers
    <2>3. IF ~s.valid /\ Busy(s)
          THEN chat' = PrimeIfNecessary(Done(s, "error", 0, slot))
          ELSE slot = NoSlot /\ chat' = s
      BY <1>3, <2>1 DEF FailCommand
    <2> HIDE DEF s
    <2>4. Handled(chat, s)
      BY <1>1, <2>2, SameHandled
    <2>5. Good(s) /\ SlotOK(s, slot)
      BY <1>1, <2>2, <2>4 DEF Handled, SlotOK, SameQueue
    <2>6. Handled(s, chat')
      <3>1. CASE ~s.valid /\ Busy(s)
        BY <1>1, <2>3, <2>5, <3>1, EndHandled
      <3>2. CASE ~(~s.valid /\ Busy(s))
        BY <2>3, <2>5, <3>2 DEF Handled
      <3> QED
        BY <3>1, <3>2
    <2>7. Handled(chat, chat')
      BY <2>4, <2>6, HandledTransitive
    <2>8. chat.failing = FALSE /\ Idle
      BY <1>1, <1>3 DEF FailCommand, Idle, ChatType
    <2> QED
      BY <1>1, <2>7, <2>8, HandledIInv DEF IInv, NoStall, TypeOK
  <1> QED
    BY <1>2, <1>3

LEMMA ModemSteps ==
    ASSUME IInv, ModemStep \/ ModemDeaf \/ ModemNotify
    PROVE  IInv'
  <1> DEFINE Modems == [id : Tags, kind : Kinds \cup {NoSlot, "plain"},
                        prompted : BOOLEAN]
  <1>1. Good(chat) /\ chat \in ChatType /\ TypeOK /\ 0 \in Tags
    BY BoundsAssumption DEF IInv, Good, Tags
  <1>2. ModemStep \/ ModemDeaf \/ ModemNotify => modem' \in Modems /\ rx' \in Seq(Line)
    <2>1. NoCmd \in Modems /\ modem \in Modems /\ rx \in Seq(Line)
      BY <1>1, BoundsAssumption DEF NoCmd, Tags, TypeOK
    <2>2. CASE ModemAccept
      <3> DEFINE w == Head(chat.tx)
      <3>1. w \in Written
        BY <1>1, <2>2 DEF ModemAccept, ChatType
      <3>2. modem' \in Modems
        <4>1. [id |-> w.id, kind |-> w.kind, prompted |-> FALSE] \in Modems
          BY <3>1 DEF Written
        <4>2. [modem EXCEPT !.prompted = FALSE, !.kind = "plain"] \in Modems
          BY <2>1
        <4> HIDE DEF w, Modems
        <4> QED
          BY <2>1, <2>2, <4>1, <4>2 DEF ModemAccept, w
      <3>3. rx' \in Seq(Line)
        <4>1. Say(<<"echo">>, w.id) \in Seq(Line)
          BY <1>1, <3>1, SayOne DEF Written, LineTypes
        <4>2. Say(<<"call">>, modem.id) \in Seq(Line)
          BY <1>1, <2>1, SayOne DEF LineTypes
        <4> HIDE DEF w, Modems
        <4> QED
          BY <2>1, <2>2, <4>1, <4>2 DEF ModemAccept, w
      <3> QED
        BY <3>2, <3>3
    <2>3. CASE ModemPrompt
      <3>1. [modem EXCEPT !.prompted = TRUE] \in Modems
        BY <2>1
      <3>2. Say(<<"prompt">>, modem.id) \in Seq(Line)
        BY <1>1, <2>1, SayOne DEF LineTypes
      <3> QED
        BY <2>3, <3>1, <3>2 DEF ModemPrompt
    <2>4. CASE ModemAnswer
      <3>1. PICK end \in {<<"text", "ok">>, <<"ok">>, <<"error">>, <<"call">>} :
               rx' = Say(end, modem.id)
        BY <2>4 DEF ModemAnswer
      <3>2. end \in Seq(LineTypes)
        <4>1. "text" \in LineTypes /\ "ok" \in LineTypes
              /\ "error" \in LineTypes /\ "call" \in LineTypes
          BY DEF LineTypes
        <4>2. CASE end = <<"text", "ok">>
          BY <4>1, <4>2
        <4>3. CASE end = <<"ok">>
          BY <4>1, <4>3
        <4>4. CASE end = <<"error">>
          BY <4>1, <4>4
        <4>5. CASE end = <<"call">>
          BY <4>1, <4>5
        <4> QED
          BY <3>1, <4>2, <4>3, <4>4, <4>5
      <3>3. Say(end, modem.id) \in Seq(Line)
        BY <1>1, <2>1, <3>2, SayType
      <3> QED
        BY <2>1, <2>4, <3>1, <3>3 DEF ModemAnswer
    <2>5. CASE ModemDeaf
      BY <2>1, <2>5 DEF ModemDeaf
    <2>6. CASE ModemNotify
      <3>1. PICK n \in Notes :
               rx' = Say(IF n \in {"note", "call"} THEN <<n>> ELSE <<n, "text">>, 0)
        BY <2>6 DEF ModemNotify
      <3>2. n \in LineTypes /\ "text" \in LineTypes
        BY NotesAssumption DEF LineTypes
      <3>3. <<n>> \in Seq(LineTypes) /\ <<n, "text">> \in Seq(LineTypes)
        BY <3>2
      <3>4. Say(<<n>>, 0) \in Seq(Line) /\ Say(<<n, "text">>, 0) \in Seq(Line)
        <4>1. 0 \in Tags
          BY BoundsAssumption DEF Tags
        <4>2. Say(<<n>>, 0) \in Seq(Line)
          BY <1>1, <3>3, <4>1, SayType DEF TypeOK
        <4>3. Say(<<n, "text">>, 0) \in Seq(Line)
          BY <1>1, <3>3, <4>1, SayType DEF TypeOK
        <4> QED
          BY <4>2, <4>3
      <3>5. rx' \in Seq(Line)
        BY <3>1, <3>4
      <3>6. modem' = modem
        BY <2>6 DEF ModemNotify
      <3> QED
        BY <2>1, <3>5, <3>6
    <2> QED
      BY <2>2, <2>3, <2>4, <2>5, <2>6 DEF ModemStep
  <1>3. budget' \in [notes : 0..MaxNotes, suspends : 0..MaxSuspends,
                     failures : 0..MaxFailures, pdus : Nat]
    <2>1. CASE ModemNotify
      <3>1. PICK k \in 0..MaxNotes : k = budget.notes - 1
        <4>1. budget.notes \in 0..MaxNotes /\ budget.notes > 0
          BY <1>1, <2>1 DEF ModemNotify, TypeOK
        <4>2. PICK b \in 0..MaxNotes : b = budget.notes /\ b > 0
          BY <4>1
        <4> QED
          BY <4>2, BoundsAssumption
      <3>2. PICK m \in Nat : m = budget.pdus + 1
        <4>1. PICK b \in Nat : b = budget.pdus
          BY <1>1 DEF TypeOK
        <4> QED
          BY <4>1
      <3>3. PICK n \in Notes :
               budget' = [budget EXCEPT !.notes = k,
                                        !.pdus = IF n = "pduNote" THEN m ELSE @]
        BY <2>1, <3>1, <3>2 DEF ModemNotify
      <3> QED
        BY <1>1, <3>3 DEF TypeOK
    <2>2. CASE ModemStep \/ ModemDeaf
      BY <1>1, <2>2 DEF ModemStep, ModemAccept, ModemPrompt, ModemAnswer,
                        ModemDeaf, TypeOK
    <2> QED
      BY <2>1, <2>2
  <1>4. /\ chat' \in ChatType /\ SameQueue(chat, chat')
        /\ SameTimers(chat, chat') /\ chat'.wakeupShots = chat.wakeupShots
    <2>1. CASE ModemAccept \/ ModemDeaf
      BY <1>1, <2>1, ReadTxType DEF ModemAccept, ModemDeaf
    <2>2. CASE UNCHANGED chat
      BY <1>1, <2>2 DEF SameQueue, SameTimers
    <2> QED
      BY <2>1, <2>2 DEF ModemStep, ModemPrompt, ModemAnswer, ModemNotify
  <1>5. TypeOK'
    BY <1>2, <1>3, <1>4 DEF TypeOK
  <1> QED
    BY <1>4, <1>5, SameIInv

LEMMA StepIInv == IInv /\ [Next]_vars => IInv'
  <1> SUFFICES ASSUME IInv, [Next]_vars PROVE IInv'
    OBVIOUS
  <1>1. ASSUME NEW kind \in Kinds, NEW slot \in Slots(chat), Chat(kind, slot)
        PROVE  IInv'
    BY <1>1, ChatStep
  <1>2. ASSUME NEW slot \in Slots(chat), Incoming(slot)
        PROVE  IInv'
    BY <1>2, IncomingStep
  <1>3. ASSUME NEW slot \in Slots(chat), FailNext(slot) \/ FailCommand(slot)
        PROVE  IInv'
    BY <1>3, FailSteps
  <1>4. CASE AbortDial
    BY <1>4, AbortDialStep
  <1>5. CASE Suspend \/ Resume \/ LineIdle \/ DeviceClosed
    BY <1>5, FlagSteps
  <1>6. CASE Timeout
    BY <1>6, TimeoutStep
  <1>7. CASE RetryTimeout \/ WakeupFinished
    BY <1>7, TimerSteps
  <1>8. CASE ModemStep \/ ModemDeaf \/ ModemNotify
    BY <1>8, ModemSteps
  <1>9. CASE UNCHANGED vars
    <2>1. chat' = chat /\ modem' = modem /\ rx' = rx /\ budget' = budget
      BY <1>9 DEF vars
    <2>2. IInv' = IInv
      BY <2>1 DEF IInv, TypeOK, Good, InOrderIn, OnlyHeadPrimedIn,
         TimersHaveCommandIn, NoStall, HeadOnItsWay, Busy, Head1
    <2> QED
      BY <2>2
  <1> QED
    BY <1>1, <1>2, <1>3, <1>4, <1>5, <1>6, <1>7, <1>8, <1>9 DEF Next

LEMMA Invariance == Spec => []IInv
  BY InitIInv, StepIInv, PTL DEF Spec

----------------------------------------------------------------------------
\* The queue, the timers, the line and the modem keep their types: numbers of
\* commands stay within the bound, and what is sent and ended is well formed.
THEOREM TypeCorrect == Spec => []TypeOK
  <1>1. IInv => TypeOK
    BY DEF IInv
  <1> QED
    BY <1>1, Invariance, PTL

\* Commands end exactly once and in the order of the chat() calls.
THEOREM CommandsEndInOrder == Spec => []InOrder
  <1>1. IInv => InOrder
    BY DEF IInv, Good, InOrder
  <1> QED
    BY <1>1, Invariance, PTL

\* prime() never transmits a command behind the head.
THEOREM OneCommandOut == Spec => []OnlyHeadPrimed
  <1>1. IInv => OnlyHeadPrimed
    BY DEF IInv, Good, OnlyHeadPrimed
  <1> QED
    BY <1>1, Invariance, PTL

\* The dead timer and the retry timer run only for a transmitted command.
THEOREM TimersWatchCommands == Spec => []TimersHaveCommand
  <1>1. IInv => TimersHaveCommand
    BY DEF IInv, Good, TimersHaveCommand
  <1> QED
    BY <1>1, Invariance, PTL

\* When every command expects a response, a waiting head is with the modem or
\* a pending wakeup will send it: no order of events stalls the queue.
THEOREM QueueNeverStalls ==
    ASSUME "silent" \notin Kinds
    PROVE  Spec => []NoStall
  <1>1. IInv => NoStall
    BY DEF IInv
  <1> QED
    BY <1>1, Invariance, PTL

-----------------------------------------------------------------------------
(***************************************************************************)
(* AtChat implements CommandService, and the invariants that speak of what *)
(* the member functions do to timers, aborts and repeated transmissions.   *)
(* Above, the functions keep the queue Good; here is added what they       *)
(* change (the ...Effect lemmas) and how far they take the queue (Onward). *)
(***************************************************************************)

\* The head is with the modem.
Sent(s) == Busy(s) /\ Head1(s).primed

\* What the clients see of a step: commands are added at the end, they end,
\* and one that is out stays out until it ends.
Onward(s, t) ==
    /\ t.queued >= s.queued /\ Len(t.ended) >= Len(s.ended)
    /\ Sent(s) => Sent(t) \/ Len(t.ended) > Len(s.ended)

\* Watched, and where AbortAfterDial has its aborts, of a record.
WatchedIn(s) == DeadTimeout /\ Sent(s) => s.deadTimer
AbortsIn(s)  == \A i \in DOMAIN s.queue : s.queue[i].forcedAbort => i = 1

\* What every member function does to these.
Kept(s, t) ==
    /\ Onward(s, t)
    /\ WatchedIn(s) => WatchedIn(t)
    /\ AbortsIn(s) => AbortsIn(t)

LEMMA GoodTypes ==
    ASSUME NEW s, Good(s)
    PROVE  /\ s \in ChatType /\ s.queue \in Seq(Command) /\ s.ended \in Seq(Ending)
           /\ Len(s.queue) \in Nat /\ Len(s.ended) \in Nat /\ s.queued \in Nat
           /\ DOMAIN s.queue = 1..Len(s.queue)
           /\ s.deadTimer \in BOOLEAN /\ s.retryTimer \in BOOLEAN
           /\ s.wakeupShots \in Nat /\ s.failShots \in Nat
           /\ Busy(s) => Len(s.queue) > 0 /\ Head1(s) \in Command
  <1>1. s \in ChatType
    BY DEF Good
  <1>2. /\ s.queue \in Seq(Command) /\ s.ended \in Seq(Ending) /\ s.queued \in Nat
        /\ s.deadTimer \in BOOLEAN /\ s.retryTimer \in BOOLEAN
        /\ s.wakeupShots \in Nat /\ s.failShots \in Nat
    BY <1>1 DEF ChatType
  <1>3. Busy(s) => Len(s.queue) \in Nat \ {0} /\ Head1(s) \in Command
    BY <1>2, TailSeq DEF Busy, Head1
  <1> QED
    BY <1>1, <1>2, <1>3

LEMMA KeptSame == ASSUME NEW s, Good(s) PROVE Kept(s, s)
  BY GoodTypes DEF Kept, Onward

LEMMA KeptTransitive ==
    ASSUME NEW s, NEW t, NEW u, Good(s), Good(t), Good(u), Kept(s, t), Kept(t, u)
    PROVE  Kept(s, u)
  <1>1. PICK a, b, c \in Nat :
           a = Len(s.ended) /\ b = Len(t.ended) /\ c = Len(u.ended)
    BY GoodTypes
  <1>2. PICK d, e, f \in Nat : d = s.queued /\ e = t.queued /\ f = u.queued
    BY GoodTypes
  <1>3. Onward(s, u)
    BY <1>1, <1>2 DEF Kept, Onward
  <1> QED
    BY <1>3 DEF Kept

\* The flags that the steps on the queue read.
SameFlags(s, t) ==
    /\ t.deadTimer = s.deadTimer /\ t.retryTimer = s.retryTimer
    /\ t.resent = s.resent /\ t.failing = s.failing
    /\ t.wakeupShots = s.wakeupShots /\ t.wakeupInProgress = s.wakeupInProgress
    /\ t.lineIdle = s.lineIdle /\ t.valid = s.valid
    /\ t.failShots = s.failShots

LEMMA WriteEffect ==
    ASSUME NEW s \in ChatType, NEW what, NEW id, NEW kind
    PROVE  /\ SameQueue(s, Write(s, what, id, kind))
           /\ SameFlags(s, Write(s, what, id, kind))
  BY DEF Write, ChatType, SameQueue, SameFlags

LEMMA SameQueueKept ==
    ASSUME NEW s, Good(s), NEW t, SameQueue(s, t), t.deadTimer = s.deadTimer,
           ~WakeupActive /\ s.wakeupShots = 0 => t.wakeupShots = 0
    PROVE  Kept(s, t)
  <1>1. Sent(t) = Sent(s)
    BY Zenon DEF SameQueue, Sent, Busy, Head1
  <1>2. Onward(s, t)
    BY <1>1, GoodTypes DEF Onward, SameQueue
  <1> QED
    BY <1>1, <1>2 DEF Kept, WatchedIn, AbortsIn, SameQueue

Transmitted(s, t) ==
    /\ t.queue = [s.queue EXCEPT ![1] = [Head1(s) EXCEPT !.primed = TRUE]]
    /\ t.ended = s.ended /\ t.queued = s.queued /\ t.failing = s.failing
    /\ t.deadTimer = (s.deadTimer \/ DeadTimeout)
    /\ t.retryTimer = (s.retryTimer \/ RetryOnNonEcho)
    /\ t.resent = (s.resent \/ Head1(s).primed)
    /\ t.wakeupShots = s.wakeupShots /\ t.wakeupInProgress = s.wakeupInProgress
    /\ t.lineIdle = FALSE /\ t.valid = s.valid
    /\ s.valid => t.failShots = s.failShots

LEMMA TransmitEffect ==
    ASSUME NEW s, Good(s), Busy(s)
    PROVE  Transmitted(s, Transmit(s))
  <1> DEFINE w == Write(s, "cmd", Head1(s).id, Head1(s).kind)
             m == MarkPrimed(w)
             t == ArmTimers(m)
  <1>1. s \in ChatType
    BY GoodTypes
  <1>2. SameQueue(s, w) /\ SameFlags(s, w) /\ DOMAIN w = DOMAIN s
    <2>1. SameQueue(s, w) /\ SameFlags(s, w)
      BY <1>1, WriteEffect
    <2>2. DOMAIN w = DOMAIN s
      BY <1>1 DEF Write, ChatType
    <2> QED
      BY <2>1, <2>2
  <1> HIDE DEF w
  <1>3. /\ m.queue = [w.queue EXCEPT ![1] = [Head1(w) EXCEPT !.primed = TRUE]]
        /\ m.ended = w.ended /\ m.queued = w.queued /\ m.failing = w.failing
        /\ m.deadTimer = w.deadTimer /\ m.retryTimer = w.retryTimer
        /\ m.resent = (w.resent \/ Head1(w).primed)
        /\ m.wakeupShots = w.wakeupShots
        /\ m.wakeupInProgress = w.wakeupInProgress
        /\ m.lineIdle = FALSE /\ m.valid = w.valid
        /\ w.valid => m.failShots = w.failShots
        /\ DOMAIN m = DOMAIN w
    BY <1>1, <1>2 DEF MarkPrimed, Head1, ChatType
  <1> HIDE DEF m
  <1>4. /\ t.queue = m.queue
        /\ t.ended = m.ended /\ t.queued = m.queued /\ t.failing = m.failing
        /\ t.deadTimer = (m.deadTimer \/ DeadTimeout)
        /\ t.retryTimer = (m.retryTimer \/ RetryOnNonEcho)
        /\ t.resent = m.resent
        /\ t.wakeupShots = m.wakeupShots
        /\ t.wakeupInProgress = m.wakeupInProgress
        /\ t.lineIdle = m.lineIdle /\ t.valid = m.valid
        /\ t.failShots = m.failShots
    BY <1>1, <1>2, <1>3 DEF ArmTimers, ChatType
  <1> HIDE DEF t
  <1>5. Head1(w) = Head1(s) /\ w.queue = s.queue
    BY <1>2 DEF SameQueue, Head1
  <1>6. Transmitted(s, t)
    BY <1>2, <1>3, <1>4, <1>5 DEF Transmitted, SameQueue, SameFlags
  <1> QED
    BY <1>6 DEF Transmit, t, m, w

LEMMA TransmitKept ==
    ASSUME NEW s, Good(s), Busy(s)
    PROVE  Kept(s, Transmit(s))
  <1> DEFINE t == Transmit(s)
             x == [Head1(s) EXCEPT !.primed = TRUE]
  <1>1. Transmitted(s, t) /\ Good(t) /\ Busy(t) /\ Head1(t).primed
    BY TransmitEffect, TransmitGood
  <1>2. /\ s.queue \in Seq(Command) /\ Len(s.queue) \in Nat /\ Len(s.queue) > 0
        /\ Head1(s) \in Command /\ DOMAIN s.queue = 1..Len(s.queue)
        /\ Len(s.ended) \in Nat /\ s.queued \in Nat
    BY GoodTypes
  <1>3. x \in Command /\ x.primed
    BY <1>2 DEF Command
  <1> HIDE DEF t, x
  <1>4. t.queue = [s.queue EXCEPT ![1] = x] /\ t.ended = s.ended
        /\ t.queued = s.queued /\ t.deadTimer = (s.deadTimer \/ DeadTimeout)
        /\ t.wakeupShots = s.wakeupShots
    BY <1>1 DEF Transmitted, x
  <1>5. Onward(s, t)
    BY <1>1, <1>2, <1>4 DEF Onward, Sent
  <1>6. WatchedIn(t)
    BY <1>4 DEF WatchedIn
  <1>7. AbortsIn(s) => AbortsIn(t)
    BY <1>2, <1>3, <1>4 DEF AbortsIn
  <1> QED
    BY <1>4, <1>5, <1>6, <1>7 DEF Kept, t

Popped(s, t) ==
    /\ t.queue = Tail(s.queue) /\ Len(t.ended) = Len(s.ended) + 1
    /\ t.queued = s.queued /\ t.failing = s.failing
    /\ t.deadTimer = FALSE /\ t.retryTimer = FALSE /\ t.resent = s.resent
    /\ t.wakeupShots = s.wakeupShots /\ t.wakeupInProgress = s.wakeupInProgress
    /\ t.lineIdle = s.lineIdle /\ t.valid = s.valid
    /\ t.failShots = s.failShots

LEMMA PopEffect ==
    ASSUME NEW s, Good(s), Busy(s), NEW r, NEW by
    PROVE  Popped(s, Pop(s, r, by))
  <1> DEFINE e == [id |-> Head1(s).id, result |-> r, by |-> by,
                   text |-> Head1(s).text]
             p == Pop(s, r, by)
  <1>1. s \in ChatType /\ s.ended \in Seq(Ending)
    BY GoodTypes
  <1>2. p = [s EXCEPT !.deadTimer = FALSE, !.retryTimer = FALSE,
                      !.queue = Tail(@), !.ended = Append(@, e)]
    BY <1>1 DEF Pop, StopTimers, ChatType
  <1> HIDE DEF e
  <1>3. Len(Append(s.ended, e)) = Len(s.ended) + 1
    BY <1>1
  <1> QED
    BY <1>1, <1>2, <1>3 DEF Popped, ChatType

\* Nothing is out when the head has left: the next one was not transmitted.
LEMMA PopKept ==
    ASSUME NEW s, Good(s), Busy(s), NEW r \in Results, NEW by \in Tags
    PROVE  Kept(s, Pop(s, r, by)) /\ ~Sent(Pop(s, r, by))
  <1> DEFINE t == Pop(s, r, by)
  <1>1. Popped(s, t) /\ Good(t) /\ NonePrimed(t)
    BY PopEffect, PopGood
  <1>2. /\ s.queue \in Seq(Command) /\ s.queue # <<>>
        /\ DOMAIN s.queue = 1..Len(s.queue) /\ Len(s.queue) \in Nat
        /\ Len(s.ended) \in Nat /\ s.queued \in Nat
    BY GoodTypes DEF Busy
  <1> HIDE DEF t
  <1>3. /\ DOMAIN t.queue = 1..Len(s.queue) - 1
        /\ \A i \in 1..Len(s.queue) - 1 : t.queue[i] = s.queue[i + 1]
    BY <1>1, <1>2, TailSeq DEF Popped
  <1>4. ~Sent(t)
    <2>1. Busy(t) => 1 \in DOMAIN t.queue
      BY <1>1, GoodTypes
    <2> QED
      BY <1>1, <2>1 DEF Sent, Head1, NonePrimed
  <1>5. Onward(s, t)
    BY <1>1, <1>2 DEF Onward, Popped
  <1>6. ASSUME AbortsIn(s), NEW i \in DOMAIN t.queue, t.queue[i].forcedAbort
        PROVE  i = 1
    <2>1. i \in 1..Len(s.queue) - 1 /\ s.queue[i + 1].forcedAbort
      BY <1>3, <1>6
    <2>2. i + 1 \in DOMAIN s.queue /\ i + 1 # 1
      BY <1>2, <2>1
    <2> QED
      BY <1>6, <2>1, <2>2 DEF AbortsIn
  <1>7. AbortsIn(s) => AbortsIn(t)
    BY <1>6 DEF AbortsIn
  <1> QED
    BY <1>1, <1>4, <1>5, <1>7 DEF Kept, WatchedIn, Popped, t

Awakening(s, t) ==
    /\ SameQueue(s, t)
    /\ t.deadTimer = s.deadTimer /\ t.retryTimer = s.retryTimer
    /\ t.resent = s.resent /\ t.wakeupShots = s.wakeupShots + 1
    /\ t.wakeupInProgress = TRUE /\ t.lineIdle = FALSE
    /\ t.valid = s.valid /\ t.failShots = s.failShots

LEMMA PerformWakeupEffect ==
    ASSUME NEW s, Good(s)
    PROVE  Awakening(s, PerformWakeup(s))
  <1> DEFINE w == Write(s, "wake", 0, NoSlot)
             u == PerformWakeup(s)
  <1>1. s \in ChatType
    BY GoodTypes
  <1>2. SameQueue(s, w) /\ SameFlags(s, w) /\ DOMAIN w = DOMAIN s
    <2>1. SameQueue(s, w) /\ SameFlags(s, w)
      BY <1>1, WriteEffect
    <2>2. DOMAIN w = DOMAIN s
      BY <1>1 DEF Write, ChatType
    <2> QED
      BY <2>1, <2>2
  <1> HIDE DEF w
  <1>3. u = [w EXCEPT !.wakeupInProgress = TRUE, !.lineIdle = FALSE,
                      !.wakeupShots = @ + 1]
    BY DEF PerformWakeup, w
  <1>4. /\ u.queue = w.queue /\ u.ended = w.ended /\ u.queued = w.queued
        /\ u.failing = w.failing
        /\ u.deadTimer = w.deadTimer /\ u.retryTimer = w.retryTimer
        /\ u.resent = w.resent /\ u.wakeupShots = w.wakeupShots + 1
        /\ u.wakeupInProgress = TRUE /\ u.lineIdle = FALSE
        /\ u.valid = w.valid /\ u.failShots = w.failShots
    BY <1>1, <1>2, <1>3 DEF ChatType
  <1> HIDE DEF u
  <1>5. Awakening(s, u)
    BY <1>2, <1>4 DEF Awakening, SameQueue, SameFlags
  <1> QED
    BY <1>5 DEF u

LEMMA PrimeKept ==
    ASSUME NEW s, Good(s)
    PROVE  Good(Prime(s)) /\ Kept(s, Prime(s))
  <1>0. Good(Prime(s))
    BY PrimeGood
  <1>1. CASE ~Busy(s)
    BY <1>1, KeptSame DEF Prime
  <1>2. CASE Busy(s) /\ WakeupActive /\ s.lineIdle
    <2>1. Kept(s, PerformWakeup(s))
      BY <1>2, PerformWakeupEffect, SameQueueKept DEF Awakening
    <2> QED
      BY <1>0, <1>2, <2>1 DEF Prime
  <1>3. CASE Busy(s) /\ ~(WakeupActive /\ s.lineIdle) /\ Head1(s).kind # "silent"
    BY <1>0, <1>3, TransmitKept DEF Prime
  <1>4. CASE Busy(s) /\ ~(WakeupActive /\ s.lineIdle) /\ Head1(s).kind = "silent"
    <2> DEFINE t == Transmit(s)
               p == Pop(t, "ok", Head1(s).id)
    <2>1. Good(t) /\ Busy(t) /\ Kept(s, t)
      BY <1>4, TransmitGood, TransmitKept
    <2>2. Head1(s).id \in Tags /\ "ok" \in Results
      BY <1>4, GoodTypes, BoundsAssumption DEF Command, Ids, Tags, Results
    <2>3. Prime(s) = p
      BY <1>4 DEF Prime
    <2> HIDE DEF t
    <2>4. Good(p) /\ Kept(t, p)
      BY <2>1, <2>2, PopGood, PopKept
    <2>5. Kept(s, p)
      <3> HIDE DEF p
      <3> QED
        BY <2>1, <2>4, KeptTransitive
    <2> QED
      BY <1>0, <2>3, <2>5
  <1> QED
    BY <1>0, <1>1, <1>2, <1>3, <1>4

LEMMA LinkedEffect ==
    ASSUME NEW s, Good(s), NEW kind
    PROVE  /\ Linked(s, kind).queue = Append(s.queue, NewCommand(s, kind))
           /\ Linked(s, kind).queued = s.queued + 1
           /\ Linked(s, kind).ended = s.ended
           /\ SameFlags(s, Linked(s, kind))
  <1>1. s \in ChatType
    BY GoodTypes
  <1> QED
    BY <1>1 DEF Linked, LinkLast, SameFlags, ChatType

LEMMA LinkedKept ==
    ASSUME NEW s, Good(s), NEW kind \in Kinds, s.queued < MaxCommands
    PROVE  /\ Good(Linked(s, kind)) /\ Kept(s, Linked(s, kind))
           /\ Busy(Linked(s, kind)) /\ Sent(Linked(s, kind)) = Sent(s)
  <1> DEFINE t == Linked(s, kind)
             cmd == NewCommand(s, kind)
  <1>1. /\ t.queue = Append(s.queue, cmd) /\ t.queued = s.queued + 1
        /\ t.ended = s.ended /\ SameFlags(s, t)
    BY LinkedEffect
  <1>2. /\ s.queue \in Seq(Command) /\ Len(s.queue) \in Nat
        /\ s \in ChatType /\ s.ended \in Seq(Ending)
        /\ DOMAIN s.queue = 1..Len(s.queue)
        /\ Len(s.ended) \in Nat /\ s.queued \in Nat
        /\ Busy(s) => Len(s.queue) > 0
    BY GoodTypes
  <1>3. cmd \in Command /\ ~cmd.primed /\ ~cmd.forcedAbort
        /\ cmd.id = s.queued + 1
    BY <1>2, BoundsAssumption DEF NewCommand, Command, Ids
  <1> HIDE DEF cmd
  <1>4. /\ Append(s.queue, cmd) \in Seq(Command)
        /\ Len(Append(s.queue, cmd)) = Len(s.queue) + 1
        /\ \A i \in 1..Len(s.queue) : Append(s.queue, cmd)[i] = s.queue[i]
        /\ Append(s.queue, cmd)[Len(s.queue) + 1] = cmd
        /\ DOMAIN Append(s.queue, cmd) = 1..Len(s.queue) + 1
    BY <1>2, <1>3, AppendSeq
  <1>5. t \in ChatType
    <2>1. s.queued + 1 \in 0..MaxCommands
      BY <1>2, BoundsAssumption
    <2>2. t = [s EXCEPT !.queue = Append(s.queue, cmd), !.queued = s.queued + 1]
      BY <1>2 DEF Linked, LinkLast, ChatType, cmd
    <2> HIDE DEF t
    <2> QED
      BY <1>2, <1>4, <2>1, <2>2 DEF ChatType
  <1> HIDE DEF t
  <1>6. PICK n \in Nat, k \in Nat : n = Len(s.ended) /\ k = Len(s.queue)
    BY <1>2
  <1>7. /\ n + k = s.queued
        /\ \A i \in DOMAIN s.ended : s.ended[i].id = i
        /\ \A i \in 1..k : s.queue[i].id = n + i
        /\ \A i \in 1..k : i > 1 => ~s.queue[i].primed
    BY <1>2, <1>6 DEF Good, InOrderIn, OnlyHeadPrimedIn
  <1>8. /\ \A i \in 1..k : t.queue[i] = s.queue[i]
        /\ t.queue[k + 1] = cmd /\ DOMAIN t.queue = 1..k + 1
        /\ Len(t.queue) = k + 1 /\ Len(t.ended) = n
    BY <1>1, <1>4, <1>6
  <1>9. InOrderIn(t)
    <2>1. n + (k + 1) = t.queued /\ cmd.id = n + (k + 1)
      BY <1>1, <1>3, <1>7
    <2>2. ASSUME NEW i \in 1..k + 1 PROVE t.queue[i].id = n + i
      <3>1. CASE i \in 1..k
        BY <1>7, <1>8, <3>1
      <3>2. CASE i = k + 1
        BY <1>8, <2>1, <3>2
      <3> QED
        BY <3>1, <3>2
    <2> QED
      BY <1>1, <1>7, <1>8, <2>1, <2>2 DEF InOrderIn
  <1>10. OnlyHeadPrimedIn(t)
    <2>1. ASSUME NEW i \in 1..k + 1, i > 1 PROVE ~t.queue[i].primed
      <3>1. CASE i \in 1..k
        BY <1>7, <1>8, <2>1, <3>1
      <3>2. CASE i = k + 1
        BY <1>3, <1>8, <3>2
      <3> QED
        BY <3>1, <3>2
    <2> QED
      BY <1>8, <2>1 DEF OnlyHeadPrimedIn
  <1>11. Busy(t) /\ Sent(t) = Sent(s) /\ (Busy(s) => Head1(t) = Head1(s))
    <2>1. Busy(t)
      <3>1. Len(t.queue) # 0
        BY <1>8
      <3> QED
        BY <3>1 DEF Busy
    <2>2. CASE Busy(s)
      <3>1. 1 \in 1..k
        BY <1>2, <1>6, <2>2
      <3> QED
        BY <1>8, <2>1, <2>2, <3>1 DEF Sent, Head1
    <2>3. CASE ~Busy(s)
      <3>1. k = 0
        BY <1>2, <1>6, <2>3 DEF Busy
      <3>2. Head1(t) = cmd
        BY <1>8, <3>1 DEF Head1
      <3> QED
        BY <1>3, <2>1, <2>3, <3>2 DEF Sent
    <2> QED
      BY <2>1, <2>2, <2>3
  <1>12. Good(t)
    BY <1>1, <1>5, <1>9, <1>10, <1>11
    DEF Good, TimersHaveCommandIn, SameFlags, Sent
  <1>13. Onward(s, t)
    BY <1>1, <1>2, <1>11 DEF Onward
  <1>14. AbortsIn(s) => AbortsIn(t)
    <2>1. ASSUME AbortsIn(s), NEW i \in 1..k + 1, t.queue[i].forcedAbort
          PROVE  i = 1
      <3>1. CASE i \in 1..k
        BY <1>2, <1>6, <1>8, <2>1, <3>1 DEF AbortsIn
      <3>2. CASE i = k + 1
        BY <1>3, <1>8, <2>1, <3>2
      <3> QED
        BY <3>1, <3>2
    <2> QED
      BY <1>8, <2>1 DEF AbortsIn
  <1> QED
    BY <1>1, <1>11, <1>12, <1>13, <1>14 DEF Kept, WatchedIn, SameFlags, t

LEMMA LinkKept ==
    ASSUME NEW s, Good(s), NEW kind \in Kinds, s.queued < MaxCommands
    PROVE  Good(Link(s, kind)) /\ Kept(s, Link(s, kind))
  <1> DEFINE t == Linked(s, kind)
  <1>1. Good(t) /\ Kept(s, t)
    BY LinkedKept
  <1>2. Link(s, kind) = IF Busy(s) THEN t ELSE Prime(t)
    BY DEF Link
  <1> HIDE DEF t
  <1>3. Good(Prime(t)) /\ Kept(t, Prime(t))
    BY <1>1, PrimeKept
  <1> QED
    BY <1>1, <1>2, <1>3, KeptTransitive

LEMMA EnqueueKept ==
    ASSUME NEW s, Good(s), NEW kind \in Kinds, s.queued < MaxCommands
    PROVE  Good(Enqueue(s, kind)) /\ Kept(s, Enqueue(s, kind))
  <1> DEFINE t == Resumed(s)
  <1>1. Good(t) /\ Kept(s, t) /\ t.queued = s.queued
    BY ReopenGood, SameQueueKept, KeptSame DEF Resumed, SameTimers
  <1>2. Enqueue(s, kind) = Link(t, kind)
    BY DEF Enqueue
  <1> HIDE DEF t
  <1>3. Good(Link(t, kind)) /\ Kept(t, Link(t, kind))
    BY <1>1, LinkKept
  <1> QED
    BY <1>1, <1>2, <1>3, KeptTransitive

LEMMA DoneKept ==
    ASSUME NEW s, Good(s), Busy(s), NEW r \in Results, NEW by \in Tags,
           NEW slot, SlotOK(s, slot)
    PROVE  Good(Done(s, r, by, slot)) /\ Kept(s, Done(s, r, by, slot))
  <1> DEFINE p == Pop(s, r, by)
  <1>1. Good(p) /\ Kept(s, p) /\ p.queued = s.queued
    BY PopGood, PopKept
  <1>2. Done(s, r, by, slot) = IF slot = NoSlot THEN p ELSE Enqueue(p, slot)
    BY DEF Done
  <1> HIDE DEF p
  <1>3. slot # NoSlot => /\ Good(Enqueue(p, slot))
                         /\ Kept(p, Enqueue(p, slot))
    BY <1>1, EnqueueKept DEF SlotOK
  <1> QED
    BY <1>1, <1>2, <1>3, KeptTransitive

LEMMA EndKept ==
    ASSUME NEW s, Good(s), Busy(s), NEW r \in Results, NEW by \in Tags,
           NEW slot, SlotOK(s, slot)
    PROVE  Kept(s, PrimeIfNecessary(Done(s, r, by, slot)))
  <1> DEFINE d == Done(s, r, by, slot)
  <1>1. Good(d) /\ Kept(s, d)
    BY DoneKept
  <1> HIDE DEF d
  <1>2. Good(PrimeIfNecessary(d)) /\ Kept(d, PrimeIfNecessary(d))
    BY <1>1, PrimeKept, KeptSame DEF PrimeIfNecessary
  <1>3. Kept(s, PrimeIfNecessary(d))
    BY <1>1, <1>2, KeptTransitive
  <1> QED
    BY <1>3 DEF d

\* A change of the head that keeps whether it is primed.
LEMMA HeadChangeKept ==
    ASSUME NEW s, Good(s), Busy(s), NEW x \in Command,
           x.primed = Head1(s).primed,
           NEW t, t.queue = [s.queue EXCEPT ![1] = x],
           t.ended = s.ended, t.queued = s.queued, t.deadTimer = s.deadTimer,
           t.wakeupShots = s.wakeupShots
    PROVE  Kept(s, t)
  <1>1. /\ s.queue \in Seq(Command) /\ Len(s.queue) \in Nat /\ Len(s.queue) > 0
        /\ DOMAIN s.queue = 1..Len(s.queue)
        /\ Len(s.ended) \in Nat /\ s.queued \in Nat
    BY GoodTypes
  <1>2. /\ Head1(t) = x /\ DOMAIN t.queue = 1..Len(s.queue)
        /\ \A i \in 2..Len(s.queue) : t.queue[i] = s.queue[i]
    BY <1>1 DEF Head1
  <1>3. Busy(t)
    <2>1. 1 \in DOMAIN t.queue
      BY <1>1, <1>2
    <2>2. t.queue # <<>>
      BY <2>1
    <2> QED
      BY <2>2 DEF Busy
  <1>4. Sent(t) = Sent(s)
    BY <1>2, <1>3 DEF Sent
  <1>5. Onward(s, t)
    BY <1>1, <1>4 DEF Onward
  <1>6. AbortsIn(s) => AbortsIn(t)
    BY <1>1, <1>2 DEF AbortsIn
  <1> QED
    BY <1>4, <1>5, <1>6 DEF Kept, WatchedIn

LEMMA ToCommandKept ==
    ASSUME NEW s, Good(s), NEW line \in Line
    PROVE  Kept(s, ToCommand(s, line))
  <1>1. CASE ~Busy(s)
    BY <1>1, KeptSame DEF ToCommand
  <1>2. CASE Busy(s)
    <2> DEFINE longer == [Head1(s) EXCEPT !.text = Head1(s).text \cup {line.id}]
               t == ToCommand(s, line)
    <2>1. s \in ChatType /\ Head1(s) \in Command /\ s.queue \in Seq(Command)
          /\ Len(s.queue) > 0
      BY <1>2, GoodTypes
    <2>2. longer \in Command /\ longer.primed = Head1(s).primed
      BY <2>1 DEF Command, Line
    <2>3. t = [s EXCEPT !.queue = [s.queue EXCEPT ![1] = longer]]
      BY <1>2, <2>1 DEF ToCommand, ChatType, Head1
    <2> HIDE DEF t, longer
    <2>4. /\ t.queue = [s.queue EXCEPT ![1] = longer] /\ t.ended = s.ended
          /\ t.queued = s.queued /\ t.deadTimer = s.deadTimer
          /\ t.wakeupShots = s.wakeupShots
      BY <2>1, <2>3 DEF ChatType
    <2>5. Kept(s, t)
      BY <1>2, <2>2, <2>4, HeadChangeKept
    <2> QED
      BY <2>5 DEF t
  <1> QED
    BY <1>1, <1>2

LEMMA ProcessLineKept ==
    ASSUME NEW s, Good(s), NEW line \in Line, NEW slot, SlotOK(s, slot)
    PROVE  Kept(s, ProcessLine(s, line, slot))
  <1>1. /\ s \in ChatType /\ line.id \in Tags
        /\ "ok" \in Results /\ "error" \in Results /\ "call" \in Results
    BY DEF Good, Results, Line
  <1>2. CASE line.type = "text"
    <2>1. CASE s.lastNotification \/ s.requestor
      <3>1. /\ SameQueue(s, UnknownLine(s, line))
            /\ UnknownLine(s, line).deadTimer = s.deadTimer
            /\ UnknownLine(s, line).wakeupShots = s.wakeupShots
        BY <1>1, <2>1 DEF UnknownLine, ToNotification, SameQueue, ChatType
      <3> QED
        BY <1>2, <3>1, SameQueueKept DEF ProcessLine
    <2>2. CASE ~(s.lastNotification \/ s.requestor)
      BY <1>2, <2>2, ToCommandKept DEF ProcessLine, UnknownLine
    <2> QED
      BY <2>1, <2>2
  <1>3. ASSUME NEW r \in Results
        PROVE  Kept(s, Terminate(s, line, r, slot))
    BY <1>1, EndKept, KeptSame DEF Terminate
  <1>4. CASE line.type \in {"ok", "error"}
    BY <1>1, <1>3, <1>4 DEF ProcessLine
  <1>5. CASE line.type = "call"
    BY <1>1, <1>3, <1>5, KeptSame DEF ProcessLine
  <1>6. CASE line.type \in {"echo", "pduNote", "reqNote"}
    <2>1. /\ SameQueue(s, ProcessLine(s, line, slot))
          /\ ProcessLine(s, line, slot).deadTimer = s.deadTimer
          /\ ProcessLine(s, line, slot).wakeupShots = s.wakeupShots
      BY <1>1, <1>6 DEF ProcessLine, SameQueue, ChatType
    <2> QED
      BY <2>1, SameQueueKept
  <1>7. CASE line.type \in {"note", "prompt"}
    BY <1>7, KeptSame DEF ProcessLine
  <1> QED
    BY <1>2, <1>4, <1>5, <1>6, <1>7 DEF Line, LineTypes

LEMMA ReadLineKept ==
    ASSUME NEW s, Good(s), NEW line \in Line, NEW slot, SlotOK(s, slot)
    PROVE  Kept(s, ReadLine(s, line, slot))
  <1>1. s \in ChatType
    BY GoodTypes
  <1>2. CASE line.type = "prompt"
    <2>1. SameQueue(s, ReadLine(s, line, slot))
          /\ ReadLine(s, line, slot).deadTimer = s.deadTimer
          /\ ReadLine(s, line, slot).wakeupShots = s.wakeupShots
      BY <1>1, <1>2, WriteEffect DEF ReadLine, SameQueue, SameFlags, ChatType
    <2> QED
      BY <2>1, SameQueueKept
  <1>3. CASE line.type # "prompt"
    <2> DEFINE whole == [s EXCEPT !.partial = FALSE]
               seen == IF s.partial THEN [line EXCEPT !.type = "text"] ELSE line
               req == [whole EXCEPT !.requestor = TRUE]
    <2>1. /\ whole \in ChatType /\ SameQueue(s, whole) /\ SameTimers(s, whole)
          /\ whole.wakeupShots = s.wakeupShots /\ whole.queued = s.queued
          /\ SameQueue(s, req) /\ SameTimers(s, req)
          /\ req.wakeupShots = s.wakeupShots
      BY <1>1 DEF ChatType, SameQueue, SameTimers
    <2>2. seen \in Line
      BY DEF Line, LineTypes
    <2>3. ReadLine(s, line, slot) =
            IF ~s.wakeupInProgress THEN ProcessLine(whole, seen, slot)
            ELSE IF seen.type = "reqNote" THEN req ELSE whole
      BY <1>3 DEF ReadLine
    <2> HIDE DEF whole, seen, req
    <2>4. Good(whole) /\ Kept(s, whole) /\ Kept(s, req)
      BY <2>1, SameHandled, SameQueueKept DEF Handled, SameTimers
    <2>5. Good(ProcessLine(whole, seen, slot))
          /\ Kept(whole, ProcessLine(whole, seen, slot))
      BY <2>1, <2>2, <2>4, ProcessLineKept, ProcessLineHandled
      DEF SlotOK, Handled
    <2> QED
      BY <2>3, <2>4, <2>5, KeptTransitive
  <1> QED
    BY <1>2, <1>3

----------------------------------------------------------------------------
(* The steps.                                                               *)

\* What a step means for the clients, for Watched and for the aborts.
\* The loop of timeout() leaves commands unwatched, but only while it runs.
WatchInv == ~chat.failing => WatchedIn(chat)
StepKept ==
    /\ Onward(chat, chat')
    /\ WatchInv => WatchInv'
    /\ AbortsIn(chat) => AbortsIn(chat')

LEMMA KeptStep ==
    ASSUME Kept(chat, chat'), chat'.failing = chat.failing
    PROVE  StepKept
  BY DEF Kept, StepKept, WatchInv, WatchedIn, Sent, Busy, Head1

LEMMA CallsKept ==
    ASSUME IInv,
           \/ \E kind \in Kinds, slot \in Slots(chat) : Chat(kind, slot)
           \/ \E slot \in Slots(chat) : Incoming(slot) \/ FailCommand(slot)
    PROVE  StepKept
  <1>1. /\ Good(chat) /\ chat \in ChatType /\ TypeOK
        /\ 0 \in Tags /\ "error" \in Results
    BY BoundsAssumption DEF IInv, Good, Tags, Results
  <1>2. ASSUME NEW kind \in Kinds, NEW slot \in Slots(chat), Chat(kind, slot)
        PROVE  StepKept
    <2> DEFINE open == Reopen(chat)
               read == ReadLine(open, Head(rx), slot)
    <2>1. /\ Good(open) /\ Kept(chat, open) /\ open.failing = chat.failing
          /\ open.queued = chat.queued
      BY <1>1, ReopenGood, SameQueueKept DEF SameTimers, SameQueue
    <2> HIDE DEF open
    <2>2. CASE chat' = Enqueue(chat, kind)
      BY <1>1, <1>2, <2>2, EnqueueKept, EnqueueGood, KeptStep DEF Chat
    <2>3. CASE /\ rx # <<>> /\ read.queued < MaxCommands
               /\ chat' = Enqueue(read, kind)
      <3>1. Head(rx) \in Line /\ SlotOK(open, slot)
        BY <1>1, <2>1, <2>3, RxHeadTail, SlotsOK DEF SlotOK
      <3>2. Good(read) /\ Kept(open, read) /\ read.failing = open.failing
        BY <2>1, <3>1, ReadLineKept, ReadLineHandled DEF Handled
      <3> HIDE DEF read
      <3>3. Good(chat') /\ Kept(read, chat') /\ chat'.failing = read.failing
        BY <2>3, <3>2, EnqueueKept, EnqueueGood
      <3>4. Kept(open, chat')
        BY <2>1, <3>2, <3>3, KeptTransitive
      <3>5. Kept(chat, chat')
        BY <1>1, <2>1, <3>3, <3>4, KeptTransitive
      <3> QED
        BY <2>1, <3>2, <3>3, <3>5, KeptStep
    <2> QED
      BY <1>2, <2>2, <2>3 DEF Chat, open
  <1>3. ASSUME NEW slot \in Slots(chat), Incoming(slot)
        PROVE  StepKept
    <2>1. Head(rx) \in Line /\ SlotOK(chat, slot)
      BY <1>1, <1>3, RxHeadTail, SlotsOK DEF Incoming
    <2>2. Kept(chat, chat') /\ chat'.failing = chat.failing
      BY <1>1, <1>3, <2>1, ReadLineKept, ReadLineHandled DEF Incoming, Handled
    <2> QED
      BY <2>2, KeptStep
  <1>4. ASSUME NEW slot \in Slots(chat), FailCommand(slot)
        PROVE  StepKept
    <2>1. PICK n \in Nat : n = chat.failShots - 1
      BY <1>1, <1>4 DEF FailCommand, ChatType
    <2> DEFINE s == [chat EXCEPT !.failShots = n]
    <2>2. /\ s \in ChatType /\ SameQueue(chat, s) /\ SameTimers(chat, s)
          /\ s.wakeupShots = chat.wakeupShots /\ s.failing = chat.failing
      BY <1>1 DEF ChatType, SameQueue, SameTimers
    <2>3. IF ~s.valid /\ Busy(s)
          THEN chat' = PrimeIfNecessary(Done(s, "error", 0, slot))
          ELSE chat' = s
      BY <1>4, <2>1 DEF FailCommand
    <2> HIDE DEF s
    <2>4. Good(s) /\ Kept(chat, s) /\ SlotOK(s, slot)
      BY <1>1, <2>2, SameHandled, SameQueueKept, SlotsOK
      DEF Handled, SameTimers, SlotOK, SameQueue
    <2>5. Good(chat') /\ Kept(s, chat') /\ chat'.failing = s.failing
      <3>1. CASE ~s.valid /\ Busy(s)
        BY <1>1, <2>3, <2>4, <3>1, EndKept, EndHandled DEF Handled
      <3>2. CASE ~(~s.valid /\ Busy(s))
        BY <2>3, <2>4, <3>2, KeptSame
      <3> QED
        BY <3>1, <3>2
    <2>6. Kept(chat, chat')
      BY <1>1, <2>4, <2>5, KeptTransitive
    <2> QED
      BY <2>2, <2>5, <2>6, KeptStep
  <1> QED
    BY <1>2, <1>3, <1>4

LEMMA TimersKept ==
    ASSUME IInv, Timeout \/ RetryTimeout \/ WakeupFinished
    PROVE  StepKept
  <1>1. Good(chat) /\ chat \in ChatType
    BY DEF IInv, Good
  <1>2. CASE Timeout
    <2>1. /\ chat'.queue = chat.queue /\ chat'.ended = chat.ended
          /\ chat'.queued = chat.queued /\ chat'.failing = Busy(chat)
          /\ chat'.wakeupShots = chat.wakeupShots
      BY <1>1, <1>2 DEF Timeout, ChatType
    <2>2. Sent(chat') = Sent(chat) /\ Busy(chat') = Busy(chat)
      BY <2>1, Zenon DEF Sent, Busy, Head1
    <2>3. Onward(chat, chat')
      BY <1>1, <2>1, <2>2, GoodTypes DEF Onward
    <2>4. WatchInv'
      BY <2>1, <2>2 DEF WatchInv, WatchedIn, Sent, Busy
    <2>5. AbortsIn(chat) => AbortsIn(chat')
      BY <2>1 DEF AbortsIn
    <2> QED
      BY <2>1, <2>3, <2>4, <2>5 DEF StepKept
  <1>3. CASE RetryTimeout
    <2> DEFINE s == [chat EXCEPT !.retryTimer = FALSE]
    <2>1. /\ s \in ChatType /\ SameQueue(chat, s) /\ s.failing = chat.failing
          /\ s.deadTimer = chat.deadTimer /\ s.retryTimer = FALSE
          /\ s.wakeupShots = chat.wakeupShots
      BY <1>1 DEF ChatType, SameQueue
    <2>2. chat' = Prime(s)
      BY <1>3, Zenon DEF RetryTimeout
    <2> HIDE DEF s
    <2>3. Good(s) /\ Kept(chat, s)
      BY <1>1, <2>1, SameQueueGood, SameQueueKept DEF Good, TimersHaveCommandIn
    <2>4. Good(chat') /\ Kept(s, chat') /\ chat'.failing = s.failing
      BY <2>2, <2>3, PrimeKept, PrimeGood
    <2>5. Kept(chat, chat')
      BY <1>1, <2>3, <2>4, KeptTransitive
    <2> QED
      BY <2>1, <2>4, <2>5, KeptStep
  <1>4. CASE WakeupFinished
    <2>1. PICK n \in Nat : n = chat.wakeupShots - 1 /\ chat.wakeupShots # 0
      BY <1>1, <1>4 DEF WakeupFinished, ChatType
    <2> DEFINE s == [chat EXCEPT !.wakeupInProgress = FALSE, !.wakeupShots = n]
    <2>2. chat' = Prime(s)
      BY <1>4, <2>1 DEF WakeupFinished
    <2>3. /\ s \in ChatType /\ SameQueue(chat, s) /\ SameTimers(chat, s)
          /\ s.failing = chat.failing
      BY <1>1 DEF ChatType, SameQueue, SameTimers
    <2> HIDE DEF s
    <2>4. Good(s)
      BY <1>1, <2>3, SameQueueGood DEF Good
    <2>5. Kept(chat, s)
      BY <1>1, <2>1, <2>3, SameQueueKept DEF SameTimers
    <2>6. Good(chat') /\ Kept(s, chat') /\ chat'.failing = s.failing
      BY <2>2, <2>4, PrimeKept, PrimeGood
    <2>7. Kept(chat, chat')
      BY <1>1, <2>4, <2>5, <2>6, KeptTransitive
    <2> QED
      BY <2>3, <2>6, <2>7, KeptStep
  <1> QED
    BY <1>2, <1>3, <1>4

LEMMA FailNextKept ==
    ASSUME IInv, NEW slot \in Slots(chat), FailNext(slot)
    PROVE  StepKept
  <1> DEFINE d == Done(chat, "dead", 0, slot)
  <1>1. /\ Good(chat) /\ Busy(chat) /\ SlotOK(chat, slot)
        /\ 0 \in Tags /\ "dead" \in Results
    BY SlotsOK, BoundsAssumption DEF IInv, FailNext, Tags, Results
  <1>2. Good(d) /\ Kept(chat, d)
    BY <1>1, DoneKept
  <1>3. chat' = [d EXCEPT !.failing = Busy(d)]
    BY DEF FailNext
  <1> HIDE DEF d
  <1>4. /\ chat'.queue = d.queue /\ chat'.ended = d.ended
        /\ chat'.queued = d.queued /\ chat'.failing = Busy(d)
        /\ chat'.wakeupShots = d.wakeupShots
    BY <1>2, <1>3 DEF Good, ChatType
  <1>5. Sent(chat') = Sent(d) /\ Busy(chat') = Busy(d)
    BY <1>4, Zenon DEF Sent, Busy, Head1
  <1>6. Onward(chat, chat')
    BY <1>2, <1>4, <1>5 DEF Kept, Onward
  <1>7. WatchInv'
    BY <1>4, <1>5 DEF WatchInv, WatchedIn, Sent, Busy
  <1>8. AbortsIn(chat) => AbortsIn(chat')
    BY <1>2, <1>4 DEF Kept, AbortsIn
  <1> QED
    BY <1>6, <1>7, <1>8 DEF StepKept

LEMMA AbortDialKept ==
    ASSUME IInv, AbortDial
    PROVE  StepKept
  <1> DEFINE x == [Head1(chat) EXCEPT !.forcedAbort = TRUE]
             w == Write(chat, "abort", 0, NoSlot)
  <1>1. /\ Good(chat) /\ Busy(chat) /\ chat \in ChatType
        /\ Head1(chat) \in Command
    BY GoodTypes DEF IInv, AbortDial
  <1>2. x \in Command /\ x.primed = Head1(chat).primed
    BY <1>1 DEF Command
  <1>3. SameQueue(chat, w) /\ SameFlags(chat, w) /\ DOMAIN w = DOMAIN chat
    <2>1. SameQueue(chat, w) /\ SameFlags(chat, w)
      BY <1>1, WriteEffect
    <2>2. DOMAIN w = DOMAIN chat
      BY <1>1 DEF Write, ChatType
    <2> QED
      BY <2>1, <2>2
  <1>4. chat' = [w EXCEPT !.queue = [chat.queue EXCEPT ![1] = x]]
    <2>1. chat' = [w EXCEPT !.queue = [@ EXCEPT ![1].forcedAbort = TRUE]]
      BY DEF AbortDial
    <2> HIDE DEF w
    <2> QED
      BY <1>1, <1>3, <2>1 DEF ChatType, SameQueue, Head1
  <1> HIDE DEF w, x
  <1>5. /\ chat'.queue = [chat.queue EXCEPT ![1] = x]
        /\ chat'.ended = chat.ended /\ chat'.queued = chat.queued
        /\ chat'.deadTimer = chat.deadTimer /\ chat'.failing = chat.failing
        /\ chat'.wakeupShots = chat.wakeupShots
    BY <1>1, <1>3, <1>4 DEF ChatType, SameQueue, SameFlags
  <1>6. Kept(chat, chat')
    BY <1>1, <1>2, <1>5, HeadChangeKept
  <1> QED
    BY <1>5, <1>6, KeptStep

\* The steps that leave the queue and the timers alone.
LEMMA OthersKept ==
    ASSUME IInv,
           \/ Suspend \/ Resume \/ LineIdle \/ DeviceClosed
           \/ ModemStep \/ ModemDeaf \/ ModemNotify \/ UNCHANGED vars
    PROVE  StepKept
  <1>1. Good(chat) /\ chat \in ChatType
    BY DEF IInv, Good
  <1>2. SameQueue(chat, chat') /\ SameTimers(chat, chat')
        /\ chat'.wakeupShots = chat.wakeupShots
    <2>1. CASE Suspend \/ Resume \/ LineIdle \/ DeviceClosed
      BY <1>1, <2>1 DEF Suspend, Resume, Reopen, LineIdle, DeviceClosed,
                        ChatType, SameQueue, SameTimers
    <2>2. CASE ModemStep \/ ModemDeaf \/ ModemNotify \/ UNCHANGED vars
      BY <1>1, <2>2 DEF ModemStep, ModemAccept, ModemPrompt, ModemAnswer,
                 ModemDeaf, ModemNotify, ReadTx, vars, ChatType, SameQueue,
                 SameTimers
    <2> QED
      BY <2>1, <2>2
  <1>3. Kept(chat, chat') /\ chat'.failing = chat.failing
    BY <1>1, <1>2, SameQueueKept DEF SameTimers, SameQueue
  <1> QED
    BY <1>3, KeptStep

LEMMA NextKept == IInv /\ [Next]_vars => StepKept
  <1> SUFFICES ASSUME IInv, [Next]_vars PROVE StepKept
    OBVIOUS
  <1>1. CASE \/ \E kind \in Kinds, slot \in Slots(chat) : Chat(kind, slot)
             \/ \E slot \in Slots(chat) : Incoming(slot) \/ FailCommand(slot)
    BY <1>1, CallsKept
  <1>2. CASE \E slot \in Slots(chat) : FailNext(slot)
    BY <1>2, FailNextKept
  <1>3. CASE AbortDial
    BY <1>3, AbortDialKept
  <1>4. CASE Timeout \/ RetryTimeout \/ WakeupFinished
    BY <1>4, TimersKept
  <1>5. CASE \/ Suspend \/ Resume \/ LineIdle \/ DeviceClosed
             \/ ModemStep \/ ModemDeaf \/ ModemNotify \/ UNCHANGED vars
    BY <1>5, OthersKept
  <1> QED
    BY <1>1, <1>2, <1>3, <1>4, <1>5 DEF Next

----------------------------------------------------------------------------
\* With a dead timeout no transmitted command goes unwatched, whatever order
\* of done(), prime(), retries and slots stopped and started the timers: prime()
\* starts the dead timer of what it transmits, and done() stops it only when
\* the command leaves the queue.
THEOREM CommandsAreWatched == Spec => []Watched
  <1>1. Init => WatchInv
    BY DEF Init, WatchInv, WatchedIn, Sent, Busy
  <1>2. IInv /\ [Next]_vars /\ WatchInv => WatchInv'
    BY NextKept DEF StepKept
  <1>3. WatchInv => Watched
    BY DEF WatchInv, WatchedIn, Watched, Sent, Busy, Head1
  <1> QED
    BY <1>1, <1>2, <1>3, Invariance, PTL DEF Spec

\* An abort follows the dial it is for: the command that abortDial() marks is
\* the one that has been transmitted, and only where a wakeup command is
\* registered can it be one whose line is still to be written, while the
\* modem is being woken up.  With a command that expects no response the head
\* may wait untransmitted for no reason, so those are excluded.
THEOREM AbortsHitTheDial ==
    ASSUME "silent" \notin Kinds
    PROVE  Spec => []AbortAfterDial
  <1>1. Init => AbortsIn(chat)
    BY DEF Init, AbortsIn
  <1>2. IInv /\ [Next]_vars /\ AbortsIn(chat) => AbortsIn(chat)'
    BY NextKept DEF StepKept, AbortsIn
  <1>3. IInv /\ AbortsIn(chat) => AbortAfterDial
    <2> SUFFICES ASSUME IInv, AbortsIn(chat), ~chat.failing,
                        NEW i \in DOMAIN chat.queue, chat.queue[i].forcedAbort
                 PROVE  /\ i = 1
                        /\ chat.queue[i].primed \/ chat.wakeupShots > 0
      BY DEF AbortAfterDial
    <2>1. i = 1
      BY DEF AbortsIn
    <2>2. Busy(chat)
      BY DEF Busy
    <2> QED
      BY <2>1, <2>2 DEF IInv, NoStall, HeadOnItsWay, Head1
  <1> QED
    BY <1>1, <1>2, <1>3, Invariance, PTL DEF Spec

----------------------------------------------------------------------------
(* The queue implements CommandService.                                     *)

\* With n commands queued, f of them ended and perhaps one out
PhaseIn(n, f, out, i) ==
    IF i > n THEN "new"
    ELSE IF i <= f THEN "ended"
    ELSE IF out /\ i = f + 1 THEN "sent"
    ELSE "queued"

PhasesIn(n, f, out) == [i \in Ids |-> PhaseIn(n, f, out, i)]

PhasesForm ==
    [i \in Ids |-> PhaseOf(i)]
        = PhasesIn(chat.queued, Len(chat.ended), Sent(chat))

LEMMA PhasesAre == IInv => PhasesForm
  <1> SUFFICES ASSUME IInv, NEW i \in Ids
               PROVE  PhaseOf(i) = PhaseIn(chat.queued, Len(chat.ended),
                                           Sent(chat), i)
    BY DEF PhasesIn, PhasesForm
  <1>1. /\ chat.queue \in Seq(Command) /\ DOMAIN chat.queue = 1..Len(chat.queue)
        /\ \A k \in DOMAIN chat.queue : k > 1 => ~chat.queue[k].primed
    BY GoodTypes DEF IInv, Good, OnlyHeadPrimedIn
  <1>2. PICK n, f, k \in Nat :
           n = chat.queued /\ f = Len(chat.ended) /\ k = Len(chat.queue)
    BY GoodTypes DEF IInv
  <1>3. f + k = n
    BY <1>2 DEF IInv, Good, InOrderIn
  <1>4. i \in Nat
    BY DEF Ids
  <1>5. CASE i > n \/ i <= f
    BY <1>2, <1>4, <1>5 DEF PhaseOf, PhaseIn
  <1>6. CASE f < i /\ i <= n
    <2>1. i - f \in 1..k
      BY <1>3, <1>4, <1>6
    <2>2. chat.queue # <<>>
      BY <1>2, <2>1
    <2>3. CASE i = f + 1
      <3>1. PhaseOf(i) = IF chat.queue[1].primed THEN "sent" ELSE "queued"
        <4>1. i - f = 1 /\ ~(i > n) /\ ~(i <= f)
          BY <1>4, <1>6, <2>3
        <4>2. /\ i - Len(chat.ended) = 1 /\ ~(i > chat.queued)
              /\ ~(i <= Len(chat.ended))
          BY <1>2, <4>1
        <4> QED
          BY <4>2, Zenon DEF PhaseOf
      <3>2. Sent(chat) = chat.queue[1].primed
        <4>1. chat.queue[1].primed \in BOOLEAN
          BY <2>2, GoodTypes DEF IInv, Busy, Head1, Command
        <4> QED
          BY <2>2, <4>1 DEF Sent, Busy, Head1
      <3> QED
        BY <1>2, <1>6, <2>3, <3>1, <3>2 DEF PhaseIn
    <2>4. CASE i # f + 1
      <3>1. i - f > 1
        BY <1>4, <1>6, <2>4
      <3>2. ~chat.queue[i - f].primed
        BY <1>1, <1>2, <2>1, <3>1
      <3> QED
        BY <1>2, <1>6, <2>4, <3>2 DEF PhaseIn, PhaseOf
    <2> QED
      BY <2>3, <2>4
  <1> QED
    BY <1>2, <1>4, <1>5, <1>6

LEMMA PhasesArePrimed == IInv' => PhasesForm'
  BY PhasesAre, PTL

\* Phases p can become phases q.
Advances(p, q) ==
    /\ q \in [Service!Ids -> Service!Phases]
    /\ \A i \in Service!Ids : q[i] = p[i] \/ <<p[i], q[i]>> \in Service!Before
    /\ Service!InTurn(q)

\* Such phases are in turn, and nothing goes back.
LEMMA PhasesAdvance ==
    ASSUME NEW n \in Nat, NEW f \in Nat, NEW out \in BOOLEAN,
           NEW n2 \in Nat, NEW f2 \in Nat, NEW out2 \in BOOLEAN,
           n2 >= n, f2 >= f, f <= n, out => out2 \/ f2 > f
    PROVE  Advances(PhasesIn(n, f, out), PhasesIn(n2, f2, out2))
  <1>1. Service!Ids = Ids /\ Ids \subseteq Nat
    BY DEF Service!Ids, Ids
  <1>2. \A i \in Ids : PhaseIn(n2, f2, out2, i) \in Service!Phases
    BY DEF PhaseIn, Service!Phases
  <1>3. ASSUME NEW i \in Ids
        PROVE  \/ PhaseIn(n2, f2, out2, i) = PhaseIn(n, f, out, i)
               \/ <<PhaseIn(n, f, out, i), PhaseIn(n2, f2, out2, i)>>
                     \in Service!Before
    BY <1>1 DEF PhaseIn, Service!Before
  <1>4. ASSUME NEW i \in Ids, NEW j \in Ids, i < j
        PROVE  /\ <<PhaseIn(n2, f2, out2, i), PhaseIn(n2, f2, out2, j)>>
                     \notin Service!Before
               /\ ~(PhaseIn(n2, f2, out2, i) = "sent"
                    /\ PhaseIn(n2, f2, out2, j) = "sent")
    BY <1>1, <1>4 DEF PhaseIn, Service!Before
  <1> QED
    BY <1>1, <1>2, <1>3, <1>4 DEF Advances, PhasesIn, Service!InTurn

LEMMA MappedInit == Init => Service!Init
  <1> SUFFICES ASSUME Init PROVE \A i \in Ids : PhaseOf(i) = "new"
    BY DEF Service!Init, Service!Ids, Ids
  <1> QED
    BY DEF Init, PhaseOf, Ids

\* The types of what the mapping reads
Counts ==
    /\ chat.queued \in Nat /\ Len(chat.ended) \in Nat
    /\ Sent(chat) \in BOOLEAN /\ Len(chat.ended) <= chat.queued

LEMMA CountsType == IInv => Counts
  <1> SUFFICES ASSUME IInv PROVE Counts
    OBVIOUS
  <1>1. Good(chat)
    BY DEF IInv
  <1>2. PICK n, f, k \in Nat :
           n = chat.queued /\ f = Len(chat.ended) /\ k = Len(chat.queue)
    BY <1>1, GoodTypes
  <1>3. f + k = n
    BY <1>1, <1>2 DEF Good, InOrderIn
  <1>4. Sent(chat) \in BOOLEAN
    BY <1>1, GoodTypes DEF Sent, Busy, Command
  <1>5. f <= n
    BY <1>3
  <1> QED
    BY <1>2, <1>4, <1>5 DEF Counts

LEMMA CountsTypePrimed == IInv' => Counts'
  BY CountsType, PTL

LEMMA MappedStep ==
    ASSUME IInv, IInv', StepKept
    PROVE  Service!Advance
  <1> DEFINE p == PhasesIn(chat.queued, Len(chat.ended), Sent(chat))
             q == PhasesIn(chat'.queued, Len(chat'.ended), Sent(chat'))
  <1>1. [i \in Ids |-> PhaseOf(i)] = p
    BY PhasesAre, Zenon DEF PhasesForm
  <1>2. [i \in Ids |-> PhaseOf(i)]' = q
    BY PhasesArePrimed, Zenon DEF PhasesForm, PhasesIn, PhaseIn, Sent, Busy, Head1
  <1>3. Advances(p, q)
    <2>1. /\ chat.queued \in Nat /\ Len(chat.ended) \in Nat
          /\ Sent(chat) \in BOOLEAN /\ Len(chat.ended) <= chat.queued
          /\ chat'.queued \in Nat /\ Len(chat'.ended) \in Nat
          /\ Sent(chat') \in BOOLEAN
      BY CountsType, CountsTypePrimed DEF Counts, Sent, Busy, Head1
    <2>2. /\ chat'.queued >= chat.queued /\ Len(chat'.ended) >= Len(chat.ended)
          /\ Sent(chat) => Sent(chat') \/ Len(chat'.ended) > Len(chat.ended)
      BY DEF StepKept, Onward
    <2> QED
      BY <2>1, <2>2, PhasesAdvance
  <1> HIDE DEF p, q
  <1> QED
    BY <1>1, <1>2, <1>3 DEF Advances, Service!Advance

\* The queue keeps its promise to its clients: every step of the chat, with
\* the slots that run inside it, is a step of CommandService or none (queue(),
\* prime(), done(), timeout(), failCommand()).
THEOREM QueueImplementsService == Spec => ServiceSafety
  <1>1. IInv /\ IInv' /\ [Next]_vars
           => [Service!Advance]_([i \in Ids |-> PhaseOf(i)])
    BY NextKept, MappedStep
  <1>2. Init => Service!Init
    BY MappedInit
  <1> QED
    BY <1>1, <1>2, Invariance, PTL DEF Spec, ServiceSafety, Service!Spec

----------------------------------------------------------------------------
(* Nothing is transmitted twice without setRetryOnNonEcho().                *)

\* Where the property holds: without a wakeup command always; with one, when
\* done() slots queue nothing and the device stays open.  Either of the two
\* lets primeIfNecessary() transmit the head while the modem is being woken
\* for it, and wakeupFinished() transmits it again (TLC shows both).
Calm == WakeupActive => SlotKinds = {} /\ MaxFailures = 0

\* A wakeup is one, for a head that has not been transmitted.
Steady(s) ==
    /\ ~s.resent /\ ~s.retryTimer
    /\ s.wakeupShots \in {0, 1}
    /\ s.lineIdle => s.wakeupShots = 0
    /\ s.wakeupInProgress <=> s.wakeupShots = 1
    /\ s.wakeupShots = 1 => WakeupActive /\ Busy(s) /\ ~Head1(s).primed
    /\ WakeupActive => /\ s.valid /\ s.failShots = 0
                       /\ s.failing => s.wakeupShots = 0

\* What keeps a record steady: the queue's head and these flags.
SameWaking(s, t) ==
    /\ t.resent = s.resent /\ (t.retryTimer => s.retryTimer)
    /\ t.wakeupShots = s.wakeupShots /\ t.lineIdle = s.lineIdle
    /\ t.wakeupInProgress = s.wakeupInProgress
    /\ WakeupActive => /\ s.valid => t.valid
                       /\ t.failShots = s.failShots
                       /\ t.failing => s.failing \/ s.wakeupShots = 0

LEMMA SteadySame ==
    ASSUME NEW s, Steady(s), NEW t, SameWaking(s, t),
           t.queue = s.queue \/ s.wakeupShots = 0
    PROVE  Steady(t)
  <1>1. CASE s.wakeupShots = 0
    BY <1>1 DEF Steady, SameWaking
  <1>2. CASE t.queue = s.queue
    <2>1. Busy(t) = Busy(s) /\ Head1(t) = Head1(s)
      BY <1>2 DEF Busy, Head1
    <2> QED
      BY <2>1, Zenon DEF Steady, SameWaking
  <1> QED
    BY <1>1, <1>2

LEMMA SteadyPop ==
    ASSUME NEW s, Good(s), Busy(s), Steady(s), s.wakeupShots = 0,
           NEW r \in Results, NEW by \in Tags
    PROVE  Steady(Pop(s, r, by)) /\ Pop(s, r, by).wakeupShots = 0
  <1>1. Popped(s, Pop(s, r, by))
    BY PopEffect
  <1> QED
    BY <1>1 DEF Steady, Popped

LEMMA SteadyTransmit ==
    ASSUME NEW s, Good(s), Busy(s), Steady(s), s.wakeupShots = 0, ~Sent(s),
           Calm, ~RetryOnNonEcho
    PROVE  Steady(Transmit(s)) /\ Transmit(s).wakeupShots = 0
  <1>1. Transmitted(s, Transmit(s)) /\ ~Head1(s).primed
    BY TransmitEffect DEF Sent
  <1> DEFINE t == Transmit(s)
  <1> HIDE DEF t
  <1>2. ~t.resent /\ ~t.retryTimer /\ t.wakeupShots = 0
        /\ ~t.wakeupInProgress /\ ~t.lineIdle
    <2>1. ~t.resent /\ ~t.retryTimer /\ ~t.lineIdle
      BY <1>1, Zenon DEF t, Steady, Transmitted
    <2>2. t.wakeupShots = 0 /\ t.wakeupInProgress = s.wakeupInProgress
      BY <1>1 DEF t, Transmitted
    <2>3. ~s.wakeupInProgress
      BY DEF Steady
    <2> QED
      BY <2>1, <2>2, <2>3
  <1>3. WakeupActive => t.valid /\ t.failShots = 0
    BY <1>1 DEF t, Steady, Transmitted
  <1>4. Steady(t) /\ t.wakeupShots = 0
    BY <1>2, <1>3 DEF Steady
  <1> QED
    BY <1>4 DEF t

LEMMA SteadyPrime ==
    ASSUME NEW s, Good(s), Steady(s), s.wakeupShots = 0, ~Sent(s),
           WakeupActive => ~s.failing, Calm, ~RetryOnNonEcho
    PROVE  Steady(Prime(s))
  <1>1. CASE ~Busy(s)
    BY <1>1 DEF Prime
  <1>2. CASE Busy(s) /\ WakeupActive /\ s.lineIdle
    <2> DEFINE u == PerformWakeup(s)
    <2>1. Awakening(s, u)
      BY PerformWakeupEffect
    <2> HIDE DEF u
    <2>2. Busy(u) /\ ~Head1(u).primed
      BY <1>2, <2>1, Zenon DEF Awakening, SameQueue, Sent, Busy, Head1
    <2>3. Steady(u)
      BY <1>2, <2>1, <2>2 DEF Awakening, SameQueue, Steady
    <2> QED
      BY <1>2, <2>3 DEF Prime, u
  <1>3. CASE Busy(s) /\ ~(WakeupActive /\ s.lineIdle) /\ Head1(s).kind # "silent"
    BY <1>3, SteadyTransmit DEF Prime
  <1>4. CASE Busy(s) /\ ~(WakeupActive /\ s.lineIdle) /\ Head1(s).kind = "silent"
    <2> DEFINE t == Transmit(s)
    <2>1. Good(t) /\ Busy(t) /\ Steady(t) /\ t.wakeupShots = 0
      BY <1>4, TransmitGood, SteadyTransmit
    <2>2. Head1(s).id \in Tags /\ "ok" \in Results
      BY <1>4, GoodTypes, BoundsAssumption DEF Command, Ids, Tags, Results
    <2>3. Prime(s) = Pop(t, "ok", Head1(s).id)
      BY <1>4 DEF Prime
    <2> HIDE DEF t
    <2> QED
      BY <2>1, <2>2, <2>3, SteadyPop
  <1> QED
    BY <1>1, <1>2, <1>3, <1>4

LEMMA SteadyEnqueue ==
    ASSUME NEW s, Good(s), Steady(s), NEW kind \in Kinds,
           s.queued < MaxCommands, WakeupActive => ~s.failing,
           Calm, ~RetryOnNonEcho
    PROVE  Steady(Enqueue(s, kind))
  <1> DEFINE o == Resumed(s)
             l == Linked(o, kind)
  <1>1. Good(o) /\ o.queued < MaxCommands /\ o.failing = s.failing
    BY ReopenGood DEF Resumed, SameQueue
  <1>2. SameWaking(s, o) /\ o.queue = s.queue
    <2>1. s \in ChatType
      BY GoodTypes
    <2> QED
      BY <2>1 DEF Resumed, Reopen, SameWaking, ChatType
  <1>3. Steady(o)
    BY <1>2, SteadySame
  <1>4. Enqueue(s, kind) = IF Busy(o) THEN l ELSE Prime(l)
    BY DEF Enqueue, Link
  <1> HIDE DEF o
  <1>5. Good(l) /\ Busy(l) /\ Sent(l) = Sent(o) /\ SameFlags(o, l)
    BY <1>1, LinkedKept, LinkedEffect
  <1> HIDE DEF l
  <1>6. Steady(l)
    <2>1. CASE o.wakeupShots = 0
      BY <1>3, <1>5, <2>1 DEF Steady, SameFlags
    <2>2. CASE o.wakeupShots = 1
      <3>1. ~Head1(l).primed
        BY <1>3, <1>5, <2>2 DEF Steady, Sent
      <3> QED
        BY <1>3, <1>5, <2>2, <3>1 DEF Steady, SameFlags
    <2> QED
      BY <1>3, <2>1, <2>2 DEF Steady
  <1>7. CASE Busy(o)
    BY <1>4, <1>6, <1>7
  <1>8. CASE ~Busy(o)
    <2>1. o.wakeupShots = 0 /\ ~Sent(o)
      BY <1>3, <1>8 DEF Steady, Sent
    <2>2. l.wakeupShots = 0 /\ ~Sent(l) /\ l.failing = s.failing
      BY <1>1, <1>5, <2>1 DEF SameFlags
    <2> QED
      BY <1>4, <1>5, <1>6, <1>8, <2>2, SteadyPrime
  <1> QED
    BY <1>7, <1>8

\* done() and primeIfNecessary(), when no wakeup is going on.
LEMMA SteadyEnd ==
    ASSUME NEW s, Good(s), Busy(s), Steady(s), s.wakeupShots = 0,
           NEW r \in Results, NEW by \in Tags,
           NEW slot, SlotOK(s, slot), WakeupActive => slot = NoSlot,
           Calm, ~RetryOnNonEcho
    PROVE  /\ Steady(Done(s, r, by, slot))
           /\ (WakeupActive => ~s.failing)
              => Steady(PrimeIfNecessary(Done(s, r, by, slot)))
  <1> DEFINE p == Pop(s, r, by)
             d == Done(s, r, by, slot)
  <1>1. Good(p) /\ Steady(p) /\ p.wakeupShots = 0 /\ p.queued = s.queued
    BY PopGood, SteadyPop
  <1>2. d = IF slot = NoSlot THEN p ELSE Enqueue(p, slot)
    BY DEF Done
  <1>3. Good(d) /\ d.failing = s.failing
    BY DoneGood
  <1> HIDE DEF p, d
  <1>4. Steady(d) /\ d.wakeupShots = 0
    <2>1. CASE slot = NoSlot
      BY <1>1, <1>2, <2>1
    <2>2. CASE slot # NoSlot
      <3>1. Steady(d) /\ ~WakeupActive
        BY <1>1, <1>2, <2>2, SteadyEnqueue DEF SlotOK
      <3> QED
        BY <3>1 DEF Steady
    <2> QED
      BY <2>1, <2>2
  <1>5. (WakeupActive => ~s.failing) => Steady(PrimeIfNecessary(d))
    BY <1>3, <1>4, SteadyPrime DEF PrimeIfNecessary, Sent
  <1> QED
    BY <1>4, <1>5 DEF d

LEMMA SteadyReadLine ==
    ASSUME NEW s, Good(s), Steady(s), NEW line \in Line,
           NEW slot, SlotOK(s, slot), WakeupActive => slot = NoSlot,
           ~s.failing, Calm, ~RetryOnNonEcho
    PROVE  Steady(ReadLine(s, line, slot))
  <1>1. s \in ChatType
    BY GoodTypes
  <1>2. CASE line.type = "prompt"
    <2> DEFINE t == ReadLine(s, line, slot)
    <2>1. SameWaking(s, t) /\ t.queue = s.queue
      BY <1>1, <1>2, WriteEffect
      DEF ReadLine, SameQueue, SameFlags, ChatType, SameWaking
    <2> HIDE DEF t
    <2>2. Steady(t)
      BY <2>1, SteadySame
    <2> QED
      BY <2>2 DEF t
  <1>3. CASE line.type # "prompt"
    <2> DEFINE whole == [s EXCEPT !.partial = FALSE]
               seen == IF s.partial THEN [line EXCEPT !.type = "text"] ELSE line
               req == [whole EXCEPT !.requestor = TRUE]
               t == ProcessLine(whole, seen, slot)
    <2>1. /\ whole \in ChatType /\ SameQueue(s, whole) /\ SameTimers(s, whole)
          /\ whole.wakeupShots = s.wakeupShots /\ whole.queued = s.queued
          /\ SameWaking(s, whole) /\ ~whole.failing
          /\ SameQueue(s, req) /\ SameWaking(s, req)
      BY <1>1 DEF ChatType, SameQueue, SameTimers, SameWaking
    <2>2. seen \in Line
      BY DEF Line, LineTypes
    <2>3. ReadLine(s, line, slot) =
            IF ~s.wakeupInProgress THEN t
            ELSE IF seen.type = "reqNote" THEN req ELSE whole
      BY <1>3 DEF ReadLine
    <2> HIDE DEF whole, seen, req
    <2>4. Good(whole) /\ Steady(whole) /\ Steady(req)
      BY <2>1, SameHandled, SteadySame DEF Handled, SameQueue
    <2>5. CASE ~s.wakeupInProgress
      <3>1. whole.wakeupShots = 0
        BY <2>1, <2>5 DEF Steady
      <3>2. /\ SlotOK(whole, slot) /\ seen.id \in Tags
            /\ "ok" \in Results /\ "error" \in Results /\ "call" \in Results
        BY <2>1, <2>2 DEF SlotOK, Line, Results
      <3>3. CASE seen.type \in {"ok", "error", "call"}
        <4>1. ASSUME NEW r \in Results
              PROVE  Steady(Terminate(whole, seen, r, slot))
          BY <2>1, <2>4, <3>1, <3>2, SteadyEnd DEF Terminate
        <4>2. \/ t = whole
              \/ \E r \in Results : t = Terminate(whole, seen, r, slot)
          BY <3>2, <3>3 DEF ProcessLine
        <4> HIDE DEF t
        <4> QED
          BY <2>3, <2>4, <2>5, <4>1, <4>2
      <3>4. CASE seen.type \notin {"ok", "error", "call"}
        <4>1. SameWaking(whole, t)
          BY <2>1, <3>4
          DEF ProcessLine, UnknownLine, ToNotification, ToCommand, ChatType,
              SameWaking
        <4> HIDE DEF t
        <4> QED
          BY <2>3, <2>4, <2>5, <3>1, <4>1, SteadySame
      <3> QED
        BY <2>3, <2>5, <3>3, <3>4
    <2> QED
      BY <2>3, <2>4, <2>5
  <1> QED
    BY <1>2, <1>3

SteadyInv == Steady(chat)

LEMMA NextSteady ==
    ASSUME IInv, [Next]_vars, Steady(chat), Calm, ~RetryOnNonEcho
    PROVE  Steady(chat')
  <1>1. /\ Good(chat) /\ chat \in ChatType /\ TypeOK
        /\ 0 \in Tags /\ "error" \in Results /\ "dead" \in Results
    BY BoundsAssumption DEF IInv, Good, Tags, Results
  <1>2. ASSUME NEW slot \in Slots(chat)
        PROVE  SlotOK(chat, slot) /\ (WakeupActive => slot = NoSlot)
    BY SlotsOK DEF Slots, Calm
  <1>3. ASSUME NEW kind \in Kinds, NEW slot \in Slots(chat), Chat(kind, slot)
        PROVE  Steady(chat')
    <2> DEFINE open == Reopen(chat)
               read == ReadLine(open, Head(rx), slot)
    <2>1. Good(open) /\ open.queued = chat.queued /\ ~open.failing
      BY <1>1, <1>3, ReopenGood DEF Chat, Idle, SameQueue
    <2>2. SameWaking(chat, open) /\ open.queue = chat.queue
      BY <1>1 DEF Reopen, SameWaking, ChatType
    <2>3. Steady(open)
      BY <2>2, SteadySame
    <2> HIDE DEF open
    <2>4. CASE chat' = Enqueue(chat, kind)
      BY <1>1, <1>3, <2>4, SteadyEnqueue DEF Chat, Idle
    <2>5. CASE /\ rx # <<>> /\ read.queued < MaxCommands
               /\ chat' = Enqueue(read, kind)
      <3>1. Head(rx) \in Line /\ SlotOK(open, slot)
        BY <1>1, <1>2, <2>1, <2>5, RxHeadTail DEF SlotOK
      <3>2. Good(read) /\ Steady(read) /\ ~read.failing
        BY <1>2, <2>1, <2>3, <3>1, SteadyReadLine, ReadLineHandled DEF Handled
      <3> HIDE DEF read
      <3> QED
        BY <2>5, <3>2, SteadyEnqueue
    <2> QED
      BY <1>3, <2>4, <2>5 DEF Chat, open
  <1>4. ASSUME NEW slot \in Slots(chat), Incoming(slot)
        PROVE  Steady(chat')
    <2>1. Head(rx) \in Line
      BY <1>1, <1>4, RxHeadTail DEF Incoming
    <2> QED
      BY <1>1, <1>2, <1>4, <2>1, SteadyReadLine DEF Incoming, Idle
  <1>5. ASSUME NEW slot \in Slots(chat), FailNext(slot)
        PROVE  Steady(chat')
    <2> DEFINE d == Done(chat, "dead", 0, slot)
    <2>1. Busy(chat) /\ chat.wakeupShots = 0
      BY <1>5 DEF IInv, FailNext, Steady
    <2>2. Good(d) /\ Steady(d) /\ d.failing = chat.failing
      BY <1>1, <1>2, <2>1, SteadyEnd, DoneGood
    <2>3. chat' = [d EXCEPT !.failing = Busy(d)]
      BY <1>5 DEF FailNext
    <2> HIDE DEF d
    <2>4. SameWaking(d, chat') /\ chat'.queue = d.queue
      BY <1>5, <2>2, <2>3 DEF Good, ChatType, SameWaking, FailNext
    <2> QED
      BY <2>2, <2>4, SteadySame
  <1>6. ASSUME NEW slot \in Slots(chat), FailCommand(slot)
        PROVE  Steady(chat')
    <2>1. PICK n \in Nat : n = chat.failShots - 1 /\ chat.failShots # 0
      BY <1>1, <1>6 DEF FailCommand, ChatType
    <2> DEFINE s == [chat EXCEPT !.failShots = n]
    <2>2. /\ s \in ChatType /\ SameQueue(chat, s) /\ SameTimers(chat, s)
          /\ s.wakeupShots = chat.wakeupShots
      BY <1>1 DEF ChatType, SameQueue, SameTimers
    <2>3. IF ~s.valid /\ Busy(s)
          THEN chat' = PrimeIfNecessary(Done(s, "error", 0, slot))
          ELSE chat' = s
      BY <1>6, <2>1 DEF FailCommand
    <2>4. ~WakeupActive /\ chat.wakeupShots = 0
      BY <2>1 DEF Steady
    <2>5. SameWaking(chat, s)
      BY <1>1, <2>4 DEF SameWaking, ChatType
    <2> HIDE DEF s
    <2>6. Good(s) /\ Steady(s) /\ SlotOK(s, slot)
      BY <1>1, <1>2, <2>2, <2>4, <2>5, SameHandled, SteadySame
      DEF Handled, SlotOK, SameQueue
    <2> QED
      BY <1>1, <1>2, <2>2, <2>3, <2>4, <2>6, SteadyEnd
         DEF FailCommand
  <1>7. CASE AbortDial
    <2> DEFINE x == [Head1(chat) EXCEPT !.forcedAbort = TRUE]
               w == Write(chat, "abort", 0, NoSlot)
    <2>1. Busy(chat) /\ Head1(chat) \in Command /\ Len(chat.queue) > 0
          /\ chat.queue \in Seq(Command)
      BY <1>1, <1>7, GoodTypes DEF AbortDial
    <2>2. x.primed = Head1(chat).primed
      BY <2>1 DEF Command
    <2>3. SameQueue(chat, w) /\ SameFlags(chat, w) /\ DOMAIN w = DOMAIN chat
      <3>1. SameQueue(chat, w) /\ SameFlags(chat, w)
        BY <1>1, WriteEffect
      <3>2. DOMAIN w = DOMAIN chat
        BY <1>1 DEF Write, ChatType
      <3> QED
        BY <3>1, <3>2
    <2>4. chat' = [w EXCEPT !.queue = [chat.queue EXCEPT ![1] = x]]
      <3>1. chat' = [w EXCEPT !.queue = [@ EXCEPT ![1].forcedAbort = TRUE]]
        BY <1>7 DEF AbortDial
      <3> HIDE DEF w
      <3> QED
        BY <1>1, <2>3, <3>1 DEF ChatType, SameQueue, Head1
    <2> HIDE DEF w, x
    <2>5. SameWaking(chat, chat') /\ chat'.queue = [chat.queue EXCEPT ![1] = x]
      BY <1>1, <2>3, <2>4 DEF ChatType, SameFlags, SameWaking
    <2>6. Busy(chat') /\ Head1(chat') = x
      <3>1. chat'.queue[1] = x /\ 1 \in DOMAIN chat'.queue
        BY <2>1, <2>5
      <3>2. chat'.queue # <<>>
        BY <3>1
      <3> QED
        BY <3>1, <3>2 DEF Busy, Head1
    <2> QED
      BY <2>1, <2>2, <2>5, <2>6 DEF Steady, SameWaking
  <1>8. CASE Suspend \/ Resume \/ ModemStep \/ ModemDeaf \/ ModemNotify
             \/ UNCHANGED vars
    <2>1. SameWaking(chat, chat') /\ chat'.queue = chat.queue
      BY <1>1, <1>8
      DEF Suspend, Resume, Reopen, ModemStep, ModemAccept, ModemPrompt,
          ModemAnswer, ModemDeaf, ModemNotify, ReadTx, vars, ChatType,
          SameWaking
    <2> QED
      BY <2>1, SteadySame
  <1>9. CASE LineIdle
    <2>1. chat.wakeupShots = 0
      BY <1>9 DEF LineIdle
    <2>2. chat' = [chat EXCEPT !.lineIdle = TRUE]
      BY <1>9 DEF LineIdle
    <2> QED
      BY <1>1, <2>1, <2>2 DEF ChatType, Steady
  <1>10. CASE DeviceClosed
    <2>1. ~WakeupActive
      BY <1>1, <1>10, BoundsAssumption DEF DeviceClosed, Calm, TypeOK
    <2>2. SameWaking(chat, chat') /\ chat'.queue = chat.queue
      BY <1>1, <1>10, <2>1 DEF DeviceClosed, ChatType, SameWaking
    <2> QED
      BY <2>2, SteadySame
  <1>11. CASE Timeout
    <2>1. chat.wakeupShots = 0
      BY <1>1, <1>11
      DEF Timeout, Steady, Good, TimersHaveCommandIn, Busy, Head1
    <2>2. SameWaking(chat, chat') /\ chat'.queue = chat.queue
      BY <1>1, <1>11, <2>1 DEF Timeout, ChatType, SameWaking
    <2> QED
      BY <2>2, SteadySame
  <1>12. CASE RetryTimeout
    BY <1>12 DEF RetryTimeout, Steady
  <1>13. CASE WakeupFinished
    <2>1. chat.wakeupShots = 1
      BY <1>13 DEF WakeupFinished, Steady
    <2> DEFINE s == [chat EXCEPT !.wakeupInProgress = FALSE, !.wakeupShots = 0]
    <2>2. chat' = Prime(s)
      BY <1>13, <2>1 DEF WakeupFinished
    <2>3. /\ s \in ChatType /\ SameQueue(chat, s) /\ SameTimers(chat, s)
          /\ s.wakeupShots = 0 /\ s.wakeupInProgress = FALSE
          /\ s.resent = chat.resent /\ s.retryTimer = chat.retryTimer
          /\ s.lineIdle = chat.lineIdle /\ s.valid = chat.valid
          /\ s.failShots = chat.failShots /\ s.deadTimer = chat.deadTimer
          /\ s.failing = chat.failing
      BY <1>1 DEF ChatType, SameQueue, SameTimers
    <2> HIDE DEF s
    <2>4. Good(s)
      BY <1>1, <2>3, SameQueueGood DEF Good
    <2>5. ~Sent(s) /\ ~s.failing
      BY <1>13, <2>1, <2>3, Zenon DEF Steady, Sent, SameQueue, Busy, Head1,
         WakeupFinished, Idle
    <2>6. Steady(s)
      BY <2>1, <2>3 DEF Steady
    <2> QED
      BY <2>2, <2>3, <2>4, <2>5, <2>6, SteadyPrime
  <1> QED
    BY <1>3, <1>4, <1>5, <1>6, <1>7, <1>8, <1>9, <1>10, <1>11, <1>12, <1>13
    DEF Next

\* No command is transmitted twice unless setRetryOnNonEcho() asked for it,
\* whatever the order of answers, timers and failures: a second AT+CMGS sends a
\* second message.  Calm is needed: with a wakeup command, a done() slot or a
\* closed device lets primeIfNecessary() transmit the head before
\* wakeupFinished() does.
THEOREM NothingSentTwice == ASSUME Calm PROVE Spec => []NotRepeated
  <1>1. CASE RetryOnNonEcho
    <2>1. NotRepeated
      BY <1>1 DEF NotRepeated
    <2> QED
      BY <2>1, PTL
  <1>2. CASE ~RetryOnNonEcho
    <2>1. Init => SteadyInv
      BY DEF Init, SteadyInv, Steady
    <2>2. IInv /\ [Next]_vars /\ SteadyInv => SteadyInv'
      BY <1>2, NextSteady DEF SteadyInv
    <2>3. SteadyInv => NotRepeated
      BY DEF SteadyInv, Steady, NotRepeated
    <2> QED
      BY <2>1, <2>2, <2>3, Invariance, PTL DEF Spec
  <1> QED
    BY <1>1, <1>2

-----------------------------------------------------------------------------
\* What is written and what is read

\* Command `id` is at the head and has been transmitted.
Out(s, id) == Sent(s) /\ Head1(s).id = id

\* What is written, and what is read.
Asks(w)         == w.what = "cmd" /\ w.kind # "silent"
Ends(line)      == line.type \in {"ok", "error", "call"}
Announces(line) == line.type \in {"pduNote", "reqNote"}

\* One command that will be answered is written at most, the one that is out,
\* while the modem executes nothing; one PDU is, for the command it executes.
Asked(s, m) ==
    /\ \A i \in DOMAIN s.tx : s.tx[i].what # "wake"
    /\ \A i \in DOMAIN s.tx : Asks(s.tx[i]) => Out(s, s.tx[i].id) /\ m.id = 0
    /\ \A i, j \in DOMAIN s.tx : Asks(s.tx[i]) /\ Asks(s.tx[j]) => i = j
    /\ \A i \in DOMAIN s.tx : s.tx[i].what = "pdu" => m.prompted
    /\ \A i, j \in DOMAIN s.tx :
          s.tx[i].what = "pdu" /\ s.tx[j].what = "pdu" => i = j

\* What the modem executes is the command that is out; a prompt is for a PDU.
Executing(s, m) ==
    /\ IF m.id = 0 THEN m = NoCmd ELSE Out(s, m.id)
    /\ m.prompted => m.kind = "pdu"

\* There is one answer on the line at most, for the command that is out and
\* that neither the modem nor the device's buffer has any more; a response line
\* is followed by its terminator, and a prompt is for a PDU not yet written.
Answered(s, m, r) ==
    /\ \A i \in DOMAIN r : Ends(r[i]) =>
          /\ Out(s, r[i].id) /\ m.id = 0
          /\ \A j \in DOMAIN s.tx : ~Asks(s.tx[j])
    /\ \A i, j \in DOMAIN r : Ends(r[i]) /\ Ends(r[j]) => i = j
    /\ \A i \in DOMAIN r : r[i].type = "text" /\ r[i].id # 0 =>
          i + 1 \in DOMAIN r /\ Ends(r[i + 1]) /\ r[i + 1].id = r[i].id
    /\ \A i \in DOMAIN r : r[i].type = "prompt" =>
          /\ m.prompted /\ r[i].id = m.id
          /\ \A j \in DOMAIN s.tx : s.tx[j].what # "pdu"
    /\ \A i, j \in DOMAIN r : r[i].type = "prompt" /\ r[j].type = "prompt" => i = j

\* A closed device has lost what was on its way.
Lost(s, m, r) ==
    ~s.valid => s.tx = <<>> /\ m.id = 0 /\ \A i \in DOMAIN r : ~Ends(r[i])

Flow(s, m, r) ==
    Asked(s, m) /\ Executing(s, m) /\ Answered(s, m, r) /\ Lost(s, m, r)

\* Nothing is on its way.
Quiet(s, m, r) ==
    /\ m.id = 0
    /\ \A i \in DOMAIN s.tx : ~Asks(s.tx[i])
    /\ \A i \in DOMAIN r : ~Ends(r[i])

LEMMA QuietWhenIdle ==
    ASSUME NEW s, NEW m, NEW r, Flow(s, m, r), ~Sent(s)
    PROVE  Quiet(s, m, r)
  BY DEF Flow, Asked, Executing, Answered, Quiet, Out

\* What is read when nothing is on its way.
LEMMA QuietLines ==
    ASSUME NEW s, NEW m, NEW r, Flow(s, m, r), Quiet(s, m, r)
    PROVE  /\ ~m.prompted
           /\ \A i \in DOMAIN s.tx : s.tx[i].what # "pdu"
           /\ \A i \in DOMAIN r : r[i].type # "prompt"
           /\ \A i \in DOMAIN r : r[i].type = "text" => r[i].id = 0
  BY DEF Flow, Asked, Executing, Answered, Quiet, NoCmd

\* The command that is out stays out, or nothing is on its way.
Stays(s, t, m, r) ==
    Quiet(s, m, r) \/ (Sent(s) => Sent(t) /\ Head1(t).id = Head1(s).id)

LEMMA FlowSame ==
    ASSUME NEW s, NEW t, NEW m, NEW r, Flow(s, m, r), Stays(s, t, m, r),
           t.tx = s.tx, s.valid => t.valid
    PROVE  Flow(t, m, r)
  <1>1. CASE Quiet(s, m, r)
    <2>1. Asked(t, m) /\ Executing(t, m)
      BY <1>1 DEF Flow, Asked, Executing, Quiet
    <2>2. Answered(t, m, r)
      BY <1>1 DEF Flow, Answered, Quiet
    <2> QED
      BY <2>1, <2>2 DEF Flow, Lost
  <1>2. CASE Sent(s) => Sent(t) /\ Head1(t).id = Head1(s).id
    <2>1. \A id : Out(s, id) => Out(t, id)
      BY <1>2 DEF Out
    <2>2. Asked(t, m) /\ Executing(t, m)
      BY <2>1 DEF Flow, Asked, Executing
    <2>3. Answered(t, m, r)
      BY <2>1 DEF Flow, Answered
    <2> QED
      BY <2>2, <2>3 DEF Flow, Lost
  <1> QED
    BY <1>1, <1>2 DEF Stays

LEMMA StaysSame ==
    ASSUME NEW s, NEW t, NEW m, NEW r, SameQueue(s, t)
    PROVE  Stays(s, t, m, r)
  <1>1. Busy(t) = Busy(s) /\ Head1(t) = Head1(s)
    BY DEF SameQueue, Busy, Head1
  <1> QED
    BY <1>1 DEF Stays, Sent

\* One more thing is written, if the device is open.
LEMMA FlowWrite ==
    ASSUME NEW s, s.tx \in Seq(Written), NEW t, NEW m, NEW r,
           Flow(s, m, r), Stays(s, t, m, r),
           NEW w \in Written, w.what # "wake",
           Asks(w) => Quiet(s, m, r) /\ Out(t, w.id),
           w.what = "pdu" => /\ m.prompted
                             /\ \A i \in DOMAIN s.tx : s.tx[i].what # "pdu"
                             /\ \A i \in DOMAIN r : r[i].type # "prompt",
           t.tx = IF s.valid THEN Append(s.tx, w) ELSE s.tx, t.valid = s.valid
    PROVE  Flow(t, m, r)
  <1>1. CASE ~s.valid
    BY <1>1, FlowSame
  <1>2. CASE s.valid
    <2>1. PICK n \in Nat : n = Len(s.tx) /\ DOMAIN s.tx = 1..n
      OBVIOUS
    <2>2. /\ DOMAIN t.tx = 1..n + 1 /\ t.tx[n + 1] = w
          /\ \A i \in 1..n : t.tx[i] = s.tx[i]
      BY <1>2, <2>1, AppendSeq
    <2>3. ASSUME NEW id, Out(s, id), ~Quiet(s, m, r) PROVE Out(t, id)
      BY <2>3 DEF Stays, Out
    <2>4. Executing(t, m)
      BY <2>3 DEF Flow, Executing, Quiet
    <2>5. Asked(t, m)
      <3>1. \A i \in 1..n + 1 : t.tx[i].what # "wake"
        BY <2>1, <2>2 DEF Flow, Asked
      <3>2. \A i \in 1..n : Asks(s.tx[i]) => Out(t, s.tx[i].id) /\ m.id = 0
        BY <2>1, <2>3 DEF Flow, Asked, Quiet
      <3>3. Asks(w) => m.id = 0 /\ \A i \in 1..n : ~Asks(s.tx[i])
        BY <2>1 DEF Quiet
      <3>4. \A i \in 1..n + 1 : Asks(t.tx[i]) => Out(t, t.tx[i].id) /\ m.id = 0
        BY <2>2, <3>2, <3>3
      <3>5. \A i, j \in 1..n + 1 : Asks(t.tx[i]) /\ Asks(t.tx[j]) => i = j
        BY <2>1, <2>2, <3>3 DEF Flow, Asked
      <3>6. \A i \in 1..n + 1 : t.tx[i].what = "pdu" => m.prompted
        BY <2>1, <2>2 DEF Flow, Asked
      <3>7. \A i, j \in 1..n + 1 :
               t.tx[i].what = "pdu" /\ t.tx[j].what = "pdu" => i = j
        <4>1. \A i, j \in 1..n :
                 s.tx[i].what = "pdu" /\ s.tx[j].what = "pdu" => i = j
          BY <2>1 DEF Flow, Asked
        <4>2. ASSUME w.what = "pdu" PROVE \A i \in 1..n : s.tx[i].what # "pdu"
          BY <2>1, <4>2
        <4>3. \A i \in 1..n + 1 : i \in 1..n \/ i = n + 1
          OBVIOUS
        <4> QED
          BY <2>2, <4>1, <4>2, <4>3, Zenon
      <3> QED
        BY <2>2, <3>1, <3>4, <3>5, <3>6, <3>7 DEF Asked
    <2>6. Answered(t, m, r)
      <3>1. ASSUME NEW i \in DOMAIN r, Ends(r[i])
            PROVE  Out(t, r[i].id) /\ m.id = 0 /\ \A j \in 1..n + 1 : ~Asks(t.tx[j])
        <4>1. ~Quiet(s, m, r)
          BY <3>1 DEF Quiet
        <4>2. ~Asks(w) /\ \A j \in 1..n : ~Asks(s.tx[j])
          BY <2>1, <3>1, <4>1 DEF Flow, Answered
        <4>3. Out(t, r[i].id) /\ m.id = 0
          BY <2>3, <3>1, <4>1 DEF Flow, Answered
        <4> QED
          BY <2>2, <4>2, <4>3
      <3>2. ASSUME NEW i \in DOMAIN r, r[i].type = "prompt"
            PROVE  \A j \in 1..n + 1 : t.tx[j].what # "pdu"
        BY <2>1, <2>2, <3>2 DEF Flow, Answered
      <3> QED
        BY <2>2, <3>1, <3>2 DEF Flow, Answered
    <2> QED
      BY <1>2, <2>4, <2>5, <2>6 DEF Flow, Lost
  <1> QED
    BY <1>1, <1>2

\* A line is read.
LEMMA FlowRead ==
    ASSUME NEW s, NEW m, NEW r \in Seq(Line), r # <<>>, Flow(s, m, r)
    PROVE  /\ Flow(s, m, Tail(r))
           /\ Ends(Head(r)) => Quiet(s, m, Tail(r))
           /\ Head(r).type = "prompt" =>
                 \A i \in DOMAIN Tail(r) : Tail(r)[i].type # "prompt"
  <1> DEFINE q == Tail(r)
  <1>1. PICK n \in Nat : n = Len(r) - 1
    BY TailSeq
  <1>2. /\ DOMAIN r = 1..n + 1 /\ DOMAIN q = 1..n /\ Head(r) = r[1]
        /\ \A i \in 1..n : q[i] = r[i + 1]
    BY <1>1
  <1> HIDE DEF q
  <1>3. Answered(s, m, q)
    <2>1. \A i \in 1..n : Ends(q[i]) =>
             /\ Out(s, q[i].id) /\ m.id = 0
             /\ \A j \in DOMAIN s.tx : ~Asks(s.tx[j])
      BY <1>2 DEF Flow, Answered
    <2>2. ASSUME NEW i \in 1..n, NEW j \in 1..n, Ends(q[i]), Ends(q[j])
          PROVE  i = j
      <3>1. /\ i + 1 \in DOMAIN r /\ q[i] = r[i + 1]
            /\ j + 1 \in DOMAIN r /\ q[j] = r[j + 1]
        BY <1>2
      <3>2. i + 1 = j + 1
        BY <2>2, <3>1 DEF Flow, Answered
      <3> QED
        BY <3>2
    <2>3. ASSUME NEW i \in 1..n, q[i].type = "text", q[i].id # 0
          PROVE  i + 1 \in 1..n /\ Ends(q[i + 1]) /\ q[i + 1].id = q[i].id
      <3>1. i + 1 \in 1..n + 1 /\ q[i] = r[i + 1]
        BY <1>2
      <3>2. /\ (i + 1) + 1 \in 1..n + 1 /\ Ends(r[(i + 1) + 1])
            /\ r[(i + 1) + 1].id = r[i + 1].id
        BY <1>2, <2>3, <3>1 DEF Flow, Answered
      <3>3. i + 1 \in 1..n
        BY <3>2
      <3> QED
        BY <1>2, <3>1, <3>2, <3>3
    <2>4. ASSUME NEW i \in 1..n, q[i].type = "prompt"
          PROVE  /\ m.prompted /\ q[i].id = m.id
                 /\ \A j \in DOMAIN s.tx : s.tx[j].what # "pdu"
      <3>1. i + 1 \in DOMAIN r /\ q[i] = r[i + 1]
        BY <1>2
      <3> QED
        BY <2>4, <3>1 DEF Flow, Answered
    <2>5. ASSUME NEW i \in 1..n, NEW j \in 1..n,
                 q[i].type = "prompt", q[j].type = "prompt"
          PROVE  i = j
      <3>1. /\ i + 1 \in DOMAIN r /\ q[i] = r[i + 1]
            /\ j + 1 \in DOMAIN r /\ q[j] = r[j + 1]
        BY <1>2
      <3>2. i + 1 = j + 1
        BY <2>5, <3>1 DEF Flow, Answered
      <3> QED
        BY <3>2
    <2> QED
      BY <1>2, <2>1, <2>2, <2>3, <2>4, <2>5 DEF Answered
  <1>4. Flow(s, m, q)
    BY <1>2, <1>3 DEF Flow, Lost
  <1>5. ASSUME Ends(Head(r)) PROVE Quiet(s, m, q)
    <2>1. m.id = 0 /\ \A j \in DOMAIN s.tx : ~Asks(s.tx[j])
      BY <1>2, <1>5 DEF Flow, Answered
    <2>2. ASSUME NEW i \in 1..n PROVE ~Ends(q[i])
      <3>1. 1 \in 1..n + 1 /\ i + 1 \in 1..n + 1 /\ i + 1 # 1
        OBVIOUS
      <3> QED
        BY <1>2, <1>5, <3>1 DEF Flow, Answered
    <2> QED
      BY <1>2, <2>1, <2>2 DEF Quiet
  <1>6. ASSUME Head(r).type = "prompt", NEW i \in 1..n
        PROVE  q[i].type # "prompt"
    <2>1. 1 \in 1..n + 1 /\ i + 1 \in 1..n + 1 /\ i + 1 # 1
      OBVIOUS
    <2> QED
      BY <1>2, <1>6, <2>1 DEF Flow, Answered
  <1> QED
    BY <1>2, <1>4, <1>5, <1>6 DEF q

----------------------------------------------------------------------------
(* The member functions keep a chat in step.                                *)

\* What the notifications on the line own.
SameNotes(s, t) ==
    /\ t.lastNotification = s.lastNotification /\ t.requestor = s.requestor
    /\ t.stolen = s.stolen /\ t.pdus = s.pdus

\* Nothing times out, sleeps or is repeated.
Plain(s) ==
    /\ ~s.partial /\ ~s.wakeupInProgress /\ s.wakeupShots = 0
    /\ ~s.deadTimer /\ ~s.retryTimer /\ ~s.failing

\* The condition for it: a client that waits for its answers.
Patient == ~DeadTimeout /\ ~RetryOnNonEcho /\ ~WakeupActive

\* AnswersMatch, and the response lines collected so far.
OwnTexts(q) == \A i \in DOMAIN q : q[i].text \subseteq {q[i].id}
OwnEnd(e) ==
    /\ e.by = e.id \/ (e.by = 0 /\ e.result \in {"dead", "error"})
    /\ e.text \subseteq {e.id}
OwnEnds(ended) == \A i \in DOMAIN ended : OwnEnd(ended[i])
Own(s) == OwnTexts(s.queue) /\ OwnEnds(s.ended)

InStep(s, m, r) == Flow(s, m, r) /\ Plain(s) /\ Own(s)

CommandOf(s) == [what |-> "cmd", id |-> Head1(s).id, kind |-> Head1(s).kind]

LEMMA CommandOfType ==
    ASSUME NEW s, Good(s), Busy(s)
    PROVE  /\ CommandOf(s) \in Written /\ CommandOf(s).what = "cmd"
           /\ CommandOf(s).id = Head1(s).id /\ CommandOf(s).kind = Head1(s).kind
  <1>1. Head1(s) \in Command
    BY GoodTypes
  <1>2. Head1(s).id \in Tags /\ Head1(s).kind \in Kinds
    BY <1>1, BoundsAssumption DEF Command, Ids, Tags
  <1> QED
    BY <1>2 DEF CommandOf, Written

LEMMA TransmitLine ==
    ASSUME NEW s, Good(s), Busy(s)
    PROVE  LET t == Transmit(s) IN
           /\ t.tx = IF s.valid THEN Append(s.tx, CommandOf(s)) ELSE s.tx
           /\ SameNotes(s, t) /\ t.partial = s.partial
  <1> DEFINE c == CommandOf(s)
             w == Write(s, "cmd", Head1(s).id, Head1(s).kind)
             m == MarkPrimed(w)
             t == ArmTimers(m)
  <1>1. s \in ChatType
    BY GoodTypes
  <1>2. /\ w.tx = IF s.valid THEN Append(s.tx, c) ELSE s.tx
        /\ SameNotes(s, w) /\ w.partial = s.partial /\ DOMAIN w = DOMAIN s
    BY <1>1 DEF Write, ChatType, SameNotes, CommandOf
  <1> HIDE DEF w, c
  <1>3. /\ m.tx = w.tx /\ SameNotes(w, m) /\ m.partial = w.partial
        /\ DOMAIN m = DOMAIN w
    BY <1>1, <1>2 DEF MarkPrimed, ChatType, SameNotes
  <1> HIDE DEF m
  <1>4. t.tx = m.tx /\ SameNotes(m, t) /\ t.partial = m.partial
    BY <1>1, <1>2, <1>3 DEF ArmTimers, ChatType, SameNotes
  <1> HIDE DEF t
  <1>5. /\ t.tx = IF s.valid THEN Append(s.tx, c) ELSE s.tx
        /\ SameNotes(s, t) /\ t.partial = s.partial
    BY <1>2, <1>3, <1>4 DEF SameNotes
  <1> QED
    BY <1>5 DEF Transmit, t, m, w, c

LEMMA PopLine ==
    ASSUME NEW s, Good(s), Busy(s), NEW res, NEW by
    PROVE  LET t == Pop(s, res, by) IN
           /\ t.tx = s.tx /\ SameNotes(s, t) /\ t.partial = s.partial
           /\ t.ended = Append(s.ended, [id |-> Head1(s).id, result |-> res,
                                         by |-> by, text |-> Head1(s).text])
  <1>1. s \in ChatType
    BY GoodTypes
  <1> QED
    BY <1>1 DEF Pop, StopTimers, ChatType, SameNotes

LEMMA TransmitInStep ==
    ASSUME NEW s, Good(s), Busy(s), ~Sent(s), NEW m, NEW r,
           InStep(s, m, r), Patient
    PROVE  /\ InStep(Transmit(s), m, r) /\ SameNotes(s, Transmit(s))
           /\ Head1(s).kind = "silent" => Quiet(Transmit(s), m, r)
  <1> DEFINE t == Transmit(s)
             c == CommandOf(s)
             x == [Head1(s) EXCEPT !.primed = TRUE]
  <1>1. /\ Transmitted(s, t) /\ Good(t) /\ Busy(t) /\ Head1(t).primed
        /\ Head1(t).id = Head1(s).id
    BY TransmitEffect, TransmitGood
  <1>2. /\ t.tx = IF s.valid THEN Append(s.tx, c) ELSE s.tx
        /\ SameNotes(s, t) /\ t.partial = s.partial
    BY TransmitLine
  <1>3. /\ c \in Written /\ c.what = "cmd" /\ c.id = Head1(s).id
        /\ c.kind = Head1(s).kind
    BY CommandOfType
  <1>4. /\ s.queue \in Seq(Command) /\ Len(s.queue) \in Nat /\ Len(s.queue) > 0
        /\ Head1(s) \in Command /\ DOMAIN s.queue = 1..Len(s.queue)
        /\ s.tx \in Seq(Written)
    BY GoodTypes DEF ChatType
  <1>5. /\ t.queue = [s.queue EXCEPT ![1] = x] /\ x.id = Head1(s).id
        /\ x.text = Head1(s).text
    BY <1>1, <1>4 DEF Transmitted, Command
  <1> HIDE DEF t, c, x
  <1>6. Quiet(s, m, r)
    BY QuietWhenIdle DEF InStep
  <1>7. Out(t, c.id)
    BY <1>1, <1>3 DEF Out, Sent
  <1>8. Flow(t, m, r)
    <2>1. Flow(s, m, r) /\ Stays(s, t, m, r) /\ t.valid = s.valid
      BY <1>1, <1>6 DEF InStep, Stays, Transmitted
    <2>2. c.what # "wake" /\ c.what # "pdu"
      BY <1>3
    <2> QED
      BY <1>2, <1>3, <1>4, <1>6, <1>7, <2>1, <2>2, FlowWrite
  <1>9. Plain(t)
    BY <1>1, <1>2, Zenon DEF InStep, Plain, Patient, Transmitted
  <1>10. Own(t)
    <2>1. OwnTexts(t.queue)
      BY <1>4, <1>5 DEF InStep, Own, OwnTexts, Head1
    <2> QED
      BY <1>1, <2>1 DEF InStep, Own, Transmitted
  <1>11. Head1(s).kind = "silent" => Quiet(t, m, r)
    <2>1. CASE s.valid /\ Head1(s).kind = "silent"
      <3>1. ~Asks(c)
        BY <1>3, <2>1 DEF Asks
      <3>2. \A i \in DOMAIN t.tx : ~Asks(t.tx[i])
        BY <1>2, <1>3, <1>4, <1>6, <2>1, <3>1, AppendSeq DEF Quiet
      <3> QED
        BY <1>6, <3>2 DEF Quiet
    <2>2. CASE ~s.valid
      BY <1>2, <1>6, <2>2 DEF Quiet
    <2> QED
      BY <2>1, <2>2
  <1> QED
    BY <1>2, <1>8, <1>9, <1>10, <1>11 DEF InStep, t

\* The head leaves the queue when its answer has been read.
LEMMA PopInStep ==
    ASSUME NEW s, Good(s), Busy(s), NEW m, NEW r, InStep(s, m, r),
           Quiet(s, m, r), NEW res \in Results, NEW by \in Tags,
           by = Head1(s).id \/ (by = 0 /\ res \in {"dead", "error"})
    PROVE  /\ InStep(Pop(s, res, by), m, r) /\ SameNotes(s, Pop(s, res, by))
           /\ ~Sent(Pop(s, res, by))
  <1> DEFINE t == Pop(s, res, by)
             e == [id |-> Head1(s).id, result |-> res, by |-> by,
                   text |-> Head1(s).text]
  <1>1. Popped(s, t) /\ ~Sent(t)
    BY PopEffect, PopKept
  <1>2. /\ t.tx = s.tx /\ SameNotes(s, t) /\ t.partial = s.partial
        /\ t.ended = Append(s.ended, e)
    BY PopLine
  <1>3. /\ s.queue \in Seq(Command) /\ s.queue # <<>> /\ Len(s.queue) > 0
        /\ Head1(s) \in Command /\ s.ended \in Seq(Ending)
        /\ DOMAIN s.queue = 1..Len(s.queue) /\ Len(s.queue) \in Nat
    BY GoodTypes DEF Busy
  <1>4. e \in Ending
    BY <1>3 DEF Ending, Command
  <1>5. Head1(s).text \subseteq {Head1(s).id}
    BY <1>3 DEF InStep, Own, OwnTexts, Head1
  <1>6. OwnEnd(e)
    BY <1>5 DEF OwnEnd
  <1> HIDE DEF t, e
  <1>7. Flow(t, m, r)
    BY <1>1, <1>2, FlowSame DEF InStep, Stays, Popped
  <1>8. Plain(t)
    BY <1>1, <1>2 DEF InStep, Plain, Popped
  <1>9. OwnEnds(t.ended)
    <2>1. PICK n \in Nat : n = Len(s.ended) /\ DOMAIN s.ended = 1..n
      BY <1>3
    <2>2. /\ DOMAIN t.ended = 1..n + 1 /\ t.ended[n + 1] = e
          /\ \A i \in 1..n : t.ended[i] = s.ended[i]
      BY <1>2, <1>3, <1>4, <2>1, AppendSeq
    <2>3. \A i \in 1..n : OwnEnd(s.ended[i])
      BY <2>1 DEF InStep, Own, OwnEnds
    <2> QED
      BY <1>6, <2>2, <2>3 DEF OwnEnds
  <1>10. OwnTexts(t.queue)
    <2>1. /\ DOMAIN t.queue = 1..Len(s.queue) - 1
          /\ \A i \in 1..Len(s.queue) - 1 : t.queue[i] = s.queue[i + 1]
      BY <1>1, <1>3, TailSeq DEF Popped
    <2>2. \A i \in 1..Len(s.queue) : s.queue[i].text \subseteq {s.queue[i].id}
      BY <1>3 DEF InStep, Own, OwnTexts
    <2>3. \A i \in 1..Len(s.queue) - 1 : i + 1 \in 1..Len(s.queue)
      BY <1>3
    <2> QED
      BY <2>1, <2>2, <2>3 DEF OwnTexts
  <1> QED
    BY <1>1, <1>2, <1>7, <1>8, <1>9, <1>10 DEF InStep, Own, t

LEMMA PrimeInStep ==
    ASSUME NEW s, Good(s), ~Sent(s), NEW m, NEW r, InStep(s, m, r), Patient
    PROVE  InStep(Prime(s), m, r) /\ SameNotes(s, Prime(s))
  <1>1. CASE ~Busy(s)
    BY <1>1 DEF Prime, SameNotes
  <1>2. CASE Busy(s) /\ Head1(s).kind # "silent"
    BY <1>2, TransmitInStep DEF Prime, Patient
  <1>3. CASE Busy(s) /\ Head1(s).kind = "silent"
    <2> DEFINE t == Transmit(s)
               p == Pop(t, "ok", Head1(s).id)
    <2>1. /\ Good(t) /\ Busy(t) /\ Head1(t).id = Head1(s).id
          /\ InStep(t, m, r) /\ Quiet(t, m, r) /\ SameNotes(s, t)
      BY <1>3, TransmitGood, TransmitInStep
    <2>2. Head1(s).id \in Tags /\ "ok" \in Results
      BY <1>3, GoodTypes, BoundsAssumption DEF Command, Ids, Tags, Results
    <2>3. Prime(s) = p
      BY <1>3 DEF Prime, Patient
    <2> HIDE DEF t
    <2>4. InStep(p, m, r) /\ SameNotes(t, p)
      BY <2>1, <2>2, PopInStep
    <2> HIDE DEF p
    <2> QED
      BY <2>1, <2>3, <2>4 DEF SameNotes
  <1> QED
    BY <1>1, <1>2, <1>3

LEMMA LinkedInStep ==
    ASSUME NEW s, Good(s), NEW kind \in Kinds, s.queued < MaxCommands,
           NEW m, NEW r, InStep(s, m, r)
    PROVE  InStep(Linked(s, kind), m, r) /\ SameNotes(s, Linked(s, kind))
  <1> DEFINE t == Linked(s, kind)
             c == NewCommand(s, kind)
  <1>1. /\ t.queue = Append(s.queue, c) /\ t.ended = s.ended /\ SameFlags(s, t)
        /\ Sent(t) = Sent(s)
    BY LinkedEffect, LinkedKept
  <1>2. /\ s.queue \in Seq(Command) /\ s \in ChatType
        /\ DOMAIN s.queue = 1..Len(s.queue) /\ Len(s.queue) \in Nat
        /\ s.queued \in Nat
        /\ Busy(s) => Len(s.queue) > 0
    BY GoodTypes
  <1>3. t.tx = s.tx /\ SameNotes(s, t) /\ t.partial = s.partial
    BY <1>2 DEF Linked, ChatType, SameNotes
  <1>4. c \in Command /\ c.text = {}
    <2>1. s.queued + 1 \in Ids
      BY <1>2, BoundsAssumption DEF Ids
    <2> QED
      BY <2>1 DEF NewCommand, Command
  <1> HIDE DEF t, c
  <1>5. /\ DOMAIN t.queue = 1..Len(s.queue) + 1
        /\ \A i \in 1..Len(s.queue) : t.queue[i] = s.queue[i]
        /\ t.queue[Len(s.queue) + 1] = c
    BY <1>1, <1>2, <1>4, AppendSeq
  <1>6. Sent(s) => Head1(t) = Head1(s)
    <2>1. Busy(s) => 1 \in 1..Len(s.queue)
      BY <1>2
    <2> QED
      BY <1>5, <2>1 DEF Sent, Head1
  <1>7. Flow(t, m, r)
    BY <1>1, <1>3, <1>6, FlowSame DEF InStep, Stays, SameFlags
  <1>8. Plain(t)
    BY <1>1, <1>3 DEF InStep, Plain, SameFlags
  <1>9. OwnTexts(t.queue)
    <2>1. \A i \in 1..Len(s.queue) : s.queue[i].text \subseteq {s.queue[i].id}
      BY <1>2 DEF InStep, Own, OwnTexts
    <2>2. ASSUME NEW i \in 1..Len(s.queue) + 1
          PROVE  t.queue[i].text \subseteq {t.queue[i].id}
      <3>1. CASE i \in 1..Len(s.queue)
        BY <1>5, <2>1, <3>1
      <3>2. CASE i = Len(s.queue) + 1
        BY <1>4, <1>5, <3>2
      <3> QED
        BY <1>2, <3>1, <3>2
    <2> QED
      BY <1>5, <2>2 DEF OwnTexts
  <1> QED
    BY <1>1, <1>3, <1>7, <1>8, <1>9 DEF InStep, Own, t

\* A flag of the device, the suspension or the notifications changes.
LEMMA SameInStep ==
    ASSUME NEW s, Good(s), NEW m, NEW r, InStep(s, m, r), NEW t, SameQueue(s, t),
           SameTimers(s, t), t.wakeupShots = s.wakeupShots, t.tx = s.tx,
           t.wakeupInProgress = s.wakeupInProgress, t.partial = s.partial,
           s.valid => t.valid
    PROVE  InStep(t, m, r)
  <1>1. Sent(s) => Sent(t) /\ Head1(t).id = Head1(s).id
    BY DEF Sent, Busy, Head1, SameQueue
  <1>2. Flow(t, m, r)
    BY <1>1, FlowSame DEF InStep, Stays
  <1> QED
    BY <1>2 DEF InStep, Plain, Own, SameQueue, SameTimers

LEMMA ReopenInStep ==
    ASSUME NEW s, Good(s), NEW m, NEW r, InStep(s, m, r)
    PROVE  InStep(Reopen(s), m, r) /\ SameNotes(s, Reopen(s))
  <1> DEFINE t == Reopen(s)
  <1>1. s \in ChatType
    BY GoodTypes
  <1>2. /\ SameQueue(s, t) /\ SameTimers(s, t) /\ t.wakeupShots = s.wakeupShots
        /\ t.tx = s.tx /\ t.wakeupInProgress = s.wakeupInProgress
        /\ t.partial = s.partial /\ t.valid /\ SameNotes(s, t)
    BY <1>1 DEF Reopen, ChatType, SameQueue, SameTimers, SameNotes
  <1> HIDE DEF t
  <1>3. InStep(t, m, r)
    BY <1>2, SameInStep
  <1> QED
    BY <1>2, <1>3 DEF t

LEMMA EnqueueInStep ==
    ASSUME NEW s, Good(s), NEW kind \in Kinds, s.queued < MaxCommands,
           NEW m, NEW r, InStep(s, m, r), Patient
    PROVE  InStep(Enqueue(s, kind), m, r) /\ SameNotes(s, Enqueue(s, kind))
  <1> DEFINE o == Resumed(s)
             l == Linked(o, kind)
  <1>1. /\ Good(o) /\ o.queued < MaxCommands /\ InStep(o, m, r)
        /\ SameNotes(s, o)
    BY ReopenGood, ReopenInStep DEF Resumed, SameNotes
  <1>2. Enqueue(s, kind) = IF Busy(o) THEN l ELSE Prime(l)
    BY DEF Enqueue, Link
  <1> HIDE DEF o
  <1>3. Good(l) /\ Sent(l) = Sent(o) /\ InStep(l, m, r) /\ SameNotes(o, l)
    BY <1>1, LinkedKept, LinkedInStep
  <1> HIDE DEF l
  <1>4. ~Busy(o) => InStep(Prime(l), m, r) /\ SameNotes(l, Prime(l))
    BY <1>3, PrimeInStep DEF Sent
  <1> QED
    BY <1>1, <1>2, <1>3, <1>4 DEF SameNotes

\* done() and primeIfNecessary(), when the answer has been read.
LEMMA EndInStep ==
    ASSUME NEW s, Good(s), Busy(s), NEW m, NEW r, InStep(s, m, r),
           Quiet(s, m, r), NEW res \in Results, NEW by \in Tags,
           by = Head1(s).id \/ (by = 0 /\ res \in {"dead", "error"}),
           NEW slot, SlotOK(s, slot), Patient
    PROVE  LET t == PrimeIfNecessary(Done(s, res, by, slot)) IN
           InStep(t, m, r) /\ SameNotes(s, t)
  <1> DEFINE p == Pop(s, res, by)
             d == Done(s, res, by, slot)
  <1>1. /\ Good(p) /\ InStep(p, m, r) /\ SameNotes(s, p)
        /\ p.queued = s.queued
    BY PopGood, PopInStep
  <1>2. d = IF slot = NoSlot THEN p ELSE Enqueue(p, slot)
    BY DEF Done
  <1>3. Good(d)
    BY DoneGood
  <1> HIDE DEF p, d
  <1>4. InStep(d, m, r) /\ SameNotes(s, d)
    <2>1. CASE slot = NoSlot
      BY <1>1, <1>2, <2>1
    <2>2. CASE slot # NoSlot
      <3>1. InStep(Enqueue(p, slot), m, r) /\ SameNotes(p, Enqueue(p, slot))
        BY <1>1, <2>2, EnqueueInStep DEF SlotOK
      <3> QED
        BY <1>1, <1>2, <2>2, <3>1 DEF SameNotes
    <2> QED
      BY <2>1, <2>2
  <1>5. CASE Busy(d) /\ ~Head1(d).primed
    <2>1. InStep(Prime(d), m, r) /\ SameNotes(d, Prime(d))
      BY <1>3, <1>4, <1>5, PrimeInStep DEF Sent
    <2>2. PrimeIfNecessary(d) = Prime(d)
      BY <1>5 DEF PrimeIfNecessary
    <2> QED
      BY <1>4, <2>1, <2>2 DEF SameNotes, d
  <1>6. CASE ~(Busy(d) /\ ~Head1(d).primed)
    <2>1. PrimeIfNecessary(d) = d
      BY <1>6 DEF PrimeIfNecessary
    <2> QED
      BY <1>4, <2>1 DEF d
  <1> QED
    BY <1>5, <1>6

----------------------------------------------------------------------------
(* Reading a line.                                                          *)

PduText(line) == line.type = "text" /\ line.id = 0

\* A text line that no command asked for belongs to the notification before
\* it, whose announcement is still on the line or has been read.
Paired(s, r) ==
    \A i \in DOMAIN r : PduText(r[i]) =>
        IF i = 1 THEN s.lastNotification \/ s.requestor ELSE Announces(r[i - 1])

\* Nothing but a text line, an echo or an announcement touches the flags of
\* notifications.
Noticed(s, line, t) ==
    /\ line.type = "text" =>
          /\ IF s.lastNotification
             THEN /\ ~t.lastNotification /\ t.requestor = s.requestor
                  /\ t.pdus = s.pdus + 1 /\ t.stolen = (s.stolen \/ line.id # 0)
             ELSE IF s.requestor
             THEN /\ ~t.lastNotification /\ ~t.requestor /\ t.pdus = s.pdus
                  /\ t.stolen = (s.stolen \/ line.id # 0)
             ELSE SameNotes(s, t)
    /\ line.type = "pduNote" =>
          /\ t.lastNotification /\ t.requestor = s.requestor
          /\ t.pdus = s.pdus /\ t.stolen = s.stolen
    /\ line.type = "reqNote" =>
          /\ t.requestor /\ t.lastNotification = s.lastNotification
          /\ t.pdus = s.pdus /\ t.stolen = s.stolen
    /\ line.type = "echo" =>
          /\ ~t.lastNotification /\ t.requestor = s.requestor
          /\ t.pdus = s.pdus /\ t.stolen = s.stolen
    /\ line.type \in {"ok", "error", "call", "note", "prompt"} => SameNotes(s, t)

\* A command has a number.
LEMMA OutNumbered ==
    ASSUME NEW s, Good(s), NEW id, Out(s, id)
    PROVE  id \in Ids /\ id # 0 /\ Busy(s) /\ Head1(s).id = id
  <1>1. Head1(s) \in Command /\ Busy(s)
    BY GoodTypes DEF Out, Sent
  <1> QED
    BY <1>1 DEF Out, Command, Ids

LEMMA ReadInStep ==
    ASSUME NEW s, Good(s), NEW m, NEW r \in Seq(Line), r # <<>>,
           InStep(s, m, r), Paired(s, r), NEW slot, SlotOK(s, slot), Patient
    PROVE  LET t == ReadLine(s, Head(r), slot) IN
           InStep(t, m, Tail(r)) /\ Noticed(s, Head(r), t)
  <1> DEFINE line == Head(r)
             q == Tail(r)
             t == ReadLine(s, line, slot)
  <1>1. /\ s \in ChatType /\ line \in Line /\ line = r[1] /\ 1 \in DOMAIN r
        /\ ~s.partial /\ ~s.wakeupInProgress /\ s.tx \in Seq(Written)
        /\ line.id \in Tags /\ line.type \in LineTypes
    <2>1. s \in ChatType /\ line \in Line /\ line = r[1] /\ 1 \in DOMAIN r
      BY GoodTypes
    <2>2. s.tx \in Seq(Written)
      BY <2>1 DEF ChatType
    <2>3. line.id \in Tags /\ line.type \in LineTypes
      BY <2>1 DEF Line
    <2> QED
      BY <2>1, <2>2, <2>3 DEF InStep, Plain
  <1>2. /\ InStep(s, m, q)
        /\ Ends(line) => Quiet(s, m, q)
        /\ line.type = "prompt" =>
                 \A i \in DOMAIN q : q[i].type # "prompt"
    BY FlowRead DEF InStep
  <1>3. [s EXCEPT !.partial = FALSE] = s
    BY <1>1 DEF ChatType
  <1>4. line.type # "prompt" => t = ProcessLine(s, line, slot)
    BY <1>1, <1>3 DEF ReadLine
  <1> HIDE DEF line, q, t
  <1>5. CASE line.type = "prompt"
    <2>1. /\ m.prompted /\ line.id = m.id /\ m.id # 0 /\ Out(s, m.id)
          /\ \A j \in DOMAIN s.tx : s.tx[j].what # "pdu"
      BY <1>1, <1>5 DEF InStep, Flow, Answered, Executing, NoCmd
    <2>2. Busy(s) /\ Head1(s) \in Command
      BY <2>1, GoodTypes DEF Out, Sent
    <2> DEFINE w == [what |-> "pdu", id |-> Head1(s).id, kind |-> Head1(s).kind]
    <2>3. w \in Written /\ w.what = "pdu"
      BY <2>2, BoundsAssumption DEF Written, Command, Ids, Tags
    <2>4. t = Write(s, "pdu", Head1(s).id, Head1(s).kind)
      BY <1>5, <2>2 DEF t, ReadLine
    <2>5. /\ SameQueue(s, t) /\ SameFlags(s, t)
          /\ t.tx = IF s.valid THEN Append(s.tx, w) ELSE s.tx
          /\ SameNotes(s, t) /\ t.partial = s.partial
      <3>1. SameQueue(s, t) /\ SameFlags(s, t)
        BY <1>1, <2>4, WriteEffect
      <3>2. /\ t.tx = IF s.valid THEN Append(s.tx, w) ELSE s.tx
            /\ SameNotes(s, t) /\ t.partial = s.partial
        BY <1>1, <2>4 DEF Write, ChatType, SameNotes
      <3> QED
        BY <3>1, <3>2
    <2> HIDE DEF w
    <2>6. Flow(t, m, q)
      <3>1. Stays(s, t, m, q) /\ ~Asks(w) /\ w.what # "wake"
        BY <2>3, <2>5, StaysSame DEF Asks
      <3>2. Flow(s, m, q) /\ t.valid = s.valid
        BY <1>2, <2>5 DEF InStep, SameFlags
      <3> QED
        BY <1>1, <1>2, <1>5, <2>1, <2>3, <2>5, <3>1, <3>2, FlowWrite
    <2>7. InStep(t, m, q)
      BY <1>2, <2>5, <2>6 DEF InStep, Plain, Own, SameQueue, SameFlags
    <2> QED
      BY <1>5, <2>5, <2>7 DEF Noticed, t, q, line
  <1>6. CASE line.type \in {"ok", "error", "call"}
    <2>1. Out(s, line.id) /\ Quiet(s, m, q)
      BY <1>1, <1>2, <1>6 DEF Ends, InStep, Flow, Answered
    <2>2. Busy(s) /\ line.id = Head1(s).id
      BY <2>1, OutNumbered
    <2>3. ASSUME NEW res \in Results
          PROVE  /\ InStep(Terminate(s, line, res, slot), m, q)
                 /\ SameNotes(s, Terminate(s, line, res, slot))
      <3>1. Terminate(s, line, res, slot)
              = PrimeIfNecessary(Done(s, res, line.id, slot))
        BY <2>2 DEF Terminate
      <3> QED
        BY <1>1, <1>2, <2>1, <2>2, <3>1, EndInStep
    <2>4. \/ t = s
          \/ \E res \in Results : t = Terminate(s, line, res, slot)
      BY <1>4, <1>6 DEF ProcessLine, Results
    <2>5. InStep(t, m, q) /\ SameNotes(s, t)
      BY <1>2, <2>3, <2>4 DEF SameNotes
    <2> QED
      BY <1>6, <2>5 DEF Noticed, t, q, line
  <1>7. CASE line.type \in {"echo", "pduNote", "reqNote", "note"}
    <2>1. /\ SameQueue(s, t) /\ t.deadTimer = s.deadTimer
          /\ (t.retryTimer => s.retryTimer)
          /\ t.wakeupShots = s.wakeupShots /\ t.tx = s.tx
          /\ t.wakeupInProgress = s.wakeupInProgress
          /\ t.partial = s.partial /\ t.valid = s.valid
      BY <1>1, <1>4, <1>7 DEF ProcessLine, SameQueue, ChatType
    <2>2. Flow(t, m, q)
      <3>1. Stays(s, t, m, q)
        BY <2>1, StaysSame
      <3> QED
        BY <1>2, <2>1, <3>1, FlowSame DEF InStep
    <2>3. InStep(t, m, q)
      BY <1>2, <2>1, <2>2 DEF InStep, Plain, Own, SameQueue
    <2>4. Noticed(s, line, t)
      BY <1>1, <1>4, <1>7 DEF ProcessLine, Noticed, SameNotes, ChatType
    <2> QED
      BY <2>3, <2>4 DEF t, q, line
  <1>8. CASE line.type = "text" /\ (s.lastNotification \/ s.requestor)
    <2>1. t = UnknownLine(s, line)
      BY <1>4, <1>8 DEF ProcessLine
    <2>2. /\ SameQueue(s, t) /\ SameTimers(s, t)
          /\ t.wakeupShots = s.wakeupShots /\ t.tx = s.tx
          /\ t.wakeupInProgress = s.wakeupInProgress
          /\ t.partial = s.partial /\ t.valid = s.valid
      BY <1>1, <1>8, <2>1
      DEF UnknownLine, ToNotification, SameQueue, SameTimers, ChatType
    <2>3. Noticed(s, line, t)
      BY <1>1, <1>8, <2>1
      DEF UnknownLine, ToNotification, Noticed, SameNotes, ChatType
    <2>4. InStep(t, m, q)
      BY <1>2, <2>2, SameInStep
    <2> QED
      BY <2>3, <2>4 DEF t, q, line
  <1>9. CASE line.type = "text" /\ ~(s.lastNotification \/ s.requestor)
    <2>1. line.id # 0
      BY <1>1, <1>9 DEF Paired, PduText
    <2>2. /\ 1 + 1 \in DOMAIN r /\ Ends(r[1 + 1]) /\ r[1 + 1].id = line.id
          /\ Out(s, r[1 + 1].id)
      BY <1>1, <1>9, <2>1 DEF InStep, Flow, Answered
    <2>3. Busy(s) /\ Head1(s).id = line.id /\ Out(s, line.id)
      BY <2>2, OutNumbered
    <2>4. /\ s.queue \in Seq(Command) /\ Len(s.queue) \in Nat
          /\ Len(s.queue) > 0 /\ Head1(s) \in Command
          /\ DOMAIN s.queue = 1..Len(s.queue)
      BY <2>3, GoodTypes
    <2> DEFINE x == [Head1(s) EXCEPT !.text = Head1(s).text \cup {line.id}]
    <2>5. t = [s EXCEPT !.queue = [s.queue EXCEPT ![1] = x]]
      BY <1>1, <1>4, <1>9, <2>3
      DEF ProcessLine, UnknownLine, ToCommand, Head1, ChatType
    <2>6. x.id = Head1(s).id /\ x.primed = Head1(s).primed
          /\ x.text \subseteq {x.id}
      <3>1. Head1(s).text \subseteq {Head1(s).id}
        BY <2>4 DEF InStep, Own, OwnTexts, Head1
      <3> QED
        BY <2>3, <2>4, <3>1 DEF Command
    <2> HIDE DEF x
    <2>7. /\ t.queue = [s.queue EXCEPT ![1] = x] /\ t.ended = s.ended
          /\ SameFlags(s, t) /\ SameNotes(s, t) /\ t.tx = s.tx
          /\ t.partial = s.partial
      BY <1>1, <2>5 DEF ChatType, SameFlags, SameNotes
    <2>8. /\ DOMAIN t.queue = 1..Len(s.queue) /\ t.queue[1] = x
          /\ \A i \in 2..Len(s.queue) : t.queue[i] = s.queue[i]
          /\ t.queue # <<>>
      BY <2>4, <2>7
    <2>9. OwnTexts(t.queue)
      <3>1. \A i \in 1..Len(s.queue) : s.queue[i].text \subseteq {s.queue[i].id}
        BY <2>4 DEF InStep, Own, OwnTexts
      <3>2. ASSUME NEW i \in 1..Len(s.queue)
            PROVE  t.queue[i].text \subseteq {t.queue[i].id}
        <4>1. CASE i = 1
          BY <2>6, <2>8, <4>1
        <4>2. CASE i # 1
          BY <2>4, <2>8, <3>1, <4>2
        <4> QED
          BY <4>1, <4>2
      <3> QED
        BY <2>8, <3>2 DEF OwnTexts
    <2>10. Flow(t, m, q)
      <3>1. Sent(s) => Sent(t) /\ Head1(t).id = Head1(s).id
        BY <2>6, <2>8 DEF Sent, Busy, Head1
      <3>2. Stays(s, t, m, q)
        BY <3>1 DEF Stays
      <3> QED
        BY <1>2, <2>7, <3>2, FlowSame DEF InStep, SameFlags
    <2>11. InStep(t, m, q)
      BY <1>2, <2>7, <2>9, <2>10 DEF InStep, Plain, Own, SameFlags
    <2> QED
      BY <1>9, <2>7, <2>11 DEF Noticed, t, q, line
  <1> QED
    BY <1>1, <1>5, <1>6, <1>7, <1>8, <1>9 DEF LineTypes, t, q, line

\* The announcement that has been read is the one before the text line.
LEMMA PairedRead ==
    ASSUME NEW s, NEW t, NEW r \in Seq(Line), r # <<>>, Paired(s, r),
           Noticed(s, Head(r), t)
    PROVE  Paired(t, Tail(r))
  <1> DEFINE q == Tail(r)
  <1>1. PICK n \in Nat : n = Len(r) - 1
    BY TailSeq
  <1>2. /\ DOMAIN r = 1..n + 1 /\ DOMAIN q = 1..n /\ Head(r) = r[1]
        /\ \A i \in 1..n : q[i] = r[i + 1]
    BY <1>1
  <1> HIDE DEF q
  <1>3. ASSUME NEW i \in 1..n, PduText(q[i])
        PROVE  IF i = 1 THEN t.lastNotification \/ t.requestor
               ELSE Announces(q[i - 1])
    <2>1. i + 1 \in DOMAIN r /\ q[i] = r[i + 1] /\ i + 1 # 1 /\ (i + 1) - 1 = i
      BY <1>2
    <2>2. Announces(r[i])
      BY <1>3, <2>1 DEF Paired
    <2>3. CASE i = 1
      BY <1>2, <2>2, <2>3 DEF Announces, Noticed
    <2>4. CASE i # 1
      <3>1. i - 1 \in 1..n /\ (i - 1) + 1 = i
        BY <2>4
      <3> QED
        BY <1>2, <2>2, <2>4, <3>1
    <2> QED
      BY <2>3, <2>4
  <1> QED
    BY <1>2, <1>3 DEF Paired, q

----------------------------------------------------------------------------
(* The modem takes what is written and says a line.                         *)

LEMMA FlowTaken ==
    ASSUME NEW s, s.tx \in Seq(Written), s.tx # <<>>, NEW m, NEW r,
           Flow(s, m, r), NEW t, SameQueue(s, t), t.valid = s.valid,
           t.tx = Tail(s.tx)
    PROVE  /\ Flow(t, m, r)
           /\ Asks(Head(s.tx)) => /\ \A i \in DOMAIN t.tx : ~Asks(t.tx[i])
                                  /\ Out(t, Head(s.tx).id) /\ m.id = 0
           /\ Head(s.tx).what = "pdu" =>
                 /\ \A i \in DOMAIN t.tx : t.tx[i].what # "pdu"
                 /\ \A i \in DOMAIN r : r[i].type # "prompt"
           /\ Head(s.tx).what # "wake"
  <1>1. PICK n \in Nat : n = Len(s.tx) - 1
    BY TailSeq
  <1>2. /\ DOMAIN s.tx = 1..n + 1 /\ DOMAIN t.tx = 1..n
        /\ Head(s.tx) = s.tx[1] /\ 1 \in 1..n + 1
        /\ \A i \in 1..n : t.tx[i] = s.tx[i + 1] /\ i + 1 \in 1..n + 1 /\ i + 1 # 1
    BY <1>1
  <1>3. \A id : Out(t, id) = Out(s, id)
    BY DEF SameQueue, Out, Sent, Busy, Head1
  <1>4. Asked(t, m)
    <2>1. /\ \A i \in 1..n : t.tx[i].what # "wake"
          /\ \A i \in 1..n : Asks(t.tx[i]) => Out(t, t.tx[i].id) /\ m.id = 0
          /\ \A i \in 1..n : t.tx[i].what = "pdu" => m.prompted
      BY <1>2, <1>3 DEF Flow, Asked
    <2>2. ASSUME NEW i \in 1..n, NEW j \in 1..n, Asks(t.tx[i]), Asks(t.tx[j])
          PROVE  i = j
      <3>1. i + 1 = j + 1
        BY <1>2, <2>2 DEF Flow, Asked
      <3> QED
        BY <3>1
    <2>3. ASSUME NEW i \in 1..n, NEW j \in 1..n,
                 t.tx[i].what = "pdu", t.tx[j].what = "pdu"
          PROVE  i = j
      <3>1. /\ i + 1 \in DOMAIN s.tx /\ t.tx[i] = s.tx[i + 1]
            /\ j + 1 \in DOMAIN s.tx /\ t.tx[j] = s.tx[j + 1]
        BY <1>2
      <3>2. i + 1 = j + 1
        BY <2>3, <3>1 DEF Flow, Asked
      <3> QED
        BY <3>2
    <2> QED
      BY <1>2, <2>1, <2>2, <2>3 DEF Asked
  <1>5. Executing(t, m)
    BY <1>3 DEF Flow, Executing
  <1>6. Answered(t, m, r)
    BY <1>2, <1>3 DEF Flow, Answered
  <1>7. Lost(t, m, r)
    BY DEF Flow, Lost
  <1>8. ASSUME Asks(s.tx[1])
        PROVE  /\ \A i \in 1..n : ~Asks(t.tx[i])
               /\ Out(t, s.tx[1].id) /\ m.id = 0
    BY <1>2, <1>3, <1>8 DEF Flow, Asked
  <1>9. ASSUME s.tx[1].what = "pdu"
        PROVE  /\ \A i \in 1..n : t.tx[i].what # "pdu"
               /\ \A i \in DOMAIN r : r[i].type # "prompt"
    BY <1>2, <1>9 DEF Flow, Asked, Answered
  <1>10. s.tx[1].what # "wake"
    BY <1>2 DEF Flow, Asked
  <1> QED
    BY <1>2, <1>4, <1>5, <1>6, <1>7, <1>8, <1>9, <1>10 DEF Flow

\* The modem begins with a command.
LEMMA FlowAccepted ==
    ASSUME NEW t, Good(t), NEW r, Flow(t, NoCmd, r),
           NEW id, NEW kind, Out(t, id), t.valid,
           \A i \in DOMAIN t.tx : ~Asks(t.tx[i]),
           \A i \in DOMAIN r : ~Ends(r[i])
    PROVE  Flow(t, [id |-> id, kind |-> kind, prompted |-> FALSE], r)
  <1> DEFINE m == [id |-> id, kind |-> kind, prompted |-> FALSE]
  <1>1. m.id = id /\ m.prompted = FALSE /\ id # 0
    BY OutNumbered
  <1>2. ~NoCmd.prompted
    BY DEF NoCmd
  <1> HIDE DEF m
  <1>3. Asked(t, m) /\ Executing(t, m)
    BY <1>1, <1>2 DEF Flow, Asked, Executing
  <1>4. Answered(t, m, r)
    BY <1>1, <1>2 DEF Flow, Answered
  <1>5. Flow(t, m, r)
    BY <1>3, <1>4 DEF Flow, Lost
  <1> QED
    BY <1>5 DEF m

\* The modem has its PDU.
LEMMA FlowGiven ==
    ASSUME NEW t, NEW r, NEW m, Flow(t, m, r), m.prompted,
           NEW n, n.id = m.id, ~n.prompted,
           \A i \in DOMAIN t.tx : t.tx[i].what # "pdu",
           \A i \in DOMAIN r : r[i].type # "prompt"
    PROVE  Flow(t, n, r)
  <1>1. m.id # 0
    BY DEF Flow, Executing, NoCmd
  <1>2. Asked(t, n) /\ Executing(t, n)
    BY <1>1 DEF Flow, Asked, Executing
  <1>3. Answered(t, n, r)
    BY DEF Flow, Answered
  <1> QED
    BY <1>2, <1>3 DEF Flow, Lost

LEMMA AppendLine ==
    ASSUME NEW r \in Seq(Line), NEW x \in Line
    PROVE  \E n \in Nat :
              /\ DOMAIN r = 1..n /\ DOMAIN Append(r, x) = 1..n + 1
              /\ Append(r, x)[n + 1] = x
              /\ \A i \in 1..n : Append(r, x)[i] = r[i]
              /\ Append(r, x) \in Seq(Line)
  BY AppendSeq

\* A line that answers nothing.
LEMMA FlowSaid ==
    ASSUME NEW s, NEW m, NEW r \in Seq(Line), Flow(s, m, r), NEW x \in Line,
           ~Ends(x), x.type # "prompt", x.type = "text" => x.id = 0
    PROVE  Flow(s, m, Append(r, x))
  <1> DEFINE q == Append(r, x)
  <1>1. PICK n \in Nat : /\ DOMAIN r = 1..n /\ DOMAIN q = 1..n + 1
                         /\ q[n + 1] = x /\ \A i \in 1..n : q[i] = r[i]
    BY AppendLine
  <1> HIDE DEF q
  <1>2. ASSUME NEW i \in 1..n + 1, q[i] # x PROVE i \in 1..n /\ q[i] = r[i]
    BY <1>1, <1>2
  <1>3. Answered(s, m, q)
    <2>1. ASSUME NEW i \in 1..n + 1, Ends(q[i])
          PROVE  /\ i \in 1..n /\ q[i] = r[i] /\ Out(s, q[i].id) /\ m.id = 0
                 /\ \A j \in DOMAIN s.tx : ~Asks(s.tx[j])
      BY <1>1, <1>2, <2>1 DEF Flow, Answered
    <2>2. \A i, j \in 1..n + 1 : Ends(q[i]) /\ Ends(q[j]) => i = j
      BY <1>1, <2>1 DEF Flow, Answered
    <2>3. ASSUME NEW i \in 1..n + 1, q[i].type = "text", q[i].id # 0
          PROVE  i + 1 \in 1..n + 1 /\ Ends(q[i + 1]) /\ q[i + 1].id = q[i].id
      <3>1. i \in 1..n /\ q[i] = r[i]
        BY <1>2, <2>3
      <3>2. i + 1 \in 1..n /\ Ends(r[i + 1]) /\ r[i + 1].id = r[i].id
        BY <1>1, <2>3, <3>1 DEF Flow, Answered
      <3> QED
        BY <1>1, <3>1, <3>2
    <2>4. ASSUME NEW i \in 1..n + 1, q[i].type = "prompt"
          PROVE  /\ i \in 1..n /\ q[i] = r[i] /\ m.prompted /\ q[i].id = m.id
                 /\ \A j \in DOMAIN s.tx : s.tx[j].what # "pdu"
      BY <1>1, <1>2, <2>4 DEF Flow, Answered
    <2>5. \A i, j \in 1..n + 1 :
              q[i].type = "prompt" /\ q[j].type = "prompt" => i = j
      BY <1>1, <2>4 DEF Flow, Answered
    <2> QED
      BY <1>1, <2>1, <2>2, <2>3, <2>4, <2>5 DEF Answered
  <1>4. Lost(s, m, q)
    <2>1. ASSUME ~s.valid, NEW i \in 1..n + 1 PROVE ~Ends(q[i])
      BY <1>1, <1>2, <2>1 DEF Flow, Lost
    <2> QED
      BY <1>1, <2>1 DEF Flow, Lost
  <1> QED
    BY <1>3, <1>4 DEF Flow, q

\* A response line and a terminator, or a terminator.
LEMMA FlowAnswered ==
    ASSUME NEW s, NEW m, NEW r \in Seq(Line), Flow(s, m, r),
           m.id # 0, ~m.prompted,
           NEW e \in Line, Ends(e), e.id = m.id,
           NEW x \in Line, x.type = "text", x.id = m.id
    PROVE  Flow(s, NoCmd, Append(r, e)) /\ Flow(s, NoCmd, Append(Append(r, x), e))
  <1> DEFINE q == Append(r, e)
             u == Append(r, x)
             w == Append(u, e)
  <1>1. PICK n \in Nat : /\ DOMAIN r = 1..n /\ DOMAIN q = 1..n + 1
                         /\ q[n + 1] = e /\ \A i \in 1..n : q[i] = r[i]
    BY AppendLine
  <1>2. /\ DOMAIN u = 1..n + 1 /\ u \in Seq(Line)
        /\ u[n + 1] = x /\ \A i \in 1..n : u[i] = r[i]
    BY <1>1, AppendSeq
  <1> HIDE DEF u
  <1>3. /\ DOMAIN w = 1..(n + 1) + 1 /\ w[(n + 1) + 1] = e
        /\ \A i \in 1..n + 1 : w[i] = u[i]
    <2>1. Len(u) = n + 1
      BY <1>2
    <2> QED
      BY <1>2, <2>1, AppendSeq
  <1> HIDE DEF q, w
  <1>4. /\ Out(s, m.id) /\ s.valid
        /\ \A i \in DOMAIN s.tx : ~Asks(s.tx[i]) /\ s.tx[i].what # "pdu"
        /\ \A i \in 1..n : ~Ends(r[i]) /\ r[i].type # "prompt"
    BY <1>1 DEF Flow, Asked, Executing, Answered, Lost
  <1>5. \A i \in 1..n : r[i].type = "text" => r[i].id = 0
    BY <1>1, <1>4 DEF Flow, Answered
  <1>6. Asked(s, NoCmd) /\ Executing(s, NoCmd)
    BY <1>4 DEF Flow, Asked, Executing, NoCmd
  <1>7. NoCmd.id = 0 /\ ~Ends(x) /\ e.type # "text" /\ e.type # "prompt"
    BY DEF NoCmd, Ends
  <1>8. Answered(s, NoCmd, q)
    <2>1. \A i \in 1..n + 1 : Ends(q[i]) => i = n + 1
      BY <1>1, <1>4
    <2>2. \A i \in 1..n + 1 : q[i].type = "text" => q[i].id = 0
      BY <1>1, <1>5, <1>7
    <2>3. \A i \in 1..n + 1 : q[i].type # "prompt"
      BY <1>1, <1>4, <1>7
    <2> QED
      BY <1>1, <1>4, <1>7, <2>1, <2>2, <2>3 DEF Answered
  <1>9. Answered(s, NoCmd, w)
    <2>1. /\ \A i \in 1..n : w[i] = r[i]
          /\ w[n + 1] = x /\ w[(n + 1) + 1] = e
      BY <1>2, <1>3
    <2>2. \A i \in 1..(n + 1) + 1 : i \in 1..n \/ i = n + 1 \/ i = (n + 1) + 1
      OBVIOUS
    <2>3. \A i \in 1..(n + 1) + 1 : Ends(w[i]) => i = (n + 1) + 1
      BY <1>4, <1>7, <2>1, <2>2
    <2>4. \A i \in 1..(n + 1) + 1 :
             w[i].type = "text" /\ w[i].id # 0 => i = n + 1
      BY <1>5, <1>7, <2>1, <2>2
    <2>5. \A i \in 1..(n + 1) + 1 : w[i].type # "prompt"
      BY <1>4, <1>7, <2>1, <2>2
    <2>6. (n + 1) + 1 \in 1..(n + 1) + 1
      OBVIOUS
    <2>7. ASSUME NEW i \in DOMAIN w, w[i].type = "text", w[i].id # 0
          PROVE  i + 1 \in DOMAIN w /\ Ends(w[i + 1]) /\ w[i + 1].id = w[i].id
      <3>1. i = n + 1
        BY <1>3, <2>4, <2>7
      <3> QED
        BY <1>3, <2>1, <2>6, <3>1
    <2>8. ASSUME NEW i \in DOMAIN w, Ends(w[i])
          PROVE  /\ Out(s, w[i].id) /\ NoCmd.id = 0
                 /\ \A j \in DOMAIN s.tx : ~Asks(s.tx[j])
      <3>1. w[i] = e
        BY <1>3, <2>1, <2>3, <2>8
      <3> QED
        BY <1>4, <1>7, <3>1
    <2> QED
      BY <1>3, <2>3, <2>5, <2>7, <2>8 DEF Answered
  <1> QED
    BY <1>4, <1>6, <1>8, <1>9 DEF Flow, Lost, q, u, w

LEMMA FlowPrompted ==
    ASSUME NEW s, NEW m, NEW r \in Seq(Line), Flow(s, m, r),
           m.kind = "pdu", ~m.prompted,
           NEW n, n.id = m.id, n.kind = "pdu", n.prompted,
           NEW p \in Line, p.type = "prompt", p.id = m.id
    PROVE  Flow(s, n, Append(r, p))
  <1> DEFINE q == Append(r, p)
  <1>1. PICK k \in Nat : /\ DOMAIN r = 1..k /\ DOMAIN q = 1..k + 1
                         /\ q[k + 1] = p /\ \A i \in 1..k : q[i] = r[i]
    BY AppendLine
  <1> HIDE DEF q
  <1>2. m.id # 0
    BY KindsAssumption DEF Flow, Executing, NoCmd, NoSlot
  <1>3. /\ Out(s, m.id) /\ s.valid
        /\ \A i \in DOMAIN s.tx : ~Asks(s.tx[i]) /\ s.tx[i].what # "pdu"
        /\ \A i \in 1..k : ~Ends(r[i]) /\ r[i].type # "prompt"
    BY <1>1, <1>2 DEF Flow, Asked, Executing, Answered, Lost
  <1>4. \A i \in 1..k : r[i].type = "text" => r[i].id = 0
    BY <1>1, <1>3 DEF Flow, Answered
  <1>5. Asked(s, n) /\ Executing(s, n)
    BY <1>2, <1>3 DEF Flow, Asked, Executing
  <1>6. ~Ends(p) /\ p.type # "text"
    BY DEF Ends
  <1>7. Answered(s, n, q)
    <2>1. \A i \in 1..k + 1 : ~Ends(q[i])
      BY <1>1, <1>3, <1>6
    <2>2. \A i \in 1..k + 1 : q[i].type = "text" => q[i].id = 0
      BY <1>1, <1>4, <1>6
    <2>3. \A i \in 1..k + 1 : q[i].type = "prompt" => i = k + 1
      BY <1>1, <1>3
    <2> QED
      BY <1>1, <1>3, <2>1, <2>2, <2>3 DEF Answered
  <1> QED
    BY <1>3, <1>5, <1>7 DEF Flow, Lost, q

LEMMA PairedSaid ==
    ASSUME NEW s, NEW r \in Seq(Line), Paired(s, r), NEW x \in Line, NEW y \in Line
    PROVE  /\ ~PduText(x) => Paired(s, Append(r, x))
           /\ Announces(x) => Paired(s, Append(Append(r, x), y))
  <1> DEFINE u == Append(r, x)
             w == Append(u, y)
  <1>1. PICK n \in Nat : /\ DOMAIN r = 1..n /\ DOMAIN u = 1..n + 1
                         /\ u[n + 1] = x /\ \A i \in 1..n : u[i] = r[i]
                         /\ u \in Seq(Line)
    BY AppendLine
  <1> HIDE DEF u
  <1>2. /\ DOMAIN w = 1..(n + 1) + 1 /\ w[(n + 1) + 1] = y
        /\ \A i \in 1..n + 1 : w[i] = u[i]
    <2>1. Len(u) = n + 1
      BY <1>1
    <2> QED
      BY <1>1, <2>1, AppendSeq
  <1> HIDE DEF w
  <1>3. ASSUME ~PduText(x) PROVE Paired(s, u)
    <2>1. ASSUME NEW i \in 1..n + 1, PduText(u[i])
          PROVE  IF i = 1 THEN s.lastNotification \/ s.requestor
                 ELSE Announces(u[i - 1])
      <3>1. i \in 1..n /\ PduText(r[i])
        BY <1>1, <1>3, <2>1
      <3>2. i # 1 => i - 1 \in 1..n
        BY <3>1
      <3> QED
        BY <1>1, <3>1, <3>2 DEF Paired
    <2> QED
      BY <1>1, <2>1 DEF Paired
  <1>4. ASSUME Announces(x) PROVE Paired(s, w)
    <2>1. Paired(s, u)
      BY <1>3, <1>4 DEF Announces, PduText
    <2>2. ASSUME NEW i \in 1..(n + 1) + 1, PduText(w[i])
          PROVE  IF i = 1 THEN s.lastNotification \/ s.requestor
                 ELSE Announces(w[i - 1])
      <3>1. CASE i \in 1..n + 1
        <4>1. i # 1 => i - 1 \in 1..n + 1
          BY <3>1
        <4> QED
          BY <1>1, <1>2, <2>1, <2>2, <3>1, <4>1 DEF Paired
      <3>2. CASE i = (n + 1) + 1
        <4>1. i - 1 = n + 1 /\ i # 1 /\ n + 1 \in 1..n + 1
          BY <3>2
        <4> QED
          BY <1>1, <1>2, <1>4, <4>1
      <3> QED
        BY <3>1, <3>2
    <2> QED
      BY <1>2, <2>2 DEF Paired
  <1> QED
    BY <1>3, <1>4 DEF u, w

----------------------------------------------------------------------------
(* The steps.                                                               *)

LineInv == InStep(chat, modem, rx) /\ Paired(chat, rx)

\* The kinds of lines that are notifications only.
OwnNotes == "call" \notin Notes

\* What a step does to the line and to the flags of notifications: a line is
\* read; nothing; a line is said that is no part of a notification with text;
\* such a notification is; or the device is closed and all is lost.
LineRead == /\ rx # <<>> /\ rx' = Tail(rx) /\ UNCHANGED budget
            /\ Noticed(chat, Head(rx), chat')
LineSame == SameNotes(chat, chat') /\ rx' = rx /\ budget'.pdus = budget.pdus
LineSaid ==
    /\ SameNotes(chat, chat') /\ budget'.pdus = budget.pdus
    /\ \E x, y \in Line :
          /\ ~Announces(x) /\ ~PduText(x) /\ ~Announces(y) /\ ~PduText(y)
          /\ rx' = Append(rx, x) \/ rx' = Append(Append(rx, x), y)
LineNoted ==
    /\ SameNotes(chat, chat')
    /\ \E x, y \in Line :
          /\ Announces(x) /\ PduText(y) /\ rx' = Append(Append(rx, x), y)
          /\ budget'.pdus = IF x.type = "pduNote" THEN budget.pdus + 1
                                                  ELSE budget.pdus
LineLost == DeviceClosed

LineStep == LineRead \/ LineSame \/ LineSaid \/ LineNoted \/ LineLost

LEMMA PairedSame ==
    ASSUME NEW s, NEW t, NEW r, Paired(s, r), SameNotes(s, t)
    PROVE  Paired(t, r)
  BY DEF Paired, SameNotes

LEMMA SayForms ==
    ASSUME rx \in Seq(Line), NEW a \in LineTypes, NEW b \in LineTypes,
           NEW id \in Tags
    PROVE  LET x == [type |-> a, id |-> id]
               y == [type |-> b, id |-> id]
           IN /\ x \in Line /\ y \in Line
              /\ Say(<<a>>, id) = Append(rx, x)
              /\ Say(<<a, b>>, id) = Append(Append(rx, x), y)
              /\ Say(<<a>>, id) \in Seq(Line) /\ Say(<<a, b>>, id) \in Seq(Line)
  <1> DEFINE x == [type |-> a, id |-> id]
             y == [type |-> b, id |-> id]
             f == [i \in 1..Len(<<a>>) |-> [type |-> <<a>>[i], id |-> id]]
             g == [i \in 1..Len(<<a, b>>) |-> [type |-> <<a, b>>[i], id |-> id]]
  <1>1. x \in Line /\ y \in Line
    BY DEF Line
  <1>2. f = <<x>>
    <2>1. Len(<<a>>) = 1 /\ <<a>>[1] = a
      OBVIOUS
    <2>2. f = [i \in 1..1 |-> x]
      BY <2>1
    <2> HIDE DEF f, x
    <2>3. <<x>> = [i \in 1..1 |-> x]
      OBVIOUS
    <2> QED
      BY <2>2, <2>3
  <1>3. g = <<x, y>>
    <2>1. Len(<<a, b>>) = 2 /\ <<a, b>>[1] = a /\ <<a, b>>[2] = b
      OBVIOUS
    <2>2. DOMAIN g = 1..2 /\ g[1] = x /\ g[2] = y /\ g = [i \in 1..2 |-> g[i]]
      BY <2>1
    <2> HIDE DEF g, x, y
    <2>3. \A i \in 1..2 : <<x, y>>[i] = g[i]
      BY <2>2
    <2>4. <<x, y>> = [i \in 1..2 |-> <<x, y>>[i]]
      OBVIOUS
    <2> QED
      BY <2>2, <2>3, <2>4
  <1>4. Say(<<a>>, id) = rx \o f /\ Say(<<a, b>>, id) = rx \o g
    BY DEF Say
  <1> HIDE DEF x, y, f, g
  <1>5. rx \o <<x>> = Append(rx, x) /\ rx \o <<x>> \in Seq(Line)
    BY <1>1
  <1>6. rx \o <<x, y>> = Append(Append(rx, x), y) /\ rx \o <<x, y>> \in Seq(Line)
    BY <1>1
  <1> QED
    BY <1>1, <1>2, <1>3, <1>4, <1>5, <1>6 DEF x, y

\* A step of the modem on the record it leaves.
LEMMA StepInStep ==
    ASSUME IInv, LineInv, NEW t, SameQueue(chat, t), SameFlags(chat, t),
           t.partial = chat.partial, NEW m, NEW r, Flow(t, m, r)
    PROVE  InStep(t, m, r)
  BY DEF LineInv, InStep, Plain, Own, SameQueue, SameFlags

LEMMA ReadTxSame ==
    ASSUME chat \in ChatType, chat.tx # <<>>, ReadTx
    PROVE  /\ chat.tx \in Seq(Written) /\ Head(chat.tx) \in Written
           /\ SameQueue(chat, chat') /\ SameFlags(chat, chat')
           /\ SameNotes(chat, chat') /\ chat'.partial = chat.partial
           /\ chat'.tx = Tail(chat.tx) /\ chat' \in ChatType
  <1>1. chat.tx \in Seq(Written) /\ Head(chat.tx) \in Written
    BY DEF ChatType
  <1>2. chat' \in ChatType
    BY ReadTxType
  <1> QED
    BY <1>1, <1>2 DEF ReadTx, ChatType, SameQueue, SameFlags, SameNotes

LEMMA LineCalls ==
    ASSUME IInv, LineInv, Patient,
           \/ \E kind \in Kinds, slot \in Slots(chat) : Chat(kind, slot)
           \/ \E slot \in Slots(chat) : Incoming(slot)
    PROVE  LineInv' /\ LineStep
  <1>1. /\ Good(chat) /\ chat \in ChatType /\ rx \in Seq(Line)
        /\ InStep(chat, modem, rx) /\ Paired(chat, rx)
    BY DEF IInv, Good, TypeOK, LineInv
  <1>2. ASSUME NEW kind \in Kinds, NEW slot \in Slots(chat), Chat(kind, slot)
        PROVE  LineInv' /\ LineStep
    <2> DEFINE open == Reopen(chat)
               read == ReadLine(open, Head(rx), slot)
    <2>1. /\ Good(open) /\ open.queued = chat.queued
          /\ InStep(open, modem, rx) /\ SameNotes(chat, open)
      BY <1>1, ReopenGood, ReopenInStep
    <2> HIDE DEF open
    <2>2. CASE chat' = Enqueue(chat, kind) /\ UNCHANGED rx
      <3>1. InStep(chat', modem, rx) /\ SameNotes(chat, chat')
        BY <1>1, <1>2, <2>2, EnqueueInStep DEF Chat
      <3>2. Paired(chat', rx)
        BY <1>1, <3>1, PairedSame
      <3> QED
        BY <1>2, <2>2, <3>1, <3>2 DEF Chat, LineInv, LineStep, LineSame
    <2>3. CASE /\ rx # <<>> /\ read.queued < MaxCommands
               /\ chat' = Enqueue(read, kind) /\ rx' = Tail(rx)
      <3>1. /\ SlotOK(open, slot) /\ Paired(open, rx) /\ Head(rx) \in Line
        BY <1>1, <2>1, <2>3, SlotsOK, PairedSame DEF SlotOK
      <3>2. /\ Good(read) /\ InStep(read, modem, Tail(rx))
            /\ Noticed(open, Head(rx), read)
        BY <1>1, <2>1, <2>3, <3>1, ReadLineHandled, ReadInStep DEF Handled
      <3>3. Paired(read, Tail(rx))
        BY <1>1, <2>3, <3>1, <3>2, PairedRead
      <3> HIDE DEF read
      <3>4. InStep(chat', modem, Tail(rx)) /\ SameNotes(read, chat')
        BY <2>3, <3>2, EnqueueInStep
      <3>5. Paired(chat', Tail(rx))
        BY <3>3, <3>4, PairedSame
      <3>6. Noticed(chat, Head(rx), chat')
        BY <2>1, <3>2, <3>4 DEF Noticed, SameNotes
      <3> QED
        BY <1>2, <2>3, <3>4, <3>5, <3>6 DEF Chat, LineInv, LineStep, LineRead
    <2> QED
      BY <1>2, <2>2, <2>3 DEF Chat, open
  <1>3. ASSUME NEW slot \in Slots(chat), Incoming(slot)
        PROVE  LineInv' /\ LineStep
    <2>1. /\ SlotOK(chat, slot) /\ rx # <<>> /\ rx' = Tail(rx)
          /\ chat' = ReadLine(chat, Head(rx), slot)
          /\ UNCHANGED <<modem, budget>>
      BY <1>3, SlotsOK DEF Incoming
    <2>2. /\ InStep(chat', modem, Tail(rx))
          /\ Noticed(chat, Head(rx), chat')
      BY <1>1, <2>1, ReadInStep
    <2>3. Paired(chat', Tail(rx))
      BY <1>1, <2>1, <2>2, PairedRead
    <2> QED
      BY <2>1, <2>2, <2>3 DEF LineInv, LineStep, LineRead
  <1> QED
    BY <1>2, <1>3

\* A command fails only when the device is closed, and then no answer to it is
\* on its way.
LEMMA LineFails ==
    ASSUME IInv, LineInv, Patient, NEW slot \in Slots(chat),
           FailCommand(slot) \/ FailNext(slot)
    PROVE  LineInv' /\ LineStep
  <1>1. /\ Good(chat) /\ chat \in ChatType /\ SlotOK(chat, slot)
        /\ InStep(chat, modem, rx) /\ Paired(chat, rx) /\ ~chat.failing
        /\ 0 \in Tags /\ "error" \in Results
    BY SlotsOK, BoundsAssumption
    DEF IInv, Good, LineInv, InStep, Plain, Tags, Results
  <1>2. FailCommand(slot)
    BY <1>1 DEF FailNext
  <1>3. PICK n \in Nat : n = chat.failShots - 1
    BY <1>1, <1>2 DEF FailCommand, ChatType
  <1> DEFINE s == [chat EXCEPT !.failShots = n]
  <1>4. /\ s \in ChatType /\ SameQueue(chat, s) /\ SameTimers(chat, s)
        /\ s.wakeupShots = chat.wakeupShots /\ s.tx = chat.tx
        /\ s.wakeupInProgress = chat.wakeupInProgress
        /\ s.partial = chat.partial /\ s.valid = chat.valid
        /\ SameNotes(chat, s)
    BY <1>1 DEF ChatType, SameQueue, SameTimers, SameNotes
  <1>5. /\ IF ~s.valid /\ Busy(s)
           THEN chat' = PrimeIfNecessary(Done(s, "error", 0, slot))
           ELSE chat' = s
        /\ UNCHANGED <<modem, rx, budget>>
    BY <1>2, <1>3 DEF FailCommand
  <1> HIDE DEF s
  <1>6. Good(s) /\ InStep(s, modem, rx) /\ SlotOK(s, slot)
    BY <1>1, <1>4, SameHandled, SameInStep DEF Handled, SlotOK, SameQueue
  <1>7. InStep(chat', modem, rx) /\ SameNotes(s, chat')
    <2>1. CASE ~s.valid /\ Busy(s)
      <3>1. Quiet(s, modem, rx)
        BY <1>6, <2>1 DEF InStep, Flow, Lost, Quiet
      <3>2. "error" \in {"dead", "error"}
        OBVIOUS
      <3> QED
        BY <1>1, <1>5, <1>6, <2>1, <3>1, <3>2, EndInStep
    <2>2. CASE ~(~s.valid /\ Busy(s))
      BY <1>5, <1>6, <2>2 DEF SameNotes
    <2> QED
      BY <2>1, <2>2
  <1>8. Paired(chat', rx) /\ SameNotes(chat, chat')
    BY <1>1, <1>4, <1>7, PairedSame DEF SameNotes
  <1> QED
    BY <1>5, <1>7, <1>8 DEF LineInv, LineStep, LineSame

LEMMA LineAbort ==
    ASSUME IInv, LineInv, AbortDial
    PROVE  LineInv' /\ LineStep
  <1> DEFINE x == [Head1(chat) EXCEPT !.forcedAbort = TRUE]
             a == [what |-> "abort", id |-> 0, kind |-> NoSlot]
             w == Write(chat, "abort", 0, NoSlot)
  <1>1. /\ Good(chat) /\ chat \in ChatType /\ Busy(chat)
        /\ InStep(chat, modem, rx) /\ Paired(chat, rx)
        /\ UNCHANGED <<modem, rx, budget>>
    BY DEF IInv, Good, LineInv, AbortDial
  <1>2. /\ chat.queue \in Seq(Command) /\ Len(chat.queue) \in Nat
        /\ Len(chat.queue) > 0 /\ Head1(chat) \in Command
        /\ DOMAIN chat.queue = 1..Len(chat.queue)
        /\ chat.tx \in Seq(Written)
    BY <1>1, GoodTypes DEF ChatType
  <1>3. /\ x.id = Head1(chat).id /\ x.primed = Head1(chat).primed
        /\ x.text = Head1(chat).text
    BY <1>2 DEF Command
  <1>4. a \in Written /\ a.what = "abort"
    BY BoundsAssumption DEF Written, Tags
  <1>5. /\ SameQueue(chat, w) /\ SameFlags(chat, w) /\ DOMAIN w = DOMAIN chat
        /\ SameNotes(chat, w) /\ w.partial = chat.partial
        /\ w.tx = IF chat.valid THEN Append(chat.tx, a) ELSE chat.tx
    <2>1. SameQueue(chat, w) /\ SameFlags(chat, w)
      BY <1>1, WriteEffect
    <2>2. /\ DOMAIN w = DOMAIN chat
          /\ SameNotes(chat, w) /\ w.partial = chat.partial
          /\ w.tx = IF chat.valid THEN Append(chat.tx, a) ELSE chat.tx
      BY <1>1 DEF Write, ChatType, SameNotes
    <2> QED
      BY <2>1, <2>2
  <1>6. chat' = [w EXCEPT !.queue = [chat.queue EXCEPT ![1] = x]]
    <2>1. chat' = [w EXCEPT !.queue = [@ EXCEPT ![1].forcedAbort = TRUE]]
      BY DEF AbortDial
    <2> HIDE DEF w
    <2> QED
      BY <1>1, <1>5, <2>1 DEF ChatType, SameQueue, Head1
  <1> HIDE DEF w, x, a
  <1>7. /\ chat'.queue = [chat.queue EXCEPT ![1] = x] /\ chat'.ended = chat.ended
        /\ SameFlags(chat, chat') /\ SameNotes(chat, chat')
        /\ chat'.partial = chat.partial
        /\ chat'.tx = IF chat.valid THEN Append(chat.tx, a) ELSE chat.tx
    BY <1>1, <1>5, <1>6 DEF ChatType, SameQueue, SameFlags, SameNotes
  <1>8. /\ DOMAIN chat'.queue = 1..Len(chat.queue) /\ chat'.queue[1] = x
        /\ \A i \in 2..Len(chat.queue) : chat'.queue[i] = chat.queue[i]
        /\ chat'.queue # <<>>
    BY <1>2, <1>7
  <1>9. Flow(chat', modem, rx)
    <2>1. Sent(chat) => Sent(chat') /\ Head1(chat').id = Head1(chat).id
      BY <1>3, <1>8 DEF Sent, Busy, Head1
    <2>2. Stays(chat, chat', modem, rx) /\ ~Asks(a)
      BY <1>4, <2>1 DEF Stays, Asks
    <2>3. a.what # "wake" /\ a.what # "pdu" /\ Flow(chat, modem, rx)
          /\ chat'.valid = chat.valid
      BY <1>1, <1>4, <1>7 DEF InStep, SameFlags
    <2> QED
      BY <1>2, <1>4, <1>7, <2>2, <2>3, FlowWrite
  <1>10. OwnTexts(chat'.queue)
    <2>1. \A i \in 1..Len(chat.queue) :
             chat.queue[i].text \subseteq {chat.queue[i].id}
      BY <1>1, <1>2 DEF InStep, Own, OwnTexts
    <2>2. ASSUME NEW i \in 1..Len(chat.queue)
          PROVE  chat'.queue[i].text \subseteq {chat'.queue[i].id}
      <3>1. CASE i = 1
        BY <1>3, <1>8, <2>1, <3>1 DEF Head1
      <3>2. CASE i # 1
        BY <1>2, <1>8, <2>1, <3>2
      <3> QED
        BY <3>1, <3>2
    <2> QED
      BY <1>8, <2>2 DEF OwnTexts
  <1>11. InStep(chat', modem, rx)
    BY <1>1, <1>7, <1>9, <1>10 DEF InStep, Plain, Own, SameFlags
  <1>12. Paired(chat', rx)
    BY <1>1, <1>7, PairedSame
  <1> QED
    BY <1>1, <1>7, <1>11, <1>12 DEF LineInv, LineStep, LineSame

LEMMA LineOthers ==
    ASSUME IInv, LineInv, Patient,
           \/ Suspend \/ Resume \/ LineIdle \/ DeviceClosed \/ Timeout
           \/ RetryTimeout \/ WakeupFinished \/ UNCHANGED vars
    PROVE  LineInv' /\ LineStep
  <1>1. /\ Good(chat) /\ chat \in ChatType /\ InStep(chat, modem, rx)
        /\ Paired(chat, rx) /\ Plain(chat)
    BY DEF IInv, Good, LineInv, InStep
  <1>2. CASE LineIdle \/ Timeout \/ RetryTimeout \/ WakeupFinished
    BY <1>1, <1>2
    DEF LineIdle, Timeout, RetryTimeout, WakeupFinished, Plain, Patient
  <1>3. CASE Suspend \/ Resume \/ UNCHANGED vars
    <2>1. /\ SameQueue(chat, chat') /\ SameTimers(chat, chat')
          /\ chat'.wakeupShots = chat.wakeupShots /\ chat'.tx = chat.tx
          /\ chat'.wakeupInProgress = chat.wakeupInProgress
          /\ chat'.partial = chat.partial
          /\ chat.valid => chat'.valid
          /\ SameNotes(chat, chat')
      BY <1>1, <1>3 DEF Suspend, Resume, Reopen, vars, ChatType, SameQueue,
                        SameTimers, SameNotes
    <2>2. UNCHANGED <<modem, rx>> /\ budget'.pdus = budget.pdus
      BY <1>3 DEF Suspend, Resume, vars, IInv, TypeOK
    <2>3. InStep(chat', modem, rx) /\ Paired(chat', rx)
      BY <1>1, <2>1, SameInStep, PairedSame
    <2> QED
      BY <2>1, <2>2, <2>3 DEF LineInv, LineStep, LineSame
  <1>4. CASE DeviceClosed
    <2>1. /\ SameQueue(chat, chat') /\ SameTimers(chat, chat')
          /\ chat'.wakeupShots = chat.wakeupShots /\ chat'.tx = <<>>
          /\ chat'.wakeupInProgress = chat.wakeupInProgress
          /\ chat'.partial = chat.partial
          /\ rx' = <<>> /\ modem' = NoCmd
      BY <1>1, <1>4 DEF DeviceClosed, ChatType, SameQueue, SameTimers
    <2>2. DOMAIN <<>> = {} /\ NoCmd.id = 0 /\ ~NoCmd.prompted
      BY DEF NoCmd
    <2>3. Asked(chat', modem') /\ Executing(chat', modem')
      BY <2>1, <2>2 DEF Asked, Executing
    <2>4. Answered(chat', modem', rx') /\ Lost(chat', modem', rx')
          /\ Paired(chat', rx')
      BY <2>1, <2>2 DEF Answered, Lost, Paired
    <2>5. Own(chat') /\ Plain(chat')
      BY <1>1, <2>1 DEF InStep, Own, Plain, SameQueue, SameTimers
    <2> QED
      BY <1>4, <2>3, <2>4, <2>5 DEF LineInv, LineStep, LineLost, InStep, Flow
  <1> QED
    BY <1>2, <1>3, <1>4


\* The modem reads one thing that was written.
LEMMA LineTaken ==
    ASSUME IInv, LineInv, chat.tx # <<>>, ReadTx
    PROVE  /\ Good(chat') /\ Flow(chat', modem, rx) /\ chat.valid /\ chat'.valid
           /\ InStep(chat', modem, rx) /\ Paired(chat', rx)
           /\ SameNotes(chat, chat')
           /\ Asks(Head(chat.tx)) =>
                 /\ \A i \in DOMAIN chat'.tx : ~Asks(chat'.tx[i])
                 /\ \A i \in DOMAIN rx : ~Ends(rx[i])
                 /\ Out(chat', Head(chat.tx).id)
           /\ Head(chat.tx).what = "pdu" =>
                 /\ \A i \in DOMAIN chat'.tx : chat'.tx[i].what # "pdu"
                 /\ \A i \in DOMAIN rx : rx[i].type # "prompt"
           /\ Head(chat.tx).what # "wake"
  <1>1. /\ Good(chat) /\ chat \in ChatType /\ Flow(chat, modem, rx)
        /\ Paired(chat, rx)
    BY DEF IInv, Good, LineInv, InStep
  <1>2. /\ chat.tx \in Seq(Written) /\ SameQueue(chat, chat')
        /\ SameFlags(chat, chat') /\ SameNotes(chat, chat')
        /\ chat'.partial = chat.partial
        /\ chat'.tx = Tail(chat.tx) /\ chat' \in ChatType
    BY <1>1, ReadTxSame
  <1>3. chat.valid /\ chat'.valid
    BY <1>1, <1>2 DEF Flow, Lost, SameFlags
  <1>4. Good(chat')
    BY <1>1, <1>2, SameQueueGood DEF Good, SameFlags, SameTimers
  <1>5. /\ Flow(chat', modem, rx)
        /\ Asks(Head(chat.tx)) => /\ \A i \in DOMAIN chat'.tx : ~Asks(chat'.tx[i])
                                  /\ Out(chat', Head(chat.tx).id) /\ modem.id = 0
        /\ Head(chat.tx).what = "pdu" =>
                 /\ \A i \in DOMAIN chat'.tx : chat'.tx[i].what # "pdu"
                 /\ \A i \in DOMAIN rx : rx[i].type # "prompt"
        /\ Head(chat.tx).what # "wake"
    BY <1>1, <1>2, <1>3, FlowTaken
  <1>6. ASSUME Asks(Head(chat.tx)), NEW i \in DOMAIN rx PROVE ~Ends(rx[i])
    <2>1. 1 \in DOMAIN chat.tx /\ Head(chat.tx) = chat.tx[1]
      BY <1>2
    <2> QED
      BY <1>1, <1>6, <2>1 DEF Flow, Answered
  <1>7. InStep(chat', modem, rx)
    BY <1>2, <1>5, StepInStep
  <1>8. Paired(chat', rx)
    BY <1>1, <1>2, PairedSame
  <1> QED
    BY <1>2, <1>3, <1>4, <1>5, <1>6, <1>7, <1>8

\* Only what the chat keeps decides the rest of InStep.
LEMMA InStepLine ==
    ASSUME NEW s, NEW m, NEW r, InStep(s, m, r), NEW n, NEW q, Flow(s, n, q)
    PROVE  InStep(s, n, q)
  BY DEF InStep

LEMMA LineAccept ==
    ASSUME IInv, LineInv, ModemAccept
    PROVE  LineInv' /\ LineStep
  <1> DEFINE w == Head(chat.tx)
  <1>1. /\ chat.tx # <<>> /\ ReadTx /\ UNCHANGED budget
        /\ rx \in Seq(Line) /\ w \in Written /\ w.id \in Tags
    <2>1. /\ chat.tx # <<>> /\ ReadTx /\ UNCHANGED budget
      BY DEF ModemAccept
    <2>2. /\ rx \in Seq(Line) /\ w \in Written
      BY <2>1, ReadTxSame DEF IInv, TypeOK
    <2> QED
      BY <2>1, <2>2 DEF Written
  <1>2. /\ Good(chat') /\ Flow(chat', modem, rx) /\ chat.valid /\ chat'.valid
        /\ InStep(chat', modem, rx) /\ Paired(chat', rx)
        /\ SameNotes(chat, chat')
        /\ Asks(w) =>
              /\ \A i \in DOMAIN chat'.tx : ~Asks(chat'.tx[i])
              /\ \A i \in DOMAIN rx : ~Ends(rx[i])
              /\ Out(chat', w.id)
        /\ w.what = "pdu" =>
              /\ \A i \in DOMAIN chat'.tx : chat'.tx[i].what # "pdu"
              /\ \A i \in DOMAIN rx : rx[i].type # "prompt"
        /\ w.what # "wake"
    BY <1>1, LineTaken
  <1>3. modem \in [id : Tags, kind : Kinds \cup {NoSlot, "plain"},
                   prompted : BOOLEAN]
    BY DEF IInv, TypeOK
  <1>4. \/ /\ w.what = "cmd" /\ modem = NoCmd
           /\ modem' = IF w.kind = "silent" THEN NoCmd
                       ELSE [id |-> w.id, kind |-> w.kind, prompted |-> FALSE]
           /\ rx' = IF Echo THEN Say(<<"echo">>, w.id) ELSE rx
        \/ /\ modem.kind = "dial" /\ modem' = NoCmd
           /\ rx' = Say(<<"call">>, modem.id)
        \/ /\ modem.prompted
           /\ modem' = IF w.what \in {"pdu", "wake"}
                       THEN [modem EXCEPT !.prompted = FALSE, !.kind = "plain"]
                       ELSE modem
           /\ rx' = rx
        \/ modem' = modem /\ rx' = rx
    BY DEF ModemAccept
  <1> HIDE DEF w
  <1>5. CASE /\ w.what = "cmd" /\ modem = NoCmd
             /\ modem' = IF w.kind = "silent" THEN NoCmd
                         ELSE [id |-> w.id, kind |-> w.kind, prompted |-> FALSE]
             /\ rx' = IF Echo THEN Say(<<"echo">>, w.id) ELSE rx
    <2>1. Flow(chat', modem', rx)
      <3>1. CASE w.kind = "silent"
        BY <1>2, <1>5, <3>1
      <3>2. CASE w.kind # "silent"
        <4>1. Asks(w)
          BY <1>5, <3>2 DEF Asks
        <4>2. Flow(chat', [id |-> w.id, kind |-> w.kind, prompted |-> FALSE], rx)
          BY <1>2, <1>5, <4>1, FlowAccepted
        <4> QED
          BY <1>5, <3>2, <4>2
      <3> QED
        BY <3>1, <3>2
    <2>2. CASE ~Echo
      <3>1. InStep(chat', modem', rx)
        BY <1>2, <2>1, InStepLine
      <3> QED
        BY <1>1, <1>2, <1>5, <2>2, <3>1 DEF LineInv, LineStep, LineSame
    <2>3. CASE Echo
      <3> DEFINE x == [type |-> "echo", id |-> w.id]
      <3>1. x \in Line /\ rx' = Append(rx, x)
        BY <1>1, <1>5, <2>3, SayForms DEF LineTypes
      <3>2. x.type = "echo" /\ ~Ends(x) /\ ~Announces(x) /\ ~PduText(x)
        BY DEF Ends, Announces, PduText
      <3> HIDE DEF x
      <3>3. Flow(chat', modem', rx')
        BY <1>1, <2>1, <3>1, <3>2, FlowSaid
      <3>4. InStep(chat', modem', rx')
        BY <1>2, <3>3, InStepLine
      <3>5. Paired(chat', rx')
        BY <1>1, <1>2, <3>1, <3>2, PairedSaid
      <3> QED
        BY <1>1, <1>2, <3>1, <3>2, <3>4, <3>5 DEF LineInv, LineStep, LineSaid
    <2> QED
      BY <2>2, <2>3
  <1>6. CASE /\ modem.kind = "dial" /\ modem' = NoCmd
             /\ rx' = Say(<<"call">>, modem.id)
    <2>1. modem.id # 0 /\ ~modem.prompted /\ modem.id \in Tags
      BY <1>2, <1>3, <1>6 DEF Flow, Executing, NoCmd, NoSlot
    <2> DEFINE e == [type |-> "call", id |-> modem.id]
               x == [type |-> "text", id |-> modem.id]
    <2>2. e \in Line /\ rx' = Append(rx, e) /\ x \in Line
      <3>1. "call" \in LineTypes /\ "text" \in LineTypes
        BY DEF LineTypes
      <3>2. x \in Line
        BY <2>1, <3>1 DEF Line
      <3>3. e \in Line /\ rx' = Append(rx, e)
        BY <1>1, <1>6, <2>1, <3>1, SayForms
      <3> QED
        BY <3>2, <3>3
    <2>3. /\ Ends(e) /\ e.id = modem.id /\ ~Announces(e) /\ ~PduText(e)
          /\ x.type = "text" /\ x.id = modem.id
      BY DEF Ends, Announces, PduText
    <2> HIDE DEF e, x
    <2>4. Flow(chat', modem', rx')
      BY <1>1, <1>2, <1>6, <2>1, <2>2, <2>3, FlowAnswered
    <2>5. InStep(chat', modem', rx')
      BY <1>2, <2>4, InStepLine
    <2>6. Paired(chat', rx')
      BY <1>1, <1>2, <2>2, <2>3, PairedSaid
    <2> QED
      BY <1>1, <1>2, <2>2, <2>3, <2>5, <2>6 DEF LineInv, LineStep, LineSaid
  <1>7. CASE /\ modem.prompted
             /\ modem' = IF w.what \in {"pdu", "wake"}
                         THEN [modem EXCEPT !.prompted = FALSE, !.kind = "plain"]
                         ELSE modem
             /\ rx' = rx
    <2>1. Flow(chat', modem', rx)
      <3>1. CASE w.what = "pdu"
        <4>1. modem'.id = modem.id /\ ~modem'.prompted
          BY <1>3, <1>7, <3>1
        <4> QED
          BY <1>2, <1>7, <3>1, <4>1, FlowGiven
      <3>2. CASE w.what # "pdu"
        BY <1>2, <1>7, <3>2
      <3> QED
        BY <3>1, <3>2
    <2>2. InStep(chat', modem', rx)
      BY <1>2, <2>1, InStepLine
    <2> QED
      BY <1>1, <1>2, <1>7, <2>2 DEF LineInv, LineStep, LineSame
  <1>8. CASE modem' = modem /\ rx' = rx
    BY <1>1, <1>2, <1>8 DEF LineInv, LineStep, LineSame
  <1> QED
    BY <1>4, <1>5, <1>6, <1>7, <1>8

LEMMA LineAnswers ==
    ASSUME IInv, LineInv, ModemAnswer \/ ModemPrompt
    PROVE  LineInv' /\ LineStep
  <1>1. /\ rx \in Seq(Line) /\ Flow(chat, modem, rx) /\ InStep(chat, modem, rx)
        /\ Paired(chat, rx)
        /\ modem \in [id : Tags, kind : Kinds \cup {NoSlot, "plain"},
                      prompted : BOOLEAN]
        /\ modem.id \in Tags
    BY DEF IInv, TypeOK, LineInv, InStep
  <1>2. UNCHANGED <<chat, budget>> /\ SameNotes(chat, chat')
    BY DEF ModemAnswer, ModemPrompt, SameNotes
  <1>3. CASE ModemPrompt
    <2> DEFINE p == [type |-> "prompt", id |-> modem.id]
    <2>1. p \in Line /\ rx' = Append(rx, p)
      BY <1>1, <1>3, SayForms DEF LineTypes, ModemPrompt
    <2>2. /\ p.type = "prompt" /\ p.id = modem.id
          /\ ~Announces(p) /\ ~PduText(p)
      BY DEF Announces, PduText
    <2> HIDE DEF p
    <2>3. /\ modem.kind = "pdu" /\ ~modem.prompted
          /\ modem'.id = modem.id /\ modem'.kind = "pdu" /\ modem'.prompted
      BY <1>1, <1>3 DEF ModemPrompt
    <2>4. Flow(chat, modem', rx')
      BY <1>1, <2>1, <2>2, <2>3, FlowPrompted
    <2>5. InStep(chat, modem', rx')
      BY <1>1, <2>4, InStepLine
    <2>6. Paired(chat, rx')
      BY <1>1, <2>1, <2>2, PairedSaid
    <2> QED
      BY <1>2, <2>1, <2>2, <2>5, <2>6 DEF LineInv, LineStep, LineSaid
  <1>4. CASE ModemAnswer
    <2>1. PICK type \in {"ok", "error", "call"} :
             \/ rx' = Say(<<"text", type>>, modem.id)
             \/ rx' = Say(<<type>>, modem.id)
      BY <1>4 DEF ModemAnswer
    <2> DEFINE e == [type |-> type, id |-> modem.id]
               x == [type |-> "text", id |-> modem.id]
    <2>2. /\ e \in Line /\ x \in Line
          /\ rx' = Append(rx, e) \/ rx' = Append(Append(rx, x), e)
      <3>1. type \in LineTypes /\ "text" \in LineTypes
        BY DEF LineTypes
      <3>2. e \in Line /\ x \in Line
        BY <1>1, <3>1 DEF Line
      <3>3. Say(<<"text", type>>, modem.id) = Append(Append(rx, x), e)
        <4>1. rx \in Seq(Line) /\ modem.id \in Tags
          BY <1>1
        <4> QED
          BY <3>1, <4>1, SayForms
      <3>4. Say(<<type>>, modem.id) = Append(rx, e)
        BY <1>1, <3>1, SayForms
      <3> QED
        BY <2>1, <3>2, <3>3, <3>4
    <2>3. modem.id # 0 /\ ~modem.prompted /\ modem' = NoCmd
      BY <1>4 DEF ModemAnswer
    <2>4. /\ Ends(e) /\ e.id = modem.id /\ ~Announces(e) /\ ~PduText(e)
          /\ x.type = "text" /\ x.id = modem.id /\ ~Announces(x) /\ ~PduText(x)
      BY <2>3 DEF Ends, Announces, PduText
    <2> HIDE DEF e, x
    <2>5. Flow(chat, modem', rx')
      <3>1. /\ Flow(chat, NoCmd, Append(rx, e))
            /\ Flow(chat, NoCmd, Append(Append(rx, x), e))
        BY <1>1, <2>2, <2>3, <2>4, FlowAnswered
      <3> QED
        BY <2>2, <2>3, <3>1
    <2>6. InStep(chat, modem', rx')
      BY <1>1, <2>5, InStepLine
    <2>7. Paired(chat, rx')
      <3>1. Append(rx, x) \in Seq(Line)
        BY <1>1, <2>2
      <3>2. Paired(chat, Append(rx, x)) /\ Paired(chat, Append(rx, e))
        BY <1>1, <2>2, <2>4, PairedSaid
      <3>3. Paired(chat, Append(Append(rx, x), e))
        BY <2>2, <2>4, <3>1, <3>2, PairedSaid
      <3> QED
        BY <2>2, <3>2, <3>3
    <2>8. LineSaid
      BY <1>2, <2>2, <2>4 DEF LineSaid
    <2> QED
      BY <1>2, <2>6, <2>7, <2>8 DEF LineInv, LineStep
  <1> QED
    BY <1>3, <1>4

LEMMA LineNotifies ==
    ASSUME IInv, LineInv, OwnNotes, ModemNotify
    PROVE  LineInv' /\ LineStep
  <1>1. /\ rx \in Seq(Line) /\ Flow(chat, modem, rx) /\ InStep(chat, modem, rx)
        /\ Paired(chat, rx) /\ 0 \in Tags
        /\ budget \in [notes : 0..MaxNotes, suspends : 0..MaxSuspends,
                       failures : 0..MaxFailures, pdus : Nat]
    BY BoundsAssumption DEF IInv, TypeOK, LineInv, InStep, Tags
  <1>2. PICK n \in Notes :
          /\ rx' = Say(IF n \in {"note", "call"} THEN <<n>> ELSE <<n, "text">>, 0)
          /\ budget' = [budget EXCEPT !.notes = @ - 1,
                                     !.pdus = IF n = "pduNote" THEN @ + 1 ELSE @]
    BY DEF ModemNotify
  <1>3. UNCHANGED <<chat, modem>> /\ SameNotes(chat, chat')
    BY DEF ModemNotify, SameNotes
  <1>4. budget'.pdus = IF n = "pduNote" THEN budget.pdus + 1 ELSE budget.pdus
    BY <1>1, <1>2
  <1>5. n \in {"note", "pduNote", "reqNote"} /\ n \in LineTypes /\ "text" \in LineTypes
    BY NotesAssumption DEF OwnNotes, LineTypes
  <1> DEFINE x == [type |-> n, id |-> 0]
             y == [type |-> "text", id |-> 0]
  <1>6. /\ x \in Line /\ y \in Line /\ Append(rx, x) \in Seq(Line)
        /\ rx' = IF n = "note" THEN Append(rx, x) ELSE Append(Append(rx, x), y)
    <2>1. y \in Line
      BY <1>1, <1>5 DEF Line
    <2>2. CASE n = "note"
      BY <1>1, <1>2, <1>5, <2>1, <2>2, SayForms
    <2>3. CASE n # "note"
      <3>1. rx' = Say(<<n, "text">>, 0)
        BY <1>2, <1>5, <2>3
      <3> QED
        BY <1>1, <1>5, <2>1, <2>3, <3>1, SayForms
    <2> QED
      BY <2>2, <2>3
  <1>7. /\ x.type = n /\ x.type # "text" /\ x.type # "prompt" /\ ~Ends(x)
        /\ ~PduText(x) /\ (n # "note") = Announces(x)
        /\ y.type = "text" /\ y.type # "prompt" /\ y.id = 0 /\ ~Ends(y)
        /\ PduText(y)
    BY <1>5 DEF Ends, Announces, PduText
  <1> HIDE DEF x, y
  <1>8. Flow(chat, modem, Append(rx, x))
    BY <1>1, <1>6, <1>7, FlowSaid
  <1>9. CASE n = "note"
    <2>1. InStep(chat, modem, rx') /\ Paired(chat, rx')
      BY <1>1, <1>6, <1>7, <1>8, <1>9, InStepLine, PairedSaid
    <2>2. LineSaid
      BY <1>3, <1>4, <1>6, <1>7, <1>9 DEF LineSaid
    <2> QED
      BY <1>3, <2>1, <2>2 DEF LineInv, LineStep
  <1>10. CASE n # "note"
    <2>1. Flow(chat, modem, rx')
      BY <1>6, <1>7, <1>8, <1>10, FlowSaid
    <2>2. InStep(chat, modem, rx') /\ Paired(chat, rx')
      BY <1>1, <1>6, <1>7, <1>10, <2>1, InStepLine, PairedSaid
    <2>3. LineNoted
      BY <1>3, <1>4, <1>6, <1>7, <1>10 DEF LineNoted
    <2> QED
      BY <1>3, <2>2, <2>3 DEF LineInv, LineStep
  <1> QED
    BY <1>9, <1>10

LEMMA LineNext ==
    ASSUME IInv, LineInv, Patient, OwnNotes, [Next]_vars
    PROVE  LineInv' /\ LineStep
  <1>1. CASE ModemDeaf
    <2>1. chat.tx # <<>> /\ ReadTx /\ UNCHANGED <<modem, rx, budget>>
      BY <1>1 DEF ModemDeaf
    <2> QED
      BY <2>1, LineTaken DEF LineInv, LineStep, LineSame
  <1>2. CASE ModemStep
    BY <1>2, LineAccept, LineAnswers DEF ModemStep
  <1>3. CASE ModemNotify
    BY <1>3, LineNotifies
  <1>4. CASE AbortDial
    BY <1>4, LineAbort
  <1>5. ASSUME NEW slot \in Slots(chat), FailCommand(slot) \/ FailNext(slot)
        PROVE  LineInv' /\ LineStep
    BY <1>5, LineFails
  <1>6. CASE \/ \E kind \in Kinds, slot \in Slots(chat) : Chat(kind, slot)
             \/ \E slot \in Slots(chat) : Incoming(slot)
    BY <1>6, LineCalls
  <1>7. CASE \/ Suspend \/ Resume \/ LineIdle \/ DeviceClosed \/ Timeout
             \/ RetryTimeout \/ WakeupFinished \/ UNCHANGED vars
    BY <1>7, LineOthers
  <1> QED
    BY <1>1, <1>2, <1>3, <1>4, <1>5, <1>6, <1>7 DEF Next

LEMMA LineInit == Init => LineInv
  <1> SUFFICES ASSUME Init PROVE LineInv
    OBVIOUS
  <1>1. /\ chat.tx = <<>> /\ rx = <<>> /\ modem = NoCmd /\ chat.queue = <<>>
        /\ chat.ended = <<>> /\ Plain(chat) /\ chat.valid
    BY DEF Init, Plain
  <1>2. DOMAIN <<>> = {} /\ NoCmd.id = 0 /\ ~NoCmd.prompted
    BY DEF NoCmd
  <1>3. Asked(chat, modem) /\ Executing(chat, modem) /\ Answered(chat, modem, rx)
    BY <1>1, <1>2 DEF Asked, Executing, Answered
  <1>4. Own(chat) /\ Lost(chat, modem, rx) /\ Paired(chat, rx)
    BY <1>1, <1>2 DEF Own, OwnTexts, OwnEnds, Lost, Paired
  <1> QED
    BY <1>1, <1>3, <1>4 DEF LineInv, InStep, Flow

LEMMA LineMatches == LineInv => AnswersMatch
  BY DEF LineInv, InStep, Own, OwnEnds, OwnEnd, AnswersMatch

----------------------------------------------------------------------------
\* A command is ended by a terminator that the modem sent for it, and collects
\* the response lines that were sent for it, whatever notifications, aborts,
\* suspensions, closed devices, slots and lost lines come between: processLine()
\* gives every line to the head of the queue, and the head is always the command
\* the line answers.  A client that gives up on a command (Patient) or a modem
\* whose notifications look like terminators (OwnNotes) breaks it.
THEOREM AnswersReachTheirCommands ==
    ASSUME Patient, OwnNotes
    PROVE  Spec => []AnswersMatch
  <1>1. IInv /\ [Next]_vars /\ LineInv => LineInv'
    BY LineNext
  <1> QED
    BY <1>1, LineInit, LineMatches, Invariance, PTL DEF Spec

----------------------------------------------------------------------------
(* The PDUs.                                                                *)

\* Announcements of PDUs on the line.
PdusOn(r) == {i \in DOMAIN r : r[i].type = "pduNote"}
Count(r)  == Cardinality(PdusOn(r))

LEMMA CountType ==
    ASSUME NEW r \in Seq(Line)
    PROVE  IsFiniteSet(PdusOn(r)) /\ Count(r) \in Nat
  <1>1. PICK n \in Nat : DOMAIN r = 1..n
    OBVIOUS
  <1>2. IsFiniteSet(1..n)
    BY FS_Interval
  <1>3. IsFiniteSet(PdusOn(r))
    BY <1>1, <1>2, FS_Subset DEF PdusOn
  <1> QED
    BY <1>3, FS_CardinalityType DEF Count

LEMMA CountAppend ==
    ASSUME NEW r \in Seq(Line), NEW x \in Line
    PROVE  Count(Append(r, x)) = IF x.type = "pduNote" THEN Count(r) + 1
                                                       ELSE Count(r)
  <1>1. PICK n \in Nat : /\ DOMAIN r = 1..n /\ DOMAIN Append(r, x) = 1..n + 1
                         /\ Append(r, x)[n + 1] = x
                         /\ \A i \in 1..n : Append(r, x)[i] = r[i]
    BY AppendLine
  <1> DEFINE q == Append(r, x)
  <1> HIDE DEF q
  <1>2. \A i : i \in 1..n + 1 <=> i \in 1..n \/ i = n + 1
    OBVIOUS
  <1>3. n + 1 \notin 1..n
    OBVIOUS
  <1>4. /\ DOMAIN q = 1..n + 1 /\ q[n + 1] = x
        /\ \A i \in 1..n : q[i] = r[i]
    BY <1>1 DEF q
  <1>5. CASE x.type = "pduNote"
    <2>1. PdusOn(q) = PdusOn(r) \cup {n + 1}
      BY <1>1, <1>2, <1>4, <1>5, Zenon DEF PdusOn
    <2>2. n + 1 \notin PdusOn(r)
      BY <1>1, <1>3 DEF PdusOn
    <2>3. Cardinality(PdusOn(r) \cup {n + 1}) = Cardinality(PdusOn(r)) + 1
      BY <2>2, CountType, FS_AddElement
    <2> QED
      BY <1>5, <2>1, <2>3, Zenon DEF Count, q
  <1>6. CASE x.type # "pduNote"
    <2>1. PdusOn(q) = PdusOn(r)
      BY <1>1, <1>2, <1>4, <1>6, Zenon DEF PdusOn
    <2> QED
      BY <1>6, <2>1, Zenon DEF Count, q
  <1> QED
    BY <1>5, <1>6

LEMMA CountTail ==
    ASSUME NEW r \in Seq(Line), r # <<>>
    PROVE  Count(r) = IF Head(r).type = "pduNote" THEN Count(Tail(r)) + 1
                                                  ELSE Count(Tail(r))
  <1> DEFINE q == Tail(r)
             up == [i \in PdusOn(q) |-> i + 1]
             U == PdusOn(r) \ {1}
  <1>1. PICK n \in Nat : n = Len(r) - 1
    BY TailSeq
  <1>2. /\ DOMAIN r = 1..n + 1 /\ DOMAIN q = 1..n /\ Head(r) = r[1]
        /\ \A i \in 1..n : q[i] = r[i + 1]
        /\ q \in Seq(Line)
    BY <1>1, TailSeq
  <1> HIDE DEF q
  <1>3. IsFiniteSet(PdusOn(q)) /\ IsFiniteSet(PdusOn(r))
        /\ Count(q) \in Nat /\ Count(r) \in Nat
    BY <1>2, CountType
  <1>4. \A i \in PdusOn(q) : i \in 1..n /\ i + 1 \in U
    BY <1>2 DEF PdusOn
  <1>5. \A j \in U : j - 1 \in PdusOn(q) /\ (j - 1) + 1 = j
    <2> SUFFICES ASSUME NEW j \in U PROVE j - 1 \in PdusOn(q) /\ (j - 1) + 1 = j
      OBVIOUS
    <2>1. j \in 1..n + 1 /\ j # 1 /\ r[j].type = "pduNote"
      BY <1>2 DEF PdusOn
    <2>2. j - 1 \in 1..n /\ (j - 1) + 1 = j
      BY <2>1
    <2> QED
      BY <1>2, <2>1, <2>2 DEF PdusOn
  <1> HIDE DEF U
  <1>6. up \in [PdusOn(q) -> U]
    BY <1>4
  <1>7. \A i, j \in PdusOn(q) : up[i] = up[j] => i = j
    BY <1>4
  <1>8. \A j \in U : \E i \in PdusOn(q) : up[i] = j
    BY <1>5
  <1> HIDE DEF up
  <1>9. ExistsBijection(PdusOn(q), U)
    <2>1. up \in Bijection(PdusOn(q), U)
      BY <1>6, <1>7, <1>8 DEF Bijection, Injection, IsInjective, Surjection
    <2> QED
      BY <2>1 DEF ExistsBijection
  <1>10. Cardinality(U) = Count(q)
    BY <1>3, <1>9, FS_Bijection DEF Count
  <1>11. Cardinality(U) = IF 1 \in PdusOn(r) THEN Count(r) - 1 ELSE Count(r)
    BY <1>3, FS_RemoveElement DEF Count, U
  <1>12. 1 \in PdusOn(r) <=> Head(r).type = "pduNote"
    BY <1>2 DEF PdusOn
  <1> QED
    BY <1>3, <1>10, <1>11, <1>12 DEF q

LEMMA CountNone == Count(<<>>) = 0
  <1>1. PdusOn(<<>>) = {}
    BY DEF PdusOn
  <1> QED
    BY <1>1, FS_EmptySet DEF Count

\* An announcement and the text line of the notification are next to each
\* other: the flag it sets meets that line, and the flags exclude each other.
Announced(r) ==
    \A i \in DOMAIN r : Announces(r[i]) => i + 1 \in DOMAIN r /\ PduText(r[i + 1])
Expected(s, r) ==
    /\ ~(s.lastNotification /\ s.requestor)
    /\ s.lastNotification \/ s.requestor => r # <<>> /\ PduText(Head(r))

\* Every announced PDU is delivered, or its text line is the next one, or its
\* announcement is on the line.
Delivering(s, r, n) ==
    /\ ~s.stolen /\ Announced(r) /\ Expected(s, r)
    /\ s.pdus + (IF s.lastNotification THEN 1 ELSE 0) + Count(r) = n

LEMMA DeliveringRead ==
    ASSUME NEW s \in ChatType, NEW t \in ChatType, NEW r \in Seq(Line), r # <<>>,
           NEW n, Paired(s, r), Delivering(s, r, n), Noticed(s, Head(r), t)
    PROVE  Delivering(t, Tail(r), n)
  <1> DEFINE q == Tail(r)
             line == Head(r)
  <1>1. PICK k \in Nat : k = Len(r) - 1
    BY TailSeq
  <1>2. /\ DOMAIN r = 1..k + 1 /\ DOMAIN q = 1..k /\ line = r[1]
        /\ \A i \in 1..k : q[i] = r[i + 1]
        /\ q \in Seq(Line) /\ line \in Line /\ line.type \in LineTypes
        /\ 1 \in DOMAIN r /\ k > 0 => q # <<>> /\ Head(q) = r[1 + 1]
    <2>1. line \in Line
      BY <1>1
    <2>2. line.type \in LineTypes
      BY <2>1 DEF Line
    <2>3. DOMAIN q = 1..k /\ q \in Seq(Line)
      BY <1>1
    <2>4. k > 0 => q # <<>> /\ Head(q) = r[1 + 1]
      BY <1>1, <2>3
    <2> QED
      BY <1>1, <2>1, <2>2, <2>3, <2>4
  <1>3. Count(r) = IF line.type = "pduNote" THEN Count(q) + 1 ELSE Count(q)
    BY CountTail
  <1>4. Count(r) \in Nat /\ Count(q) \in Nat
    BY <1>2, CountType
  <1>5. /\ s.pdus \in Nat /\ t.pdus \in Nat
        /\ s.lastNotification \in BOOLEAN /\ t.lastNotification \in BOOLEAN
        /\ s.requestor \in BOOLEAN /\ t.requestor \in BOOLEAN
        /\ s.stolen \in BOOLEAN /\ t.stolen \in BOOLEAN
    BY DEF ChatType
  <1> HIDE DEF q, line
  <1>6. Announced(q)
    <2> SUFFICES ASSUME NEW i \in 1..k, Announces(q[i])
                 PROVE  i + 1 \in 1..k /\ PduText(q[i + 1])
      BY <1>2 DEF Announced
    <2>1. i + 1 \in DOMAIN r /\ Announces(r[i + 1])
      BY <1>2
    <2>2. (i + 1) + 1 \in 1..k + 1 /\ PduText(r[(i + 1) + 1])
      BY <1>2, <2>1 DEF Delivering, Announced
    <2>3. i + 1 \in 1..k /\ q[i + 1] = r[(i + 1) + 1]
      BY <1>2, <2>2
    <2> QED
      BY <2>2, <2>3
  <1>7. Announces(line) => q # <<>> /\ PduText(Head(q))
    <2> SUFFICES ASSUME Announces(line) PROVE q # <<>> /\ PduText(Head(q))
      OBVIOUS
    <2>1. 1 + 1 \in 1..k + 1 /\ PduText(r[1 + 1])
      BY <1>2 DEF Delivering, Announced
    <2>2. k > 0
      BY <2>1
    <2> QED
      BY <1>2, <2>1, <2>2
  <1>8. CASE line.type = "text"
    <2>1. /\ Expected(t, q) /\ ~t.stolen
          /\ t.pdus + (IF t.lastNotification THEN 1 ELSE 0)
                = s.pdus + (IF s.lastNotification THEN 1 ELSE 0)
      <3>1. CASE s.lastNotification
        BY <1>5, <1>8, <3>1
        DEF Noticed, Delivering, Expected, PduText, line
      <3>2. CASE ~s.lastNotification /\ s.requestor
        BY <1>5, <1>8, <3>2
        DEF Noticed, Delivering, Expected, PduText, line
      <3>3. CASE ~s.lastNotification /\ ~s.requestor
        BY <1>5, <1>8, <3>3
        DEF Noticed, Delivering, Expected, SameNotes, line
      <3> QED
        BY <3>1, <3>2, <3>3
    <2> QED
      BY <1>3, <1>4, <1>5, <1>6, <1>8, <2>1 DEF Delivering, q
  <1>9. CASE line.type # "text"
    <2>1. ~s.lastNotification /\ ~s.requestor /\ ~s.stolen
      BY <1>9 DEF Delivering, Expected, PduText, line
    <2>2. CASE line.type = "pduNote"
      <3>1. t.lastNotification /\ ~t.requestor /\ t.pdus = s.pdus /\ ~t.stolen
        BY <1>5, <2>1, <2>2 DEF Noticed, line
      <3>2. q # <<>> /\ PduText(Head(q))
        BY <1>7, <2>2 DEF Announces
      <3> QED
        BY <1>3, <1>4, <1>5, <1>6, <2>1, <2>2, <3>1, <3>2
        DEF Delivering, Expected, q
    <2>3. CASE line.type = "reqNote"
      <3>1. ~t.lastNotification /\ t.requestor /\ t.pdus = s.pdus /\ ~t.stolen
        BY <1>5, <2>1, <2>3 DEF Noticed, line
      <3>2. q # <<>> /\ PduText(Head(q))
        BY <1>7, <2>3 DEF Announces
      <3> QED
        BY <1>3, <1>4, <1>5, <1>6, <2>1, <2>3, <3>1, <3>2
        DEF Delivering, Expected, q
    <2>4. CASE line.type \in {"ok", "error", "call", "note", "prompt", "echo"}
      <3>1. ~t.lastNotification /\ ~t.requestor /\ t.pdus = s.pdus /\ ~t.stolen
        BY <1>5, <2>1, <2>4 DEF Noticed, SameNotes, line
      <3> QED
        BY <1>3, <1>4, <1>5, <1>6, <2>1, <2>4, <3>1
        DEF Delivering, Expected, q
    <2> QED
      BY <1>2, <1>9, <2>2, <2>3, <2>4 DEF LineTypes
  <1> QED
    BY <1>8, <1>9

\* A line is said that begins no notification with a text line.
LEMMA DeliveringSaid ==
    ASSUME NEW s \in ChatType, NEW r \in Seq(Line), NEW n, Delivering(s, r, n),
           NEW x \in Line, ~Announces(x)
    PROVE  Delivering(s, Append(r, x), n) /\ Append(r, x) \in Seq(Line)
  <1> DEFINE q == Append(r, x)
  <1>1. PICK k \in Nat : /\ DOMAIN r = 1..k /\ DOMAIN q = 1..k + 1
                         /\ q[k + 1] = x /\ \A i \in 1..k : q[i] = r[i]
                         /\ q \in Seq(Line)
    BY AppendLine
  <1>2. Count(q) = Count(r)
    BY CountAppend DEF Announces
  <1>3. r # <<>> => q # <<>> /\ Head(q) = Head(r)
    BY <1>1
  <1> HIDE DEF q
  <1>4. Announced(q)
    <2> SUFFICES ASSUME NEW i \in 1..k + 1, Announces(q[i])
                 PROVE  i + 1 \in 1..k + 1 /\ PduText(q[i + 1])
      BY <1>1 DEF Announced
    <2>1. i \in 1..k /\ Announces(r[i])
      BY <1>1
    <2>2. i + 1 \in 1..k /\ PduText(r[i + 1])
      BY <1>1, <2>1 DEF Delivering, Announced
    <2> QED
      BY <1>1, <2>2
  <1>5. Expected(s, q)
    BY <1>3 DEF Delivering, Expected
  <1> QED
    BY <1>1, <1>2, <1>4, <1>5 DEF Delivering, q

\* A notification and its text line are said.
LEMMA DeliveringNoted ==
    ASSUME NEW s \in ChatType, NEW r \in Seq(Line), NEW n, Delivering(s, r, n),
           NEW x \in Line, Announces(x), NEW y \in Line, PduText(y)
    PROVE  Delivering(s, Append(Append(r, x), y),
                      IF x.type = "pduNote" THEN n + 1 ELSE n)
  <1> DEFINE u == Append(r, x)
             w == Append(u, y)
  <1>1. PICK k \in Nat : /\ DOMAIN r = 1..k /\ DOMAIN u = 1..k + 1
                         /\ u[k + 1] = x /\ \A i \in 1..k : u[i] = r[i]
                         /\ u \in Seq(Line)
    BY AppendLine
  <1>2. r # <<>> => u # <<>> /\ Head(u) = Head(r)
    BY <1>1
  <1>3. Count(u) = IF x.type = "pduNote" THEN Count(r) + 1 ELSE Count(r)
    BY CountAppend
  <1> HIDE DEF u
  <1>4. /\ DOMAIN w = 1..(k + 1) + 1 /\ w[(k + 1) + 1] = y
        /\ \A i \in 1..k + 1 : w[i] = u[i]
    <2>1. Len(u) = k + 1
      BY <1>1
    <2> QED
      BY <1>1, <2>1, AppendSeq
  <1>5. Count(w) = Count(u)
    BY <1>1, CountAppend DEF PduText
  <1>6. r # <<>> => w # <<>> /\ Head(w) = Head(r)
    BY <1>1, <1>2
  <1> HIDE DEF w
  <1>7. Announced(w)
    <2> SUFFICES ASSUME NEW i \in 1..(k + 1) + 1, Announces(w[i])
                 PROVE  i + 1 \in 1..(k + 1) + 1 /\ PduText(w[i + 1])
      BY <1>4 DEF Announced
    <2>1. CASE i = k + 1
      BY <1>4, <2>1
    <2>2. CASE i \in 1..k
      <3>1. i \in 1..k + 1 /\ Announces(r[i])
        BY <1>1, <1>4, <2>2
      <3>2. i + 1 \in 1..k /\ PduText(r[i + 1])
        BY <1>1, <2>2, <3>1 DEF Delivering, Announced
      <3>3. i + 1 \in 1..k + 1
        BY <3>2
      <3> QED
        BY <1>1, <1>4, <3>2, <3>3
    <2>3. i # (k + 1) + 1
      BY <1>4 DEF Announces, PduText
    <2> QED
      BY <2>1, <2>2, <2>3
  <1>8. Expected(s, w)
    BY <1>6 DEF Delivering, Expected
  <1>9. Count(r) \in Nat /\ s.pdus \in Nat
    BY CountType DEF ChatType
  <1> QED
    BY <1>3, <1>5, <1>7, <1>8, <1>9 DEF Delivering, u, w

LEMMA DeliveringSame ==
    ASSUME NEW s, NEW t, NEW r, NEW n, Delivering(s, r, n), SameNotes(s, t)
    PROVE  Delivering(t, r, n)
  BY DEF Delivering, Expected, SameNotes

PduInv == Delivering(chat, rx, budget.pdus)

LEMMA PduStep ==
    ASSUME IInv, IInv', LineInv, PduInv, LineStep, MaxFailures = 0
    PROVE  PduInv'
  <1>1. /\ chat \in ChatType /\ chat' \in ChatType /\ rx \in Seq(Line)
        /\ Paired(chat, rx) /\ budget.pdus \in Nat /\ budget.failures = 0
    BY DEF IInv, TypeOK, LineInv
  <1>2. CASE LineRead
    BY <1>1, <1>2, DeliveringRead DEF PduInv, LineRead
  <1>3. CASE LineSame
    BY <1>1, <1>3, DeliveringSame DEF PduInv, LineSame
  <1>4. CASE LineSaid
    <2>1. PICK x \in Line, y \in Line :
             /\ ~Announces(x) /\ ~Announces(y)
             /\ rx' = Append(rx, x) \/ rx' = Append(Append(rx, x), y)
      BY <1>4 DEF LineSaid
    <2>2. Delivering(chat, rx, budget.pdus)
      BY DEF PduInv
    <2>3. /\ Delivering(chat, Append(rx, x), budget.pdus)
          /\ Append(rx, x) \in Seq(Line)
      BY <1>1, <2>1, <2>2, DeliveringSaid
    <2>4. Delivering(chat, Append(Append(rx, x), y), budget.pdus)
      BY <1>1, <2>1, <2>3, DeliveringSaid
    <2>5. Delivering(chat, rx', budget.pdus)
      BY <2>1, <2>3, <2>4
    <2> QED
      BY <1>4, <2>5, DeliveringSame DEF PduInv, LineSaid
  <1>5. CASE LineNoted
    <2>1. PICK x \in Line, y \in Line :
             /\ Announces(x) /\ PduText(y) /\ rx' = Append(Append(rx, x), y)
             /\ budget'.pdus = IF x.type = "pduNote" THEN budget.pdus + 1
                                                     ELSE budget.pdus
      BY <1>5 DEF LineNoted
    <2>2. Delivering(chat, rx, budget.pdus)
      BY DEF PduInv
    <2>3. Delivering(chat, rx', budget'.pdus)
      BY <1>1, <2>1, <2>2, DeliveringNoted
    <2> QED
      BY <1>5, <2>3, DeliveringSame DEF PduInv, LineNoted
  <1>6. ~LineLost
    BY <1>1 DEF LineLost, DeviceClosed
  <1> QED
    BY <1>2, <1>3, <1>4, <1>5, <1>6 DEF LineStep

LEMMA PduNext ==
    ASSUME IInv, LineInv, PduInv, Patient, OwnNotes, MaxFailures = 0, [Next]_vars
    PROVE  PduInv'
  <1>1. IInv'
    BY StepIInv
  <1>2. LineStep
    BY LineNext
  <1> QED
    BY <1>1, <1>2, PduStep

LEMMA PduInit == Init => PduInv
  <1> SUFFICES ASSUME Init PROVE PduInv
    OBVIOUS
  <1>1. /\ rx = <<>> /\ ~chat.lastNotification /\ ~chat.requestor /\ ~chat.stolen
        /\ chat.pdus = 0 /\ budget.pdus = 0
    BY DEF Init
  <1> QED
    BY <1>1, CountNone DEF PduInv, Delivering, Announced, Expected

LEMMA PdusMatch == IInv /\ PduInv => PdusDelivered
  <1> SUFFICES ASSUME IInv, PduInv PROVE PdusDelivered
    OBVIOUS
  <1>1. chat.pdus \in Nat
    BY DEF IInv, TypeOK, ChatType
  <1> QED
    BY <1>1, CountNone DEF PduInv, Delivering, Expected, PdusDelivered

\* Every announced PDU (an incoming message) reaches pduNotification(), none is
\* given twice, and no response line of a command is taken for one, whatever
\* commands, aborts, slots, suspensions and lost lines come between: the flag
\* that the announcement leaves in lastNotification meets the very next line.
\* A device that is closed between the two loses the PDU (MaxFailures).
THEOREM PdusReachTheirNotification ==
    ASSUME Patient, OwnNotes, MaxFailures = 0
    PROVE  Spec => []PdusDelivered
  <1>1. IInv /\ [Next]_vars /\ LineInv => LineInv'
    BY LineNext
  <1>2. IInv /\ [Next]_vars /\ LineInv /\ PduInv => PduInv'
    BY PduNext
  <1> QED
    BY <1>1, <1>2, LineInit, PduInit, PdusMatch, Invariance, PTL DEF Spec
=============================================================================
