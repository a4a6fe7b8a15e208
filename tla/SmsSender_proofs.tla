--------------------------- MODULE SmsSender_proofs ---------------------------
(***************************************************************************)
(* Theorems about SmsSender for every number of messages, of fragments,    *)
(* of attempts and of lost answers.                                        *)
(***************************************************************************)
EXTENDS SmsSender, TLAPS

----------------------------------------------------------------------------
(* What the proofs need to know of a line of AT commands.                   *)

Has(line, cmd)    == \E i \in DOMAIN line : line[i].cmd = cmd
Single(line, cmd) ==
    \A i, j \in DOMAIN line : line[i].cmd = cmd /\ line[j].cmd = cmd => i = j
CmgsAre(line, id, part) ==
    \A i \in DOMAIN line :
        line[i].cmd = "cmgs" => line[i].id = id /\ line[i].part = part

LEMMA EmptySeq == ASSUME NEW S PROVE <<>> \in Seq(S)
  OBVIOUS

LEMMA AppendSeq ==
    ASSUME NEW S, NEW q \in Seq(S), NEW x \in S
    PROVE  /\ Append(q, x) \in Seq(S) /\ Len(q) \in Nat
           /\ Len(Append(q, x)) = Len(q) + 1
           /\ DOMAIN q = 1..Len(q) /\ DOMAIN Append(q, x) = 1..Len(q) + 1
           /\ \A i \in 1..Len(q) : Append(q, x)[i] = q[i]
           /\ Append(q, x)[Len(q) + 1] = x
  OBVIOUS

LEMMA ConcatSeq ==
    ASSUME NEW S, NEW q \in Seq(S), NEW r \in Seq(S)
    PROVE  /\ q \o r \in Seq(S) /\ Len(q \o r) = Len(q) + Len(r)
           /\ DOMAIN (q \o r) = 1..Len(q) + Len(r)
           /\ \A i \in 1..Len(q) : (q \o r)[i] = q[i]
           /\ \A i \in 1..Len(r) : (q \o r)[Len(q) + i] = r[i]
  OBVIOUS

LEMMA LineAppend ==
    ASSUME NEW line \in Seq(Commands), NEW c \in Commands
    PROVE  /\ Append(line, c) \in Seq(Commands)
           /\ \A cmd : Has(Append(line, c), cmd) <=> Has(line, cmd) \/ c.cmd = cmd
           /\ \A cmd : Single(line, cmd) /\ (c.cmd = cmd => ~Has(line, cmd))
                          => Single(Append(line, c), cmd)
           /\ \A id, part :
                 CmgsAre(line, id, part)
                 /\ (c.cmd = "cmgs" => c.id = id /\ c.part = part)
                    => CmgsAre(Append(line, c), id, part)
  <1> DEFINE new == Append(line, c)
  <1>1. /\ new \in Seq(Commands) /\ Len(line) \in Nat
        /\ DOMAIN line = 1..Len(line) /\ DOMAIN new = 1..Len(line) + 1
        /\ \A i \in 1..Len(line) : new[i] = line[i]
        /\ new[Len(line) + 1] = c
    OBVIOUS
  <1> HIDE DEF new
  <1>2. \A cmd : Has(new, cmd) <=> Has(line, cmd) \/ c.cmd = cmd
    BY <1>1 DEF Has
  <1>3. ASSUME NEW cmd, Single(line, cmd), c.cmd = cmd => ~Has(line, cmd)
        PROVE  Single(new, cmd)
    BY <1>1, <1>3 DEF Single, Has
  <1>4. ASSUME NEW id, NEW part, CmgsAre(line, id, part),
               c.cmd = "cmgs" => c.id = id /\ c.part = part
        PROVE  CmgsAre(new, id, part)
    BY <1>1, <1>4 DEF CmgsAre
  <1> QED
    BY <1>1, <1>2, <1>3, <1>4 DEF new

LEMMA LineTail ==
    ASSUME NEW line \in Seq(Commands), line # <<>>
    PROVE  /\ Tail(line) \in Seq(Commands)
           /\ \A cmd : line[1].cmd # cmd =>
                 /\ Has(Tail(line), cmd) <=> Has(line, cmd)
                 /\ Single(line, cmd) => Single(Tail(line), cmd)
           /\ \A cmd : line[1].cmd = cmd /\ Single(line, cmd) =>
                 ~Has(Tail(line), cmd) /\ Single(Tail(line), cmd)
           /\ \A id, part : CmgsAre(line, id, part)
                               => CmgsAre(Tail(line), id, part)
           /\ Head(line) = line[1] /\ 1 \in DOMAIN line /\ line[1] \in Commands
  <1> DEFINE new == Tail(line)
  <1>1. /\ new \in Seq(Commands) /\ Len(line) \in Nat \ {0}
        /\ DOMAIN line = 1..Len(line) /\ DOMAIN new = 1..Len(line) - 1
        /\ \A i \in 1..Len(line) - 1 : new[i] = line[i + 1]
        /\ Head(line) = line[1] /\ line[1] \in Commands
    OBVIOUS
  <1> HIDE DEF new
  <1>2. \A i \in DOMAIN line : i # 1 => i - 1 \in DOMAIN new /\ new[i - 1] = line[i]
    BY <1>1
  <1>3. \A i \in DOMAIN new : i + 1 \in DOMAIN line /\ new[i] = line[i + 1]
    BY <1>1
  <1>4. DOMAIN new \subseteq Nat
    BY <1>1
  <1>5. ASSUME NEW cmd, line[1].cmd # cmd
        PROVE  /\ Has(new, cmd) <=> Has(line, cmd)
               /\ Single(line, cmd) => Single(new, cmd)
    <2>1. Has(new, cmd) <=> Has(line, cmd)
      BY <1>2, <1>3, <1>5 DEF Has
    <2>2. Single(line, cmd) => Single(new, cmd)
      BY <1>3, <1>4 DEF Single
    <2> QED
      BY <2>1, <2>2
  <1>6. ASSUME NEW cmd, line[1].cmd = cmd, Single(line, cmd)
        PROVE  ~Has(new, cmd) /\ Single(new, cmd)
    <2>1. ASSUME NEW i \in DOMAIN new, new[i].cmd = cmd
          PROVE  FALSE
      <3>1. i + 1 \in DOMAIN line /\ line[i + 1].cmd = cmd /\ 1 \in DOMAIN line
        BY <1>1, <1>3, <2>1
      <3>2. i + 1 = 1
        BY <1>6, <3>1 DEF Single
      <3> QED
        BY <3>2, <1>1
    <2> QED
      BY <2>1 DEF Has, Single
  <1>7. \A id, part : CmgsAre(line, id, part) => CmgsAre(new, id, part)
    BY <1>3 DEF CmgsAre
  <1> QED
    BY <1>1, <1>5, <1>6, <1>7 DEF new

\* sendNext() puts at most an AT+CMMS=1 and one AT+CMGS on the line.
LEMMA LineFragment ==
    ASSUME NEW line \in Seq(Commands), NEW msg \in Pending
    PROVE  LET new == line \o Fragment(msg) IN
           /\ new \in Seq(Commands)
           /\ Has(new, "cmgs")
           /\ Has(new, "cmgf") <=> Has(line, "cmgf")
           /\ Single(line, "cmgf") => Single(new, "cmgf")
           /\ ~Has(line, "cmgs") => Single(new, "cmgs")
                                    /\ CmgsAre(new, msg.id, msg.posn + 1)
  <1> DEFINE mms == [cmd |-> "cmms", id |-> msg.id, part |-> 0]
             gs  == [cmd |-> "cmgs", id |-> msg.id, part |-> msg.posn + 1]
  <1>1. mms \in Commands /\ gs \in Commands
    BY DEF Pending, Commands, Ids
  <1>2. mms.cmd = "cmms" /\ gs.cmd = "cmgs" /\ gs.id = msg.id
        /\ gs.part = msg.posn + 1
    OBVIOUS
  <1> DEFINE mid == Append(line, mms)
  <1>3. line \o Fragment(msg) = Append(mid, gs)
        \/ line \o Fragment(msg) = Append(line, gs)
    <2> HIDE DEF mms, gs
    <2>1. Fragment(msg) = <<mms>> \o <<gs>> \/ Fragment(msg) = <<>> \o <<gs>>
      BY DEF Fragment, mms, gs
    <2>2. line \o (<<mms>> \o <<gs>>) = Append(Append(line, mms), gs)
      BY <1>1
    <2>3. line \o (<<>> \o <<gs>>) = Append(line, gs)
      BY <1>1
    <2> QED
      BY <2>1, <2>2, <2>3
  <1> HIDE DEF mms, gs
  <1>4. /\ mid \in Seq(Commands)
        /\ \A cmd : Has(mid, cmd) <=> Has(line, cmd) \/ mms.cmd = cmd
        /\ \A cmd : Single(line, cmd) /\ mms.cmd # cmd => Single(mid, cmd)
    BY <1>1, LineAppend
  <1> HIDE DEF mid
  <1>6. \A new : ~Has(new, "cmgs") => Single(new, "cmgs")
                                      /\ CmgsAre(new, msg.id, msg.posn + 1)
    BY DEF Has, Single, CmgsAre
  <1>5. ASSUME NEW l \in Seq(Commands),
               Has(l, "cmgf") <=> Has(line, "cmgf"),
               Has(l, "cmgs") <=> Has(line, "cmgs"),
               Single(line, "cmgf") => Single(l, "cmgf")
        PROVE  /\ Append(l, gs) \in Seq(Commands)
               /\ Has(Append(l, gs), "cmgs")
               /\ Has(Append(l, gs), "cmgf") <=> Has(line, "cmgf")
               /\ Single(line, "cmgf") => Single(Append(l, gs), "cmgf")
               /\ ~Has(line, "cmgs") =>
                    /\ Single(Append(l, gs), "cmgs")
                    /\ CmgsAre(Append(l, gs), msg.id, msg.posn + 1)
    BY <1>1, <1>2, <1>5, <1>6, LineAppend
  <1> QED
    BY <1>2, <1>3, <1>4, <1>5

----------------------------------------------------------------------------
(* What sendNext() does, field by field.                                    *)

Senders == [queue : Seq(Pending), needTimer : BOOLEAN, sending : BOOLEAN,
            shots : Nat]

\* What is left of the queue once a head that has been sent is dropped
Rest(s) == IF s.queue = <<>> THEN <<>> ELSE Settled(s)

LEMMA RestType ==
    ASSUME NEW s \in Senders
    PROVE  /\ Rest(s) \in Seq(Pending)
           /\ \/ Rest(s) = s.queue
              \/ /\ s.queue # <<>> /\ Rest(s) = Tail(s.queue)
                 /\ Rest(s) # s.queue
                 /\ Len(Rest(s)) = Len(s.queue) - 1
                 /\ Len(s.queue) \in Nat \ {0} /\ s.queue[1] \in Pending
                 /\ s.queue[1].posn >= s.queue[1].size
           /\ Rest(s) = s.queue /\ s.queue # <<>> =>
                 s.queue[1] \in Pending /\ s.queue[1].posn < s.queue[1].size
  <1>1. s.queue \in Seq(Pending)
    BY DEF Senders
  <1>2. CASE s.queue = <<>>
    BY <1>1, <1>2 DEF Rest
  <1>3. CASE s.queue # <<>>
    <2>1. /\ Tail(s.queue) \in Seq(Pending) /\ Len(s.queue) \in Nat \ {0}
          /\ Len(Tail(s.queue)) = Len(s.queue) - 1 /\ s.queue[1] \in Pending
      BY <1>1, <1>3
    <2>2. ASSUME Tail(s.queue) = s.queue
          PROVE  FALSE
      <3>1. Len(s.queue) = Len(s.queue) - 1
        BY <2>1, <2>2, Zenon
      <3> QED
        BY <2>1, <3>1
    <2>3. s.queue[1].posn \in Nat /\ s.queue[1].size \in Nat
      BY <2>1, SizesAssumption DEF Pending
    <2> QED
      BY <1>1, <1>3, <2>1, <2>2, <2>3 DEF Rest, Settled, Head1
  <1> QED
    BY <1>2, <1>3

\* The queue after sendNext(): its head counts one fragment more.
LEMMA PosnPlus ==
    ASSUME NEW q \in Seq(Pending), q # <<>>
    PROVE  LET r == [q EXCEPT ![1].posn = @ + 1] IN
           /\ r \in Seq(Pending) /\ Len(r) = Len(q) /\ DOMAIN r = DOMAIN q
           /\ r[1].posn = q[1].posn + 1 /\ q[1].posn \in Nat
           /\ \A i \in DOMAIN q :
                 /\ r[i].id = q[i].id /\ r[i].size = q[i].size
                 /\ r[i].retries = q[i].retries /\ r[i].result = q[i].result
                 /\ i # 1 => r[i] = q[i]
  <1> DEFINE m == [q[1] EXCEPT !.posn = @ + 1]
             r == [q EXCEPT ![1] = m]
  <1>1. q[1] \in Pending /\ Len(q) \in Nat \ {0} /\ DOMAIN q = 1..Len(q)
    OBVIOUS
  <1>2. /\ m \in Pending /\ m.posn = q[1].posn + 1 /\ m.id = q[1].id
        /\ m.size = q[1].size /\ m.retries = q[1].retries
        /\ m.result = q[1].result /\ q[1].posn \in Nat
    <2>1. q[1].posn \in Nat /\ q[1].posn + 1 \in Nat
      BY <1>1 DEF Pending
    <2>2. m.posn = q[1].posn + 1
      BY <1>1 DEF Pending
    <2>3. /\ m.id = q[1].id /\ m.size = q[1].size
          /\ m.retries = q[1].retries /\ m.result = q[1].result
      BY <1>1 DEF Pending
    <2>4. m \in Pending
      BY <1>1, <2>1 DEF Pending
    <2> QED
      BY <2>1, <2>2, <2>3, <2>4
  <1>3. [q EXCEPT ![1].posn = @ + 1] = r
    OBVIOUS
  <1> HIDE DEF m
  <1>4. /\ r \in Seq(Pending) /\ Len(r) = Len(q) /\ DOMAIN r = DOMAIN q
        /\ r[1] = m /\ \A i \in DOMAIN q : i # 1 => r[i] = q[i]
    BY <1>1, <1>2
  <1> HIDE DEF r
  <1>5. \A i \in DOMAIN q : i # 1 \/ (r[i] = m /\ q[i] = q[1])
    BY <1>4
  <1>6. \A i \in DOMAIN q : 
           /\ r[i].id = q[i].id /\ r[i].size = q[i].size
           /\ r[i].retries = q[i].retries /\ r[i].result = q[i].result
    BY <1>2, <1>4, <1>5
  <1> QED
    BY <1>2, <1>3, <1>4, <1>6

Report == [id : Ids, result : {"ok", "error"}]

\* The queue r differs from q at most in how far its head has come.
SameMessages(q, r) ==
    /\ Len(r) = Len(q) /\ DOMAIN r = DOMAIN q
    /\ \A i \in DOMAIN q :
          /\ r[i].id = q[i].id /\ r[i].size = q[i].size
          /\ r[i].retries = q[i].retries /\ r[i].result = q[i].result
          /\ i # 1 => r[i] = q[i]

\* The result of sendNext(), and that it leaves every other field alone.
SentNext(s, line) ==
    /\ sender'.needTimer = s.needTimer /\ sender'.shots = s.shots
    /\ sender'.sending = (Rest(s) # <<>>)
    /\ SameMessages(Rest(s), sender'.queue)
    /\ Rest(s) # <<>> => sender'.queue[1].posn = Rest(s)[1].posn + 1
    /\ finished' = IF Rest(s) = s.queue THEN finished
                   ELSE Append(finished, [id |-> s.queue[1].id,
                                          result |-> s.queue[1].result])
    /\ at' = IF Rest(s) = <<>> THEN line ELSE line \o Fragment(Rest(s)[1])

LEMMA SendNextResult ==
    ASSUME NEW s \in Senders, NEW line \in Seq(Commands),
           finished \in Seq(Report), SendNext(s, line)
    PROVE  SentNext(s, line) /\ sender' \in Senders /\ finished' \in Seq(Report)
  <1>1. s.queue \in Seq(Pending)
    BY DEF Senders
  <1>2. CASE s.queue = <<>>
    <2>1. Rest(s) = <<>> /\ Rest(s) = s.queue
      BY <1>2 DEF Rest
    <2>2. sender' = [s EXCEPT !.sending = FALSE] /\ at' = line
          /\ finished' = finished
      BY <1>2 DEF SendNext, Busy
    <2>3. /\ sender' \in Senders /\ sender'.queue = s.queue
          /\ sender'.needTimer = s.needTimer /\ sender'.shots = s.shots
          /\ sender'.sending = FALSE
      BY <2>2 DEF Senders
    <2> QED
      BY <2>1, <2>2, <2>3, Zenon DEF SentNext, SameMessages
  <1>3. CASE s.queue # <<>>
    <2> DEFINE rest == Rest(s)
    <2>1. rest = Settled(s)
      BY <1>3 DEF Rest
    <2> HIDE DEF rest
    <2>2. /\ finished' = IF rest = s.queue THEN finished
                         ELSE Append(finished, [id |-> s.queue[1].id,
                                                result |-> s.queue[1].result])
          /\ rest = <<>> => /\ sender' = [s EXCEPT !.queue = <<>>,
                                                   !.sending = FALSE]
                            /\ at' = line
          /\ rest # <<>> => /\ sender' = [s EXCEPT
                                    !.queue = [rest EXCEPT ![1].posn = @ + 1],
                                    !.sending = TRUE]
                            /\ at' = line \o Fragment(rest[1])
      BY <1>3, <2>1, Zenon DEF SendNext, Busy, Head1
    <2>3. rest \in Seq(Pending)
      BY RestType DEF rest
    <2>4. finished' \in Seq(Report)
      <3>1. s.queue[1] \in Pending
        BY <1>1, <1>3
      <3>2. [id |-> s.queue[1].id, result |-> s.queue[1].result] \in Report
        BY <3>1 DEF Pending, Report
      <3> QED
        BY <2>2, <3>2
    <2>5. CASE rest = <<>>
      <3>1. rest \in Seq(Pending)
        BY <2>3
      <3>2. sender' = [s EXCEPT !.queue = rest, !.sending = FALSE]
        BY <2>2, <2>5
      <3>3. /\ sender' \in Senders /\ sender'.queue = rest
            /\ sender'.needTimer = s.needTimer /\ sender'.shots = s.shots
            /\ sender'.sending = FALSE
        BY <3>1, <3>2 DEF Senders
      <3> QED
        BY <2>2, <2>4, <2>5, <3>3, Zenon DEF SentNext, SameMessages, rest
    <2>6. CASE rest # <<>>
      <3> DEFINE r == [rest EXCEPT ![1].posn = @ + 1]
      <3>1. r \in Seq(Pending) /\ SameMessages(rest, r)
            /\ r[1].posn = rest[1].posn + 1
        BY <2>3, <2>6, PosnPlus DEF SameMessages
      <3> HIDE DEF r
      <3>2. sender' = [s EXCEPT !.queue = r, !.sending = TRUE]
        BY <2>2, <2>6 DEF r
      <3>3. /\ sender' \in Senders /\ sender'.queue = r
            /\ sender'.needTimer = s.needTimer /\ sender'.shots = s.shots
            /\ sender'.sending = TRUE
        BY <3>1, <3>2 DEF Senders
      <3> QED
        BY <2>2, <2>4, <2>6, <3>1, <3>3, Zenon DEF SentNext, rest
    <2> QED
      BY <2>5, <2>6
  <1> QED
    BY <1>2, <1>3

\* The line after sendNext() when no fragment was on it: it has the fragment
\* the head of the queue now counts, if there is a head.
LEMMA SendNextLine ==
    ASSUME NEW s \in Senders, NEW line \in Seq(Commands), SentNext(s, line),
           sender' \in Senders
    PROVE  /\ at' \in Seq(Commands)
           /\ Has(at', "cmgf") <=> Has(line, "cmgf")
           /\ Single(line, "cmgf") => Single(at', "cmgf")
           /\ ~Has(line, "cmgs") =>
                 /\ Has(at', "cmgs") <=> sender'.queue # <<>>
                 /\ Single(at', "cmgs")
                 /\ CmgsAre(at', sender'.queue[1].id, sender'.queue[1].posn)
  <1>1. Rest(s) \in Seq(Pending)
    BY RestType
  <1>2. CASE Rest(s) = <<>>
    <2>1. at' = line /\ Len(sender'.queue) = 0 /\ DOMAIN sender'.queue = {}
      BY <1>2 DEF SentNext, SameMessages
    <2>2. sender'.queue = <<>>
      BY <2>1 DEF Senders
    <2> QED
      BY <2>1, <2>2 DEF Has, Single, CmgsAre
  <1>3. CASE Rest(s) # <<>>
    <2>1. Rest(s)[1] \in Pending /\ 1 \in DOMAIN Rest(s)
      BY <1>1, <1>3
    <2>2. at' = line \o Fragment(Rest(s)[1])
      BY <1>3 DEF SentNext
    <2>3. /\ sender'.queue[1].id = Rest(s)[1].id
          /\ sender'.queue[1].posn = Rest(s)[1].posn + 1
          /\ 1 \in DOMAIN sender'.queue
      BY <1>3, <2>1 DEF SentNext, SameMessages
    <2>4. sender'.queue # <<>>
      BY <2>3
    <2> QED
      BY <2>1, <2>2, <2>3, <2>4, LineFragment
  <1> QED
    BY <1>2, <1>3

\* transmitDone(FALSE) only changes the head of the queue.
WithHead(s, msg) == [s EXCEPT !.queue = [s.queue EXCEPT ![1] = msg]]

LEMMA WithHeadType ==
    ASSUME NEW s \in Senders, s.queue # <<>>, NEW msg \in Pending
    PROVE  LET t == WithHead(s, msg) IN
           /\ t \in Senders /\ t.queue \in Seq(Pending) /\ t.queue # <<>>
           /\ t.needTimer = s.needTimer /\ t.shots = s.shots
           /\ t.sending = s.sending
           /\ Len(t.queue) = Len(s.queue) /\ DOMAIN t.queue = DOMAIN s.queue
           /\ t.queue[1] = msg
           /\ \A i \in DOMAIN s.queue : i # 1 => t.queue[i] = s.queue[i]
  <1> DEFINE q == [s.queue EXCEPT ![1] = msg]
  <1>1. s.queue \in Seq(Pending)
    BY DEF Senders
  <1>2. /\ q \in Seq(Pending) /\ q # <<>> /\ Len(q) = Len(s.queue)
        /\ DOMAIN q = DOMAIN s.queue /\ q[1] = msg
        /\ \A i \in DOMAIN s.queue : i # 1 => q[i] = s.queue[i]
    BY <1>1
  <1>3. WithHead(s, msg) = [s EXCEPT !.queue = q]
    BY DEF WithHead
  <1> HIDE DEF q
  <1>4. /\ WithHead(s, msg) \in Senders /\ WithHead(s, msg).queue = q
        /\ WithHead(s, msg).needTimer = s.needTimer
        /\ WithHead(s, msg).shots = s.shots
        /\ WithHead(s, msg).sending = s.sending
    BY <1>2, <1>3 DEF Senders
  <1> QED
    BY <1>2, <1>4

LEMMA FailedForGoodIs ==
    ASSUME NEW s \in Senders, s.queue # <<>>,
           s.queue[1].posn <= 1 => s.queue[1].retries >= 1
    PROVE  \E msg \in Pending :
              /\ FailedForGood(s) = WithHead(s, msg)
              /\ msg.id = s.queue[1].id /\ msg.size = s.queue[1].size
              /\ msg.posn = s.queue[1].posn /\ msg.result = "error"
              /\ msg.posn = 0 => msg.retries = s.queue[1].retries
  <1> DEFINE h == s.queue[1]
             n == IF h.posn = 1 THEN h.retries - 1 ELSE h.retries
             m == [h EXCEPT !.result = "error", !.retries = n]
  <1>1. h \in Pending
    BY DEF Senders
  <1>2. n \in 0..SendRetries
    BY <1>1, RetriesAssumption DEF Pending
  <1>3. h.posn = 0 => n = h.retries
    OBVIOUS
  <1> HIDE DEF n, h
  <1>4. /\ m \in Pending /\ m.id = h.id /\ m.size = h.size
        /\ m.posn = h.posn /\ m.result = "error" /\ m.retries = n
    BY <1>1, <1>2 DEF Pending
  <1>5. FailedForGood(s) = WithHead(s, m)
    BY DEF FailedForGood, WithHead, Head1, Senders, n, h
  <1> QED
    BY <1>3, <1>4, <1>5 DEF h

LEMMA RetryIs ==
    ASSUME NEW s \in Senders, s.queue # <<>>, ~GivesUp(Head1(s))
    PROVE  \E msg \in Pending :
              /\ [FailedFirst(s) EXCEPT !.queue[1].posn = @ - 1, !.shots = @ + 1]
                    = [WithHead(s, msg) EXCEPT !.shots = @ + 1]
              /\ msg.id = s.queue[1].id /\ msg.size = s.queue[1].size
              /\ msg.posn = 0 /\ msg.result = s.queue[1].result
              /\ msg.retries >= 1
  <1> DEFINE h == s.queue[1]
             m == [h EXCEPT !.retries = h.retries - 1, !.posn = h.posn - 1]
  <1>1. h \in Pending
    BY DEF Senders
  <1>2. h.posn = 1 /\ h.retries > 1
    BY <1>1, RetriesAssumption DEF GivesUp, Head1, Pending
  <1>3. h.retries - 1 \in 0..SendRetries /\ h.posn - 1 = 0 /\ h.posn - 1 \in Nat
        /\ h.retries - 1 >= 1
    BY <1>1, <1>2, RetriesAssumption DEF Pending
  <1> HIDE DEF h
  <1>4. /\ m \in Pending /\ m.id = h.id /\ m.size = h.size
        /\ m.posn = h.posn - 1 /\ m.result = h.result
        /\ m.retries = h.retries - 1
    BY <1>1, <1>3 DEF Pending
  <1>5. [FailedFirst(s) EXCEPT !.queue[1].posn = @ - 1, !.shots = @ + 1]
           = [WithHead(s, m) EXCEPT !.shots = @ + 1]
    <2> DEFINE a == [h EXCEPT !.retries = h.retries - 1]
               f == WithHead(s, a)
    <2>1. FailedFirst(s) = f
      BY DEF FailedFirst, WithHead, Senders, h
    <2>2. a \in Pending /\ a.posn = h.posn /\ m = [a EXCEPT !.posn = h.posn - 1]
      BY <1>1, <1>3 DEF Pending
    <2> HIDE DEF a, m
    <2>3. /\ f \in Senders /\ f.queue = [s.queue EXCEPT ![1] = a]
          /\ f.shots = s.shots /\ 1 \in DOMAIN s.queue
          /\ f = [s EXCEPT !.queue = [s.queue EXCEPT ![1] = a]]
      BY <2>2, WithHeadType DEF WithHead, Senders
    <2>4. [f.queue EXCEPT ![1].posn = @ - 1] = [s.queue EXCEPT ![1] = m]
      BY <2>2, <2>3 DEF Senders
    <2> HIDE DEF f
    <2>5. [f EXCEPT !.queue[1].posn = @ - 1, !.shots = @ + 1]
             = [f EXCEPT !.queue = [f.queue EXCEPT ![1].posn = @ - 1], !.shots = @ + 1]
      OBVIOUS
    <2>6. [f EXCEPT !.queue = [s.queue EXCEPT ![1] = m], !.shots = @ + 1]
             = [WithHead(s, m) EXCEPT !.shots = @ + 1]
      BY <2>3 DEF WithHead, Senders
    <2> QED
      BY <2>1, <2>4, <2>5, <2>6
  <1> QED
    BY <1>3, <1>4, <1>5 DEF h

----------------------------------------------------------------------------
(* The invariant behind SenderInStep.  A message whose first fragment has   *)
(* not failed for good has an attempt left, so that the count never leaves  *)
(* its type; OneFragmentOut is put in the terms of the lemmas above.        *)

RetriesLeft ==
    \A i \in DOMAIN sender.queue :
        sender.queue[i].posn <= 1 => sender.queue[i].retries >= 1

\* The same before sendNext() counts the fragment it sends
AttemptsLeft(q) ==
    \A i \in DOMAIN q :
        q[i].posn = 0 \/ (i # 1 /\ q[i].posn <= 1) => q[i].retries >= 1

FragmentOut1 ==
    /\ sender.sending <=> sender.shots = 1 \/ Has(at, "cmgs")
    /\ sender.shots <= 1
    /\ sender.shots = 1 => ~Has(at, "cmgs")
    /\ Single(at, "cmgs")
    /\ Has(at, "cmgs") => Busy(sender)
    /\ CmgsAre(at, Head1(sender).id, Head1(sender).posn)

StepInv == TypeOK /\ FragmentOut1 /\ WaitingIsWatched /\ RetriesLeft

LEMMA FragmentOutForm ==
    /\ OneFragmentOut <=> FragmentOut1
    /\ OneFragmentOut' <=> FragmentOut1'
  <1>1. Places("cmgs") # {} <=> Has(at, "cmgs")
    BY DEF Places, Has
  <1>2. (Places("cmgs") # {})' <=> Has(at, "cmgs")'
    BY DEF Places, Has
  <1>3. OneFragmentOut <=> FragmentOut1
    BY <1>1 DEF OneFragmentOut, FragmentOut1, Places, Has, Single, CmgsAre
  <1>4. OneFragmentOut' <=> FragmentOut1'
    BY <1>2 DEF OneFragmentOut, FragmentOut1, Places, Has, Single, CmgsAre
  <1> QED
    BY <1>3, <1>4

\* sendNext() in a state in which no fragment is out keeps the sender in step.
LEMMA SendNextInStep ==
    ASSUME NEW s \in Senders, NEW line \in Seq(Commands),
           finished \in Seq(Report), SendNext(s, line),
           ~s.needTimer, s.shots = 0, ~Has(line, "cmgs"),
           AttemptsLeft(s.queue)
    PROVE  /\ FragmentOut1' /\ WaitingIsWatched' /\ RetriesLeft'
           /\ sender' \in Senders /\ at' \in Seq(Commands)
           /\ finished' \in Seq(Report)
           /\ Has(at', "cmgf") <=> Has(line, "cmgf")
           /\ Single(line, "cmgf") => Single(at', "cmgf")
  <1>1. SentNext(s, line) /\ sender' \in Senders /\ finished' \in Seq(Report)
    BY SendNextResult
  <1>2. /\ at' \in Seq(Commands)
        /\ Has(at', "cmgf") <=> Has(line, "cmgf")
        /\ Single(line, "cmgf") => Single(at', "cmgf")
        /\ Has(at', "cmgs") <=> sender'.queue # <<>>
        /\ Single(at', "cmgs")
        /\ CmgsAre(at', sender'.queue[1].id, sender'.queue[1].posn)
    BY <1>1, SendNextLine
  <1>3. /\ sender'.needTimer = FALSE /\ sender'.shots = 0
        /\ sender'.sending = (Rest(s) # <<>>)
        /\ SameMessages(Rest(s), sender'.queue)
        /\ Rest(s) # <<>> => sender'.queue[1].posn = Rest(s)[1].posn + 1
    BY <1>1 DEF SentNext
  <1>4. Rest(s) \in Seq(Pending) /\ sender'.queue \in Seq(Pending)
    BY <1>1, RestType DEF Senders
  <1>5. Rest(s) = <<>> <=> sender'.queue = <<>>
    BY <1>3, <1>4 DEF SameMessages
  <1>6. FragmentOut1' /\ WaitingIsWatched'
    <2>1. sender'.sending = TRUE <=> sender'.queue # <<>>
      BY <1>3, <1>5
    <2>2. FragmentOut1'
      BY <1>1, <1>2, <1>3, <2>1 DEF FragmentOut1, Busy, Head1, Senders
    <2>3. WaitingIsWatched'
      BY <1>1, <1>3, <2>1 DEF WaitingIsWatched, Busy, Senders
    <2> QED
      BY <2>2, <2>3
  <1>7. AttemptsLeft(Rest(s))
    <2>1. CASE Rest(s) = s.queue
      BY <2>1, Zenon
    <2>2. CASE Rest(s) # s.queue
      <3>1. s.queue \in Seq(Pending) /\ s.queue # <<>> /\ Rest(s) = Tail(s.queue)
        BY <2>2, RestType DEF Senders
      <3>2. /\ Len(s.queue) \in Nat \ {0} /\ DOMAIN Tail(s.queue) = 1..Len(s.queue) - 1
            /\ DOMAIN s.queue = 1..Len(s.queue)
            /\ \A i \in 1..Len(s.queue) - 1 : Tail(s.queue)[i] = s.queue[i + 1]
        BY <3>1
      <3>3. \A i \in DOMAIN Rest(s) :
               i + 1 \in DOMAIN s.queue /\ i + 1 # 1 /\ Rest(s)[i] = s.queue[i + 1]
        BY <3>1, <3>2
      <3>4. \A i \in DOMAIN s.queue : s.queue[i] \in Pending
        BY <3>1
      <3>5. \A i \in DOMAIN s.queue : s.queue[i].posn \in Nat
        BY <3>4 DEF Pending
      <3> QED
        BY <3>3, <3>5 DEF AttemptsLeft
    <2> QED
      BY <2>1, <2>2
  <1>8. RetriesLeft'
    <2> SUFFICES ASSUME NEW i \in DOMAIN sender'.queue,
                        sender'.queue[i].posn <= 1
                 PROVE  sender'.queue[i].retries >= 1
      BY DEF RetriesLeft
    <2>1. /\ i \in DOMAIN Rest(s) /\ sender'.queue[i].retries = Rest(s)[i].retries
          /\ i # 1 => sender'.queue[i] = Rest(s)[i]
      BY <1>3 DEF SameMessages
    <2>2. Rest(s)[i] \in Pending /\ Rest(s) # <<>>
      BY <1>4, <2>1
    <2>5. Rest(s)[i].posn \in Nat
      BY <2>2 DEF Pending
    <2>3. CASE i = 1
      BY <1>3, <1>7, <2>1, <2>2, <2>3, <2>5 DEF AttemptsLeft
    <2>4. CASE i # 1
      BY <1>7, <2>1, <2>4 DEF AttemptsLeft
    <2> QED
      BY <2>3, <2>4
  <1> QED
    BY <1>1, <1>2, <1>6, <1>8

Services == [smsRetryCount : 0..ReadyRetries, shots : Nat,
             pending : Seq(Items), posting : Seq(Items)]

ReadyRound1 ==
    /\ service.shots <= 1
    /\ service.smsRetryCount > 0 <=> service.shots = 1 \/ Has(at, "cmgf")
    /\ Single(at, "cmgf")
    /\ service.shots = 1 => ~Has(at, "cmgf")

LEMMA ReadyRoundForm ==
    /\ OneReadyRound <=> ReadyRound1
    /\ OneReadyRound' <=> ReadyRound1'
  <1>1. Places("cmgf") # {} <=> Has(at, "cmgf")
    BY DEF Places, Has
  <1>2. (Places("cmgf") # {})' <=> Has(at, "cmgf")'
    BY DEF Places, Has
  <1>3. OneReadyRound <=> ReadyRound1
    BY <1>1 DEF OneReadyRound, ReadyRound1, Places, Has, Single
  <1>4. OneReadyRound' <=> ReadyRound1'
    BY <1>2 DEF OneReadyRound, ReadyRound1, Places, Has, Single
  <1> QED
    BY <1>3, <1>4

Inv == StepInv /\ ReadyRound1

LEMMA PostType ==
    ASSUME NEW s \in Services, NEW item \in Items
    PROVE  /\ Post(s, item) \in Services
           /\ Post(s, item).smsRetryCount = s.smsRetryCount
           /\ Post(s, item).shots = s.shots
  <1>1. Append(s.pending, item) \in Seq(Items)
    BY DEF Services
  <1> QED
    BY <1>1 DEF Post, Services

\* Steps that only touch the service or the counter
LEMMA ServiceStep ==
    ASSUME Inv, service' \in Services, needs' \in 0..MaxNeeds,
           UNCHANGED <<sender, at, sizes, accepted, lost, finished>>,
           service'.smsRetryCount = service.smsRetryCount,
           service'.shots = service.shots
    PROVE  Inv'
  <1>1. TypeOK'
    BY DEF Inv, StepInv, TypeOK, Services
  <1>2. FragmentOut1' /\ WaitingIsWatched' /\ RetriesLeft'
    BY DEF Inv, StepInv, FragmentOut1, WaitingIsWatched, RetriesLeft, Busy, Head1
  <1>3. ReadyRound1'
    BY DEF Inv, ReadyRound1
  <1> QED
    BY <1>1, <1>2, <1>3 DEF Inv, StepInv

LEMMA OtherNeedsSmsStep == Inv /\ OtherNeedsSms => Inv'
  <1> SUFFICES ASSUME Inv, OtherNeedsSms PROVE Inv'
    OBVIOUS
  <1>1. service \in Services /\ needs' \in 0..MaxNeeds
    BY BoundsAssumption DEF Inv, StepInv, TypeOK, Services, OtherNeedsSms
  <1>2. service' = Post(service, "needsms") /\ "needsms" \in Items
    BY DEF OtherNeedsSms, Items
  <1>3. UNCHANGED <<sender, at, sizes, accepted, lost, finished>>
    BY DEF OtherNeedsSms
  <1> QED
    BY <1>1, <1>2, <1>3, PostType, ServiceStep

LEMMA PostItemsStep == Inv /\ PostItems => Inv'
  <1> SUFFICES ASSUME Inv, PostItems PROVE Inv'
    OBVIOUS
  <1>1. service \in Services /\ needs \in 0..MaxNeeds
    BY DEF Inv, StepInv, TypeOK, Services
  <1>2. /\ service' = [service EXCEPT !.posting = service.pending, !.pending = <<>>]
        /\ UNCHANGED <<sender, at, sizes, accepted, lost, finished, needs>>
    BY DEF PostItems
  <1>3. /\ service' \in Services
        /\ service'.smsRetryCount = service.smsRetryCount
        /\ service'.shots = service.shots
    <2>1. PICK none \in Seq(Items) : none = <<>>
      BY EmptySeq
    <2>2. service' = [service EXCEPT !.posting = service.pending, !.pending = none]
      BY <1>2, <2>1
    <2> QED
      BY <1>1, <2>2 DEF Services
  <1> QED
    BY <1>1, <1>2, <1>3, ServiceStep

\* send()
LEMMA SendStep ==
    ASSUME Inv, NEW size \in Sizes, Send(size)
    PROVE  Inv'
  <1> DEFINE msg == [id |-> Len(sizes) + 1, size |-> size, posn |-> 0,
                     retries |-> SendRetries, result |-> "ok"]
             q == Append(sender.queue, msg)
  <1>1. /\ sender \in Senders /\ service \in Services /\ sizes \in Seq(Sizes)
        /\ sender.queue \in Seq(Pending)
    BY DEF Inv, StepInv, TypeOK, Senders, Services
  <1>2. msg \in Pending /\ msg.posn = 0 /\ msg.retries >= 1
    <2>1. Len(sizes) + 1 \in Ids
      BY <1>1, BoundsAssumption DEF Send, Ids
    <2>2. SendRetries \in 0..SendRetries /\ SendRetries >= 1
      BY RetriesAssumption
    <2> QED
      BY <2>1, <2>2 DEF Pending
  <1>3. sender' = [sender EXCEPT !.queue = q, !.needTimer = Watched(sender)]
    BY DEF Send, LinkLast
  <1> HIDE DEF msg
  <1>4. /\ q \in Seq(Pending) /\ q # <<>> /\ Len(sender.queue) \in Nat
        /\ DOMAIN sender.queue = 1..Len(sender.queue)
        /\ DOMAIN q = 1..Len(sender.queue) + 1
        /\ \A i \in 1..Len(sender.queue) : q[i] = sender.queue[i]
        /\ q[Len(sender.queue) + 1] = msg
        /\ sender.queue # <<>> => q[1] = sender.queue[1]
    BY <1>1, <1>2
  <1> HIDE DEF q
  <1>5. /\ sender' \in Senders /\ sender'.queue = q
        /\ sender'.needTimer = Watched(sender)
        /\ sender'.sending = sender.sending /\ sender'.shots = sender.shots
    BY <1>1, <1>3, <1>4 DEF Senders, Watched, Busy
  <1>6. /\ service' \in Services /\ service'.shots = service.shots
        /\ service'.smsRetryCount = service.smsRetryCount
    BY <1>1, PostType DEF Send, Items
  <1>7. sizes' \in Seq(Sizes)
    BY <1>1 DEF Send
  <1>8. UNCHANGED <<at, accepted, lost, finished, needs>>
    BY DEF Send
  <1>9. TypeOK'
    BY <1>5, <1>6, <1>7, <1>8 DEF Inv, StepInv, TypeOK, Senders, Services
  <1>10. FragmentOut1'
    <2>1. ~Has(at, "cmgs") => \A id, part : CmgsAre(at, id, part)
      BY DEF Has, CmgsAre
    <2> QED
      BY <1>4, <1>5, <1>8, <2>1 DEF Inv, StepInv, FragmentOut1, Busy, Head1
  <1>11. WaitingIsWatched'
    BY <1>1, <1>4, <1>5 DEF Inv, StepInv, WaitingIsWatched, Busy, Watched, Senders
  <1>12. RetriesLeft'
    <2>1. \A i \in 1..Len(sender.queue) :
             q[i].posn <= 1 => q[i].retries >= 1
      BY <1>4 DEF Inv, StepInv, RetriesLeft
    <2>2. \A i \in 1..Len(sender.queue) + 1 :
             i \in 1..Len(sender.queue) \/ q[i] = msg
      BY <1>4
    <2> QED
      BY <1>2, <1>4, <1>5, <2>1, <2>2 DEF RetriesLeft
  <1>13. ReadyRound1'
    BY <1>6, <1>8 DEF Inv, ReadyRound1
  <1> QED
    BY <1>9, <1>10, <1>11, <1>12, <1>13 DEF Inv, StepInv

LEMMA DeliveredType ==
    ASSUME service \in Services, ~Idle
    PROVE  /\ Delivered \in Services
           /\ Delivered.smsRetryCount = service.smsRetryCount
           /\ Delivered.shots = service.shots
  <1>1. service.posting \in Seq(Items) /\ service.posting # <<>>
    BY DEF Services, Idle
  <1>2. Tail(service.posting) \in Seq(Items)
    BY <1>1
  <1> QED
    BY <1>2 DEF Delivered, Services

Cmgf == [cmd |-> "cmgf", id |-> 0, part |-> 0]

LEMMA CmgfType == Cmgf \in Commands /\ Cmgf.cmd = "cmgf"
  BY BoundsAssumption DEF Cmgf, Commands

\* AT+CMGF=0 goes on the line behind what is there, and changes nothing else
LEMMA CmgfOnLine ==
    ASSUME Inv, at' = Append(at, Cmgf), UNCHANGED sender
    PROVE  /\ at' \in Seq(Commands) /\ Has(at', "cmgf")
           /\ ~Has(at, "cmgf") => Single(at', "cmgf")
           /\ FragmentOut1' /\ WaitingIsWatched' /\ RetriesLeft'
  <1>1. at \in Seq(Commands)
    BY DEF Inv, StepInv, TypeOK
  <1>2. ~Has(at, "cmgf") => Single(at, "cmgf")
    BY DEF Has, Single
  <1>3. /\ at' \in Seq(Commands) /\ Has(at', "cmgf")
        /\ ~Has(at, "cmgf") => Single(at', "cmgf")
        /\ Has(at', "cmgs") <=> Has(at, "cmgs")
        /\ Single(at, "cmgs") => Single(at', "cmgs")
        /\ \A id, part : CmgsAre(at, id, part) => CmgsAre(at', id, part)
    BY <1>1, <1>2, CmgfType, LineAppend
  <1>4. FragmentOut1' /\ WaitingIsWatched' /\ RetriesLeft'
    BY <1>3 DEF Inv, StepInv, FragmentOut1, WaitingIsWatched, RetriesLeft,
                Busy, Head1
  <1> QED
    BY <1>3, <1>4

LEMMA NeedSmsStep == Inv /\ NeedSms => Inv'
  <1> SUFFICES ASSUME Inv, NeedSms PROVE Inv'
    OBVIOUS
  <1>1. service \in Services
    BY DEF Inv, StepInv, TypeOK, Services
  <1>2. /\ service' = [Delivered EXCEPT !.smsRetryCount = ReadyRetries]
        /\ UNCHANGED <<sender, sizes, accepted, lost, finished, needs>>
        /\ at' = IF service.smsRetryCount > 0 THEN at ELSE Append(at, Cmgf)
    BY DEF NeedSms, Cmgf
  <1>3. Delivered \in Services /\ Delivered.shots = service.shots
    BY <1>1, DeliveredType DEF NeedSms
  <1>4. /\ service' \in Services /\ service'.shots = service.shots
        /\ service'.smsRetryCount = ReadyRetries
    BY <1>2, <1>3, RetriesAssumption DEF Services
  <1>5. ReadyRetries > 0
    BY RetriesAssumption
  <1>6. CASE service.smsRetryCount > 0
    <2>1. at' = at
      BY <1>2, <1>6
    <2>2. TypeOK'
      BY <1>2, <1>4, <2>1 DEF Inv, StepInv, TypeOK, Services
    <2>3. FragmentOut1' /\ WaitingIsWatched' /\ RetriesLeft'
      BY <1>2, <2>1 DEF Inv, StepInv, FragmentOut1, WaitingIsWatched,
                        RetriesLeft, Busy, Head1
    <2>4. ReadyRound1'
      BY <1>4, <1>5, <1>6, <2>1 DEF Inv, ReadyRound1
    <2> QED
      BY <2>2, <2>3, <2>4 DEF Inv, StepInv
  <1>7. CASE ~(service.smsRetryCount > 0)
    <2>1. at' = Append(at, Cmgf)
      BY <1>2, <1>7
    <2>2. ~Has(at, "cmgf") /\ service.shots # 1 /\ service.shots <= 1
      BY <1>7 DEF Inv, ReadyRound1
    <2>3. /\ at' \in Seq(Commands) /\ Has(at', "cmgf") /\ Single(at', "cmgf")
          /\ FragmentOut1' /\ WaitingIsWatched' /\ RetriesLeft'
      BY <1>2, <2>1, <2>2, CmgfOnLine
    <2>4. TypeOK'
      BY <1>2, <1>4, <2>3 DEF Inv, StepInv, TypeOK, Services
    <2>5. ReadyRound1'
      BY <1>4, <1>5, <2>2, <2>3 DEF ReadyRound1
    <2> QED
      BY <2>3, <2>4, <2>5 DEF Inv, StepInv
  <1> QED
    BY <1>6, <1>7

LEMMA NeedSmsShotStep == Inv /\ NeedSmsShot => Inv'
  <1> SUFFICES ASSUME Inv, NeedSmsShot PROVE Inv'
    OBVIOUS
  <1>1. service \in Services /\ service.shots = 1 /\ ~Has(at, "cmgf")
        /\ service.smsRetryCount > 0
    BY DEF Inv, StepInv, TypeOK, Services, NeedSmsShot, ReadyRound1
  <1>2. /\ service' = [service EXCEPT !.shots = @ - 1] /\ at' = Append(at, Cmgf)
        /\ UNCHANGED <<sender, sizes, accepted, lost, finished, needs>>
    BY DEF NeedSmsShot, Cmgf
  <1>3. /\ service' \in Services /\ service'.shots = 0
        /\ service'.smsRetryCount = service.smsRetryCount
    BY <1>1, <1>2 DEF Services
  <1>4. /\ at' \in Seq(Commands) /\ Has(at', "cmgf") /\ Single(at', "cmgf")
        /\ FragmentOut1' /\ WaitingIsWatched' /\ RetriesLeft'
    BY <1>1, <1>2, CmgfOnLine
  <1>5. TypeOK'
    BY <1>2, <1>3, <1>4 DEF Inv, StepInv, TypeOK, Services
  <1>6. ReadyRound1'
    BY <1>1, <1>3, <1>4 DEF ReadyRound1
  <1> QED
    BY <1>4, <1>5, <1>6 DEF Inv, StepInv

\* smsReadyTimeout()
LEMMA SmsReadyTimeoutStep == Inv /\ SmsReadyTimeout => Inv'
  <1> SUFFICES ASSUME Inv, SmsReadyTimeout PROVE Inv'
    OBVIOUS
  <1> DEFINE failed == [i \in DOMAIN sender.queue |->
                           [id |-> sender.queue[i].id, result |-> "error"]]
  <1>1. /\ sender' = [sender EXCEPT !.queue = <<>>, !.needTimer = FALSE]
        /\ finished' = finished \o failed
        /\ UNCHANGED <<service, at, sizes, accepted, lost, needs>>
        /\ sender.needTimer
    BY DEF SmsReadyTimeout
  <1>2. sender \in Senders /\ sender.queue \in Seq(Pending)
        /\ finished \in Seq(Report)
    BY DEF Inv, StepInv, TypeOK, Senders, Report
  <1>3. failed \in Seq(Report)
    <2>1. /\ Len(sender.queue) \in Nat /\ DOMAIN sender.queue = 1..Len(sender.queue)
          /\ \A i \in DOMAIN sender.queue : sender.queue[i] \in Pending
      BY <1>2
    <2>2. \A i \in 1..Len(sender.queue) :
             [id |-> sender.queue[i].id, result |-> "error"] \in Report
      BY <2>1 DEF Pending, Report
    <2> QED
      BY <2>1, <2>2
  <1> HIDE DEF failed
  <1>4. finished' \in Seq(Report)
    BY <1>1, <1>2, <1>3
  <1>5. PICK none \in Seq(Pending) : none = <<>>
    BY EmptySeq
  <1>6. /\ sender' \in Senders /\ sender'.queue = none
        /\ sender'.needTimer = FALSE /\ sender'.shots = sender.shots
        /\ sender'.sending = sender.sending
    <2>1. sender' = [sender EXCEPT !.queue = none, !.needTimer = FALSE]
      BY <1>1, <1>5
    <2> QED
      BY <1>2, <2>1 DEF Senders
  <1>7. ~sender.sending /\ ~Has(at, "cmgs") /\ sender.shots # 1
    BY <1>1, <1>2 DEF Inv, StepInv, WaitingIsWatched, FragmentOut1, Senders
  <1>8. TypeOK'
    BY <1>1, <1>4, <1>6 DEF Inv, StepInv, TypeOK, Senders, Report
  <1>9. FragmentOut1'
    <2>1. \A id, part : CmgsAre(at, id, part)
      BY <1>7 DEF Has, CmgsAre
    <2> QED
      BY <1>1, <1>6, <1>7, <2>1 DEF Inv, StepInv, FragmentOut1
  <1>10. WaitingIsWatched' /\ RetriesLeft'
    BY <1>5, <1>6, <1>7 DEF WaitingIsWatched, RetriesLeft, Busy
  <1>11. ReadyRound1'
    BY <1>1 DEF Inv, ReadyRound1
  <1> QED
    BY <1>8, <1>9, <1>10, <1>11 DEF Inv, StepInv

\* What every step that takes a command off the line knows of it
LEMMA EndedLine ==
    ASSUME Inv, NEW cmd, Ended(cmd)
    PROVE  /\ at \in Seq(Commands) /\ at # <<>> /\ at[1].cmd = cmd
           /\ Head(at) = at[1] /\ 1 \in DOMAIN at /\ at[1] \in Commands
           /\ Has(at, cmd) /\ Tail(at) \in Seq(Commands)
           /\ \A other : cmd # other =>
                 /\ Has(Tail(at), other) <=> Has(at, other)
                 /\ Single(at, other) => Single(Tail(at), other)
           /\ Single(at, cmd) =>
                 ~Has(Tail(at), cmd) /\ Single(Tail(at), cmd)
           /\ \A id, part : CmgsAre(at, id, part) => CmgsAre(Tail(at), id, part)
  <1>1. at \in Seq(Commands) /\ at # <<>> /\ Head(at).cmd = cmd
    BY DEF Inv, StepInv, TypeOK, Ended
  <1>2. Head(at) = at[1] /\ 1 \in DOMAIN at
    BY <1>1, LineTail
  <1>3. Has(at, cmd)
    BY <1>1, <1>2 DEF Has
  <1> QED
    BY <1>1, <1>2, <1>3, LineTail

\* A command that is not a fragment ends
LEMMA OtherEnds ==
    ASSUME Inv, NEW cmd, cmd # "cmgs", Ended(cmd), at' = Tail(at),
           UNCHANGED sender
    PROVE  FragmentOut1' /\ WaitingIsWatched' /\ RetriesLeft'
           /\ at' \in Seq(Commands)
  <1>1. /\ at' \in Seq(Commands)
        /\ Has(at', "cmgs") <=> Has(at, "cmgs")
        /\ Single(at, "cmgs") => Single(at', "cmgs")
        /\ \A id, part : CmgsAre(at, id, part) => CmgsAre(at', id, part)
    BY EndedLine
  <1> QED
    BY <1>1 DEF Inv, StepInv, FragmentOut1, WaitingIsWatched, RetriesLeft,
                Busy, Head1

LEMMA CmmsDoneStep == Inv /\ CmmsDone => Inv'
  <1> SUFFICES ASSUME Inv, CmmsDone PROVE Inv'
    OBVIOUS
  <1>1. /\ Ended("cmms") /\ at' = Tail(at)
        /\ UNCHANGED <<sender, service, sizes, accepted, lost, finished, needs>>
    BY DEF CmmsDone
  <1>2. FragmentOut1' /\ WaitingIsWatched' /\ RetriesLeft' /\ at' \in Seq(Commands)
    BY <1>1, OtherEnds
  <1>3. /\ Has(at', "cmgf") <=> Has(at, "cmgf")
        /\ Single(at, "cmgf") => Single(at', "cmgf")
    BY <1>1, EndedLine
  <1>4. TypeOK'
    BY <1>1, <1>2 DEF Inv, StepInv, TypeOK
  <1>5. ReadyRound1'
    BY <1>1, <1>3 DEF Inv, ReadyRound1
  <1> QED
    BY <1>2, <1>4, <1>5 DEF Inv, StepInv

\* cmgfDone()
LEMMA CmgfDoneStep ==
    ASSUME Inv, NEW ok \in BOOLEAN, CmgfDone(ok)
    PROVE  Inv'
  <1>1. /\ Ended("cmgf") /\ at' = Tail(at)
        /\ UNCHANGED <<sender, sizes, accepted, lost, finished, needs>>
    BY DEF CmgfDone
  <1>2. FragmentOut1' /\ WaitingIsWatched' /\ RetriesLeft' /\ at' \in Seq(Commands)
    BY <1>1, OtherEnds
  <1>3. Has(at, "cmgf") /\ ~Has(at', "cmgf") /\ Single(at', "cmgf")
    BY <1>1, EndedLine DEF Inv, ReadyRound1
  <1>4. /\ service \in Services /\ service.shots = 0
        /\ service.smsRetryCount > 0 /\ service.smsRetryCount \in 0..ReadyRetries
    <2>1. service \in Services
      BY DEF Inv, StepInv, TypeOK, Services
    <2>2. service.shots \in Nat /\ service.smsRetryCount \in 0..ReadyRetries
      BY <2>1 DEF Services
    <2>3. /\ service.shots <= 1 /\ service.shots # 1
          /\ service.smsRetryCount > 0
      BY <1>3 DEF Inv, ReadyRound1
    <2> QED
      BY <2>1, <2>2, <2>3
  <1>5. /\ service' \in Services /\ service'.shots <= 1
        /\ service'.smsRetryCount > 0 <=> service'.shots = 1
    <2>1. CASE ok
      <3> DEFINE s == [service EXCEPT !.smsRetryCount = 0]
      <3>1. s \in Services /\ s.shots = 0 /\ s.smsRetryCount = 0
        BY <1>4, RetriesAssumption DEF Services
      <3>2. service' = Post(s, "smsready")
        BY <2>1 DEF CmgfDone
      <3> HIDE DEF s
      <3>3. service' \in Services /\ service'.shots = 0 /\ service'.smsRetryCount = 0
        BY <3>1, <3>2, PostType DEF Items
      <3> QED
        BY <3>3
    <2>2. CASE ~ok
      <3>1. service' = [service EXCEPT !.smsRetryCount = @ - 1,
                             !.shots = IF service.smsRetryCount > 1
                                       THEN @ + 1 ELSE @]
        BY <2>2 DEF CmgfDone
      <3>2. service.smsRetryCount - 1 \in 0..ReadyRetries
        BY <1>4, RetriesAssumption
      <3>3. /\ service' \in Services
            /\ service'.smsRetryCount = service.smsRetryCount - 1
            /\ service'.shots = IF service.smsRetryCount > 1 THEN 1 ELSE 0
        <4> DEFINE c == service.smsRetryCount - 1
                   n == IF service.smsRetryCount > 1 THEN 1 ELSE 0
        <4>1. service' = [service EXCEPT !.smsRetryCount = c, !.shots = n]
          BY <1>4, <3>1
        <4>2. c \in 0..ReadyRetries /\ n \in Nat
          BY <3>2
        <4> HIDE DEF c, n
        <4>3. service' \in Services /\ service'.smsRetryCount = c /\ service'.shots = n
          BY <1>4, <4>1, <4>2 DEF Services
        <4> QED
          BY <4>3 DEF c, n
      <3> QED
        BY <1>4, <3>3, RetriesAssumption
    <2> QED
      BY <2>1, <2>2
  <1>6. TypeOK'
    BY <1>1, <1>2, <1>5 DEF Inv, StepInv, TypeOK, Services
  <1>7. ReadyRound1'
    BY <1>3, <1>5 DEF ReadyRound1
  <1> QED
    BY <1>2, <1>6, <1>7 DEF Inv, StepInv

\* The retries of the sender before a step
LEMMA RetriesAttempts ==
    ASSUME Inv
    PROVE  /\ AttemptsLeft(sender.queue)
           /\ sender \in Senders /\ sender.queue \in Seq(Pending)
           /\ finished \in Seq(Report) /\ at \in Seq(Commands)
  <1>1. /\ sender \in Senders /\ sender.queue \in Seq(Pending)
        /\ finished \in Seq(Report) /\ at \in Seq(Commands)
    BY DEF Inv, StepInv, TypeOK, Senders, Report
  <1>2. \A i \in DOMAIN sender.queue : sender.queue[i] \in Pending
    BY <1>1
  <1>3. \A i \in DOMAIN sender.queue : sender.queue[i].posn \in Nat
    BY <1>2 DEF Pending
  <1> QED
    BY <1>1, <1>3 DEF Inv, StepInv, RetriesLeft, AttemptsLeft

\* A step that ends in sendNext() leaves the rest to it.
LEMMA SendNextStep ==
    ASSUME Inv, NEW s \in Senders, NEW line \in Seq(Commands),
           SendNext(s, line), ~s.needTimer, s.shots = 0, ~Has(line, "cmgs"),
           AttemptsLeft(s.queue),
           Has(line, "cmgf") <=> Has(at, "cmgf"), Single(line, "cmgf"),
           service' \in Services,
           service'.smsRetryCount = service.smsRetryCount,
           service'.shots = service.shots,
           accepted' \in Seq(Ids \X Nat), lost' \in Seq(Ids \X Nat),
           UNCHANGED <<sizes, needs>>
    PROVE  Inv'
  <1>1. finished \in Seq(Report)
    BY RetriesAttempts
  <1>2. /\ FragmentOut1' /\ WaitingIsWatched' /\ RetriesLeft'
        /\ sender' \in Senders /\ at' \in Seq(Commands)
        /\ finished' \in Seq(Report)
        /\ Has(at', "cmgf") <=> Has(line, "cmgf")
        /\ Single(at', "cmgf")
    BY <1>1, SendNextInStep
  <1>3. TypeOK'
    BY <1>2 DEF Inv, StepInv, TypeOK, Senders, Services, Report
  <1>4. ReadyRound1'
    BY <1>2 DEF Inv, ReadyRound1
  <1> QED
    BY <1>2, <1>3, <1>4 DEF Inv, StepInv

\* While the sender is sending, no timer watches it, and no retry is posted
\* while its fragment is with the chat.
LEMMA WhileSending ==
    ASSUME Inv
    PROVE  /\ sender.sending => ~sender.needTimer /\ Busy(sender)
           /\ sender.shots \in {0, 1} /\ (sender.shots = 1 => sender.sending)
           /\ sender.shots = 1 => ~Has(at, "cmgs")
           /\ Has(at, "cmgs") => sender.sending /\ sender.shots = 0
  <1>1. sender.shots \in Nat /\ sender.sending \in BOOLEAN
        /\ sender.needTimer \in BOOLEAN
    BY RetriesAttempts DEF Senders
  <1>2. FragmentOut1 /\ WaitingIsWatched
    BY DEF Inv, StepInv
  <1>3. sender.shots \in {0, 1} /\ (sender.shots = 1 => sender.sending)
    BY <1>1, <1>2 DEF FragmentOut1
  <1>4. sender.sending => ~sender.needTimer /\ Busy(sender)
    BY <1>2 DEF WaitingIsWatched
  <1>5. /\ sender.shots = 1 => ~Has(at, "cmgs")
        /\ Has(at, "cmgs") => sender.sending
    BY <1>2 DEF FragmentOut1
  <1> QED
    BY <1>3, <1>4, <1>5

\* smsReady()
LEMMA SmsReadyStep == Inv /\ SmsReady => Inv'
  <1> SUFFICES ASSUME Inv, SmsReady PROVE Inv'
    OBVIOUS
  <1> DEFINE s == StopNeedTimer(sender)
  <1>1. /\ service' = Delivered /\ ~Idle
        /\ IF ~Busy(s) \/ s.sending
           THEN sender' = s /\ UNCHANGED <<at, finished>>
           ELSE SendNext(s, at)
        /\ UNCHANGED <<sizes, accepted, lost, needs>>
    BY DEF SmsReady
  <1>2. /\ service' \in Services /\ service'.shots = service.shots
        /\ service'.smsRetryCount = service.smsRetryCount
    BY <1>1, DeliveredType DEF Inv, StepInv, TypeOK, Services
  <1>3. /\ s \in Senders /\ s.queue = sender.queue /\ s.needTimer = FALSE
        /\ s.sending = sender.sending /\ s.shots = sender.shots
    BY RetriesAttempts DEF StopNeedTimer, Senders
  <1> HIDE DEF s
  <1>4. Single(at, "cmgf") /\ accepted \in Seq(Ids \X Nat) /\ lost \in Seq(Ids \X Nat)
    BY DEF Inv, ReadyRound1, StepInv, TypeOK
  <1>5. CASE ~Busy(s) \/ s.sending
    <2>1. sender' = s /\ UNCHANGED <<at, finished>>
      BY <1>1, <1>5
    <2>2. TypeOK'
      BY <1>1, <1>2, <1>3, <2>1 DEF Inv, StepInv, TypeOK, Senders, Services
    <2>3. FragmentOut1' /\ RetriesLeft'
      BY <1>3, <2>1 DEF Inv, StepInv, FragmentOut1, RetriesLeft, Busy, Head1
    <2>4. WaitingIsWatched'
      BY <1>3, <1>5, <2>1, WhileSending DEF WaitingIsWatched, Busy
    <2>5. ReadyRound1'
      BY <1>2, <2>1 DEF Inv, ReadyRound1
    <2> QED
      BY <2>2, <2>3, <2>4, <2>5 DEF Inv, StepInv
  <1>6. CASE ~(~Busy(s) \/ s.sending)
    <2>1. SendNext(s, at)
      BY <1>1, <1>6
    <2>2. s.shots = 0 /\ ~Has(at, "cmgs")
      BY <1>3, <1>6, WhileSending
    <2>3. AttemptsLeft(s.queue) /\ at \in Seq(Commands)
      BY <1>3, RetriesAttempts
    <2> QED
      BY <1>1, <1>2, <1>3, <1>4, <2>1, <2>2, <2>3, SendNextStep
  <1> QED
    BY <1>5, <1>6

\* What transmitDone() finds: the fragment the head of the queue counts, and
\* no timer that could send another
LEMMA FragmentEnds ==
    ASSUME Inv, Ended("cmgs")
    PROVE  /\ Tail(at) \in Seq(Commands) /\ ~Has(Tail(at), "cmgs")
           /\ Has(Tail(at), "cmgf") <=> Has(at, "cmgf")
           /\ Single(Tail(at), "cmgf")
           /\ sender.sending /\ sender.shots = 0 /\ ~sender.needTimer
           /\ sender.queue # <<>> /\ sender.queue[1] \in Pending
           /\ FragmentOut = <<sender.queue[1].id, sender.queue[1].posn>>
           /\ FragmentOut \in Ids \X Nat
           /\ service \in Services /\ accepted \in Seq(Ids \X Nat)
           /\ lost \in Seq(Ids \X Nat)
  <1>1. /\ Tail(at) \in Seq(Commands) /\ ~Has(Tail(at), "cmgs") /\ Has(at, "cmgs")
        /\ Has(Tail(at), "cmgf") <=> Has(at, "cmgf")
        /\ Single(Tail(at), "cmgf")
    BY EndedLine DEF Inv, StepInv, FragmentOut1, ReadyRound1
  <1>2. sender.sending /\ sender.shots = 0 /\ ~sender.needTimer /\ Busy(sender)
    BY <1>1, WhileSending
  <1>3. sender.queue # <<>> /\ sender.queue[1] \in Pending
    BY <1>2, RetriesAttempts DEF Busy
  <1>4. FragmentOut = <<sender.queue[1].id, sender.queue[1].posn>>
    <2>1. Head(at) = at[1] /\ 1 \in DOMAIN at /\ at[1].cmd = "cmgs"
      BY EndedLine
    <2>2. CmgsAre(at, sender.queue[1].id, sender.queue[1].posn)
      BY DEF Inv, StepInv, FragmentOut1, Head1
    <2> QED
      BY <2>1, <2>2 DEF CmgsAre, FragmentOut
  <1>5. FragmentOut \in Ids \X Nat
    BY <1>3, <1>4 DEF Pending
  <1> QED
    BY <1>1, <1>2, <1>3, <1>4, <1>5
       DEF Inv, StepInv, TypeOK, Services

\* transmitDone(TRUE)
LEMMA TransmitOkStep == Inv /\ TransmitOk => Inv'
  <1> SUFFICES ASSUME Inv, TransmitOk PROVE Inv'
    OBVIOUS
  <1>1. /\ Ended("cmgs") /\ accepted' = Append(accepted, FragmentOut)
        /\ SendNext(sender, Tail(at))
        /\ UNCHANGED <<service, sizes, lost, needs>>
    BY DEF TransmitOk
  <1>2. accepted' \in Seq(Ids \X Nat) /\ lost' \in Seq(Ids \X Nat)
        /\ service' \in Services
    BY <1>1, FragmentEnds
  <1> QED
    BY <1>1, <1>2, FragmentEnds, RetriesAttempts, SendNextStep

\* sendNext() a second after a first fragment failed
LEMMA RetryShotStep == Inv /\ RetryShot => Inv'
  <1> SUFFICES ASSUME Inv, RetryShot PROVE Inv'
    OBVIOUS
  <1> DEFINE s == [sender EXCEPT !.shots = @ - 1]
  <1>1. /\ SendNext(s, at) /\ sender.shots > 0
        /\ UNCHANGED <<service, sizes, accepted, lost, needs>>
    BY DEF RetryShot
  <1>2. sender.shots = 1 /\ ~Has(at, "cmgs") /\ ~sender.needTimer
    BY <1>1, WhileSending
  <1>3. s \in Senders /\ s.queue = sender.queue /\ ~s.needTimer /\ s.shots = 0
    BY <1>2, RetriesAttempts DEF Senders
  <1> HIDE DEF s
  <1>4. /\ Single(at, "cmgf") /\ accepted' \in Seq(Ids \X Nat)
        /\ lost' \in Seq(Ids \X Nat) /\ service' \in Services
    BY <1>1 DEF Inv, ReadyRound1, StepInv, TypeOK, Services
  <1>5. AttemptsLeft(s.queue) /\ at \in Seq(Commands)
    BY <1>3, RetriesAttempts
  <1> QED
    BY <1>1, <1>2, <1>3, <1>4, <1>5, SendNextStep

\* transmitDone(FALSE)
LEMMA TransmitFailedStep == Inv /\ TransmitFailed => Inv'
  <1> SUFFICES ASSUME Inv, TransmitFailed PROVE Inv'
    OBVIOUS
  <1>1. /\ Ended("cmgs")
        /\ \/ UNCHANGED <<accepted, lost>>
           \/ /\ accepted' = Append(accepted, FragmentOut)
              /\ lost' = Append(lost, FragmentOut)
        /\ GivesUp(Head1(sender)) =>
              SendNext(FailedForGood(sender), Tail(at))
        /\ ~GivesUp(Head1(sender)) =>
              /\ sender' = [FailedFirst(sender) EXCEPT !.queue[1].posn = @ - 1,
                                                       !.shots = @ + 1]
              /\ at' = Tail(at)
              /\ UNCHANGED finished
        /\ UNCHANGED <<service, sizes, needs>>
    BY DEF TransmitFailed
  <1>2. accepted' \in Seq(Ids \X Nat) /\ lost' \in Seq(Ids \X Nat)
        /\ service' \in Services
    <2>1. /\ FragmentOut \in Ids \X Nat /\ service \in Services
          /\ accepted \in Seq(Ids \X Nat) /\ lost \in Seq(Ids \X Nat)
      BY <1>1, FragmentEnds
    <2>2. /\ Append(accepted, FragmentOut) \in Seq(Ids \X Nat)
          /\ Append(lost, FragmentOut) \in Seq(Ids \X Nat)
      BY <2>1, AppendSeq
    <2> QED
      BY <1>1, <2>1, <2>2, Zenon
  <1>3. /\ sender \in Senders /\ sender.queue # <<>> /\ 1 \in DOMAIN sender.queue
        /\ sender.queue \in Seq(Pending)
    BY <1>1, FragmentEnds, RetriesAttempts
  <1>4. /\ sender.queue[1].posn <= 1 => sender.queue[1].retries >= 1
        /\ \A i \in DOMAIN sender.queue :
              sender.queue[i].posn <= 1 => sender.queue[i].retries >= 1
    BY <1>3 DEF Inv, StepInv, RetriesLeft
  <1>5. CASE GivesUp(Head1(sender))
    <2>1. PICK msg \in Pending :
              /\ FailedForGood(sender) = WithHead(sender, msg)
              /\ msg.posn = sender.queue[1].posn
              /\ msg.posn = 0 => msg.retries = sender.queue[1].retries
      BY <1>3, <1>4, FailedForGoodIs
    <2> DEFINE s == WithHead(sender, msg)
    <2>2. /\ s \in Senders /\ s.needTimer = sender.needTimer
          /\ s.shots = sender.shots
          /\ DOMAIN s.queue = DOMAIN sender.queue /\ s.queue[1] = msg
          /\ \A i \in DOMAIN sender.queue : i # 1 => s.queue[i] = sender.queue[i]
      BY <1>3, WithHeadType
    <2> HIDE DEF s
    <2>3. AttemptsLeft(s.queue)
      BY <1>4, <2>1, <2>2, RetriesAttempts DEF AttemptsLeft
    <2>4. SendNext(s, Tail(at))
      BY <1>1, <1>5, <2>1 DEF s
    <2> QED
      BY <1>1, <1>2, <2>2, <2>3, <2>4, FragmentEnds, SendNextStep
  <1>6. CASE ~GivesUp(Head1(sender))
    <2>1. PICK msg \in Pending :
              /\ [FailedFirst(sender) EXCEPT !.queue[1].posn = @ - 1,
                                             !.shots = @ + 1]
                    = [WithHead(sender, msg) EXCEPT !.shots = @ + 1]
              /\ msg.retries >= 1
      BY <1>3, <1>6, RetryIs
    <2> DEFINE s == WithHead(sender, msg)
    <2>2. /\ s \in Senders /\ s.needTimer = FALSE /\ s.queue # <<>>
          /\ s.shots = 0 /\ s.sending = TRUE
          /\ DOMAIN s.queue = DOMAIN sender.queue /\ s.queue[1] = msg
          /\ \A i \in DOMAIN sender.queue : i # 1 => s.queue[i] = sender.queue[i]
      <3>1. /\ s \in Senders /\ s.needTimer = sender.needTimer /\ s.queue # <<>>
            /\ s.shots = sender.shots /\ s.sending = sender.sending
            /\ DOMAIN s.queue = DOMAIN sender.queue /\ s.queue[1] = msg
            /\ \A i \in DOMAIN sender.queue : i # 1 => s.queue[i] = sender.queue[i]
        BY <1>3, WithHeadType
      <3>2. sender.sending /\ sender.shots = 0 /\ ~sender.needTimer
        BY <1>1, FragmentEnds
      <3>3. sender.sending \in BOOLEAN /\ sender.needTimer \in BOOLEAN
        BY <1>3 DEF Senders
      <3> HIDE DEF s
      <3> QED
        BY <3>1, <3>2, <3>3
    <2>3. sender' = [s EXCEPT !.shots = @ + 1] /\ at' = Tail(at)
          /\ finished' = finished
      BY <1>1, <1>6, <2>1 DEF s
    <2> HIDE DEF s
    <2>4. /\ sender' \in Senders /\ sender'.queue = s.queue
          /\ sender'.needTimer = FALSE /\ sender'.shots = 1
          /\ sender'.sending = TRUE
      BY <2>2, <2>3 DEF Senders
    <2>5. /\ at' \in Seq(Commands) /\ ~Has(at', "cmgs")
          /\ Has(at', "cmgf") <=> Has(at, "cmgf")
          /\ Single(at', "cmgf")
      BY <1>1, <2>3, FragmentEnds
    <2>6. TypeOK'
      BY <1>1, <1>2, <2>3, <2>4, <2>5
         DEF Inv, StepInv, TypeOK, Senders, Services
    <2>7. FragmentOut1' /\ WaitingIsWatched'
      <3>1. Single(at', "cmgs") /\ \A id, part : CmgsAre(at', id, part)
        BY <2>5 DEF Has, Single, CmgsAre
      <3> QED
        BY <2>2, <2>4, <2>5, <3>1 DEF FragmentOut1, WaitingIsWatched, Busy
    <2>8. RetriesLeft'
      BY <1>4, <2>1, <2>2, <2>4 DEF RetriesLeft
    <2>9. ReadyRound1'
      BY <1>1, <2>5 DEF Inv, ReadyRound1
    <2> QED
      BY <2>6, <2>7, <2>8, <2>9 DEF Inv, StepInv
  <1> QED
    BY <1>5, <1>6

LEMMA InitInv == Init => Inv
  <1> SUFFICES ASSUME Init PROVE Inv
    OBVIOUS
  <1>1. sender = [queue |-> <<>>, needTimer |-> FALSE, sending |-> FALSE,
                  shots |-> 0]
        /\ service = [smsRetryCount |-> 0, shots |-> 0, pending |-> <<>>,
                      posting |-> <<>>]
        /\ at = <<>> /\ sizes = <<>> /\ accepted = <<>> /\ lost = <<>>
        /\ finished = <<>> /\ needs = MaxNeeds
    BY DEF Init
  <1>2. /\ <<>> \in Seq(Pending) /\ <<>> \in Seq(Items) /\ <<>> \in Seq(Commands)
        /\ <<>> \in Seq(Sizes) /\ <<>> \in Seq(Ids \X Nat)
        /\ <<>> \in Seq([id : Ids, result : {"ok", "error"}])
    BY EmptySeq
  <1>3. sender \in Senders
    BY <1>1, <1>2 DEF Senders
  <1>4. service \in Services
    BY <1>1, <1>2, RetriesAssumption DEF Services
  <1>5. TypeOK
    BY <1>1, <1>2, <1>3, <1>4, BoundsAssumption DEF TypeOK, Senders, Services
  <1>6. DOMAIN at = {} /\ sender.queue = <<>> /\ DOMAIN sender.queue = {}
        /\ ~sender.sending /\ ~sender.needTimer /\ sender.shots = 0
        /\ service.shots = 0 /\ service.smsRetryCount = 0
    BY <1>1
  <1>7. FragmentOut1 /\ ReadyRound1
    BY <1>6 DEF FragmentOut1, ReadyRound1, Has, Single, CmgsAre
  <1>8. WaitingIsWatched /\ RetriesLeft
    BY <1>6 DEF WaitingIsWatched, RetriesLeft, Busy
  <1> QED
    BY <1>5, <1>7, <1>8 DEF Inv, StepInv

LEMMA NextInv == Inv /\ [Next]_vars => Inv'
  <1> SUFFICES ASSUME Inv, [Next]_vars PROVE Inv'
    OBVIOUS
  <1>1. CASE UNCHANGED vars
    BY <1>1 DEF vars, Inv, StepInv, TypeOK, FragmentOut1, WaitingIsWatched,
                RetriesLeft, ReadyRound1, Busy, Head1
  <1>2. CASE \E size \in Sizes : Send(size)
    BY <1>2, SendStep
  <1>3. CASE OtherNeedsSms
    BY <1>3, OtherNeedsSmsStep
  <1>4. CASE PostItems
    BY <1>4, PostItemsStep
  <1>5. CASE Deliver
    BY <1>5, NeedSmsStep, SmsReadyStep DEF Deliver
  <1>6. CASE SmsReadyTimeout
    BY <1>6, SmsReadyTimeoutStep
  <1>7. CASE AtAnswer
    <2>1. CASE CmgfDone(TRUE)
      BY <2>1, CmgfDoneStep
    <2>2. CASE CmgfDone(FALSE)
      BY <2>2, CmgfDoneStep
    <2> QED
      BY <1>7, <2>1, <2>2, CmmsDoneStep, TransmitOkStep, TransmitFailedStep
         DEF AtAnswer
  <1>8. CASE RetryShot
    BY <1>8, RetryShotStep
  <1>9. CASE NeedSmsShot
    BY <1>9, NeedSmsShotStep
  <1> QED
    BY <1>1, <1>2, <1>3, <1>4, <1>5, <1>6, <1>7, <1>8, <1>9 DEF Next

LEMMA AlwaysInv == Spec => []Inv
  BY InitInv, NextInv, PTL DEF Spec

\* Whatever waits is watched or being sent; what is being sent is one
\* fragment of the head of the queue (sendNext(), smsReady(),
\* smsReadyTimeout(), transmitDone()).
THEOREM SenderAlwaysInStep == Spec => []SenderInStep
  <1>1. Inv => SenderInStep
    BY FragmentOutForm DEF Inv, StepInv, SenderInStep
  <1> QED
    BY <1>1, AlwaysInv, PTL

\* At most one round of AT+CMGF=0 runs, whoever needs SMS service
\* (needSms(), sendNeedSms(), cmgfDone()).
THEOREM OneRoundAtATime == Spec => []OneReadyRound
  <1>1. Inv => OneReadyRound
    BY ReadyRoundForm DEF Inv
  <1> QED
    BY <1>1, AlwaysInv, PTL

----------------------------------------------------------------------------
(* The invariant behind SentWhole and DeliveryInTurn.  Messages keep the    *)
(* order of the calls of send(); the ones behind the head have not been     *)
(* started; of the head every fragment before the one that is out has been  *)
(* taken; and no fragment beyond that one has.                              *)

Taken(f, acc) == \E j \in DOMAIN acc : acc[j] = f
AllTaken(id, n, acc) == \A part \in 1..n : Taken(<<id, part>>, acc)

NumberedIn(q, f) ==
    /\ Len(f) + Len(q) = Len(sizes)
    /\ \A i \in DOMAIN q : /\ q[i].id = Len(f) + i
                           /\ q[i].size = sizes[Len(f) + i]
    /\ \A k \in DOMAIN f : f[k].id = k

CountedIn(q) ==
    \A i \in DOMAIN q : q[i].posn <= q[i].size /\ (i # 1 => q[i].posn = 0)

StartedWhenOut ==
    Busy(sender) => (Has(at, "cmgs") <=> Head1(sender).posn # 0)

\* With n messages done, of the one that is being sent only fragments before
\* p have been taken, and its first if the answer to it was lost.
NothingAheadIn(q, n, p, acc, ls) ==
    \A j \in DOMAIN acc :
        /\ acc[j][2] >= 1
        /\ \/ acc[j][1] <= n
           \/ /\ q # <<>> /\ acc[j][1] = n + 1
              /\ acc[j][2] < p \/ (acc[j][2] = 1 /\ Taken(acc[j], ls))

TakenSoFar ==
    Busy(sender) /\ Head1(sender).result = "ok" =>
        AllTaken(Head1(sender).id, Head1(sender).posn - 1, accepted)

NothingAhead == NothingAheadIn(sender.queue, Len(finished),
                               Head1(sender).posn, accepted, lost)

ReportsTaken(f, acc) ==
    \A k \in DOMAIN f :
        f[k].result = "ok" => AllTaken(f[k].id, sizes[f[k].id], acc)

OrderInv ==
    /\ NumberedIn(sender.queue, finished) /\ CountedIn(sender.queue)
    /\ StartedWhenOut /\ TakenSoFar /\ NothingAhead
    /\ ReportsTaken(finished, accepted) /\ FragmentsInOrder

LEMMA ReportsTakenForm ==
    SentMeansAccepted <=> ReportsTaken(finished, accepted)
  BY DEF SentMeansAccepted, ReportsTaken, AllTaken, Taken

LEMMA TailAt ==
    ASSUME NEW S, NEW q \in Seq(S), q # <<>>
    PROVE  /\ Len(q) \in Nat \ {0} /\ DOMAIN q = 1..Len(q)
           /\ Tail(q) \in Seq(S) /\ Len(Tail(q)) = Len(q) - 1
           /\ DOMAIN Tail(q) = 1..Len(q) - 1
           /\ \A i \in 1..Len(q) - 1 : Tail(q)[i] = q[i + 1]
           /\ q[1] \in S
  OBVIOUS

\* sendNext() keeps the order, if every fragment that was counted has been
\* taken or its message has failed, and none beyond.
LEMMA SendNextOrder ==
    ASSUME NEW s \in Senders, NEW line \in Seq(Commands),
           finished \in Seq(Report), sizes \in Seq(Sizes), sizes' = sizes,
           SendNext(s, line), ~Has(line, "cmgs"),
           NumberedIn(s.queue, finished), CountedIn(s.queue),
           s.queue # <<>> /\ s.queue[1].result = "ok" =>
               AllTaken(s.queue[1].id, s.queue[1].posn, accepted'),
           NothingAheadIn(s.queue, Len(finished), s.queue[1].posn + 1,
                          accepted', lost'),
           accepted' \in Seq(Ids \X Nat),
           ReportsTaken(finished, accepted'), FragmentsInOrder'
    PROVE  OrderInv' /\ Len(finished') >= Len(finished)
           /\ (sender'.sending \/ Len(finished') > Len(finished)
               \/ s.queue = <<>>)
  <1> DEFINE rest == Rest(s)
             q == sender'.queue
             n == Len(finished)
  <1>1. SentNext(s, line) /\ sender' \in Senders /\ finished' \in Seq(Report)
    BY SendNextResult
  <1>2. rest \in Seq(Pending) /\ q \in Seq(Pending) /\ s.queue \in Seq(Pending)
        /\ n \in Nat
    BY <1>1, RestType DEF Senders
  <1>3. /\ SameMessages(rest, q) /\ sender'.sending = (rest # <<>>)
        /\ rest # <<>> => q[1].posn = rest[1].posn + 1
        /\ finished' = IF rest = s.queue THEN finished
                       ELSE Append(finished, [id |-> s.queue[1].id,
                                              result |-> s.queue[1].result])
    BY <1>1 DEF SentNext
  <1>4. Has(at', "cmgs") <=> q # <<>>
    BY <1>1, SendNextLine
  <1>5. (rest = <<>> <=> q = <<>>) /\ (q # <<>> => 1 \in DOMAIN rest)
    BY <1>2, <1>3 DEF SameMessages
  <1>6. \A i \in DOMAIN rest : rest[i] \in Pending /\ rest[i].posn \in Nat
                               /\ rest[i].size \in Nat \ {0}
    <2>1. \A i \in DOMAIN rest : rest[i] \in Pending
      BY <1>2
    <2> QED
      BY <2>1, SizesAssumption DEF Pending
  <1>7. CASE rest = s.queue
    <2>1. finished' = finished /\ SameMessages(s.queue, q)
          /\ (s.queue # <<>> => s.queue[1].posn < s.queue[1].size)
      BY <1>3, <1>7, RestType
    <2> HIDE DEF rest, q, n
    <2>2. NumberedIn(sender.queue, finished)'
      <3>1. Len(q) = Len(s.queue) /\ DOMAIN q = DOMAIN s.queue
            /\ \A i \in DOMAIN q : q[i].id = s.queue[i].id /\ q[i].size = s.queue[i].size
        BY <2>1 DEF SameMessages
      <3> QED
        BY <2>1, <3>1 DEF NumberedIn, q
    <2>3. CountedIn(sender.queue)'
      <3> SUFFICES ASSUME NEW i \in DOMAIN q
                   PROVE  q[i].posn <= q[i].size /\ (i # 1 => q[i].posn = 0)
        BY DEF CountedIn, q
      <3>1. i \in DOMAIN rest /\ q[i].size = rest[i].size /\ rest # <<>>
            /\ (i # 1 => q[i] = rest[i])
        BY <1>2, <2>1, <1>7 DEF SameMessages
      <3>2. CASE i = 1
        BY <1>3, <1>6, <1>7, <2>1, <3>1, <3>2
      <3>3. CASE i # 1
        BY <1>7, <3>1, <3>3 DEF CountedIn
      <3> QED
        BY <3>2, <3>3
    <2>4. StartedWhenOut'
      BY <1>3, <1>4, <1>5, <1>6 DEF StartedWhenOut, Busy, Head1, q
    <2>5. CASE q = <<>>
      <3>1. TakenSoFar'
        BY <2>5 DEF TakenSoFar, Busy, q
      <3>2. NothingAhead'
        <4>1. s.queue = <<>>
          BY <1>5, <1>7, <2>5
        <4> QED
          BY <2>1, <4>1 DEF NothingAhead, NothingAheadIn, n
      <3> QED
        BY <1>5, <1>7, <2>1, <2>2, <2>3, <2>4, <2>5, <3>1, <3>2
           DEF OrderInv, ReportsTaken, n
    <2>6. CASE q # <<>>
      <3>1. /\ 1 \in DOMAIN q /\ q[1].posn = s.queue[1].posn + 1
            /\ q[1].posn - 1 = s.queue[1].posn
            /\ q[1].id = s.queue[1].id /\ q[1].result = s.queue[1].result
            /\ s.queue # <<>>
        <4>1. rest # <<>> /\ 1 \in DOMAIN rest /\ rest[1].posn \in Nat
          BY <1>5, <1>6, <2>6
        <4>2. q[1].posn = rest[1].posn + 1
          BY <1>3, <4>1
        <4>3. /\ 1 \in DOMAIN q /\ q[1].id = rest[1].id
              /\ q[1].result = rest[1].result
          BY <1>3, <4>1 DEF SameMessages
        <4> QED
          BY <1>7, <4>1, <4>2, <4>3
      <3>2. TakenSoFar'
        BY <3>1 DEF TakenSoFar, Busy, Head1, q
      <3>3. NothingAhead'
        BY <2>1, <2>6, <3>1 DEF NothingAhead, NothingAheadIn, Head1, q, n
      <3>4. sender'.sending
        BY <1>3, <1>5, <2>6
      <3> QED
        BY <1>2, <2>1, <2>2, <2>3, <2>4, <3>2, <3>3, <3>4
           DEF OrderInv, ReportsTaken, n
    <2> QED
      BY <2>5, <2>6
  <1>8. CASE rest # s.queue
    <2> DEFINE e == [id |-> s.queue[1].id, result |-> s.queue[1].result]
    <2>1. /\ s.queue # <<>> /\ rest = Tail(s.queue)
          /\ s.queue[1].posn >= s.queue[1].size
          /\ finished' = Append(finished, e)
      BY <1>3, <1>8, RestType
    <2>2. e \in Report
      <3>1. s.queue[1] \in Pending
        BY <1>2, <2>1
      <3> QED
        BY <3>1 DEF Report, Pending
    <2>3. e.id = s.queue[1].id /\ e.result = s.queue[1].result
      OBVIOUS
    <2> HIDE DEF e, q
    <2>4. /\ Len(finished') = n + 1 /\ DOMAIN finished = 1..n
          /\ DOMAIN finished' = 1..n + 1
          /\ \A k \in 1..n : finished'[k] = finished[k]
          /\ finished'[n + 1] = e
      BY <2>1, <2>2, AppendSeq
    <2>5. /\ Len(s.queue) \in Nat \ {0} /\ DOMAIN s.queue = 1..Len(s.queue)
          /\ Len(rest) = Len(s.queue) - 1 /\ DOMAIN rest = 1..Len(s.queue) - 1
          /\ \A i \in 1..Len(s.queue) - 1 : rest[i] = s.queue[i + 1]
      BY <1>2, <2>1, TailAt
    <2> HIDE DEF rest, n
    <2>6. s.queue[1].id = n + 1 /\ s.queue[1].size = sizes[n + 1]
          /\ n + Len(s.queue) = Len(sizes)
          /\ \A k \in 1..n : finished[k].id = k
      <3>1. /\ Len(finished) + Len(s.queue) = Len(sizes)
            /\ \A i \in DOMAIN s.queue : /\ s.queue[i].id = Len(finished) + i
                                        /\ s.queue[i].size = sizes[Len(finished) + i]
            /\ \A k \in DOMAIN finished : finished[k].id = k
        BY Zenon DEF NumberedIn
      <3>2. n = Len(finished) /\ 1 \in DOMAIN s.queue
        BY <2>5 DEF n
      <3> QED
        BY <2>4, <3>1, <3>2
    <2>7. NumberedIn(sender.queue, finished)'
      <3>1. Len(finished') + Len(q) = Len(sizes')
        <4>1. Len(q) = Len(s.queue) - 1
          BY <1>3, <2>5 DEF SameMessages
        <4>2. Len(finished') + Len(q) = (n + 1) + (Len(s.queue) - 1)
          BY <2>4, <4>1
        <4>3. (n + 1) + (Len(s.queue) - 1) = n + Len(s.queue)
          <5>1. PICK k \in Nat : k = n
            BY <1>2
          <5>2. PICK m \in Nat : m = Len(s.queue)
            BY <2>5
          <5>3. (k + 1) + (m - 1) = k + m
            OBVIOUS
          <5> QED
            BY <5>1, <5>2, <5>3
        <4> QED
          BY <2>6, <4>2, <4>3
      <3>2. ASSUME NEW i \in DOMAIN q
            PROVE  q[i].id = Len(finished') + i
                   /\ q[i].size = sizes'[Len(finished') + i]
        <4>1. i \in 1..Len(s.queue) - 1 /\ q[i].id = rest[i].id
              /\ q[i].size = rest[i].size
          BY <1>3, <2>5, <3>2 DEF SameMessages
        <4>2. rest[i] = s.queue[i + 1] /\ i + 1 \in DOMAIN s.queue
          BY <2>5, <4>1
        <4>3. /\ s.queue[i + 1].id = n + (i + 1)
              /\ s.queue[i + 1].size = sizes[n + (i + 1)]
          BY <4>2 DEF NumberedIn, n
        <4>4. n + (i + 1) = Len(finished') + i
          BY <1>2, <2>4, <4>1
        <4> QED
          BY <4>1, <4>2, <4>3, <4>4
      <3>3. \A k \in DOMAIN finished' : finished'[k].id = k
        <4>1. \A k \in 1..n + 1 : k \in 1..n \/ k = n + 1
          BY <1>2
        <4>2. finished'[n + 1].id = n + 1
          BY <2>3, <2>4, <2>6
        <4> QED
          BY <2>4, <2>6, <4>1, <4>2
      <3> QED
        BY <3>1, <3>2, <3>3 DEF NumberedIn, q
    <2>8. \A i \in DOMAIN rest : rest[i].posn = 0
      <3>1. \A i \in 1..Len(s.queue) - 1 : i + 1 \in DOMAIN s.queue /\ i + 1 # 1
        BY <2>5
      <3>2. \A i \in DOMAIN s.queue : i # 1 => s.queue[i].posn = 0
        BY DEF CountedIn
      <3>3. \A i \in 1..Len(s.queue) - 1 : s.queue[i + 1].posn = 0
        BY <3>1, <3>2
      <3> QED
        BY <2>5, <3>3
    <2>9. CountedIn(sender.queue)'
      <3> SUFFICES ASSUME NEW i \in DOMAIN q
                   PROVE  q[i].posn <= q[i].size /\ (i # 1 => q[i].posn = 0)
        BY DEF CountedIn, q
      <3>1. i \in DOMAIN rest /\ q[i].size = rest[i].size /\ rest # <<>>
            /\ (i # 1 => q[i] = rest[i])
        BY <1>2, <1>3 DEF SameMessages
      <3> QED
        BY <1>3, <1>6, <2>8, <3>1
    <2>10. StartedWhenOut'
      BY <1>3, <1>4, <1>5, <1>6 DEF StartedWhenOut, Busy, Head1, q
    <2>11. TakenSoFar'
      <3> SUFFICES ASSUME q # <<>>
                   PROVE  AllTaken(q[1].id, q[1].posn - 1, accepted')
        BY DEF TakenSoFar, Busy, Head1, q
      <3>1. q[1].posn - 1 = 0
        BY <1>3, <1>5, <2>8
      <3> QED
        BY <3>1 DEF AllTaken
    <2>12. NothingAhead'
      <3>1. \A j \in DOMAIN accepted' : accepted'[j][1] <= n \/ accepted'[j][1] = n + 1
        BY DEF NothingAheadIn, n
      <3>2. \A j \in DOMAIN accepted' : accepted'[j][1] <= n + 1
        <4>1. \A j \in DOMAIN accepted' : accepted'[j][1] \in Nat
          BY DEF Ids
        <4> TAKE j \in DOMAIN accepted'
        <4> DEFINE a == accepted'[j][1]
        <4>2. a \in Nat /\ (a <= n \/ a = n + 1)
          BY <3>1, <4>1
        <4> HIDE DEF a
        <4>3. a <= n + 1
          BY <1>2, <4>2
        <4> QED
          BY <4>3 DEF a
      <3> QED
        BY <2>4, <3>2 DEF NothingAhead, NothingAheadIn
    <2>13. ReportsTaken(finished, accepted)'
      <3> SUFFICES ASSUME NEW k \in 1..n + 1, finished'[k].result = "ok"
                   PROVE  AllTaken(finished'[k].id, sizes[finished'[k].id], accepted')
        BY <2>4 DEF ReportsTaken
      <3>1. CASE k \in 1..n
        BY <2>4, <3>1, Zenon DEF ReportsTaken
      <3>2. CASE k = n + 1
        <4>1. /\ finished'[k] = e /\ e.id = n + 1 /\ sizes[e.id] = s.queue[1].size
              /\ s.queue[1].id = n + 1 /\ s.queue[1].result = "ok"
          BY <2>3, <2>4, <2>6, <3>2
        <4>2. AllTaken(n + 1, s.queue[1].posn, accepted')
          BY <2>1, <4>1
        <4>3. s.queue[1].posn \in Nat /\ s.queue[1].size \in Nat
          <5>1. s.queue[1] \in Pending
            BY <1>2, <2>1
          <5> QED
            BY <5>1, SizesAssumption DEF Pending
        <4>4. 1..s.queue[1].size \subseteq 1..s.queue[1].posn
          <5>1. PICK a \in Nat : a = s.queue[1].size
            BY <4>3
          <5>2. PICK b \in Nat : b = s.queue[1].posn
            BY <4>3
          <5>3. b >= a
            BY <2>1, <5>1, <5>2
          <5>4. 1..a \subseteq 1..b
            BY <5>3
          <5> QED
            BY <5>1, <5>2, <5>4
        <4> QED
          BY <4>1, <4>2, <4>4 DEF AllTaken
      <3> QED
        BY <1>2, <3>1, <3>2
    <2>14. Len(finished') > Len(finished)
      BY <1>2, <2>4 DEF n
    <2> QED
      BY <1>2, <2>7, <2>9, <2>10, <2>11, <2>12, <2>13, <2>14 DEF OrderInv, n
  <1> QED
    BY <1>7, <1>8

\* What a step means for CommandService: nothing goes back.
Forward ==
    /\ Len(sizes') >= Len(sizes) /\ Len(finished') >= Len(finished)
    /\ sender.sending => sender'.sending \/ Len(finished') > Len(finished)

\* The types of what OrderInv is about
LEMMA OrderTypes ==
    ASSUME Inv
    PROVE  /\ sender \in Senders /\ sender.queue \in Seq(Pending)
           /\ finished \in Seq(Report) /\ sizes \in Seq(Sizes)
           /\ accepted \in Seq(Ids \X Nat) /\ lost \in Seq(Ids \X Nat)
           /\ Len(finished) \in Nat /\ Len(sizes) \in Nat
           /\ Len(sender.queue) \in Nat
           /\ DOMAIN sender.queue = 1..Len(sender.queue)
           /\ sender.queue # <<>> => sender.queue[1] \in Pending
                                     /\ sender.queue[1].posn \in Nat
  <1>1. /\ sender \in Senders /\ sender.queue \in Seq(Pending)
        /\ finished \in Seq(Report) /\ sizes \in Seq(Sizes)
        /\ accepted \in Seq(Ids \X Nat) /\ lost \in Seq(Ids \X Nat)
    BY RetriesAttempts DEF Inv, StepInv, TypeOK
  <1>2. /\ Len(finished) \in Nat /\ Len(sizes) \in Nat
        /\ Len(sender.queue) \in Nat
        /\ DOMAIN sender.queue = 1..Len(sender.queue)
    BY <1>1
  <1>3. sender.queue # <<>> => sender.queue[1] \in Pending
    BY <1>1
  <1>4. sender.queue # <<>> => sender.queue[1].posn \in Nat
    BY <1>3 DEF Pending
  <1> QED
    BY <1>1, <1>2, <1>3, <1>4

LEMMA SameOrder ==
    ASSUME Inv, OrderInv, sender'.queue = sender.queue,
           sender'.sending = sender.sending,
           UNCHANGED <<sizes, accepted, lost, finished>>,
           Has(at', "cmgs") <=> Has(at, "cmgs")
    PROVE  OrderInv' /\ Forward
  <1>1. NumberedIn(sender.queue, finished)' /\ CountedIn(sender.queue)'
        /\ ReportsTaken(finished, accepted)'
    BY DEF OrderInv, NumberedIn, CountedIn, ReportsTaken
  <1>2. StartedWhenOut' /\ TakenSoFar' /\ NothingAhead'
    BY DEF OrderInv, StartedWhenOut, TakenSoFar, NothingAhead, Busy, Head1
  <1>3. FragmentsInOrder'
    BY DEF OrderInv, FragmentsInOrder, Repeats
  <1>4. Forward
    BY OrderTypes DEF Forward
  <1> QED
    BY <1>1, <1>2, <1>3, <1>4 DEF OrderInv

LEMMA QuietOrder ==
    ASSUME Inv, OrderInv,
           OtherNeedsSms \/ PostItems \/ NeedSms \/ NeedSmsShot \/ CmmsDone
           \/ \E ok \in BOOLEAN : CmgfDone(ok)
    PROVE  OrderInv' /\ Forward
  <1>1. UNCHANGED <<sender, sizes, accepted, lost, finished>>
    BY DEF OtherNeedsSms, PostItems, NeedSms, NeedSmsShot, CmmsDone, CmgfDone
  <1>2. Has(at', "cmgs") <=> Has(at, "cmgs")
    <2>1. at \in Seq(Commands)
      BY RetriesAttempts
    <2>2. CASE at' = at
      BY <2>2
    <2>3. CASE at' = Append(at, Cmgf)
      <3>1. Cmgf.cmd # "cmgs"
        BY CmgfType
      <3> QED
        BY <2>1, <2>3, <3>1, CmgfType, LineAppend
    <2>4. ASSUME NEW cmd, cmd # "cmgs", Ended(cmd), at' = Tail(at)
          PROVE  Has(at', "cmgs") <=> Has(at, "cmgs")
      BY <2>4, EndedLine
    <2> QED
      BY <2>2, <2>3, <2>4 DEF OtherNeedsSms, PostItems, NeedSms, NeedSmsShot,
                              CmmsDone, CmgfDone, Cmgf
  <1> QED
    BY <1>1, <1>2, SameOrder

\* send()
LEMMA SendOrder ==
    ASSUME Inv, OrderInv, NEW size \in Sizes, Send(size)
    PROVE  OrderInv' /\ Forward
  <1> DEFINE msg == [id |-> Len(sizes) + 1, size |-> size, posn |-> 0,
                     retries |-> SendRetries, result |-> "ok"]
             q == Append(sender.queue, msg)
             n == Len(finished)
             m == Len(sender.queue)
  <1>1. /\ sizes' = Append(sizes, size)
        /\ UNCHANGED <<at, accepted, lost, finished>>
        /\ sender' = [sender EXCEPT !.queue = q, !.needTimer = Watched(sender)]
    BY DEF Send, LinkLast
  <1>2. /\ msg \in Pending /\ msg.posn = 0 /\ msg.id = Len(sizes) + 1
        /\ msg.size = size
    <2>1. Len(sizes) + 1 \in Ids
      BY OrderTypes, BoundsAssumption DEF Send, Ids
    <2> QED
      BY <2>1, RetriesAssumption DEF Pending
  <1> HIDE DEF msg
  <1>3. /\ q \in Seq(Pending) /\ Len(q) = m + 1 /\ DOMAIN q = 1..m + 1
        /\ \A i \in 1..m : q[i] = sender.queue[i]
        /\ q[m + 1] = msg
    BY <1>2, OrderTypes, AppendSeq
  <1>4. /\ sizes' \in Seq(Sizes) /\ Len(sizes') = Len(sizes) + 1
        /\ \A i \in 1..Len(sizes) : sizes'[i] = sizes[i]
        /\ sizes'[Len(sizes) + 1] = size
    BY <1>1, OrderTypes, AppendSeq
  <1> HIDE DEF q
  <1>5. sender'.queue = q /\ sender'.sending = sender.sending
    BY <1>1, OrderTypes DEF Senders
  <1>6. n \in Nat /\ m \in Nat /\ n + m = Len(sizes) /\ Len(sizes) \in Nat
    BY OrderTypes DEF OrderInv, NumberedIn
  <1> HIDE DEF n, m
  <1>7. NumberedIn(sender.queue, finished)'
    <2>1. Len(finished') + Len(q) = Len(sizes')
      BY <1>1, <1>3, <1>4, <1>6 DEF n
    <2>2. ASSUME NEW i \in 1..m + 1
          PROVE  q[i].id = n + i /\ q[i].size = sizes'[n + i]
      <3>1. CASE i \in 1..m
        <4>1. q[i].id = n + i /\ q[i].size = sizes[n + i]
          BY <1>3, <3>1, OrderTypes DEF OrderInv, NumberedIn, n, m
        <4>2. n + i \in 1..Len(sizes)
          BY <1>6, <3>1
        <4> QED
          BY <1>4, <4>1, <4>2
      <3>2. CASE i = m + 1
        <4>1. n + i = Len(sizes) + 1
          BY <1>6, <3>2
        <4> QED
          BY <1>2, <1>3, <1>4, <3>2, <4>1
      <3> QED
        BY <1>6, <3>1, <3>2
    <2>3. \A k \in DOMAIN finished' : finished'[k].id = k
      BY <1>1 DEF OrderInv, NumberedIn
    <2> QED
      BY <1>1, <1>3, <1>5, <2>1, <2>2, <2>3 DEF NumberedIn, n
  <1>8. CountedIn(sender.queue)'
    <2>1. \A i \in 1..m : q[i].posn <= q[i].size /\ (i # 1 => q[i].posn = 0)
      BY <1>3, OrderTypes DEF OrderInv, CountedIn, m
    <2>2. \A i \in 1..m + 1 : i \in 1..m \/ i = m + 1
      BY <1>6
    <2>3. q[m + 1].posn <= q[m + 1].size /\ q[m + 1].posn = 0
      BY <1>2, <1>3, SizesAssumption
    <2> QED
      BY <1>3, <1>5, <2>1, <2>2, <2>3 DEF CountedIn
  <1>9. StartedWhenOut' /\ TakenSoFar' /\ NothingAhead'
    <2>1. CASE sender.queue = <<>>
      <3>1. m = 0 /\ q[1] = msg
        <4>1. m = 0
          BY <2>1 DEF m
        <4> QED
          BY <1>3, <4>1
      <3>2. ~Has(at, "cmgs")
        BY <2>1 DEF Inv, StepInv, FragmentOut1, Busy
      <3>3. StartedWhenOut'
        BY <1>1, <1>2, <1>5, <3>1, <3>2 DEF StartedWhenOut, Head1
      <3>4. TakenSoFar'
        BY <1>2, <1>5, <3>1 DEF TakenSoFar, Head1, AllTaken
      <3>5. NothingAhead'
        BY <1>1, <2>1 DEF OrderInv, NothingAhead, NothingAheadIn
      <3> QED
        BY <3>3, <3>4, <3>5
    <2>2. CASE sender.queue # <<>>
      <3>1. 1 \in 1..m /\ q[1] = sender.queue[1] /\ q # <<>>
        <4>1. 1 \in 1..m
          BY <2>2, OrderTypes DEF m
        <4>2. 1 \in DOMAIN q
          BY <1>3, <1>6
        <4> QED
          BY <1>3, <4>1, <4>2
      <3>2. StartedWhenOut' /\ TakenSoFar'
        BY <1>1, <1>5, <2>2, <3>1 DEF OrderInv, StartedWhenOut, TakenSoFar, Head1, Busy
      <3>3. NothingAhead'
        BY <1>1, <1>5, <2>2, <3>1 DEF OrderInv, NothingAhead, NothingAheadIn, Head1
      <3> QED
        BY <3>2, <3>3
    <2> QED
      BY <2>1, <2>2
  <1>10. ReportsTaken(finished, accepted)'
    <2> SUFFICES ASSUME NEW k \in DOMAIN finished, finished[k].result = "ok"
                 PROVE  AllTaken(finished[k].id, sizes'[finished[k].id], accepted)
      BY <1>1 DEF ReportsTaken
    <2>1. finished[k].id = k /\ k \in 1..n
      BY OrderTypes DEF OrderInv, NumberedIn, n
    <2>2. k \in 1..Len(sizes)
      BY <1>6, <2>1
    <2> QED
      BY <1>4, <2>1, <2>2 DEF OrderInv, ReportsTaken
  <1>11. FragmentsInOrder'
    BY <1>1 DEF OrderInv, FragmentsInOrder, Repeats
  <1>12. Forward
    BY <1>1, <1>4, <1>5, <1>6, OrderTypes DEF Forward
  <1> QED
    BY <1>7, <1>8, <1>9, <1>10, <1>11, <1>12 DEF OrderInv

\* smsReadyTimeout()
LEMMA SmsReadyTimeoutOrder ==
    ASSUME Inv, OrderInv, SmsReadyTimeout
    PROVE  OrderInv' /\ Forward
  <1> DEFINE failed == [i \in DOMAIN sender.queue |->
                           [id |-> sender.queue[i].id, result |-> "error"]]
             n == Len(finished)
             m == Len(sender.queue)
  <1>1. /\ sender' = [sender EXCEPT !.queue = <<>>, !.needTimer = FALSE]
        /\ finished' = finished \o failed
        /\ UNCHANGED <<service, at, sizes, accepted, lost, needs>>
    BY DEF SmsReadyTimeout
  <1>2. n \in Nat /\ m \in Nat /\ n + m = Len(sizes) /\ Len(sizes) \in Nat
        /\ DOMAIN sender.queue = 1..m /\ DOMAIN finished = 1..n
    BY OrderTypes DEF OrderInv, NumberedIn
  <1>3. /\ failed \in Seq(Report) /\ Len(failed) = m
        /\ \A i \in 1..m : failed[i].id = sender.queue[i].id
                           /\ failed[i].result = "error"
    <2>1. \A i \in 1..m : sender.queue[i] \in Pending
      BY OrderTypes, <1>2
    <2>2. \A i \in 1..m : [id |-> sender.queue[i].id, result |-> "error"] \in Report
      BY <2>1 DEF Pending, Report
    <2> QED
      BY <1>2, <2>2
  <1> HIDE DEF failed
  <1>4. /\ Len(finished') = n + m /\ DOMAIN finished' = 1..n + m
        /\ \A k \in 1..n : finished'[k] = finished[k]
        /\ \A i \in 1..m : finished'[n + i] = failed[i]
    <2>1. finished \in Seq(Report) /\ n = Len(finished)
      BY OrderTypes
    <2> HIDE DEF n, m
    <2> QED
      BY <1>1, <1>3, <2>1, ConcatSeq
  <1>5. sender'.queue = <<>> /\ sender'.sending = sender.sending
    BY <1>1, OrderTypes DEF Senders
  <1> HIDE DEF n, m
  <1>6. \A k \in 1..n + m : k \in 1..n \/ \E i \in 1..m : k = n + i
    <2> TAKE k \in 1..n + m
    <2>1. k \notin 1..n => k - n \in 1..m /\ k = n + (k - n)
      BY <1>2
    <2> QED
      BY <2>1
  <1>7. NumberedIn(sender.queue, finished)'
    <2>1. \A i \in 1..m : sender.queue[i].id = n + i
      BY <1>2 DEF OrderInv, NumberedIn, n
    <2>2. \A k \in 1..n : finished[k].id = k
      BY <1>2 DEF OrderInv, NumberedIn
    <2>3. \A k \in 1..n + m : finished'[k].id = k
      BY <1>3, <1>4, <1>6, <2>1, <2>2
    <2> QED
      BY <1>1, <1>2, <1>4, <1>5, <2>3 DEF NumberedIn
  <1>8. CountedIn(sender.queue)' /\ StartedWhenOut' /\ TakenSoFar'
    BY <1>5 DEF CountedIn, StartedWhenOut, TakenSoFar, Busy
  <1>9. NothingAhead'
    <2> SUFFICES ASSUME NEW j \in DOMAIN accepted
                 PROVE  accepted[j][1] <= n + m
      BY <1>1, <1>4 DEF OrderInv, NothingAhead, NothingAheadIn
    <2>1. accepted[j] \in Ids \X Nat
      BY OrderTypes
    <2>2. accepted[j][1] \in Nat
      BY <2>1 DEF Ids
    <2>3. accepted[j][1] <= n \/ (accepted[j][1] = n + 1 /\ sender.queue # <<>>)
      BY DEF OrderInv, NothingAhead, NothingAheadIn, n
    <2>4. sender.queue # <<>> => m >= 1
      BY OrderTypes DEF m
    <2> QED
      BY <1>2, <2>2, <2>3, <2>4
  <1>10. ReportsTaken(finished, accepted)'
    <2> SUFFICES ASSUME NEW k \in 1..n + m, finished'[k].result = "ok"
                 PROVE  AllTaken(finished'[k].id, sizes[finished'[k].id], accepted)
      BY <1>1, <1>4 DEF ReportsTaken
    <2>1. k \in 1..n
      BY <1>3, <1>4, <1>6
    <2> QED
      BY <1>2, <1>4, <2>1, Zenon DEF OrderInv, ReportsTaken
  <1>11. FragmentsInOrder'
    BY <1>1 DEF OrderInv, FragmentsInOrder, Repeats
  <1>12. Forward
    BY <1>1, <1>2, <1>4, <1>5 DEF Forward, n
  <1> QED
    BY <1>7, <1>8, <1>9, <1>10, <1>11, <1>12 DEF OrderInv

LEMMA AppendTaken ==
    ASSUME NEW acc \in Seq(Ids \X Nat), NEW f \in Ids \X Nat
    PROVE  /\ \A g : Taken(g, acc) => Taken(g, Append(acc, f))
           /\ Taken(f, Append(acc, f))
  <1> DEFINE new == Append(acc, f)
  <1>1. /\ DOMAIN acc = 1..Len(acc) /\ DOMAIN new = 1..Len(acc) + 1
        /\ \A i \in 1..Len(acc) : new[i] = acc[i]
        /\ new[Len(acc) + 1] = f /\ Len(acc) \in Nat
    BY AppendSeq
  <1> HIDE DEF new
  <1>2. \A i \in DOMAIN acc : i \in DOMAIN new
    BY <1>1
  <1>3. Len(acc) + 1 \in DOMAIN new
    BY <1>1
  <1>4. \A g : Taken(g, acc) => Taken(g, new)
    BY <1>1, <1>2 DEF Taken
  <1>5. Taken(f, new)
    BY <1>1, <1>3 DEF Taken
  <1> QED
    BY <1>4, <1>5 DEF new

\* The modem takes the fragment that is out: in order, unless it is the
\* first one again, of which the answer was lost.
LEMMA AcceptedInOrder ==
    ASSUME Inv, OrderInv, Ended("cmgs"),
           accepted' = Append(accepted, FragmentOut),
           \A f : Taken(f, lost) => Taken(f, lost')
    PROVE  /\ \A f : Taken(f, accepted) => Taken(f, accepted')
           /\ Taken(FragmentOut, accepted')
           /\ NothingAheadIn(sender.queue, Len(finished),
                             sender.queue[1].posn + 1, accepted', lost')
           /\ FragmentsInOrder'
  <1> DEFINE n == Len(finished)
             a == Len(accepted)
             p == sender.queue[1].posn
             f == FragmentOut
  <1>1. /\ accepted \in Seq(Ids \X Nat) /\ n \in Nat /\ p \in Nat
        /\ sender.queue # <<>> /\ f \in Ids \X Nat
        /\ f[1] = sender.queue[1].id /\ f[2] = p
    BY OrderTypes, FragmentEnds
  <1>2. f[1] = n + 1 /\ p # 0
    <2>1. Has(at, "cmgs") /\ 1 \in DOMAIN sender.queue
      BY <1>1, EndedLine, OrderTypes
    <2> QED
      BY <1>1, <2>1 DEF OrderInv, NumberedIn, StartedWhenOut, Busy, Head1
  <1> HIDE DEF f
  <1>3. /\ a \in Nat /\ DOMAIN accepted = 1..a /\ DOMAIN accepted' = 1..a + 1
        /\ \A j \in 1..a : accepted'[j] = accepted[j]
        /\ accepted'[a + 1] = f
    BY <1>1, AppendSeq DEF f
  <1> HIDE DEF n, a, p
  <1>4. \A g : Taken(g, accepted) => Taken(g, accepted')
    BY <1>3 DEF Taken
  <1>5. Taken(f, accepted')
    BY <1>3 DEF Taken
  <1>6. \A j \in 1..a :
           /\ accepted[j][2] >= 1
           /\ \/ accepted[j][1] <= n
              \/ /\ accepted[j][1] = n + 1
                 /\ \/ accepted[j][2] < p
                    \/ accepted[j][2] = 1 /\ Taken(accepted[j], lost)
    BY <1>3 DEF OrderInv, NothingAhead, NothingAheadIn, Head1, n, p
  <1>7. \A j \in 1..a : accepted[j] \in Ids \X Nat
    BY <1>1, <1>3
  <1>8. \A j \in 1..a : accepted[j][1] \in Nat /\ accepted[j][2] \in Nat
                        /\ accepted[j] = <<accepted[j][1], accepted[j][2]>>
    BY <1>7 DEF Ids
  <1>9. NothingAheadIn(sender.queue, n, p + 1, accepted', lost')
    <2> SUFFICES ASSUME NEW j \in 1..a + 1
                 PROVE  /\ accepted'[j][2] >= 1
                        /\ \/ accepted'[j][1] <= n
                           \/ /\ accepted'[j][1] = n + 1
                              /\ \/ accepted'[j][2] < p + 1
                                 \/ /\ accepted'[j][2] = 1
                                    /\ Taken(accepted'[j], lost')
      BY <1>1, <1>3 DEF NothingAheadIn
    <2>1. CASE j \in 1..a
      BY <1>1, <1>3, <1>6, <1>8, <2>1
    <2>2. CASE j = a + 1
      BY <1>1, <1>2, <1>3, <2>2
    <2> QED
      BY <1>3, <2>1, <2>2
  <1>10. FragmentsInOrder'
    <2> SUFFICES ASSUME NEW j \in 1..a + 1, NEW k \in 1..a + 1, j < k
                 PROVE  Follows(accepted'[j], accepted'[k]) \/ Repeats(j, k)'
      BY <1>3 DEF FragmentsInOrder
    <2>1. j \in 1..a
      BY <1>3
    <2>2. CASE k \in 1..a
      <3>1. accepted'[j] = accepted[j] /\ accepted'[k] = accepted[k]
            /\ j \in DOMAIN accepted /\ k \in DOMAIN accepted
        BY <1>3, <2>1, <2>2
      <3>2. Follows(accepted[j], accepted[k]) \/ Repeats(j, k)
        BY <3>1 DEF OrderInv, FragmentsInOrder
      <3>3. Repeats(j, k) => Repeats(j, k)'
        BY <3>1, Zenon DEF Repeats, Taken
      <3> QED
        BY <3>1, <3>2, <3>3
    <2>3. CASE k = a + 1
      <3>1. accepted'[j] = accepted[j] /\ accepted'[k] = f
        BY <1>3, <2>1, <2>3
      <3>2. CASE accepted[j][1] <= n
        <4>1. accepted[j][1] \in Nat /\ n \in Nat
          BY <1>1, <1>8, <2>1
        <4>2. f[1] > accepted[j][1]
          BY <1>2, <3>2, <4>1
        <4> QED
          BY <3>1, <4>2 DEF Follows
      <3>3. CASE accepted[j][1] = n + 1 /\ accepted[j][2] < p
        BY <1>1, <1>2, <1>8, <2>1, <3>1, <3>3 DEF Follows
      <3>4. CASE /\ accepted[j][1] = n + 1 /\ accepted[j][2] = 1
                 /\ Taken(accepted[j], lost)
        <4>1. CASE p = 1
          <5>1. accepted[j] = f
            <6>1. accepted[j] = <<n + 1, 1>>
              BY <1>8, <2>1, <3>4
            <6>2. f = <<n + 1, 1>>
              BY <1>1, <1>2, <4>1
            <6> QED
              BY <6>1, <6>2
          <5>2. Taken(accepted'[j], lost')
            BY <3>1, <3>4
          <5> QED
            BY <3>1, <5>1, <5>2 DEF Repeats, Taken
        <4>2. CASE p # 1
          BY <1>1, <1>2, <1>8, <2>1, <3>1, <3>4, <4>2 DEF Follows
        <4> QED
          BY <4>1, <4>2
      <3> QED
        BY <1>6, <2>1, <3>2, <3>3, <3>4
    <2> QED
      BY <1>3, <2>2, <2>3
  <1> QED
    BY <1>4, <1>5, <1>9, <1>10 DEF f, n, p

\* What is left when the modem does not take the fragment
LEMMA NotAccepted ==
    ASSUME Inv, OrderInv, UNCHANGED <<accepted, lost>>
    PROVE  /\ NothingAheadIn(sender.queue, Len(finished),
                             sender.queue[1].posn + 1, accepted', lost')
           /\ FragmentsInOrder'
  <1>1. FragmentsInOrder'
    BY DEF OrderInv, FragmentsInOrder, Repeats
  <1>2. \A j \in DOMAIN accepted : accepted[j] \in Ids \X Nat
    BY OrderTypes
  <1>3. \A j \in DOMAIN accepted : accepted[j][2] \in Nat
    BY <1>2
  <1>4. NothingAheadIn(sender.queue, Len(finished),
                       sender.queue[1].posn + 1, accepted', lost')
    <2> SUFFICES ASSUME NEW j \in DOMAIN accepted, ~(accepted[j][1] <= Len(finished))
                 PROVE  /\ sender.queue # <<>> /\ accepted[j][1] = Len(finished) + 1
                        /\ \/ accepted[j][2] < sender.queue[1].posn + 1
                           \/ accepted[j][2] = 1 /\ Taken(accepted[j], lost)
      BY DEF OrderInv, NothingAhead, NothingAheadIn
    <2>1. /\ sender.queue # <<>> /\ accepted[j][1] = Len(finished) + 1
          /\ \/ accepted[j][2] < sender.queue[1].posn
             \/ accepted[j][2] = 1 /\ Taken(accepted[j], lost)
      BY DEF OrderInv, NothingAhead, NothingAheadIn, Head1
    <2>2. sender.queue[1].posn \in Nat
      BY <2>1, OrderTypes
    <2> QED
      BY <1>3, <2>1, <2>2
  <1> QED
    BY <1>1, <1>4

LEMMA AllTakenMore ==
    ASSUME NEW id, NEW n, AllTaken(id, n, accepted),
           \A f : Taken(f, accepted) => Taken(f, accepted')
    PROVE  AllTaken(id, n, accepted')
  BY DEF AllTaken

LEMMA ReportsTakenMore ==
    ASSUME ReportsTaken(finished, accepted),
           \A f : Taken(f, accepted) => Taken(f, accepted')
    PROVE  ReportsTaken(finished, accepted')
  BY AllTakenMore DEF ReportsTaken

\* sendNext() when nothing of the head has been sent, as smsReady() and the
\* timer of a retry call it
LEMMA StartOrder ==
    ASSUME Inv, OrderInv, NEW s \in Senders, s.queue = sender.queue,
           s.queue # <<>>, ~Has(at, "cmgs"), SendNext(s, at),
           UNCHANGED <<sizes, accepted, lost>>
    PROVE  OrderInv' /\ Forward
  <1>1. s.queue[1].posn = 0
    BY DEF OrderInv, StartedWhenOut, Busy, Head1
  <1>2. AllTaken(s.queue[1].id, s.queue[1].posn, accepted')
    BY <1>1 DEF AllTaken
  <1>3. /\ NothingAheadIn(s.queue, Len(finished), s.queue[1].posn + 1,
                          accepted', lost')
        /\ FragmentsInOrder'
    BY NotAccepted
  <1>4. NumberedIn(s.queue, finished) /\ CountedIn(s.queue)
        /\ ReportsTaken(finished, accepted')
    BY DEF OrderInv
  <1>5. /\ finished \in Seq(Report) /\ sizes \in Seq(Sizes)
        /\ accepted' \in Seq(Ids \X Nat) /\ at \in Seq(Commands)
        /\ Len(sizes') >= Len(sizes)
    BY OrderTypes, RetriesAttempts
  <1>6. /\ OrderInv' /\ Len(finished') >= Len(finished)
        /\ sender'.sending \/ Len(finished') > Len(finished)
    BY <1>2, <1>3, <1>4, <1>5, SendNextOrder
  <1> QED
    BY <1>5, <1>6 DEF Forward

LEMMA SmsReadyOrder ==
    ASSUME Inv, OrderInv, SmsReady
    PROVE  OrderInv' /\ Forward
  <1> DEFINE s == StopNeedTimer(sender)
  <1>1. /\ IF ~Busy(s) \/ s.sending
           THEN sender' = s /\ UNCHANGED <<at, finished>>
           ELSE SendNext(s, at)
        /\ UNCHANGED <<sizes, accepted, lost>>
    BY DEF SmsReady
  <1>2. s \in Senders /\ s.queue = sender.queue /\ s.sending = sender.sending
    BY RetriesAttempts DEF StopNeedTimer, Senders
  <1> HIDE DEF s
  <1>3. CASE ~Busy(s) \/ s.sending
    BY <1>1, <1>2, <1>3, SameOrder
  <1>4. CASE ~(~Busy(s) \/ s.sending)
    <2>1. ~Has(at, "cmgs")
      BY <1>2, <1>4, WhileSending
    <2> QED
      BY <1>1, <1>2, <1>4, <2>1, StartOrder DEF Busy
  <1> QED
    BY <1>3, <1>4

LEMMA RetryShotOrder ==
    ASSUME Inv, OrderInv, RetryShot
    PROVE  OrderInv' /\ Forward
  <1> DEFINE s == [sender EXCEPT !.shots = @ - 1]
  <1>1. /\ SendNext(s, at) /\ sender.shots > 0
        /\ UNCHANGED <<sizes, accepted, lost>>
    BY DEF RetryShot
  <1>2. sender.shots = 1 /\ ~Has(at, "cmgs") /\ Busy(sender)
    BY <1>1, WhileSending
  <1>3. s \in Senders /\ s.queue = sender.queue
    BY <1>2, RetriesAttempts DEF Senders
  <1> HIDE DEF s
  <1> QED
    BY <1>1, <1>2, <1>3, StartOrder DEF Busy

LEMMA TransmitOkOrder ==
    ASSUME Inv, OrderInv, TransmitOk
    PROVE  OrderInv' /\ Forward
  <1>1. /\ Ended("cmgs") /\ accepted' = Append(accepted, FragmentOut)
        /\ SendNext(sender, Tail(at))
        /\ UNCHANGED <<sizes, lost>>
    BY DEF TransmitOk
  <1>2. /\ \A f : Taken(f, accepted) => Taken(f, accepted')
        /\ Taken(FragmentOut, accepted')
        /\ NothingAheadIn(sender.queue, Len(finished),
                          sender.queue[1].posn + 1, accepted', lost')
        /\ FragmentsInOrder'
    BY <1>1, AcceptedInOrder
  <1>3. /\ sender.queue # <<>>
        /\ FragmentOut = <<sender.queue[1].id, sender.queue[1].posn>>
        /\ Tail(at) \in Seq(Commands) /\ ~Has(Tail(at), "cmgs")
        /\ FragmentOut \in Ids \X Nat /\ sender.queue[1].posn \in Nat
    BY <1>1, FragmentEnds, OrderTypes
  <1>4. sender.queue[1].result = "ok" =>
            AllTaken(sender.queue[1].id, sender.queue[1].posn, accepted')
    <2> SUFFICES ASSUME sender.queue[1].result = "ok",
                        NEW part \in 1..sender.queue[1].posn
                 PROVE  Taken(<<sender.queue[1].id, part>>, accepted')
      BY DEF AllTaken
    <2>1. AllTaken(sender.queue[1].id, sender.queue[1].posn - 1, accepted)
      BY <1>3 DEF OrderInv, TakenSoFar, Busy, Head1
    <2>2. CASE part = sender.queue[1].posn
      BY <1>2, <1>3, <2>2
    <2>3. CASE part # sender.queue[1].posn
      <3>1. part \in 1..(sender.queue[1].posn - 1)
        BY <1>3, <2>3
      <3> QED
        BY <1>2, <2>1, <3>1 DEF AllTaken
    <2> QED
      BY <2>2, <2>3
  <1>5. NumberedIn(sender.queue, finished) /\ CountedIn(sender.queue)
        /\ ReportsTaken(finished, accepted')
    BY <1>2, ReportsTakenMore DEF OrderInv
  <1>6. /\ finished \in Seq(Report) /\ sizes \in Seq(Sizes)
        /\ accepted' \in Seq(Ids \X Nat) /\ sender \in Senders
        /\ Len(sizes') >= Len(sizes)
    BY <1>1, <1>3, OrderTypes, AppendSeq
  <1>7. /\ OrderInv' /\ Len(finished') >= Len(finished)
        /\ sender'.sending \/ Len(finished') > Len(finished)
    BY <1>1, <1>2, <1>3, <1>4, <1>5, <1>6, SendNextOrder
  <1> QED
    BY <1>6, <1>7 DEF Forward

LEMMA TransmitFailedOrder ==
    ASSUME Inv, OrderInv, TransmitFailed
    PROVE  OrderInv' /\ Forward
  <1>1. /\ Ended("cmgs") /\ sizes' = sizes
        /\ \/ UNCHANGED <<accepted, lost>>
           \/ /\ accepted' = Append(accepted, FragmentOut)
              /\ lost' = Append(lost, FragmentOut)
        /\ GivesUp(Head1(sender)) =>
              SendNext(FailedForGood(sender), Tail(at))
        /\ ~GivesUp(Head1(sender)) =>
              /\ sender' = [FailedFirst(sender) EXCEPT !.queue[1].posn = @ - 1,
                                                       !.shots = @ + 1]
              /\ at' = Tail(at)
              /\ UNCHANGED finished
    BY DEF TransmitFailed
  <1>2. /\ sender \in Senders /\ sender.queue # <<>> /\ 1 \in DOMAIN sender.queue
        /\ Tail(at) \in Seq(Commands) /\ ~Has(Tail(at), "cmgs")
        /\ FragmentOut = <<sender.queue[1].id, sender.queue[1].posn>>
        /\ FragmentOut \in Ids \X Nat /\ sender.queue[1].posn \in Nat
    BY <1>1, FragmentEnds, OrderTypes
  <1>3. /\ \A f : Taken(f, accepted) => Taken(f, accepted')
        /\ NothingAheadIn(sender.queue, Len(finished),
                          sender.queue[1].posn + 1, accepted', lost')
        /\ FragmentsInOrder' /\ accepted' \in Seq(Ids \X Nat)
    <2>1. CASE UNCHANGED <<accepted, lost>>
      BY <2>1, NotAccepted, OrderTypes
    <2>2. CASE /\ accepted' = Append(accepted, FragmentOut)
               /\ lost' = Append(lost, FragmentOut)
      <3>1. \A f : Taken(f, lost) => Taken(f, lost')
        BY <1>2, <2>2, OrderTypes, AppendTaken
      <3>2. accepted' \in Seq(Ids \X Nat)
        BY <1>2, <2>2, OrderTypes, AppendSeq
      <3> QED
        BY <1>1, <2>2, <3>1, <3>2, AcceptedInOrder
    <2> QED
      BY <1>1, <2>1, <2>2
  <1>4. /\ finished \in Seq(Report) /\ sizes \in Seq(Sizes)
        /\ Len(sizes') >= Len(sizes) /\ ReportsTaken(finished, accepted')
    BY <1>1, <1>3, OrderTypes, ReportsTakenMore DEF OrderInv
  <1>5. \A i \in DOMAIN sender.queue :
           sender.queue[i].posn <= 1 => sender.queue[i].retries >= 1
    BY DEF Inv, StepInv, RetriesLeft
  <1>6. ASSUME NEW q, DOMAIN q = DOMAIN sender.queue, Len(q) = Len(sender.queue),
               \A i \in DOMAIN sender.queue : i # 1 => q[i] = sender.queue[i],
               q[1].id = sender.queue[1].id, q[1].size = sender.queue[1].size,
               q[1].posn <= q[1].size
        PROVE  NumberedIn(q, finished) /\ CountedIn(q)
    <2>1. \A i \in DOMAIN sender.queue :
             q[i].id = sender.queue[i].id /\ q[i].size = sender.queue[i].size
      BY <1>6
    <2>2. NumberedIn(q, finished)
      BY <1>6, <2>1 DEF OrderInv, NumberedIn
    <2>3. CountedIn(q)
      BY <1>6 DEF OrderInv, CountedIn
    <2> QED
      BY <2>2, <2>3
  <1>7. CASE GivesUp(Head1(sender))
    <2>1. PICK msg \in Pending :
              /\ FailedForGood(sender) = WithHead(sender, msg)
              /\ msg.id = sender.queue[1].id /\ msg.size = sender.queue[1].size
              /\ msg.posn = sender.queue[1].posn /\ msg.result = "error"
      BY <1>2, <1>5, FailedForGoodIs
    <2> DEFINE s == WithHead(sender, msg)
    <2>2. /\ s \in Senders /\ s.queue # <<>> /\ Len(s.queue) = Len(sender.queue)
          /\ DOMAIN s.queue = DOMAIN sender.queue /\ s.queue[1] = msg
          /\ \A i \in DOMAIN sender.queue : i # 1 => s.queue[i] = sender.queue[i]
      BY <1>2, WithHeadType
    <2>3. SendNext(s, Tail(at))
      BY <1>1, <1>7, <2>1
    <2> HIDE DEF s
    <2>4. NumberedIn(s.queue, finished) /\ CountedIn(s.queue)
      <3>1. sender.queue[1].posn <= sender.queue[1].size
        BY <1>2 DEF OrderInv, CountedIn
      <3> QED
        BY <1>6, <2>1, <2>2, <3>1
    <2>5. NothingAheadIn(s.queue, Len(finished), s.queue[1].posn + 1,
                         accepted', lost')
      BY <1>3, <2>1, <2>2 DEF NothingAheadIn
    <2>6. s.queue[1].result # "ok"
      BY <2>1, <2>2
    <2>7. /\ OrderInv' /\ Len(finished') >= Len(finished)
          /\ sender'.sending \/ Len(finished') > Len(finished)
      BY <1>1, <1>2, <1>3, <1>4, <2>2, <2>3, <2>4, <2>5, <2>6, SendNextOrder
    <2> QED
      BY <1>4, <2>7 DEF Forward
  <1>8. CASE ~GivesUp(Head1(sender))
    <2>1. PICK msg \in Pending :
              /\ [FailedFirst(sender) EXCEPT !.queue[1].posn = @ - 1,
                                             !.shots = @ + 1]
                    = [WithHead(sender, msg) EXCEPT !.shots = @ + 1]
              /\ msg.id = sender.queue[1].id /\ msg.size = sender.queue[1].size
              /\ msg.posn = 0
      BY <1>2, <1>8, RetryIs
    <2> DEFINE s == WithHead(sender, msg)
               n == Len(finished)
    <2>2. /\ s \in Senders /\ s.queue # <<>> /\ Len(s.queue) = Len(sender.queue)
          /\ DOMAIN s.queue = DOMAIN sender.queue /\ s.queue[1] = msg
          /\ s.sending = sender.sending
          /\ \A i \in DOMAIN sender.queue : i # 1 => s.queue[i] = sender.queue[i]
      BY <1>2, WithHeadType
    <2>3. sender' = [s EXCEPT !.shots = @ + 1]
      BY <1>1, <1>8, <2>1
    <2> HIDE DEF s
    <2>4. sender'.queue = s.queue /\ sender'.sending = sender.sending
      BY <2>2, <2>3 DEF Senders
    <2>5. finished' = finished /\ at' = Tail(at)
      BY <1>1, <1>8
    <2>6. NumberedIn(sender.queue, finished)' /\ CountedIn(sender.queue)'
      <3>1. msg.size \in Nat
        BY <2>1, SizesAssumption DEF Pending
      <3>2. NumberedIn(s.queue, finished) /\ CountedIn(s.queue)
        BY <1>6, <2>1, <2>2, <3>1
      <3> QED
        BY <1>1, <2>4, <2>5, <3>2 DEF NumberedIn, CountedIn
    <2>7. StartedWhenOut' /\ TakenSoFar'
      BY <1>2, <2>1, <2>2, <2>4, <2>5
         DEF StartedWhenOut, TakenSoFar, Busy, Head1, AllTaken
    <2>8. NothingAhead'
      <3>1. sender.queue[1].posn = 1
        BY <1>8 DEF GivesUp, Head1
      <3>2. ASSUME NEW j \in DOMAIN accepted
            PROVE  /\ accepted[j][2] >= 1
                   /\ \/ accepted[j][1] <= n
                      \/ /\ accepted[j][1] = n + 1
                         /\ accepted[j][2] = 1 /\ Taken(accepted[j], lost)
        <4>1. /\ accepted[j][2] >= 1
              /\ \/ accepted[j][1] <= n
                 \/ /\ accepted[j][1] = n + 1
                    /\ \/ accepted[j][2] < 1
                       \/ accepted[j][2] = 1 /\ Taken(accepted[j], lost)
          BY <3>1 DEF OrderInv, NothingAhead, NothingAheadIn, Head1
        <4>2. accepted[j] \in Ids \X Nat
          BY OrderTypes
        <4>3. accepted[j][2] \in Nat
          BY <4>2
        <4> QED
          BY <4>1, <4>3
      <3>3. CASE UNCHANGED <<accepted, lost>>
        BY <2>2, <2>4, <2>5, <3>2, <3>3 DEF NothingAhead, NothingAheadIn
      <3>4. CASE /\ accepted' = Append(accepted, FragmentOut)
                 /\ lost' = Append(lost, FragmentOut)
        <4>1. /\ \A f : Taken(f, lost) => Taken(f, lost')
              /\ Taken(FragmentOut, lost')
          BY <1>2, <3>4, OrderTypes, AppendTaken
        <4>2. FragmentOut[1] = n + 1 /\ FragmentOut[2] = 1
          BY <1>2, <3>1 DEF OrderInv, NumberedIn
        <4>3. /\ DOMAIN accepted = 1..Len(accepted)
              /\ DOMAIN accepted' = 1..Len(accepted) + 1
              /\ \A j \in 1..Len(accepted) : accepted'[j] = accepted[j]
              /\ accepted'[Len(accepted) + 1] = FragmentOut
              /\ Len(accepted) \in Nat
          BY <1>2, <3>4, OrderTypes, AppendSeq
        <4>4. \A j \in DOMAIN accepted' :
                 j \in DOMAIN accepted \/ j = Len(accepted) + 1
          BY <4>3
        <4> QED
          BY <2>2, <2>4, <2>5, <3>2, <4>1, <4>2, <4>3, <4>4
             DEF NothingAhead, NothingAheadIn
      <3> QED
        BY <1>1, <3>3, <3>4
    <2>9. ReportsTaken(finished, accepted)'
      BY <1>1, <1>4, <2>5 DEF ReportsTaken
    <2>10. Forward
      BY <1>4, <2>4, <2>5, OrderTypes DEF Forward
    <2> QED
      BY <1>3, <2>6, <2>7, <2>8, <2>9, <2>10 DEF OrderInv
  <1> QED
    BY <1>7, <1>8

LEMMA InitOrder == Init => OrderInv
  <1> SUFFICES ASSUME Init PROVE OrderInv
    OBVIOUS
  <1>1. /\ sender.queue = <<>> /\ at = <<>> /\ sizes = <<>> /\ accepted = <<>>
        /\ finished = <<>>
    BY DEF Init
  <1>2. /\ DOMAIN sender.queue = {} /\ Len(finished) + Len(sender.queue) = Len(sizes)
        /\ DOMAIN accepted = {} /\ DOMAIN finished = {}
    BY <1>1
  <1> QED
    BY <1>1, <1>2 DEF OrderInv, NumberedIn, CountedIn, StartedWhenOut, Busy,
          TakenSoFar, NothingAhead, NothingAheadIn, ReportsTaken,
          FragmentsInOrder

LEMMA NextOrder ==
    ASSUME Inv, OrderInv, [Next]_vars
    PROVE  OrderInv' /\ Forward
  <1>1. CASE UNCHANGED vars
    BY <1>1, SameOrder DEF vars
  <1>2. CASE \E size \in Sizes : Send(size)
    BY <1>2, SendOrder
  <1>3. CASE OtherNeedsSms \/ PostItems \/ NeedSmsShot
    BY <1>3, QuietOrder
  <1>4. CASE Deliver
    BY <1>4, QuietOrder, SmsReadyOrder DEF Deliver
  <1>5. CASE SmsReadyTimeout
    BY <1>5, SmsReadyTimeoutOrder
  <1>6. CASE AtAnswer
    <2>1. CASE CmgfDone(TRUE) \/ CmgfDone(FALSE) \/ CmmsDone
      BY <2>1, QuietOrder
    <2> QED
      BY <1>6, <2>1, TransmitOkOrder, TransmitFailedOrder DEF AtAnswer
  <1>7. CASE RetryShot
    BY <1>7, RetryShotOrder
  <1> QED
    BY <1>1, <1>2, <1>3, <1>4, <1>5, <1>6, <1>7 DEF Next

LEMMA AlwaysOrder == Spec => [](Inv /\ OrderInv)
  <1>1. Init => Inv /\ OrderInv
    BY InitInv, InitOrder
  <1>2. (Inv /\ OrderInv) /\ [Next]_vars => (Inv /\ OrderInv)'
    BY NextInv, NextOrder
  <1> QED
    BY <1>1, <1>2, PTL DEF Spec

\* A message finished() reports as sent has been taken by the modem whole, and
\* the modem is given the fragments in order and without repeats but for the
\* first one whose answer was lost (sendNext(), transmitDone()).
THEOREM ReportedIsSent == Spec => []SentWhole
  <1>1. OrderInv => SentWhole
    BY ReportsTakenForm DEF OrderInv, SentWhole
  <1> QED
    BY <1>1, AlwaysOrder, PTL

----------------------------------------------------------------------------
(* The sender implements CommandService.                                    *)

\* With n messages asked for, f of them finished and perhaps one out
PhaseIn(n, f, out, i) ==
    IF i > n THEN "new"
    ELSE IF i <= f THEN "ended"
    ELSE IF out /\ i = f + 1 THEN "sent"
    ELSE "queued"

LEMMA PhaseForm ==
    ASSUME Inv, OrderInv, NEW i \in Ids
    PROVE  PhaseOf(i) = PhaseIn(Len(sizes), Len(finished), sender.sending, i)
  <1>1. sender.sending => Head1(sender).id = Len(finished) + 1
    <2>1. sender.sending => sender.queue # <<>>
      BY WhileSending DEF Busy
    <2>2. sender.queue # <<>> => 1 \in DOMAIN sender.queue
      BY OrderTypes
    <2> QED
      BY <2>1, <2>2 DEF OrderInv, NumberedIn, Head1
  <1>2. Reported(i) <=> i <= Len(finished)
    <2>1. /\ DOMAIN finished = 1..Len(finished) /\ Len(finished) \in Nat
          /\ i \in Nat /\ 1 <= i
      BY OrderTypes DEF Ids
    <2>2. \A k \in DOMAIN finished : finished[k].id = k
      BY DEF OrderInv, NumberedIn
    <2>3. Reported(i) <=> i \in DOMAIN finished
      BY <2>2, Zenon DEF Reported
    <2> QED
      BY <2>1, <2>3
  <1> QED
    BY <1>1, <1>2, Zenon DEF PhaseOf, PhaseIn

\* Phases p can become phases q.
Advances(p, q) ==
    /\ \A i \in Ids : q[i] \in Delivery!Phases
    /\ \A i \in Ids : q[i] = p[i] \/ <<p[i], q[i]>> \in Delivery!Before
    /\ \A i, j \in Ids : i < j => /\ <<q[i], q[j]>> \notin Delivery!Before
                                  /\ ~(q[i] = "sent" /\ q[j] = "sent")

PhasesIn(n, f, out) == [i \in Ids |-> PhaseIn(n, f, out, i)]

\* Such phases are in turn, and nothing goes back.
LEMMA PhasesAdvance ==
    ASSUME NEW n \in Nat, NEW f \in Nat, NEW out \in BOOLEAN,
           NEW n2 \in Nat, NEW f2 \in Nat, NEW out2 \in BOOLEAN,
           n2 >= n, f2 >= f, f <= n, out => out2 \/ f2 > f
    PROVE  Advances(PhasesIn(n, f, out), PhasesIn(n2, f2, out2))
  <1>1. Ids \subseteq Nat
    BY DEF Ids
  <1>2. \A i \in Ids : PhaseIn(n2, f2, out2, i) \in Delivery!Phases
    BY DEF PhaseIn, Delivery!Phases
  <1>3. ASSUME NEW i \in Ids
        PROVE  \/ PhaseIn(n2, f2, out2, i) = PhaseIn(n, f, out, i)
               \/ <<PhaseIn(n, f, out, i), PhaseIn(n2, f2, out2, i)>>
                     \in Delivery!Before
    BY <1>1 DEF PhaseIn, Delivery!Before
  <1>4. ASSUME NEW i \in Ids, NEW j \in Ids, i < j
        PROVE  /\ <<PhaseIn(n2, f2, out2, i), PhaseIn(n2, f2, out2, j)>>
                     \notin Delivery!Before
               /\ ~(PhaseIn(n2, f2, out2, i) = "sent"
                    /\ PhaseIn(n2, f2, out2, j) = "sent")
    BY <1>1, <1>4 DEF PhaseIn, Delivery!Before
  <1> QED
    BY <1>2, <1>3, <1>4 DEF Advances, PhasesIn

LEMMA MappedInit == Init => Delivery!Init
  <1> SUFFICES ASSUME Init PROVE \A i \in Ids : PhaseOf(i) = "new"
    BY DEF Delivery!Init, Delivery!Ids, Ids
  <1>1. Len(sizes) = 0
    BY DEF Init
  <1> QED
    BY <1>1 DEF PhaseOf, Ids

PhasesForm == \A i \in Ids :
    PhaseOf(i) = PhaseIn(Len(sizes), Len(finished), sender.sending, i)

LEMMA PhasesAre == Inv /\ OrderInv => PhasesForm
  BY PhaseForm DEF PhasesForm

LEMMA PhasesArePrimed == Inv' /\ OrderInv' => PhasesForm'
  BY PhasesAre, PTL

\* The types of what the mapping reads
Counts ==
    /\ Len(sizes) \in Nat /\ Len(finished) \in Nat
    /\ sender.sending \in BOOLEAN /\ Len(finished) <= Len(sizes)

LEMMA CountsType == Inv /\ OrderInv => Counts
  <1> SUFFICES ASSUME Inv, OrderInv PROVE Counts
    OBVIOUS
  <1>1. /\ Len(sizes) \in Nat /\ Len(finished) \in Nat
        /\ Len(sender.queue) \in Nat /\ sender.sending \in BOOLEAN
    BY OrderTypes DEF Senders
  <1>2. Len(finished) + Len(sender.queue) = Len(sizes)
    BY DEF OrderInv, NumberedIn
  <1> QED
    BY <1>1, <1>2 DEF Counts

LEMMA CountsTypePrimed == Inv' /\ OrderInv' => Counts'
  BY CountsType, PTL

LEMMA MappedStep ==
    ASSUME Inv, OrderInv, Inv', OrderInv', Forward
    PROVE  Delivery!Advance
  <1> DEFINE p == PhasesIn(Len(sizes), Len(finished), sender.sending)
             q == PhasesIn(Len(sizes'), Len(finished'), sender'.sending)
  <1>1. [i \in Ids |-> PhaseOf(i)] = p
    BY PhasesAre, Zenon DEF PhasesForm, PhasesIn
  <1>2. [i \in Ids |-> PhaseOf(i)]' = q
    BY PhasesArePrimed, Zenon DEF PhasesForm, PhasesIn
  <1>3. Advances(p, q)
    <2>1. /\ Len(sizes) \in Nat /\ Len(finished) \in Nat
          /\ sender.sending \in BOOLEAN /\ Len(finished) <= Len(sizes)
          /\ Len(sizes') \in Nat /\ Len(finished') \in Nat
          /\ sender'.sending \in BOOLEAN
      BY CountsType, CountsTypePrimed DEF Counts
    <2>2. /\ Len(sizes') >= Len(sizes) /\ Len(finished') >= Len(finished)
          /\ sender.sending => sender'.sending \/ Len(finished') > Len(finished)
      BY Zenon DEF Forward
    <2> QED
      BY <2>1, <2>2, PhasesAdvance
  <1>4. Delivery!Ids = Ids /\ DOMAIN q = Ids
    BY DEF Delivery!Ids, Ids, PhasesIn
  <1> HIDE DEF p, q
  <1>5. q \in [Delivery!Ids -> Delivery!Phases]
    <2>1. q = [i \in Ids |-> q[i]]
      BY DEF q, PhasesIn
    <2> QED
      BY <1>3, <1>4, <2>1 DEF Advances
  <1>6. \A i \in Delivery!Ids : q[i] = p[i] \/ <<p[i], q[i]>> \in Delivery!Before
    BY <1>3, <1>4 DEF Advances
  <1>7. Delivery!InTurn(q)
    BY <1>3, <1>4 DEF Advances, Delivery!InTurn
  <1> QED
    BY <1>1, <1>2, <1>5, <1>6, <1>7 DEF Delivery!Advance

\* The k-th finished() names the k-th message given to send(), so that each is
\* reported at most once, in turn and as itself, and one message is sent at a
\* time: every step of the sender is a step of CommandService or none (send(),
\* sendNext(), smsReadyTimeout(), transmitDone()).
THEOREM SenderImplementsService == Spec => DeliveryInTurn
  <1>1. Spec => [](Inv /\ OrderInv)
    BY AlwaysOrder
  <1>2. Inv /\ OrderInv /\ Inv' /\ OrderInv' /\ [Next]_vars
           => [Delivery!Advance]_([i \in Ids |-> PhaseOf(i)])
    BY NextOrder, MappedStep
  <1>3. Init => Delivery!Init
    BY MappedInit
  <1>4. Inv /\ OrderInv => FinishedInTurn
    BY DEF OrderInv, NumberedIn, FinishedInTurn
  <1>5. FinishedInTurn' => [FinishedInTurn']_finished
    OBVIOUS
  <1> QED
    BY <1>1, <1>2, <1>3, <1>4, <1>5, PTL DEF Spec, DeliveryInTurn, Delivery!Spec
====
