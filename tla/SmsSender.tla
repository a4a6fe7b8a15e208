------------------------------ MODULE SmsSender ------------------------------
(***************************************************************************)
(* QModemSMSSender (libraries/qtopiaphonemodem/qmodemsmssender.cpp) and    *)
(* the part of QModemService (qmodemservice.cpp) it talks to by posted     *)
(* items: "needsms" asks for AT+CMGF=0 until the modem accepts it, and     *)
(* "smsready" tells everyone that it did.                                  *)
(*                                                                         *)
(* Both run in one event loop, so every slot is one action.  The primary   *)
(* AT chat is what CommandService and AtChat say of it: the commands of    *)
(* `at` end one after the other, and a command has left the queue when its *)
(* slot runs.                                                              *)
(***************************************************************************)
EXTENDS Naturals, Sequences

CONSTANTS
    MaxMessages,    \* bound: calls of send() in a behaviour
    Sizes,          \* the numbers of fragments QSMSMessage::split() yields
    SendRetries,    \* attempts at a first fragment (5 in the code)
    ReadyRetries,   \* attempts at AT+CMGF=0 (15 in the code)
    MaxNeeds,       \* bound: "needsms" posted by QModemSMSReader
    MaxLost         \* bound: answers to an AT+CMGS lost (QAtResult::Dead)

ASSUME BoundsAssumption ==
    MaxMessages \in Nat /\ MaxNeeds \in Nat /\ MaxLost \in Nat
ASSUME SizesAssumption == Sizes \subseteq Nat \ {0}
ASSUME RetriesAssumption ==
    SendRetries \in Nat \ {0} /\ ReadyRetries \in Nat \ {0}

Ids == 1..MaxMessages    \* messages are numbered as send() is called

\* QModemSMSSenderPending
Pending == [id : Ids, size : Sizes, posn : Nat, retries : 0..SendRetries,
            result : {"ok", "error"}]

Items == {"needsms", "smsready"}

\* A command on the primary AT chat.
Commands == [cmd : {"cmgf", "cmms", "cmgs"}, id : 0..MaxMessages, part : Nat]

VARIABLES
    sender,     \* QModemSMSSenderPrivate; `shots` counts posted sendNext()
    service,    \* QModemServicePrivate; `shots` counts posted sendNeedSms()
    at,         \* the queue of the primary AT chat
    sizes,      \* history: the size of each message given to send()
    accepted,   \* history: the fragments the modem took, in that order
    lost,       \* history: the fragments taken whose answer was lost
    finished,   \* history: the finished() signals
    needs       \* what is left of MaxNeeds

vars == <<sender, service, at, sizes, accepted, lost, finished, needs>>

----------------------------------------------------------------------------
Head1(s) == s.queue[1]
Busy(s)  == s.queue # <<>>

\* postItems() runs through its items before the event loop goes on.
Idle == service.posting = <<>>

\* post()
Post(s, item) == [s EXCEPT !.pending = Append(@, item)]

\* The commands that send the next fragment of a message.
Fragment(msg) ==
    (IF msg.posn = 0 /\ msg.size > 1
     THEN <<[cmd |-> "cmms", id |-> msg.id, part |-> 0]>> ELSE <<>>)
    \o <<[cmd |-> "cmgs", id |-> msg.id, part |-> msg.posn + 1]>>

\* send() links a message in at the end.
LinkFirst(q, msg) == <<msg>> \o q
LinkLast(q, msg)  == Append(q, msg)

\* send() starts the timer for the first message that waits.
WatchedNever(s) == s.needTimer
Watched(s)      == s.needTimer \/ ~Busy(s)

StopNeedTimer(s) == [s EXCEPT !.needTimer = FALSE]

\* The queue without a head whose fragments have all been sent; the one
\* whose head is dropped too early loses its last fragment.
SettledEarly(s) == IF Head1(s).posn + 1 >= Head1(s).size /\ Head1(s).posn > 0
                   THEN Tail(s.queue) ELSE s.queue
Settled(s) == IF Head1(s).posn >= Head1(s).size THEN Tail(s.queue) ELSE s.queue

\* sendNext(), called in the state s of the sender with `line` on the chat.
SendNext(s, line) ==
    IF ~Busy(s)
    THEN /\ sender' = [s EXCEPT !.sending = FALSE]
         /\ at' = line
         /\ UNCHANGED finished
    ELSE LET rest == Settled(s) IN
         /\ finished' = IF rest = s.queue THEN finished
                        ELSE Append(finished, [id |-> Head1(s).id,
                                               result |-> Head1(s).result])
         /\ IF rest = <<>>
            THEN /\ sender' = [s EXCEPT !.queue = <<>>, !.sending = FALSE]
                 /\ at' = line
            ELSE /\ sender' = [s EXCEPT
                        !.queue = [rest EXCEPT ![1].posn = @ + 1],
                        !.sending = TRUE]
                 /\ at' = line \o Fragment(rest[1])

----------------------------------------------------------------------------
Init ==
    /\ sender = [queue |-> <<>>, needTimer |-> FALSE, sending |-> FALSE,
                 shots |-> 0]
    /\ service = [smsRetryCount |-> 0, shots |-> 0, pending |-> <<>>,
                  posting |-> <<>>]
    /\ at = <<>> /\ sizes = <<>> /\ accepted = <<>> /\ lost = <<>>
    /\ finished = <<>>
    /\ needs = MaxNeeds

\* send()
Send(size) ==
    /\ Idle /\ Len(sizes) < MaxMessages
    /\ LET msg == [id |-> Len(sizes) + 1, size |-> size, posn |-> 0,
                   retries |-> SendRetries, result |-> "ok"]
       IN sender' = [sender EXCEPT !.queue = LinkLast(@, msg),
                                   !.needTimer = Watched(sender)]
    /\ service' = IF Busy(sender) THEN service ELSE Post(service, "needsms")
    /\ sizes' = Append(sizes, size)
    /\ UNCHANGED <<at, accepted, lost, finished, needs>>

\* QModemSMSReader asks for SMS service too.
OtherNeedsSms ==
    /\ Idle /\ needs > 0
    /\ needs' = needs - 1
    /\ service' = Post(service, "needsms")
    /\ UNCHANGED <<sender, at, sizes, accepted, lost, finished>>

\* postItems(): the list is taken over before its items are delivered.
PostItems ==
    /\ Idle /\ service.pending # <<>>
    /\ service' = [service EXCEPT !.posting = service.pending,
                                  !.pending = <<>>]
    /\ UNCHANGED <<sender, at, sizes, accepted, lost, finished, needs>>

Delivered == [service EXCEPT !.posting = Tail(@)]

\* needSms() with sendNeedSms(): one round of attempts at a time.
NeedSmsAgain ==
    /\ ~Idle /\ Head(service.posting) = "needsms"
    /\ service' = [Delivered EXCEPT !.smsRetryCount = ReadyRetries]
    /\ at' = Append(at, [cmd |-> "cmgf", id |-> 0, part |-> 0])
    /\ UNCHANGED <<sender, sizes, accepted, lost, finished, needs>>
NeedSms ==
    /\ ~Idle /\ Head(service.posting) = "needsms"
    /\ service' = [Delivered EXCEPT !.smsRetryCount = ReadyRetries]
    /\ at' = IF service.smsRetryCount > 0 THEN at
             ELSE Append(at, [cmd |-> "cmgf", id |-> 0, part |-> 0])
    /\ UNCHANGED <<sender, sizes, accepted, lost, finished, needs>>

\* smsReady(), also when it was the reader that needed SMS service.
SmsReadyAnyway ==
    /\ ~Idle /\ Head(service.posting) = "smsready"
    /\ service' = Delivered
    /\ SendNext(StopNeedTimer(sender), at)
    /\ UNCHANGED <<sizes, accepted, lost, needs>>
SmsReady ==
    /\ ~Idle /\ Head(service.posting) = "smsready"
    /\ service' = Delivered
    /\ LET s == StopNeedTimer(sender) IN
       IF ~Busy(s) \/ s.sending
       THEN sender' = s /\ UNCHANGED <<at, finished>>
       ELSE SendNext(s, at)
    /\ UNCHANGED <<sizes, accepted, lost, needs>>

\* smsReadyTimeout(): everything that waits has failed.
SmsReadyTimeout ==
    /\ Idle /\ sender.needTimer
    /\ sender' = [sender EXCEPT !.queue = <<>>, !.needTimer = FALSE]
    /\ finished' = finished \o [i \in DOMAIN sender.queue |->
                        [id |-> sender.queue[i].id, result |-> "error"]]
    /\ UNCHANGED <<service, at, sizes, accepted, lost, needs>>

\* The command at the head of the AT chat ends.
Ended(cmd) == Idle /\ at # <<>> /\ Head(at).cmd = cmd

\* cmgfDone()
CmgfDone(ok) ==
    /\ Ended("cmgf")
    /\ service' =
         IF ok THEN Post([service EXCEPT !.smsRetryCount = 0], "smsready")
         ELSE [service EXCEPT !.smsRetryCount = @ - 1,
                              !.shots = IF service.smsRetryCount > 1
                                        THEN @ + 1 ELSE @]
    /\ at' = Tail(at)
    /\ UNCHANGED <<sender, sizes, accepted, lost, finished, needs>>

\* AT+CMMS=1 is sent without a slot.
CmmsDone ==
    /\ Ended("cmms")
    /\ at' = Tail(at)
    /\ UNCHANGED <<sender, service, sizes, accepted, lost, finished, needs>>

FragmentOut == <<Head(at).id, Head(at).part>>

\* transmitDone(TRUE)
TransmitOk ==
    /\ Ended("cmgs")
    /\ accepted' = Append(accepted, FragmentOut)
    /\ SendNext(sender, Tail(at))
    /\ UNCHANGED <<service, sizes, lost, needs>>

\* transmitDone(FALSE): a first fragment is tried again after a second; the
\* modem may have taken the fragment of which the answer was lost.
GivesUp(msg) == msg.posn # 1 \/ msg.retries <= 1

FailedFirst(s)   == [s EXCEPT !.queue[1].retries = @ - 1]
FailedForGood(s) ==
    [s EXCEPT !.queue[1].result = "error",
              !.queue[1].retries = IF Head1(s).posn = 1 THEN @ - 1 ELSE @]

TransmitFailed ==
    /\ Ended("cmgs")
    /\ \/ UNCHANGED <<accepted, lost>>
       \/ /\ Len(lost) < MaxLost
          /\ accepted' = Append(accepted, FragmentOut)
          /\ lost' = Append(lost, FragmentOut)
    /\ IF GivesUp(Head1(sender))
       THEN SendNext(FailedForGood(sender), Tail(at))
       ELSE /\ sender' = [FailedFirst(sender) EXCEPT !.queue[1].posn = @ - 1,
                                                     !.shots = @ + 1]
            /\ at' = Tail(at)
            /\ UNCHANGED finished
    /\ UNCHANGED <<service, sizes, needs>>

\* The second is over: sendNext() again.
RetryShot ==
    /\ Idle /\ sender.shots > 0
    /\ SendNext([sender EXCEPT !.shots = @ - 1], at)
    /\ UNCHANGED <<service, sizes, accepted, lost, needs>>

\* sendNeedSms() again, a second after a failure.
NeedSmsShot ==
    /\ Idle /\ service.shots > 0
    /\ service' = [service EXCEPT !.shots = @ - 1]
    /\ at' = Append(at, [cmd |-> "cmgf", id |-> 0, part |-> 0])
    /\ UNCHANGED <<sender, sizes, accepted, lost, finished, needs>>

----------------------------------------------------------------------------
AtAnswer == CmgfDone(TRUE) \/ CmgfDone(FALSE) \/ CmmsDone
            \/ TransmitOk \/ TransmitFailed

Deliver == NeedSms \/ SmsReady

Next ==
    \/ \E size \in Sizes : Send(size)
    \/ OtherNeedsSms \/ PostItems \/ Deliver \/ SmsReadyTimeout
    \/ AtAnswer \/ RetryShot \/ NeedSmsShot

Spec == Init /\ [][Next]_vars

\* Timers and posted items are served, and every AT command ends (AtChat,
\* EveryCommandEnds).
Fairness ==
    /\ WF_vars(PostItems) /\ WF_vars(Deliver) /\ WF_vars(AtAnswer)
    /\ WF_vars(SmsReadyTimeout) /\ WF_vars(RetryShot) /\ WF_vars(NeedSmsShot)

FairSpec == Spec /\ Fairness

----------------------------------------------------------------------------
(* Correctness.                                                             *)

TypeOK ==
    /\ sender \in [queue : Seq(Pending), needTimer : BOOLEAN,
                   sending : BOOLEAN, shots : Nat]
    /\ service \in [smsRetryCount : 0..ReadyRetries, shots : Nat,
                    pending : Seq(Items), posting : Seq(Items)]
    /\ at \in Seq(Commands)
    /\ sizes \in Seq(Sizes)
    /\ accepted \in Seq(Ids \X Nat) /\ lost \in Seq(Ids \X Nat)
    /\ finished \in Seq([id : Ids, result : {"ok", "error"}])
    /\ needs \in 0..MaxNeeds

Places(cmd) == {i \in DOMAIN at : at[i].cmd = cmd}

\* The parts of SenderInStep.  While the sender is sending, and only then, one
\* fragment is with the AT chat or one retry is posted; the fragment is the one
\* the head of the queue counts as sent.  transmitDone() reads the head without a check.
OneFragmentOut ==
    /\ sender.sending <=> sender.shots = 1 \/ Places("cmgs") # {}
    /\ sender.shots <= 1
    /\ sender.shots = 1 => Places("cmgs") = {}
    /\ \A i \in Places("cmgs") :
          /\ Places("cmgs") = {i}
          /\ Busy(sender)
          /\ at[i].id = Head1(sender).id /\ at[i].part = Head1(sender).posn

\* A message that waits is either being sent or watched by the timer that
\* fails it when no "smsready" comes; never both, or the timer would free a
\* message that is being sent.
WaitingIsWatched ==
    /\ Busy(sender) <=> sender.sending \/ sender.needTimer
    /\ ~(sender.sending /\ sender.needTimer)

\* Whatever waits is watched or being sent, and what is being sent is one
\* fragment of the head of the queue, with the modem or waiting for a retry
\* (sendNext(), smsReadyTimeout(), transmitDone()).
SenderInStep == TypeOK /\ OneFragmentOut /\ WaitingIsWatched

\* At most one round of AT+CMGF=0 runs, for everyone who needs it, and the
\* retry count says whether one does.
OneReadyRound ==
    /\ service.shots <= 1
    /\ service.smsRetryCount > 0 <=> service.shots = 1 \/ Places("cmgf") # {}
    /\ \A i, j \in Places("cmgf") : i = j
    /\ service.shots = 1 => Places("cmgf") = {}

\* A message reported as sent has been taken by the modem, all of it.
SentMeansAccepted ==
    \A k \in DOMAIN finished :
        finished[k].result = "ok" =>
            \A part \in 1..sizes[finished[k].id] :
                \E j \in DOMAIN accepted :
                    accepted[j] = <<finished[k].id, part>>

\* The modem takes the fragments in their order, and one it has taken is
\* only sent again when the answer to it was lost.
Follows(f, g) == g[1] > f[1] \/ (g[1] = f[1] /\ g[2] > f[2])
Repeats(j, k) ==
    accepted[j] = accepted[k] /\ \E l \in DOMAIN lost : lost[l] = accepted[j]
FragmentsInOrder ==
    \A j, k \in DOMAIN accepted : j < k =>
        Follows(accepted[j], accepted[k]) \/ Repeats(j, k)

\* What finished() reports as sent has been taken by the modem whole, and the
\* modem is given fragments in order and without repeats, however answers fail,
\* get lost and are tried again (transmitDone()).
SentWhole == SentMeansAccepted /\ FragmentsInOrder

\* The finished() signals, by their message identifiers: the k-th one is for
\* the k-th message given to send(), so that none is reported twice, out of
\* turn or in the place of another.
Reported(i) == \E k \in DOMAIN finished : finished[k].id = i
FinishedInTurn == \A k \in DOMAIN finished : finished[k].id = k

PhaseOf(i) ==
    IF i > Len(sizes) THEN "new"
    ELSE IF Reported(i) THEN "ended"
    ELSE IF sender.sending /\ Head1(sender).id = i THEN "sent"
    ELSE "queued"

Delivery == INSTANCE CommandService
                WITH MaxCommands <- MaxMessages, phase <- [i \in Ids |-> PhaseOf(i)]

\* finished() reports every message at most once, each in its turn and under
\* its own identifier, and one message is sent at a time: the sender implements
\* CommandService, where a message has ended when a finished() names it.
DeliveryInTurn == Delivery!Spec /\ [][FinishedInTurn']_finished

\* Every message given to send() is reported, whether the modem gets ready
\* or not.
EverySendFinishes ==
    \A i \in Ids : Len(sizes) >= i ~> Len(finished) >= i
=============================================================================
