------------------------------- MODULE AtChat -------------------------------
(***************************************************************************)
(* QAtChat (libraries/qtopiacomm/serial/qatchat.cpp): the queue of AT      *)
(* commands that the telephony code sends to the modem, one at a time.     *)
(*                                                                         *)
(* All of QAtChat runs in one event loop, so every slot is one action.     *)
(* Its private data is the record `chat`; the member functions that call   *)
(* each other (queue, prime, done, ...) are operators from such a record   *)
(* to the next one, and an action applies the ones its slot calls.  A      *)
(* client's slot runs inside done() and may call chat() again: actions     *)
(* choose that nested call as `slot`, the kind of the command it queues.   *)
(*                                                                         *)
(* The modem at the far end of the line is not part of the repository and  *)
(* is modelled from what QAtChat and its callers expect of it.             *)
(***************************************************************************)
EXTENDS Naturals, Sequences

CONSTANTS
    Kinds,           \* the kinds of command the clients send
    SlotKinds,       \* the kinds their done() slots send
    MaxCommands,     \* bound: commands queued in a behaviour
    Notes,           \* the unsolicited notifications the modem sends
    MaxNotes,        \* bound: notifications in a behaviour
    MaxSuspends,     \* bound: calls of suspend() in a behaviour
    MaxFailures,     \* bound: times the device is closed in a behaviour
    MaxWire,         \* bound: lines in flight and failures posted when a
                     \* command is repeated
    DeadTimeout,     \* setDeadTimeout() was given a value other than -1
    RetryOnNonEcho,  \* setRetryOnNonEcho() was given a value other than -1
    WakeupActive,    \* registerWakeupCommand() was called
    Echo,            \* the modem echoes commands (ATE1)
    MayBeDeaf        \* the modem may lose a line written to it

ASSUME KindsAssumption == Kinds \subseteq {"plain", "dial", "pdu", "silent"}
ASSUME SlotKindsAssumption == SlotKinds \subseteq Kinds
ASSUME NotesAssumption == Notes \subseteq {"note", "call", "pduNote", "reqNote"}
ASSUME BoundsAssumption ==
    /\ MaxCommands \in Nat /\ MaxNotes \in Nat /\ MaxSuspends \in Nat
    /\ MaxFailures \in Nat /\ MaxWire \in Nat
ASSUME OptionsAssumption ==
    /\ DeadTimeout \in BOOLEAN /\ RetryOnNonEcho \in BOOLEAN
    /\ WakeupActive \in BOOLEAN /\ Echo \in BOOLEAN /\ MayBeDeaf \in BOOLEAN

NoSlot == "none"                 \* the done() slot queues nothing
Ids    == 1..MaxCommands         \* commands are numbered as they are queued
Tags   == 0..MaxCommands         \* 0 marks a line no command caused

\* QAtChatCommandPrivate; `text` holds the commands whose response lines
\* were appended to this command's result.
Command == [id : Ids, kind : Kinds, primed : BOOLEAN, forcedAbort : BOOLEAN,
            text : SUBSET Tags]

\* What is written to the device: a command line, the wakeup character, the
\* CR of abortDial(), or the PDU of the command at the head of the queue.
Written == [what : {"cmd", "wake", "abort", "pdu"}, id : Tags,
            kind : Kinds \cup {NoSlot}]

\* What the modem sends, by QPrefixMatcher type; `id` is the command that
\* caused the line.  "reqNote" is a notification whose slot calls
\* requestNextLine(); the text line that belongs to it follows.
LineTypes == {"text", "ok", "error", "call", "echo", "note", "reqNote",
              "pduNote", "prompt"}
Line == [type : LineTypes, id : Tags]

\* How a command ended: `by` is the command whose terminator ended it.
Results == {"ok", "error", "call", "dead"}
Ending == [id : Ids, result : Results, by : Tags, text : SUBSET Tags]

VARIABLES
    chat,    \* QAtChatPrivate, the device's output buffer, and what happened
    modem,   \* the command the modem is executing
    rx,      \* lines from the modem that QAtChat has not read
    budget   \* what is left of the bounded environment events

vars == <<chat, modem, rx, budget>>

----------------------------------------------------------------------------
(* The member functions of QAtChat.                                         *)

Head1(s) == s.queue[1]
Busy(s)  == s.queue # <<>>

\* writeLine(), writePduLine(): nothing is written to a closed device.
Write(s, what, id, kind) ==
    IF s.valid
    THEN [s EXCEPT !.tx = Append(@, [what |-> what, id |-> id, kind |-> kind])]
    ELSE s

\* done() stops both timers, whichever of them is running.
StopDeadOnly(s)  == [s EXCEPT !.deadTimer = FALSE]
StopRetryOnly(s) == [s EXCEPT !.retryTimer = FALSE]
StopTimers(s)    == [s EXCEPT !.deadTimer = FALSE, !.retryTimer = FALSE]

\* done(), up to the emission: the head leaves the queue.
Pop(s, result, by) ==
    LET cmd == Head1(s) IN
    [StopTimers(s) EXCEPT
        !.queue = Tail(@),
        !.ended = Append(@, [id |-> cmd.id, result |-> result, by |-> by,
                             text |-> cmd.text])]

\* performWakeup()
PerformWakeup(s) ==
    [Write(s, "wake", 0, NoSlot) EXCEPT !.wakeupInProgress = TRUE,
                                        !.lineIdle = FALSE,
                                        !.wakeupShots = @ + 1]

\* prime() starts the timers that are enabled.
ArmRetryOnly(s) == [s EXCEPT !.retryTimer = @ \/ RetryOnNonEcho]
ArmTimers(s)    == [s EXCEPT !.deadTimer = @ \/ DeadTimeout,
                             !.retryTimer = @ \/ RetryOnNonEcho]

\* The part of prime() that transmits the head; failCommand() is posted when
\* the device is closed.
MarkPrimed(s) ==
    [s EXCEPT !.queue = [@ EXCEPT ![1].primed = TRUE],
              !.resent = @ \/ Head1(s).primed,
              !.lineIdle = FALSE,
              !.failShots = IF s.valid THEN @ ELSE @ + 1]

Transmit(s) ==
    ArmTimers(MarkPrimed(Write(s, "cmd", Head1(s).id, Head1(s).kind)))

\* prime(): a command that expects no response is done at once.  Its slot
\* (QModemCall::vtsRequestDone) sends nothing when the result is OK.
Prime(s) ==
    IF ~Busy(s) THEN s
    ELSE IF WakeupActive /\ s.lineIdle THEN PerformWakeup(s)
    ELSE IF Head1(s).kind = "silent" THEN Pop(Transmit(s), "ok", Head1(s).id)
    ELSE Transmit(s)

PrimeNever(s)       == s
PrimeAlways(s)      == IF Busy(s) THEN Prime(s) ELSE s
PrimeIfNecessary(s) == IF Busy(s) /\ ~Head1(s).primed THEN Prime(s) ELSE s

\* resume(): the device is opened again if the other user closed it.  What
\* has arrived meanwhile is read by Chat and Incoming.
Reopen(s)  == [s EXCEPT !.suspended = FALSE, !.valid = TRUE]
Resumed(s) == IF s.suspended THEN Reopen(s) ELSE s

\* queue(): the chat is resumed, the command is linked in at the end, and
\* transmitted when it is the only one.
NewCommand(s, kind) ==
    [id |-> s.queued + 1, kind |-> kind, primed |-> FALSE,
     forcedAbort |-> FALSE, text |-> {}]

LinkFirst(q, cmd) == <<cmd>> \o q
LinkLast(q, cmd)  == Append(q, cmd)

Linked(s, kind) == [s EXCEPT !.queue = LinkLast(@, NewCommand(s, kind)),
                             !.queued = @ + 1]

LinkAndPrime(s, kind) == Prime(Linked(s, kind))
Link(s, kind) ==
    IF Busy(s) THEN Linked(s, kind) ELSE Prime(Linked(s, kind))

Enqueue(s, kind) == Link(Resumed(s), kind)

\* done(): the slot connected to the command may queue another one.
Done(s, result, by, slot) ==
    LET p == Pop(s, result, by) IN
    IF slot = NoSlot THEN p ELSE Enqueue(p, slot)

\* What the slots of this step may queue.
Slots(s) == {NoSlot} \cup (IF s.queued < MaxCommands THEN SlotKinds ELSE {})

\* The terminator branches of processLine().
Terminate(s, line, result, slot) ==
    IF Busy(s) THEN PrimeIfNecessary(Done(s, result, line.id, slot)) ELSE s

\* The Unknown branch of processLine(): the line belongs to a notification
\* that announced it, or to whoever called requestNextLine(), or to the
\* command at the head; `stolen` records the responses that went astray.
ToCommand(s, line) ==
    IF Busy(s) THEN [s EXCEPT !.queue[1].text = @ \cup {line.id}] ELSE s

ToNotificationAgain(s, line) ==
    [s EXCEPT !.pdus = @ + 1, !.stolen = @ \/ line.id # 0]

ToNotification(s, line) ==
    [s EXCEPT !.lastNotification = FALSE, !.pdus = @ + 1,
              !.stolen = @ \/ line.id # 0]

UnknownLine(s, line) ==
    IF s.lastNotification THEN ToNotification(s, line)
    ELSE IF s.requestor
    THEN [s EXCEPT !.requestor = FALSE, !.stolen = @ \/ line.id # 0]
    ELSE ToCommand(s, line)

\* processLine(), by the type the prefix matcher gives the line.  The slot
\* of a notification is called by the matcher itself.
ProcessLine(s, line, slot) ==
    CASE line.type = "text"    -> UnknownLine(s, line)
      [] line.type = "ok"      -> Terminate(s, line, "ok", slot)
      [] line.type = "error"   -> Terminate(s, line, "error", slot)
      [] line.type = "call"    ->
            IF Busy(s) /\ Head1(s).kind = "dial"
            THEN Terminate(s, line, "call", slot) ELSE s
      [] line.type = "echo"    -> [s EXCEPT !.retryTimer = FALSE,
                                            !.lastNotification = FALSE]
      [] line.type = "pduNote" -> [s EXCEPT !.lastNotification = TRUE]
      [] line.type = "reqNote" -> [s EXCEPT !.requestor = TRUE]
      [] OTHER                 -> s

\* incoming(), for one line.  The prompt is not a line: it stays in the
\* buffer, in front of the next line, when no command is there to answer it.
\* During a wakeup only the slots of notifications are called.
ReadLine(s, line, slot) ==
    IF line.type = "prompt"
    THEN IF Busy(s) THEN Write(s, "pdu", Head1(s).id, Head1(s).kind)
                    ELSE [s EXCEPT !.partial = TRUE]
    ELSE LET whole == [s EXCEPT !.partial = FALSE]
             seen  == IF s.partial THEN [line EXCEPT !.type = "text"] ELSE line
         IN IF ~s.wakeupInProgress THEN ProcessLine(whole, seen, slot)
            ELSE IF seen.type = "reqNote" THEN [whole EXCEPT !.requestor = TRUE]
            ELSE whole

----------------------------------------------------------------------------
(* The actions of QAtChat: the calls of its clients and its slots.          *)

NoCmd == [id |-> 0, kind |-> NoSlot, prompted |-> FALSE]

Init ==
    /\ chat = [queue |-> <<>>, tx |-> <<>>, queued |-> 0, ended |-> <<>>,
               deadTimer |-> FALSE, retryTimer |-> FALSE,
               wakeupInProgress |-> FALSE, wakeupShots |-> 0,
               lineIdle |-> FALSE, failShots |-> 0, failing |-> FALSE,
               lastNotification |-> FALSE, requestor |-> FALSE,
               partial |-> FALSE, suspended |-> FALSE, valid |-> TRUE,
               stolen |-> FALSE, resent |-> FALSE, pdus |-> 0]
    /\ modem = NoCmd
    /\ rx = <<>>
    /\ budget = [notes |-> MaxNotes, suspends |-> MaxSuspends,
                 failures |-> MaxFailures, pdus |-> 0]

\* The event loop runs no other slot inside the loop of timeout().
Idle == ~chat.failing

\* chat(), chatPDU(), called by a client from its own slot.  The resume() of
\* a suspended chat reads what has arrived before the command is linked in:
\* nothing, or one line, and the others come later.
Chat(kind, slot) ==
    /\ Idle /\ chat.queued < MaxCommands
    /\ \/ /\ slot = NoSlot
          /\ chat' = Enqueue(chat, kind)
          /\ UNCHANGED rx
       \/ /\ chat.suspended /\ rx # <<>>
          /\ LET read == ReadLine(Reopen(chat), Head(rx), slot) IN
             /\ read.queued < MaxCommands
             /\ chat' = Enqueue(read, kind)
          /\ rx' = Tail(rx)
    /\ UNCHANGED <<modem, budget>>

\* incoming(): readyRead() is not connected while the chat is suspended.
Incoming(slot) ==
    /\ Idle /\ ~chat.suspended /\ rx # <<>>
    /\ chat' = ReadLine(chat, Head(rx), slot)
    /\ rx' = Tail(rx)
    /\ UNCHANGED <<modem, budget>>

\* abortDial(), at most once for a command.
AbortLatest ==
    /\ Idle /\ Busy(chat)
    /\ LET last == Len(chat.queue) IN
       /\ chat.queue[last].kind = "dial" /\ ~chat.queue[last].forcedAbort
       /\ chat' = [Write(chat, "abort", 0, NoSlot) EXCEPT
                       !.queue[last].forcedAbort = TRUE]
    /\ UNCHANGED <<modem, rx, budget>>
AbortDial ==
    /\ Idle /\ Busy(chat) /\ Head1(chat).kind = "dial"
    /\ ~Head1(chat).forcedAbort
    /\ chat' = [Write(chat, "abort", 0, NoSlot) EXCEPT
                    !.queue = [@ EXCEPT ![1].forcedAbort = TRUE]]
    /\ UNCHANGED <<modem, rx, budget>>

\* suspend(), by the client that takes the device for binary data.
Suspend ==
    /\ Idle /\ ~chat.suspended /\ budget.suspends > 0
    /\ chat' = [chat EXCEPT !.suspended = TRUE]
    /\ budget' = [budget EXCEPT !.suspends = @ - 1]
    /\ UNCHANGED <<modem, rx>>

\* resume() by that client; what has arrived is read by Incoming.
Resume ==
    /\ Idle /\ chat.suspended
    /\ chat' = Reopen(chat)
    /\ UNCHANGED <<modem, rx, budget>>

\* timeout(): the dead timer expires, and the loop fails the queue.
Timeout ==
    /\ Idle /\ chat.deadTimer
    /\ chat' = [chat EXCEPT !.deadTimer = FALSE, !.failing = Busy(chat)]
    /\ UNCHANGED <<modem, rx, budget>>

\* One round of that loop; it also fails what the slots queue meanwhile.
FailNext(slot) ==
    /\ chat.failing
    /\ LET d == Done(chat, "dead", 0, slot) IN
       chat' = [d EXCEPT !.failing = Busy(d)]
    /\ UNCHANGED <<modem, rx, budget>>

\* retryTimeout(): prime() again, whatever the modem has done meanwhile.
RetryTimeout ==
    /\ Idle /\ chat.retryTimer
    /\ Len(chat.tx) + Len(rx) + chat.failShots < MaxWire
    /\ chat' = Prime([chat EXCEPT !.retryTimer = FALSE])
    /\ UNCHANGED <<modem, rx, budget>>

\* failCommand(), posted by prime() when the device was closed.
FailCommand(slot) ==
    /\ Idle /\ chat.failShots > 0
    /\ LET s == [chat EXCEPT !.failShots = @ - 1] IN
       IF ~s.valid /\ Busy(s)
       THEN chat' = PrimeIfNecessary(Done(s, "error", 0, slot))
       ELSE slot = NoSlot /\ chat' = s
    /\ UNCHANGED <<modem, rx, budget>>

\* wakeupFinished(), a second after performWakeup().
WakeupFinished ==
    /\ Idle /\ chat.wakeupShots > 0
    /\ chat' = Prime([chat EXCEPT !.wakeupInProgress = FALSE,
                                  !.wakeupShots = @ - 1])
    /\ UNCHANGED <<modem, rx, budget>>

\* lastSendTime.elapsed() reaches wakeupTime, which is longer than the
\* second a wakeup takes (5 seconds in the only caller, vendor_neo.cpp).
LineIdle ==
    /\ Idle /\ WakeupActive /\ ~chat.lineIdle /\ chat.wakeupShots = 0
    /\ chat' = [chat EXCEPT !.lineIdle = TRUE]
    /\ UNCHANGED <<modem, rx, budget>>

\* The device is closed under the chat; what was in flight is lost.
DeviceClosed ==
    /\ Idle /\ chat.valid /\ budget.failures > 0
    /\ chat' = [chat EXCEPT !.valid = FALSE, !.tx = <<>>]
    /\ rx' = <<>>
    /\ modem' = NoCmd
    /\ budget' = [budget EXCEPT !.failures = @ - 1]

----------------------------------------------------------------------------
(* The modem.  It executes one command at a time and reads the next line    *)
(* when it has answered; a PDU or an abort is for the command it executes.  *)

Say(types, id) == rx \o [i \in 1..Len(types) |-> [type |-> types[i], id |-> id]]

ReadTx == chat' = [chat EXCEPT !.tx = Tail(@)]

ModemAccept ==
    /\ chat.tx # <<>>
    /\ LET w == Head(chat.tx) IN
       \/ /\ w.what = "cmd" /\ modem = NoCmd
          /\ modem' = IF w.kind = "silent" THEN NoCmd
                      ELSE [id |-> w.id, kind |-> w.kind, prompted |-> FALSE]
          /\ rx' = IF Echo THEN Say(<<"echo">>, w.id) ELSE rx
       \/ /\ w.what = "abort" /\ modem.kind = "dial"
          /\ modem' = NoCmd
          /\ rx' = Say(<<"call">>, modem.id)
       \/ /\ modem.prompted   \* up to a ^Z, which the wakeup character is
          /\ modem' = IF w.what \in {"pdu", "wake"}
                      THEN [modem EXCEPT !.prompted = FALSE, !.kind = "plain"]
                      ELSE modem
          /\ UNCHANGED rx
       \/ /\ w.what # "cmd" /\ ~modem.prompted
          /\ w.what = "abort" => modem.kind # "dial"
          /\ UNCHANGED <<modem, rx>>
    /\ ReadTx
    /\ UNCHANGED budget

\* A PDU command asks for its PDU once, and ends when it has it.
ModemPrompt ==
    /\ modem.kind = "pdu" /\ ~modem.prompted
    /\ modem' = [modem EXCEPT !.prompted = TRUE]
    /\ rx' = Say(<<"prompt">>, modem.id)
    /\ UNCHANGED <<chat, budget>>

\* The answer: response lines, then a terminator.
ModemAnswer ==
    /\ modem.id # 0 /\ ~modem.prompted
    /\ \E end \in {<<"text", "ok">>, <<"ok">>, <<"error">>, <<"call">>} :
          /\ end = <<"call">> => modem.kind = "dial"
          /\ end[Len(end)] = "ok" => modem.kind # "pdu"
          /\ rx' = Say(end, modem.id)
    /\ modem' = NoCmd
    /\ UNCHANGED <<chat, budget>>

\* The modem loses a line that is written to it.
ModemDeaf ==
    /\ MayBeDeaf /\ chat.tx # <<>>
    /\ ReadTx
    /\ UNCHANGED <<modem, rx, budget>>

\* An unsolicited notification; the line that belongs to it is next to it.
ModemNotify ==
    /\ budget.notes > 0 /\ ~modem.prompted
    /\ \E n \in Notes :
          /\ rx' = Say(IF n \in {"note", "call"} THEN <<n>> ELSE <<n, "text">>, 0)
          /\ budget' = [budget EXCEPT !.notes = @ - 1,
                                     !.pdus = IF n = "pduNote" THEN @ + 1 ELSE @]
    /\ UNCHANGED <<chat, modem>>

----------------------------------------------------------------------------
ModemStep == ModemAccept \/ ModemPrompt \/ ModemAnswer

Next ==
    \/ \E kind \in Kinds, slot \in Slots(chat) : Chat(kind, slot)
    \/ \E slot \in Slots(chat) : Incoming(slot) \/ FailNext(slot)
                                \/ FailCommand(slot)
    \/ AbortDial \/ Suspend \/ Resume \/ Timeout \/ RetryTimeout
    \/ WakeupFinished \/ LineIdle \/ DeviceClosed
    \/ ModemStep \/ ModemDeaf \/ ModemNotify

Spec == Init /\ [][Next]_vars

\* The event loop serves its sockets and timers, the client that took the
\* device gives it back, and the modem reads and answers.  Nothing obliges
\* clients to queue, the user to abort, or the modem to notify.
Fairness ==
    /\ WF_vars(\E slot \in Slots(chat) : Incoming(slot))
    /\ WF_vars(\E slot \in Slots(chat) : FailNext(slot))
    /\ WF_vars(\E slot \in Slots(chat) : FailCommand(slot))
    /\ WF_vars(Timeout) /\ WF_vars(WakeupFinished) /\ WF_vars(Resume)
    /\ WF_vars(ModemAccept) /\ WF_vars(ModemPrompt) /\ WF_vars(ModemAnswer)

FairSpec == Spec /\ Fairness

----------------------------------------------------------------------------
(* Correctness.                                                             *)

ChatType ==
    [queue : Seq(Command), tx : Seq(Written), queued : 0..MaxCommands,
     ended : Seq(Ending), deadTimer : BOOLEAN, retryTimer : BOOLEAN,
     wakeupInProgress : BOOLEAN, wakeupShots : Nat, lineIdle : BOOLEAN,
     failShots : Nat, failing : BOOLEAN, lastNotification : BOOLEAN,
     requestor : BOOLEAN, partial : BOOLEAN, suspended : BOOLEAN,
     valid : BOOLEAN, stolen : BOOLEAN, resent : BOOLEAN, pdus : Nat]

TypeOK ==
    /\ chat \in ChatType
    /\ modem \in [id : Tags, kind : Kinds \cup {NoSlot, "plain"},
                  prompted : BOOLEAN]
    /\ rx \in Seq(Line)
    /\ budget \in [notes : 0..MaxNotes, suspends : 0..MaxSuspends,
                   failures : 0..MaxFailures, pdus : Nat]

\* Every command ends exactly once and in the order of the chat() calls,
\* whatever slots, timers and closed devices interfere: those that ended
\* are the first ones queued, and the queue holds the others.
InOrderIn(s) ==
    /\ Len(s.ended) + Len(s.queue) = s.queued
    /\ \A i \in DOMAIN s.ended : s.ended[i].id = i
    /\ \A i \in DOMAIN s.queue : s.queue[i].id = Len(s.ended) + i
InOrder == InOrderIn(chat)

\* The modem is given one command at a time: prime() and the timers only
\* ever transmit the head, so nothing behind it has been sent.
OnlyHeadPrimedIn(s) ==
    \A i \in DOMAIN s.queue : i > 1 => ~s.queue[i].primed
OnlyHeadPrimed == OnlyHeadPrimedIn(chat)

\* A command at the head is with the modem, or a wakeup is pending whose end
\* will send it; otherwise nothing would ever send it.
HeadOnItsWay(s) ==
    Busy(s) => Head1(s).primed \/ s.wakeupShots > 0
NoStall == ~chat.failing => HeadOnItsWay(chat)

\* With a dead timeout no transmitted command goes unwatched, whatever
\* stopped and restarted the timers before it.
Watched ==
    DeadTimeout /\ chat.queue # <<>> /\ ~chat.failing =>
        chat.deadTimer \/ ~Head1(chat).primed

\* The timers never outlive the command they were started for.
TimersHaveCommandIn(s) ==
    s.deadTimer \/ s.retryTimer => Busy(s) /\ Head1(s).primed
TimersHaveCommand == TimersHaveCommandIn(chat)

\* A command is ended by a terminator the modem sent for it, and collects the
\* response lines sent for it.
AnswersMatch ==
    \A i \in DOMAIN chat.ended :
        LET e == chat.ended[i] IN
        /\ e.by = e.id \/ (e.by = 0 /\ e.result \in {"dead", "error"})
        /\ e.text \subseteq {e.id}

\* Each announced PDU (an incoming message) reaches pduNotification(), and a
\* response line is never taken for one: lastNotification is kept from line to
\* line (processLine()).
PdusDelivered ==
    /\ ~chat.stolen
    /\ rx = <<>> => chat.pdus = budget.pdus

\* No command is transmitted twice unless setRetryOnNonEcho() asked for it:
\* a second AT+CMGS sends a second message.
NotRepeated == chat.resent => RetryOnNonEcho

\* An abort is written for the command at the head, and after the dial it
\* ends: only a modem that is still being woken up reads it first.
\* (abortDial() looks at the head, transmitted or not; the loop of timeout()
\* gives up what it has not failed yet.)
AbortAfterDial ==
    \A i \in DOMAIN chat.queue :
        chat.queue[i].forcedAbort /\ ~chat.failing =>
            i = 1 /\ (chat.queue[i].primed \/ chat.wakeupShots > 0)

\* Every command ends, in a chat whose client gives the device back.
EveryCommandEnds ==
    \A i \in Ids : chat.queued >= i ~> Len(chat.ended) >= i

\* What the clients rely on: the queue implements CommandService.
PhaseOf(i) ==
    IF i > chat.queued THEN "new"
    ELSE IF i <= Len(chat.ended) THEN "ended"
    ELSE IF chat.queue[i - Len(chat.ended)].primed THEN "sent"
    ELSE "queued"

Service == INSTANCE CommandService WITH phase <- [i \in Ids |-> PhaseOf(i)]
ServiceSafety == Service!Spec
=============================================================================
