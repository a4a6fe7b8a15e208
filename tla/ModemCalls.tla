------------------------------ MODULE ModemCalls ------------------------------
(***************************************************************************)
(* The phone calls of an AT modem: QModemCallProvider, the QModemCall      *)
(* objects it owns, and the chat queue their commands go through.  The     *)
(* provider learns of an incoming call from RING, +CRING and +CCWA lines,  *)
(* gathers what they tell for 800 ms (detect) and takes the call for       *)
(* missed 5.5 s after the last of them (missed).  It keeps its own idea of *)
(* the state of every call: an operation of the user is a command of which *)
(* only OK or ERROR comes back.  Voice calls and the default provider.     *)
(***************************************************************************)
EXTENDS Naturals, Sequences, FiniteSets, FiniteSetsExt, SequencesExt

VARIABLES
    calls,         \* calls(), the oldest first; poll: a timer will call dialCheck()
    usedIds,       \* usedIds
    incomingId,    \* incomingModemIdentifier
    typeKnown,     \* incomingCallType is set
    detect, missed, hangup, \* detectTimer, missedTimer, hangupTimer are active
    cmds,          \* the chat's queue: its head has been transmitted
    wire,          \* commands on their way to the modem
    line           \* lines on their way from the modem

ring     == <<incomingId, typeKnown, detect, missed>>
chat     == <<cmds, wire>>
provider == <<calls, usedIds, ring, hangup, chat, line>>

Ids == 1..32
Over == {"HangupLocal", "HangupRemote", "Missed", "OtherFailure"}
States == {"Incoming", "Dialing", "Connected", "Hold"}
Stats == {"dialing", "alerting", "active", "held", "incoming"}
Call == [key : Nat, state : States, id : Ids \cup {0}, poll : BOOLEAN]

ProviderInit ==
    /\ calls = <<>> /\ usedIds = {}
    /\ incomingId = 0 /\ typeKnown = FALSE
    /\ detect = FALSE /\ missed = FALSE /\ hangup = FALSE
    /\ cmds = <<>> /\ wire = <<>> /\ line = <<>>

-----------------------------------------------------------------------------
\* The calls of the provider; cs is a list of calls in the middle of a handler

HasGroup(cs, state) == \E i \in DOMAIN cs : cs[i].state = state

\* The calls in one of some states, in their order
Those(cs, some) ==
    LET kept[n \in 0 .. Len(cs)] ==
            IF n = 0 THEN <<>>
            ELSE IF cs[n].state \in some THEN Append(kept[n - 1], cs[n])
            ELSE kept[n - 1]
    IN kept[Len(cs)]
Group(cs, state) == Those(cs, {state})

ChangeGroup(cs, old, new) ==
    [i \in DOMAIN cs |-> IF cs[i].state = old THEN [cs[i] EXCEPT !.state = new] ELSE cs[i]]

SetState(cs, key, new) ==
    [i \in DOMAIN cs |-> IF cs[i].key = key THEN [cs[i] EXCEPT !.state = new] ELSE cs[i]]

\* Mutant: the held calls are activated before the waiting one
ActivateHeldOrWaiting(cs) ==
    IF HasGroup(cs, "Hold")
    THEN ChangeGroup(cs, "Hold", "Connected")
    ELSE ChangeGroup(cs, "Incoming", "Connected")

\* Only one of the waiting call and the held calls is activated
ActivateWaitingOrHeld(cs) ==
    IF HasGroup(cs, "Incoming")
    THEN SetState(cs, Head(Group(cs, "Incoming")).key, "Connected")
    ELSE ChangeGroup(cs, "Hold", "Connected")

\* Calls in the state -1 of the source are on their way from Connected to Hold
Swap(cs) ==
    ChangeGroup(ActivateWaitingOrHeld(ChangeGroup(cs, "Connected", "Swapping")),
                "Swapping", "Hold")

OtherActiveCalls(key) ==
    \E i \in DOMAIN calls : calls[i].key # key /\ calls[i].state \in {"Connected", "Hold"}

NextId(used) == IF Ids \subseteq used THEN 0 ELSE Min(Ids \ used)

\* Mutant: a missed call keeps its identifier
ReleasedOnHangup(cs) == {cs[i].id : i \in {j \in DOMAIN cs : cs[j].state \in Over \ {"Missed"}}}

Released(cs) == {cs[i].id : i \in {j \in DOMAIN cs : cs[j].state \in Over}}

\* The end of a handler: calls that are over are deleted and release their ids
Leave(cs, used) ==
    /\ calls' = Those(cs, States)
    /\ usedIds' = used \ Released(cs)

\* setState(): the ring timers stop with an incoming call
RingTimersStopped(cs) ==
    IF \E i \in DOMAIN calls : calls[i].state = "Incoming" /\ cs[i].state \in Over
    THEN detect' = FALSE /\ missed' = FALSE
    ELSE UNCHANGED <<detect, missed>>

-----------------------------------------------------------------------------
\* The chat: one command is out at a time

Command(at, id, slot, key) == [at |-> at, id |-> id, slot |-> slot, key |-> key]
Plain(at, id) == Command(at, id, "none", 0)
Sent(command) == [at |-> command.at, id |-> command.id]

\* No call and no command in the queue has this key
NewKey ==
    Min((1 .. Len(calls) + Len(cmds) + 1)
          \ ({calls[i].key : i \in DOMAIN calls} \cup {cmds[i].key : i \in DOMAIN cmds}))

Chat(new) ==
    /\ cmds' = cmds \o new
    /\ wire' = IF cmds = <<>> /\ new # <<>> THEN Append(wire, Sent(Head(new))) ELSE wire

\* The head is done, its slot has queued more
Done(new) ==
    /\ cmds' = Tail(cmds) \o new
    /\ wire' = IF cmds' = <<>> THEN wire ELSE Append(wire, Sent(Head(cmds')))

-----------------------------------------------------------------------------
\* Requests of the user, for the call c of the list

Dial ==
    \/ /\ HasGroup(calls, "Connected") /\ HasGroup(calls, "Hold")
       /\ UNCHANGED provider
    \/ /\ ~(HasGroup(calls, "Connected") /\ HasGroup(calls, "Hold"))
       /\ LET id == NextId(usedIds) IN
          /\ Chat(<<Command("ATD", 0, "dialRequestDone", NewKey)>>)
          /\ calls' = Append(ChangeGroup(calls, "Connected", "Hold"),
                             [key |-> NewKey, state |-> "Dialing", id |-> id, poll |-> FALSE])
          /\ usedIds' = usedIds \cup ({id} \ {0})
       /\ UNCHANGED <<ring, hangup, line>>

\* AT+CHLD=1n for every call of a group
ReleaseEach(state) ==
    [i \in DOMAIN Group(calls, state) |-> Plain("CHLD1x", Group(calls, state)[i].id)]

HangupWith(new, cs) ==
    /\ Chat(new)
    /\ Leave(cs, usedIds)
    /\ RingTimersStopped(cs)
    /\ UNCHANGED <<incomingId, typeKnown, hangup, line>>

HangupCall(c) ==
    /\ c.state \in {"Connected", "Dialing", "Hold"}
    /\ HangupWith(<<Plain("CHLD1x", c.id)>>, SetState(calls, c.key, "HangupLocal"))

HangupActiveGroup(c) ==
    /\ c.state \in {"Connected", "Dialing"}
    /\ ~HasGroup(calls, "Incoming")
    /\ HangupWith(<<Plain("CHLD1", 0)>>,
                  ActivateWaitingOrHeld(
                      ChangeGroup(ChangeGroup(calls, "Connected", "HangupLocal"),
                                  "Dialing", "HangupLocal")))

\* abortDial() with the scope of the group, in spite of the incoming call
HangupDialingBesideIncoming(c) ==
    /\ c.state = "Dialing" /\ HasGroup(calls, "Incoming")
    /\ HangupWith(<<Plain("CHLD1", 0)>>, SetState(calls, c.key, "HangupLocal"))

HangupHeldGroup(c) ==
    /\ c.state = "Hold" /\ ~HasGroup(calls, "Incoming")
    /\ HangupWith(<<Plain("CHLD0", 0)>>, ChangeGroup(calls, "Hold", "HangupLocal"))

\* AT+CHLD=1 and AT+CHLD=0 would work on the incoming call: one by one
HangupGroupBesideIncoming(c) ==
    /\ c.state \in {"Connected", "Hold"} /\ HasGroup(calls, "Incoming")
    /\ HangupWith(ReleaseEach(c.state), ChangeGroup(calls, c.state, "HangupLocal"))

Reject(c) ==
    /\ c.state = "Incoming"
    /\ HangupWith(<<Plain("CHLD0", 0)>>, SetState(calls, c.key, "HangupLocal"))

Accept(c) ==
    /\ c.state = "Incoming"
    /\ detect' = FALSE /\ missed' = FALSE
    /\ LET others == HasGroup(calls, "Connected") \/ HasGroup(calls, "Hold") IN
       Chat(<<Command(IF others THEN "CHLD2" ELSE "ATA", 0, "acceptDone", c.key)>>)
    /\ calls' = SetState(ChangeGroup(calls, "Connected", "Hold"), c.key, "Connected")
    /\ UNCHANGED <<usedIds, incomingId, typeKnown, hangup, line>>

Ask(at, id, slot, c) ==
    /\ Chat(<<Command(at, id, slot, c.key)>>)
    /\ UNCHANGED <<calls, usedIds, ring, hangup, line>>

Hold(c) ==
    /\ c.state = "Connected"
    /\ Ask("CHLD2", 0, "holdRequestDone", c)

ActivateCall(c) ==
    /\ c.state \in {"Hold", "Connected"} /\ ~HasGroup(calls, "Incoming")
    /\ IF OtherActiveCalls(c.key)
       THEN Ask("CHLD2x", c.id, "activateSingleRequestDone", c)
       ELSE Ask("CHLD2", 0, "activateSingleRequestDone", c)

ActivateGroup(c) ==
    /\ c.state \in {"Hold", "Connected"} /\ ~HasGroup(calls, "Incoming")
    /\ Ask("CHLD2", 0, "activateMultipleRequestDone", c)

Join(c) ==
    /\ c.state \in {"Connected", "Hold"}
    /\ Ask("CHLD3", 0, "joinRequestDone", c)

Detach(c) ==
    /\ c.state \in {"Connected", "Hold"}
    /\ Ask("CHLD4", 0, "detachRequestDone", c)

\* An incoming call is deflected; with one waiting, so are the active calls
Transfer(c) ==
    \/ /\ c.state = "Incoming"
       /\ HangupWith(<<Plain("CTFR", 0)>>, SetState(calls, c.key, "HangupLocal"))
    \/ /\ c.state = "Connected" /\ HasGroup(calls, "Incoming")
       /\ HangupWith(<<Plain("CTFR", 0)>>,
                     ChangeGroup(ChangeGroup(calls, "Connected", "HangupLocal"),
                                 "Hold", "Connected"))

-----------------------------------------------------------------------------
\* Incoming calls

\* ring(), cring(), clip() and ccwa(); known: the line tells the type of call
Ringing(known) ==
    \/ /\ HasGroup(calls, "Incoming")
       /\ missed' = TRUE
       /\ UNCHANGED <<calls, usedIds, incomingId, typeKnown, detect>>
    \/ /\ ~HasGroup(calls, "Incoming")
       /\ typeKnown' = (typeKnown \/ known)
       /\ incomingId' = IF incomingId = 0 THEN NextId(usedIds) ELSE incomingId
       /\ usedIds' = usedIds \cup ({incomingId'} \ {0})
       /\ detect' = TRUE /\ missed' = TRUE
       /\ UNCHANGED calls

Announced(id) ==
    Append(calls, [key |-> NewKey, state |-> "Incoming", id |-> id, poll |-> FALSE])

AnnounceCall(id) ==
    /\ calls' = Announced(id)
    /\ incomingId' = 0 /\ typeKnown' = FALSE

\* Mutant: both ring timers stop when a call is looked for
DetectTimeoutStopsBoth ==
    /\ detect
    /\ detect' = FALSE /\ missed' = FALSE
    /\ \/ /\ typeKnown
          /\ AnnounceCall(incomingId)
          /\ UNCHANGED chat
       \/ /\ ~typeKnown
          /\ Chat(<<Command("CLCC", 0, "clccIncoming", 0)>>)
          /\ UNCHANGED <<calls, incomingId, typeKnown>>
    /\ UNCHANGED <<usedIds, hangup, line>>

DetectTimeout ==
    /\ detect
    /\ detect' = FALSE
    /\ \/ /\ typeKnown
          /\ AnnounceCall(incomingId)
          /\ UNCHANGED chat
       \/ /\ ~typeKnown
          /\ Chat(<<Command("CLCC", 0, "clccIncoming", 0)>>)
          /\ UNCHANGED <<calls, incomingId, typeKnown>>
    /\ UNCHANGED <<usedIds, missed, hangup, line>>

\* missedTimeout(): the first of the incoming calls is missed
Missed(cs) ==
    IF HasGroup(cs, "Incoming")
    THEN SetState(cs, Head(Group(cs, "Incoming")).key, "Missed")
    ELSE cs

MissedTimeout ==
    /\ missed
    /\ missed' = FALSE /\ detect' = FALSE
    /\ Leave(Missed(calls), usedIds)
    /\ UNCHANGED <<incomingId, typeKnown, hangup, chat, line>>

HangupTimeout ==
    /\ hangup
    /\ hangup' = FALSE
    /\ UNCHANGED <<calls, usedIds, ring, chat, line>>

\* Mutant: an announced call is not watched
ClccIncomingUnwatched(ok, list) ==
    /\ AnnounceCall(incomingId)
    /\ missed' = FALSE
    /\ UNCHANGED <<usedIds, detect>>

\* The answer of AT+CLCC, as records of an id and a stat
ClccIncoming(ok, list) ==
    LET waiting == {f \in list : f.stat = "incoming"} IN
    \/ /\ ok /\ waiting # {}
       /\ LET id == (CHOOSE f \in waiting : TRUE).id IN
          /\ usedIds' = (usedIds \ {incomingId}) \cup {id}
          /\ AnnounceCall(id)
       /\ UNCHANGED <<detect, missed>>
    \/ /\ ~ok
       /\ AnnounceCall(incomingId)
       /\ UNCHANGED <<usedIds, detect, missed>>
    \/ /\ ok /\ waiting = {}
       /\ Leave(Missed(Announced(incomingId)), usedIds)
       /\ incomingId' = 0 /\ typeKnown' = FALSE
       /\ detect' = FALSE /\ missed' = FALSE

-----------------------------------------------------------------------------
\* Answers to commands

Finish(cs) ==
    /\ Leave(cs, usedIds)
    /\ UNCHANGED <<incomingId, typeKnown, missed>>

Checked(stat) ==
    CASE stat = "dialing" -> "Dialing"
      [] stat = "held" -> "Hold"
      [] OTHER -> "Connected"

\* Mutant: a call that is still dialing is not asked for again
ClccDialCheckOnce(c, list) ==
    LET mine == {f \in list : f.id = c.id} IN
    IF mine = {} THEN SetState(calls, c.key, "Connected")
    ELSE SetState(calls, c.key, Checked((CHOOSE f \in mine : TRUE).stat))

\* Not found, or in a state that is not looked for: taken for connected
ClccDialCheck(c, list) ==
    LET mine == {f \in list : f.id = c.id}
        state == IF mine = {} THEN "Connected" ELSE Checked((CHOOSE f \in mine : TRUE).stat)
    IN  IF state = "Dialing"
        THEN [i \in DOMAIN calls |->
                 IF calls[i].key = c.key THEN [c EXCEPT !.poll = TRUE] ELSE calls[i]]
        ELSE SetState(calls, c.key, state)

\* The slot of a command, called on the call c that sent it; cs after it
SlotResult(slot, c, ok, list) ==
    CASE slot = "dialRequestDone" /\ c.state = "Dialing" /\ ~ok ->
             SetState(calls, c.key, "HangupLocal")
      [] slot = "clccDialCheck" /\ c.state = "Dialing" -> ClccDialCheck(c, list)
      [] slot = "acceptDone" /\ ~ok -> SetState(calls, c.key, "Missed")
      [] slot \in {"holdRequestDone", "activateMultipleRequestDone"} /\ ok -> Swap(calls)
      [] slot = "activateSingleRequestDone" /\ ok ->
             SetState(ChangeGroup(calls, "Connected", "Hold"), c.key, "Connected")
      [] slot = "joinRequestDone" /\ ok -> ChangeGroup(calls, "Hold", "Connected")
      [] slot = "detachRequestDone" /\ ok ->
             ChangeGroup(ChangeGroup(calls, "Connected", "HangupLocal"), "Hold", "HangupLocal")
      [] OTHER -> calls

\* dialRequestDone() asks for the state of the call
SlotCommands(slot, c, ok) ==
    IF slot = "dialRequestDone" /\ c.state = "Dialing" /\ ok
    THEN <<Command("CLCC", 0, "clccDialCheck", c.key)>>
    ELSE <<>>

Owner(command) == {calls[i] : i \in {j \in DOMAIN calls : calls[j].key = command.key}}

\* The head of the queue has its answer; the slot of a deleted call is not called
Answer(ok, list) ==
    LET command == Head(cmds) IN
    \/ /\ command.slot = "clccIncoming"
       /\ Done(<<>>)
       /\ ClccIncoming(ok, list)
    \/ /\ command.slot # "clccIncoming" /\ Owner(command) = {}
       /\ Done(<<>>)
       /\ UNCHANGED <<calls, usedIds, ring>>
    \/ \E c \in Owner(command) :
       /\ command.slot # "clccIncoming"
       /\ Done(SlotCommands(command.slot, c, ok))
       /\ detect' = (detect /\ ~(command.slot = "acceptDone" /\ ~ok))
       /\ Finish(SlotResult(command.slot, c, ok, list))

\* The timer of a call that is still dialing
DialCheck(c) ==
    /\ c.poll
    /\ calls' = [i \in DOMAIN calls |->
                    IF calls[i].key = c.key THEN [c EXCEPT !.poll = FALSE] ELSE calls[i]]
    /\ Chat(<<Command("CLCC", 0, "clccDialCheck", c.key)>>)
    /\ UNCHANGED <<usedIds, ring, hangup, line>>

-----------------------------------------------------------------------------
\* Lines of the modem

LineIs(kind) == line # <<>> /\ Head(line).kind = kind

ReadRing ==
    /\ LineIs("ring")
    /\ line' = Tail(line)
    /\ Ringing(Head(line).known)
    /\ UNCHANGED <<hangup, chat>>

ReadAnswer ==
    /\ LineIs("answer")
    /\ line' = Tail(line)
    /\ \/ /\ cmds # <<>>
          /\ Answer(Head(line).ok, Head(line).list)
       \/ /\ cmds = <<>>
          /\ UNCHANGED <<calls, usedIds, ring, chat>>
    /\ UNCHANGED hangup

\* NO CARRIER ends the command that is out if it is a call command; else it is
\* callNotification(), which hangupTimer may suppress, and hangupRemote(0)
ReadNoCarrier ==
    /\ LineIs("nocarrier")
    /\ line' = Tail(line)
    /\ LET terminator == cmds # <<>> /\ Head(cmds).at \notin {"CLCC", "CTFR"} IN
       \/ /\ terminator
          /\ Answer(FALSE, {})
          /\ UNCHANGED hangup
       \/ /\ ~terminator /\ hangup
          /\ UNCHANGED <<calls, usedIds, ring, hangup, chat>>
       \/ /\ ~terminator /\ ~hangup
          /\ Leave(ChangeGroup(calls, "Connected", "HangupRemote"), usedIds)
          /\ hangup' = TRUE
          /\ UNCHANGED <<ring, chat>>

=============================================================================
