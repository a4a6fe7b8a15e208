---------------------------- MODULE SystemSuspend ----------------------------
(***************************************************************************)
(* SystemSuspendPrivate (server/core_server/systemsuspend.cpp): the server *)
(* task that calls suspend() of its handlers from the last to the first,   *)
(* the first one putting the hardware to sleep, and then wake() from the   *)
(* first to the last.                                                      *)
(*                                                                         *)
(* A handler may answer later: ModemSuspend (systemsuspendtasks.cpp) sends *)
(* a message to the phone server and emits operationCompleted() for either *)
(* of its replies.  suspendSystem() then runs a nested event loop, from    *)
(* which it may be called again; `stack` holds its invocations, and all of *)
(* them share waitingOn and inputEvent.  Only the loops of the innermost   *)
(* invocation run.                                                         *)
(***************************************************************************)
EXTENDS Naturals, Sequences

CONSTANTS
    N,            \* the number of handlers
    Async,        \* the handlers that answer later
    MaxRequests,  \* bound: calls of suspendSystem() in a behaviour
    MaxInputs,    \* bound: input events in a behaviour
    Nested        \* suspendSystem() is also called while one is in progress

ASSUME HandlersAssumption == N \in Nat \ {0} /\ Async \subseteq 1..N
ASSUME BoundsAssumption == MaxRequests \in Nat /\ MaxInputs \in Nat
ASSUME NestedAssumption == Nested \in BOOLEAN

Handlers == 1..N
Phases   == {"suspend", "wake"}

\* An invocation of suspendSystem() is at handler `at` of one of its loops.
\* `seen` and `complete` are history: an input event came while it was
\* suspending, and the first handler has been suspended by it.
Invocation == [phase : Phases, at : 1..N + 1, waiting : BOOLEAN,
               seen : BOOLEAN, complete : BOOLEAN]

VARIABLES
    stack,       \* the invocations of suspendSystem(), the innermost first
    waitingOn,   \* the handler whose operationCompleted() is awaited, or 0
    inputEvent,  \* an input event was filtered
    toPeer,      \* messages to the peer of each handler that answers later
    replies,     \* replies of that peer that are not yet delivered
    asleep,      \* the handlers whose part of the system sleeps
    results,     \* history: what suspendSystem() returned
    budget       \* what is left of the bounds

vars == <<stack, waitingOn, inputEvent, toPeer, replies, asleep, results, budget>>

Top     == stack[1]
Running == stack # <<>> /\ ~Top.waiting

\* The event loop runs when no invocation does: it is then the outermost
\* one, or the one of a waiting invocation.
InEventLoop == ~Running

----------------------------------------------------------------------------
Init ==
    /\ stack = <<>> /\ waitingOn = 0 /\ inputEvent = FALSE
    /\ toPeer = [h \in Async |-> <<>>]
    /\ replies = [h \in Async |-> 0]
    /\ asleep = [h \in Handlers |-> FALSE]
    /\ results = <<>>
    /\ budget = [requests |-> MaxRequests, inputs |-> MaxInputs]

\* suspendSystem(), up to its loops: some handler's canSuspend() may refuse.
Refused ==
    /\ results' = Append(results, [ok |-> FALSE, complete |-> FALSE])
    /\ UNCHANGED <<stack, inputEvent>>

Started ==
    /\ stack' = <<[phase |-> "suspend", at |-> N, waiting |-> FALSE,
                   seen |-> FALSE, complete |-> FALSE]>> \o stack
    /\ inputEvent' = FALSE
    /\ UNCHANGED results

SuspendSystem ==
    /\ InEventLoop /\ budget.requests > 0
    /\ stack # <<>> => Nested
    /\ Refused \/ Started
    /\ budget' = [budget EXCEPT !.requests = @ - 1]
    /\ UNCHANGED <<waitingOn, toPeer, replies, asleep>>

\* Where an invocation goes from the handler it is at.
Upwards(f)  == [f EXCEPT !.waiting = FALSE, !.at = @ + 1]
FromWake(f) == [f EXCEPT !.waiting = FALSE, !.phase = "wake", !.at = 1]
FromFirst(f) == [FromWake(f) EXCEPT !.complete = TRUE]

Advanced(f) ==
    IF f.phase = "wake" THEN Upwards(f)
    ELSE IF f.at = 1 THEN FromFirst(f)
    ELSE [f EXCEPT !.waiting = FALSE, !.at = @ - 1]

\* The call of a handler's suspend() or wake(), which answers at once ...
CallSync ==
    /\ Running /\ Top.at \in Handlers \ Async
    /\ asleep' = [asleep EXCEPT ![Top.at] = (Top.phase = "suspend")]
    /\ waitingOn' = 0
    /\ stack' = [stack EXCEPT ![1] = Advanced(@)]
    /\ UNCHANGED <<inputEvent, toPeer, replies, results, budget>>

\* ... or sends a message to its peer and answers later.
AsksPeer ==
    /\ toPeer' = [toPeer EXCEPT ![Top.at] = Append(@, Top.phase)]
    /\ UNCHANGED <<inputEvent, replies, asleep, results, budget>>

CallWithoutWaiting ==
    /\ Running /\ Top.at \in Async
    /\ AsksPeer
    /\ waitingOn' = 0
    /\ stack' = [stack EXCEPT ![1] = Advanced(@)]
CallAsync ==
    /\ Running /\ Top.at \in Async
    /\ AsksPeer
    /\ waitingOn' = Top.at
    /\ stack' = [stack EXCEPT ![1].waiting = TRUE]

\* The wait is over when the event loop returns with nothing awaited; an
\* input event ends the suspending.
ContinueAnyway ==
    /\ stack # <<>> /\ Top.waiting /\ waitingOn = 0
    /\ stack' = [stack EXCEPT ![1] = Advanced(@)]
    /\ UNCHANGED <<waitingOn, inputEvent, toPeer, replies, asleep, results, budget>>
Continue ==
    /\ stack # <<>> /\ Top.waiting /\ waitingOn = 0
    /\ stack' = [stack EXCEPT ![1] =
                    IF @.phase = "suspend" /\ inputEvent THEN FromWake(@)
                    ELSE Advanced(@)]
    /\ UNCHANGED <<waitingOn, inputEvent, toPeer, replies, asleep, results, budget>>

\* systemActive(), and the return to whoever called.
Return ==
    /\ Running /\ Top.at = N + 1
    /\ results' = Append(results, [ok |-> TRUE, complete |-> Top.complete])
    /\ stack' = Tail(stack)
    /\ UNCHANGED <<waitingOn, inputEvent, toPeer, replies, asleep, budget>>

\* operationCompleted(), by whichever reply of the peer.
CompletedUnnoticed(h) ==
    /\ InEventLoop /\ replies[h] > 0
    /\ replies' = [replies EXCEPT ![h] = @ - 1]
    /\ UNCHANGED <<stack, waitingOn, inputEvent, toPeer, asleep, results, budget>>
OperationCompleted(h) ==
    /\ InEventLoop /\ replies[h] > 0
    /\ replies' = [replies EXCEPT ![h] = @ - 1]
    /\ waitingOn' = IF waitingOn = h THEN 0 ELSE waitingOn
    /\ UNCHANGED <<stack, inputEvent, toPeer, asleep, results, budget>>

\* filter(), qwsEventFilter()
Input ==
    /\ InEventLoop /\ budget.inputs > 0
    /\ inputEvent' = TRUE
    /\ stack' = [i \in DOMAIN stack |->
                    [stack[i] EXCEPT !.seen = @ \/ stack[i].phase = "suspend"]]
    /\ budget' = [budget EXCEPT !.inputs = @ - 1]
    /\ UNCHANGED <<waitingOn, toPeer, replies, asleep, results>>

\* QModemService::suspend() and wake(), in the phone server: the peer does
\* what it is told and replies.
PeerObeys(h) ==
    /\ toPeer[h] # <<>>
    /\ asleep' = [asleep EXCEPT ![h] = (Head(toPeer[h]) = "suspend")]
    /\ toPeer' = [toPeer EXCEPT ![h] = Tail(@)]
    /\ replies' = [replies EXCEPT ![h] = @ + 1]
    /\ UNCHANGED <<stack, waitingOn, inputEvent, results, budget>>

Next ==
    \/ SuspendSystem \/ CallSync \/ CallAsync \/ Continue \/ Return \/ Input
    \/ \E h \in Async : OperationCompleted(h) \/ PeerObeys(h)

Spec == Init /\ [][Next]_vars

\* The server runs, its event loop delivers what arrives, and the phone
\* server answers.
Fairness ==
    /\ WF_vars(CallSync) /\ WF_vars(CallAsync) /\ WF_vars(Continue)
    /\ WF_vars(Return)
    /\ \A h \in Async : WF_vars(OperationCompleted(h)) /\ WF_vars(PeerObeys(h))

FairSpec == Spec /\ Fairness

----------------------------------------------------------------------------
(* Correctness.                                                             *)

TypeOK ==
    /\ stack \in Seq(Invocation)
    /\ waitingOn \in 0..N
    /\ inputEvent \in BOOLEAN
    /\ toPeer \in [Async -> Seq(Phases)]
    /\ replies \in [Async -> Nat]
    /\ asleep \in [Handlers -> BOOLEAN]
    /\ results \in Seq([ok : BOOLEAN, complete : BOOLEAN])
    /\ budget \in [requests : 0..MaxRequests, inputs : 0..MaxInputs]

\* A handler is suspended when those behind it have completed their suspend,
\* so the hardware sleeps after everyone else.
SuspendInOrder ==
    Running /\ Top.phase = "suspend" =>
        \A h \in Handlers : h > Top.at => asleep[h]

\* A handler is woken when those before it are awake, and systemActive() is
\* emitted when all of them are.
WakeInOrder ==
    Running /\ Top.phase = "wake" =>
        \A h \in Handlers : h < Top.at => ~asleep[h]

\* The reply of the handler that is waited for is on its way: the nested
\* event loop is always left.
ReplyOnItsWay ==
    stack # <<>> /\ Top.waiting /\ waitingOn # 0 =>
        toPeer[waitingOn] # <<>> \/ replies[waitingOn] > 0

\* An input event while an invocation suspends its handlers aborts it.
InputAborts == Running /\ Top.phase = "suspend" => ~Top.seen

\* suspendSystem() returns true only when the system was suspended.
TrueMeansSuspended == \A k \in DOMAIN results : results[k].ok => results[k].complete

\* systemSuspending() is followed by systemWaking() and systemActive().
EverySuspendEnds == stack # <<>> ~> stack = <<>>
=============================================================================
