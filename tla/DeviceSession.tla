---------------------------- MODULE DeviceSession ----------------------------
(***************************************************************************)
(* Applications that hold a session on the device (QCommDeviceSession),    *)
(* with the manager they talk to.  An application may die at any moment;   *)
(* settings (QCommDeviceController) switch the device behind their back.   *)
(***************************************************************************)
EXTENDS DeviceManager

CONSTANTS
    Clients,     \* the session objects of applications
    Controls,    \* what controllers ask for, event types
    MaxStarts    \* bound: calls of startSession()

ASSUME ControlsAssumption ==
    Controls \subseteq {"DEVICE_UP", "DEVICE_UP_TIMED", "DEVICE_UP_ONE_ITEM", "DEVICE_DOWN"}
ASSUME SessionBounds == MaxStarts \in Nat

VARIABLES
    sock,       \* client -> descriptor of its connection at the manager, or 0
    isOpen,     \* client -> m_isOpen
    inRequest,  \* client -> m_inRequest
    starts      \* what the bound counts

client == <<sock, isOpen, inRequest>>
vars == <<manager, device, sockets, client, starts>>

TypeOK ==
    /\ events \in Seq(Event) /\ posts \in Nat
    /\ sessions \subseteq Ids /\ conns \subseteq Ids
    /\ state \in States /\ server \in {"running", "spinning", "crashed"}
    /\ {timer, up, upRequest, before, plane, lost, reused, misnamed} \subseteq BOOLEAN
    /\ requests \in Seq({"up", "down"})
    /\ status \in Seq([to : {"up", "down"}, error : BOOLEAN])
    /\ peer \in [Ids -> {"none", "open", "closed"}]
    /\ toServer \in [Ids -> Seq({"SESSION_OPEN", "SESSION_CLOSE"})]
    /\ toClient \in [Ids -> Seq({"SESSION_STARTED", "SESSION_FAILED", "SESSION_CLOSED"})]
    /\ sock \in [Clients -> Ids \cup {0}]
    /\ isOpen \in [Clients -> BOOLEAN] /\ inRequest \in [Clients -> BOOLEAN]
    /\ troubles \in 0..MaxTroubles
    /\ starts \in 0..MaxStarts

Init ==
    /\ ManagerInit
    /\ sock = [c \in Clients |-> 0]
    /\ isOpen = [c \in Clients |-> FALSE]
    /\ inRequest = [c \in Clients |-> FALSE]
    /\ starts = 0

-----------------------------------------------------------------------------

\* startSession(): connects when there is no socket yet.  The connection is
\* accepted with the lowest free descriptor and added to m_conns
StartSession(c) ==
    /\ Running /\ starts < MaxStarts
    /\ ~isOpen[c] /\ ~inRequest[c]
    /\ starts' = starts + 1
    /\ inRequest' = [inRequest EXCEPT ![c] = TRUE]
    /\ \/ /\ sock[c] # 0
          /\ toServer' = [toServer EXCEPT ![sock[c]] = Append(@, "SESSION_OPEN")]
          /\ UNCHANGED <<sock, conns, peer, reused>>
       \/ /\ sock[c] = 0
          /\ LET free == Ids \ conns IN
             /\ free # {}
             /\ sock' = [sock EXCEPT ![c] = Min(free)]
             /\ conns' = conns \cup {Min(free)}
             /\ peer' = [peer EXCEPT ![Min(free)] = "open"]
             /\ toServer' = [toServer EXCEPT ![Min(free)] = <<"SESSION_OPEN">>]
             /\ reused' = (reused \/ \E i \in DOMAIN events : events[i].id = Min(free))
    /\ UNCHANGED <<manager, device, toClient, isOpen>>

\* endSession(): refused during a request; the socket is closed at once
EndSession(c) ==
    /\ Running /\ sock[c] # 0 /\ ~inRequest[c]
    /\ toServer' = [toServer EXCEPT ![sock[c]] = Append(@, "SESSION_CLOSE")]
    /\ peer' = [peer EXCEPT ![sock[c]] = "closed"]
    /\ isOpen' = [isOpen EXCEPT ![c] = FALSE]
    /\ sock' = [sock EXCEPT ![c] = 0]
    /\ UNCHANGED <<manager, device, conns, reused, toClient, inRequest, starts>>

\* The application dies, or deletes the session: the socket is closed
Dies(c) ==
    /\ Running /\ sock[c] # 0
    /\ peer' = [peer EXCEPT ![sock[c]] = "closed"]
    /\ sock' = [sock EXCEPT ![c] = 0]
    /\ isOpen' = [isOpen EXCEPT ![c] = FALSE]
    /\ inRequest' = [inRequest EXCEPT ![c] = FALSE]
    /\ UNCHANGED <<manager, device, conns, reused, toServer, toClient, starts>>

\* readyRead() of the application
SessionReadyRead(c) ==
    /\ Running /\ sock[c] # 0 /\ toClient[sock[c]] # <<>>
    /\ toClient' = [toClient EXCEPT ![sock[c]] = Tail(@)]
    /\ LET line == Head(toClient[sock[c]]) IN
       /\ isOpen' = [isOpen EXCEPT ![c] =
                        \/ line = "SESSION_STARTED"
                        \/ line = "SESSION_FAILED" /\ @]
       /\ inRequest' = [inRequest EXCEPT ![c] = line = "SESSION_CLOSED" /\ @]
       /\ IF line = "SESSION_CLOSED"
            THEN /\ sock' = [sock EXCEPT ![c] = 0]
                 /\ peer' = [peer EXCEPT ![sock[c]] = "closed"]
            ELSE UNCHANGED <<sock, peer>>
    /\ UNCHANGED <<manager, device, conns, reused, toServer, starts>>

\* A controller sends UP, UP_TIMED, UP_ONE_ITEM or DOWN
Controller ==
    /\ \E type \in Controls : Control(type)
    /\ UNCHANGED <<client, starts>>

Pendings ==
    \/ DoPendingEmpty \/ DoPreOpenSession \/ DoOpenSession \/ DoCloseSession
    \/ DoUp \/ DoDown
Statuses == SpuriousUp \/ UpStatus \/ DownStatus
Hardware == HardwareDone \/ HardwareFails
Lines == \E d \in Ids : ReadyRead(d) \/ StateChanged(d)

\* What goes on by itself: the event loops of the server and the
\* applications, and the device.  Nobody has to start or to end a session
Progress ==
    \/ (Pendings \/ Statuses \/ Hardware \/ Lines) /\ UNCHANGED <<client, starts>>
    \/ \E c \in Clients : SessionReadyRead(c)

Next ==
    \/ Progress
    \/ (Timeout \/ PlaneModeChanged) /\ UNCHANGED <<client, starts>>
    \/ \E c \in Clients : StartSession(c) \/ EndSession(c) \/ Dies(c)
    \/ Controller

Spec == Init /\ [][Next]_vars

FairSpec == Spec /\ WF_vars(Progress)
-----------------------------------------------------------------------------
\* Properties

\* The queue is always driven: while it holds events, a post, a request to
\* the device or a signal of it is on its way, unless doOpenSession() or
\* doCloseSession() returned without a post, or error() reported a failure as
\* that of the other request.  (doPending() and upStatus() have to post the
\* next step on every other way out.)
Driven ==
    Running /\ ~lost /\ ~misnamed /\ events # <<>> =>
        posts > 0 \/ requests # <<>> \/ status # <<>>

\* The second part of QueueInOrder.
\* "next event should be a session event" in upStatus(): the pseudo event
\* that brings the device up for a session is only ever at the head of the
\* queue, and the SESSION_OPEN it was made for is behind it
UpBeforeOpen ==
    \A i \in DOMAIN events : events[i].type = "DEVICE_UP_SESSION" =>
        i = 1 /\ Len(events) > 1 /\ events[2].type = "SESSION_OPEN"

\* The queue neither stops nor gets out of order, however posts, answers of
\* the device and new events fall together (doPending(), upStatus())
QueueInOrder == TypeOK /\ Driven /\ UpBeforeOpen

\* No session is leaked: a session whose connection is gone is about to be
\* closed, whatever was on its way when the application died
SessionsConnected ==
    Running => \A d \in sessions \ conns : \E i \in DOMAIN events :
        events[i] = Ev("SESSION_CLOSE", d)

\* A session is only held on a device that is up, or whose loss is about to
\* be told to every application by downStatus()
SessionHasDevice ==
    Running /\ sessions # {} =>
        up \/ \E i \in DOMAIN status : status[i].to = "down"

\* What the manager holds as a session is backed by an application and by the
\* device (doOpenSession(), stateChanged(), downStatus())
SessionsBacked == SessionsConnected /\ SessionHasDevice

\* An application that believes its session open has it at the manager, or
\* the line that tells it otherwise is on its way, unless a descriptor was
\* given to a new connection while events of the old one were in the queue
ClientKnows ==
    Running /\ ~reused => \A c \in Clients : isOpen[c] =>
        \/ sock[c] \in sessions
        \/ \E i \in DOMAIN toClient[sock[c]] : toClient[sock[c]][i] = "SESSION_CLOSED"

\* Every request for a session is answered, unless the queue was left
\* without a post, a failure was reported as another's, a descriptor was
\* reused too early or the server is lost
RequestAnswered ==
    \A c \in Clients :
        inRequest[c] ~> (~inRequest[c] \/ lost \/ misnamed \/ reused \/ ~Running)

\* downStatus() ends every session: "Look ahead and see if there are any
\* session_close events, remove them / then clear out the sessions" (here when
\* all of them still have their connection)
SessionsCleared == [][DownStatus /\ sessions \subseteq conns => sessions' = {}]_vars
=============================================================================
