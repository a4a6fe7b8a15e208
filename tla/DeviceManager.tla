---------------------------- MODULE DeviceManager ----------------------------
(***************************************************************************)
(* The server's power manager of one communications device                 *)
(* (QAbstractCommDeviceManager) on top of the Bluetooth power service      *)
(* (BtPowerService): a queue of events, of which only the head is worked   *)
(* on, and zero timers that call doPending().  Applications reach it over  *)
(* UNIX sockets, one DeviceConnection each, identified by its descriptor;  *)
(* a descriptor is used again as soon as its connection is gone.           *)
(***************************************************************************)
EXTENDS Naturals, Sequences, FiniteSets, FiniteSetsExt

CONSTANTS
    Ids,          \* the descriptors connections of sessions get, naturals
    MaxTroubles   \* bound: failures of a request to the device, requests of
                  \* controllers and changes of plane mode, together

ASSUME IdsAssumption == Ids \subseteq Nat \ {0} /\ IsFiniteSet(Ids)
ASSUME BoundsAssumption == MaxTroubles \in Nat

VARIABLES
    events,     \* m_events
    posts,      \* zero timers that will call doPending()
    sessions,   \* m_sessions
    conns,      \* the keys of m_conns
    state,      \* m_state
    timer,      \* m_timer is active
    server,     \* "running", or the way the server process was lost
    up,         \* the device is powered
    requests,   \* requests to the device on their way
    status,     \* upStatus() and downStatus() signals queued to the manager
    upRequest,  \* BtPowerService: the last request was to bring it up
    before,     \* BtPowerService: the device was up before plane mode
    plane,      \* plane mode is on
    troubles,   \* what the bound counts
    peer,       \* descriptor -> the application's end: "none", "open", "closed"
    toServer, toClient, \* descriptor -> lines on their way
    lost,       \* history: events were left in the queue without a post
    reused,     \* history: a connection got a descriptor that events still name
    misnamed    \* history: the failure of a request was reported as the other's

manager == <<events, posts, sessions, state, timer, server, lost>>
device  == <<up, requests, status, upRequest, before, plane, troubles, misnamed>>
sockets == <<conns, peer, toServer, toClient, reused>>

DeviceUps == {"DEVICE_UP", "DEVICE_UP_TIMED", "DEVICE_UP_ONE_ITEM", "DEVICE_UP_SESSION"}
States == {"Off", "OnMinutes", "OnOneItem", "On"}
Event == [type : {"SESSION_PRE_OPEN", "SESSION_OPEN", "SESSION_CLOSE", "DEVICE_DOWN"}
                   \cup DeviceUps,
          id : Ids \cup {0}]

Ev(type, id) == [type |-> type, id |-> id]
Running == server = "running"

ManagerInit ==
    /\ events = <<>> /\ posts = 0 /\ sessions = {} /\ conns = {}
    /\ state = "Off" /\ timer = FALSE /\ server = "running" /\ lost = FALSE /\ reused = FALSE
    /\ up = FALSE /\ requests = <<>> /\ status = <<>>
    /\ upRequest = FALSE
    /\ plane \in BOOLEAN /\ before \in {FALSE, plane}
    /\ troubles = 0 /\ misnamed = FALSE
    /\ peer = [d \in Ids |-> "none"]
    /\ toServer = [d \in Ids |-> <<>>]
    /\ toClient = [d \in Ids |-> <<>>]

-----------------------------------------------------------------------------
\* What handlers share

\* A line written to the applications of D; it goes nowhere when they are gone
Tell(D, line) ==
    toClient' = [d \in Ids |-> IF d \in D /\ peer[d] = "open"
                                 THEN Append(toClient[d], line) ELSE toClient[d]]

\* enqueue, and a post when the queue was empty
Enqueue(event) ==
    /\ events' = Append(events, event)
    /\ posts' = IF events = <<>> THEN posts + 1 ELSE posts

UpState(type) ==
    CASE type = "DEVICE_UP_TIMED" -> "OnMinutes"
      [] type \in {"DEVICE_UP_ONE_ITEM", "DEVICE_UP_SESSION"} -> "OnOneItem"
      [] OTHER -> "On"

\* BtPowerService::bringUp() and bringDown(): a request is on its way, or it
\* could not be queued and the manager is told of the failure
Ask(kind) ==
    /\ requests' = Append(requests, kind)
    /\ upRequest' = (kind = "up")
    /\ UNCHANGED status

BtRequest(kind) ==
    \/ /\ Ask(kind)
       /\ UNCHANGED troubles
    \/ /\ troubles < MaxTroubles
       /\ troubles' = troubles + 1
       /\ upRequest' = (kind = "up")
       /\ status' = Append(status, [to |-> kind, error |-> TRUE])
       /\ UNCHANGED requests

-----------------------------------------------------------------------------
\* doPending(), by the event at the head of the queue

HeadIs(types) == events # <<>> /\ Head(events).type \in types
Pending(types) == Running /\ posts > 0 /\ HeadIs(types)

\* Nothing to do
DoPendingEmpty ==
    /\ Running /\ posts > 0 /\ events = <<>>
    /\ posts' = posts - 1
    /\ UNCHANGED <<events, sessions, state, timer, server, lost, device, sockets>>

\* Mutant: the events made for a session go to the end of the queue
OpenBehindTheQueue ==
    /\ Pending({"SESSION_PRE_OPEN"})
    /\ events' = Tail(events) \o (IF up THEN <<>> ELSE <<Ev("DEVICE_UP_SESSION", 0)>>)
                   \o <<Ev("SESSION_OPEN", Head(events).id)>>
    /\ UNCHANGED <<posts, sessions, state, timer, server, lost, device, sockets>>

\* An application asks for a session
DoPreOpenSession ==
    /\ Pending({"SESSION_PRE_OPEN"})
    /\ LET id == Head(events).id IN
       \/ /\ id \notin conns
          /\ events' = Tail(events)
          /\ UNCHANGED toClient
       \/ /\ id \in conns /\ plane
          /\ events' = Tail(events)
          /\ Tell({id}, "SESSION_FAILED")
       \/ /\ id \in conns /\ ~plane
          /\ events' = (IF up THEN <<>> ELSE <<Ev("DEVICE_UP_SESSION", 0)>>)
                         \o <<Ev("SESSION_OPEN", id)>> \o Tail(events)
          /\ UNCHANGED toClient
    /\ UNCHANGED <<posts, sessions, state, timer, server, lost, device,
                   conns, peer, toServer, reused>>

\* The two early returns that post nothing for the events behind
LeaveQueue ==
    /\ posts' = posts - 1
    /\ lost' = (lost \/ (posts = 1 /\ Len(events) > 1))

DoOpenSession ==
    /\ Pending({"SESSION_OPEN"})
    /\ events' = Tail(events)
    /\ LET id == Head(events).id IN
       \/ /\ id \notin conns
          /\ LeaveQueue
          /\ UNCHANGED <<sessions, toClient>>
       \/ /\ id \in conns
          /\ sessions' = sessions \cup {id}
          /\ Tell({id}, "SESSION_STARTED")
          /\ UNCHANGED <<posts, lost>>
    /\ UNCHANGED <<state, timer, server, device, conns, peer, toServer, reused>>

DoCloseSession ==
    /\ Pending({"SESSION_CLOSE"})
    /\ sessions' = sessions \ {Head(events).id}
    /\ LET rest == Tail(events)
           last == /\ sessions' = {}
                   /\ \/ state \in {"Off", "OnOneItem"}
                      \/ state = "OnMinutes" /\ ~timer IN
       \/ /\ Head(events).id \notin sessions
          /\ events' = rest
          /\ LeaveQueue
       \/ /\ Head(events).id \in sessions /\ ~last
          /\ events' = rest
          /\ UNCHANGED <<posts, lost>>
       \/ /\ Head(events).id \in sessions /\ last
          /\ events' = Append(rest, Ev("DEVICE_DOWN", 0))
          /\ posts' = IF rest = <<>> THEN posts + 1 ELSE posts
          /\ UNCHANGED lost
    /\ UNCHANGED <<state, timer, server, device, sockets>>

\* doBringUp(), doBringUpTimed(), doBringUpOneItem() and doUp()
DoUp ==
    /\ Pending(DeviceUps)
    /\ LET type == Head(events).type IN
       /\ timer' = (type = "DEVICE_UP_TIMED" \/ (type = "DEVICE_UP_SESSION" /\ timer))
       /\ \/ /\ up
             /\ events' = Tail(events)
             /\ state' = UpState(type)
             /\ UNCHANGED <<posts, requests, status, upRequest, troubles>>
          \/ /\ ~up
             /\ BtRequest("up")
             /\ posts' = posts - 1
             /\ UNCHANGED <<events, state>>
    /\ UNCHANGED <<sessions, server, lost, up, before, plane, misnamed, sockets>>

\* doBringDown() and doDown(); shouldBringDown() of Bluetooth always agrees
DoDown ==
    /\ Pending({"DEVICE_DOWN"})
    /\ timer' = FALSE
    /\ \/ /\ ~up
          /\ events' = Tail(events)
          /\ UNCHANGED <<posts, requests, status, upRequest, troubles>>
       \/ /\ up
          /\ BtRequest("down")
          /\ posts' = posts - 1
          /\ UNCHANGED events
    /\ UNCHANGED <<sessions, state, server, lost, up, before, plane, misnamed, sockets>>

-----------------------------------------------------------------------------
\* Signals of the hardware, delivered in the order they were emitted

StatusIs(to) == Running /\ status # <<>> /\ Head(status).to = to

\* upStatus() while no request to bring the device up is at the head
SpuriousUp ==
    /\ StatusIs("up")
    /\ ~HeadIs(DeviceUps)
    /\ status' = Tail(status)
    /\ state' = "On"
    /\ UNCHANGED <<events, posts, sessions, timer, server, lost, sockets,
                   up, requests, upRequest, before, plane, troubles, misnamed>>

\* Mutant: an application whose session cannot have its device is not told
UpStatusUnreported ==
    /\ StatusIs("up") /\ HeadIs(DeviceUps)
    /\ status' = Tail(status)
    /\ posts' = posts + 1
    /\ LET type == Head(events).type
           behind == type = "DEVICE_UP_SESSION" /\ Len(events) > 1 IN
       \/ /\ ~Head(status).error
          /\ events' = Tail(events) /\ state' = UpState(type)
       \/ /\ Head(status).error
          /\ events' = IF behind THEN Tail(Tail(events)) ELSE Tail(events)
          /\ UNCHANGED state
    /\ UNCHANGED <<sessions, timer, server, lost, sockets,
                   up, requests, upRequest, before, plane, troubles, misnamed>>

\* upStatus() for the head.  When a session could not have its device, the
\* next event is taken off too and its application is told; the connection
\* is looked up without a check
UpStatus ==
    /\ StatusIs("up")
    /\ HeadIs(DeviceUps)
    /\ status' = Tail(status)
    /\ LET type == Head(events).type
           error == Head(status).error
           rest == Tail(events) IN
       \/ /\ ~error
          /\ events' = rest /\ posts' = posts + 1
          /\ state' = UpState(type)
          /\ UNCHANGED <<server, toClient>>
       \/ /\ error /\ type # "DEVICE_UP_SESSION"
          /\ events' = rest /\ posts' = posts + 1
          /\ UNCHANGED <<state, server, toClient>>
       \/ /\ error /\ type = "DEVICE_UP_SESSION" /\ rest = <<>>
          /\ events' = rest
          /\ UNCHANGED <<posts, state, server, toClient>>
       \/ /\ error /\ type = "DEVICE_UP_SESSION" /\ rest # <<>>
          /\ events' = Tail(rest) /\ posts' = posts + 1
          /\ server' = IF Head(rest).id \in conns THEN server ELSE "crashed"
          /\ Tell({Head(rest).id} \cap conns, "SESSION_FAILED")
          /\ UNCHANGED state
    /\ UNCHANGED <<sessions, timer, lost, conns, peer, toServer, reused,
                   up, requests, upRequest, before, plane, troubles, misnamed>>

\* Mutant: the sessions are dropped without a line to their applications
CloseSessionsSilently(q) ==
    /\ events' = SelectSeq(q, LAMBDA e : e.type # "SESSION_CLOSE")
    /\ sessions' = {}
    /\ UNCHANGED <<server, toClient>>

\* closeAllSessions() with the queue q: every session's application is told,
\* again without a check of the look-up; the loop that takes the SESSION_CLOSE
\* events out of the queue does not advance past any other event
CloseAllSessions(q) ==
    /\ Tell(sessions \cap conns, "SESSION_CLOSED")
    /\ LET others == {i \in DOMAIN q : q[i].type # "SESSION_CLOSE"} IN
       \/ /\ ~(sessions \subseteq conns)
          /\ server' = "crashed"
          /\ events' = q /\ UNCHANGED sessions
       \/ /\ sessions \subseteq conns /\ others # {}
          /\ server' = "spinning"
          /\ events' = q /\ UNCHANGED sessions
       \/ /\ sessions \subseteq conns /\ others = {}
          /\ events' = <<>> /\ sessions' = {}
          /\ UNCHANGED server

\* downStatus(): for the head, or spurious
DownStatus ==
    /\ StatusIs("down")
    /\ status' = Tail(status)
    /\ state' = "Off"
    /\ \/ /\ ~HeadIs({"DEVICE_DOWN"})
          /\ CloseAllSessions(events)
          /\ UNCHANGED posts
       \/ /\ HeadIs({"DEVICE_DOWN"})
          /\ CloseAllSessions(Tail(events))
          /\ posts' = posts + 1
    /\ UNCHANGED <<timer, lost, conns, peer, toServer, reused,
                   up, requests, upRequest, before, plane, troubles, misnamed>>

\* timeout() of m_timer
Timeout ==
    /\ Running /\ timer
    /\ timer' = FALSE
    /\ \/ /\ state # "OnMinutes" \/ events # <<>>
          /\ UNCHANGED <<events, posts, state>>
       \/ /\ state = "OnMinutes" /\ events = <<>> /\ sessions # {}
          /\ state' = "OnOneItem"
          /\ UNCHANGED <<events, posts>>
       \/ /\ state = "OnMinutes" /\ events = <<>> /\ sessions = {}
          /\ Enqueue(Ev("DEVICE_DOWN", 0))
          /\ UNCHANGED state
    /\ UNCHANGED <<sessions, server, lost, device, sockets>>

-----------------------------------------------------------------------------
\* The device: it answers requests in order, a change of its state is
\* signalled, a request that changes nothing is not

HardwareDone ==
    /\ Running /\ requests # <<>>
    /\ requests' = Tail(requests)
    /\ up' = (Head(requests) = "up")
    /\ status' = IF up' = up THEN status
                 ELSE Append(status, [to |-> Head(requests), error |-> FALSE])
    /\ UNCHANGED <<manager, sockets, upRequest, before, plane, troubles, misnamed>>

\* BtPowerService::error() names the signal by the last request made
HardwareFails ==
    /\ Running /\ requests # <<>> /\ troubles < MaxTroubles
    /\ troubles' = troubles + 1
    /\ requests' = Tail(requests)
    /\ status' = Append(status, [to |-> IF upRequest THEN "up" ELSE "down",
                                 error |-> TRUE])
    /\ misnamed' = (misnamed \/ upRequest # (Head(requests) = "up"))
    /\ UNCHANGED <<manager, sockets, up, upRequest, before, plane>>

\* planeModeChanged() acts on the device behind the manager's queue
PlaneModeChanged ==
    /\ Running /\ troubles < MaxTroubles
    /\ troubles' = troubles + 1
    /\ plane' = ~plane
    /\ before' = IF plane' THEN up ELSE before
    /\ IF plane' THEN Ask("down")
       ELSE IF before THEN Ask("up")
       ELSE UNCHANGED <<requests, status, upRequest>>
    /\ UNCHANGED <<manager, sockets, up, misnamed>>

-----------------------------------------------------------------------------
\* DeviceConnection: lines and the end of a connection

\* readyRead() of a session's connection: close is ignored unless it is open
ReadyRead(d) ==
    /\ Running /\ d \in conns /\ toServer[d] # <<>>
    /\ toServer' = [toServer EXCEPT ![d] = Tail(@)]
    /\ LET line == Head(toServer[d]) IN
       \/ line = "SESSION_OPEN" /\ Enqueue(Ev("SESSION_PRE_OPEN", d))
       \/ line = "SESSION_CLOSE" /\ d \in sessions /\ Enqueue(Ev("SESSION_CLOSE", d))
       \/ line = "SESSION_CLOSE" /\ d \notin sessions /\ UNCHANGED <<events, posts>>
    /\ UNCHANGED <<sessions, state, timer, server, lost, device, conns, peer, toClient, reused>>

\* Mutant: a connection that ends does not close its session
StateChangedOnly(d) ==
    /\ Running /\ d \in conns /\ peer[d] = "closed" /\ toServer[d] = <<>>
    /\ conns' = conns \ {d}
    /\ peer' = [peer EXCEPT ![d] = "none"]
    /\ toClient' = [toClient EXCEPT ![d] = <<>>]
    /\ UNCHANGED <<manager, device, toServer, reused>>

\* stateChanged() when the application's end is closed and all lines are read
StateChanged(d) ==
    /\ Running /\ d \in conns /\ peer[d] = "closed" /\ toServer[d] = <<>>
    /\ \/ d \in sessions /\ Enqueue(Ev("SESSION_CLOSE", d))
       \/ d \notin sessions /\ UNCHANGED <<events, posts>>
    /\ conns' = conns \ {d}
    /\ peer' = [peer EXCEPT ![d] = "none"]
    /\ toClient' = [toClient EXCEPT ![d] = <<>>]
    /\ UNCHANGED <<sessions, state, timer, server, lost, device, toServer, reused>>

\* Lines of a QCommDeviceController, whose connection stays open
Control(type) ==
    /\ Running /\ troubles < MaxTroubles
    /\ troubles' = troubles + 1
    /\ Enqueue(Ev(type, 0))
    /\ UNCHANGED <<sessions, state, timer, server, lost, sockets,
                   up, requests, status, upRequest, before, plane, misnamed>>
=============================================================================
