# Verification of the Qtopia phone core

TLA+ models, TLC runs and TLAPS proofs for the telephony, power and device core
of this repository (Qtopia for the Neo phones). Source paths below are relative to
`src/src/`. `PROJECT.json` lists the runs, the mutants that show each property
can fail, the lines every definition translates, the hazards and the findings.

Contents: [the system](#the-system), [the modules](#the-modules),
[the runs](#the-runs), [the proofs](#the-proofs), [findings](#findings),
[what is not modelled](#what-is-not-modelled), [plan](#plan).

## The system

A phone is a set of processes around a *server* (`server/`), which owns the
screen, starts applications, watches power and suspends the machine. The *phone
server* (`QModemService` and the providers beside it) talks to the modem. Other
processes, the message server among them, use the telephony libraries as
clients: a call of `QSMSReader` or `QPhoneCallManager` is a message to the phone
server, whose answers come back as signals. Inside a process everything runs in
one event loop, so a slot is atomic; what makes the code hard is that every
answer comes later, in another slot, and that much may have happened by then.

| Component | State | Operations | Talks to |
|---|---|---|---|
| AT chat (`libraries/qtopiacomm/serial/qatchat.cpp`) | queue of commands, dead and retry timers, wakeup, lines expected | `chat`, `abortDial`, `suspend`, `resume`, slots of timers and device | the modem by a serial device; clients by `done()` |
| SMS sender (`libraries/qtopiaphonemodem/qmodemsmssender.cpp`) | queue of messages, retries, timer | `send`, `smsReady`, `transmitDone`, timeouts | AT chat; modem service by posted items |
| SMS reader (`.../qmodemsmsreader.cpp`) | cached list, pseudo inbox, flags of the listing under way | `check`, `firstMessage`, `nextMessage`, `deleteMessage`, `newMessageArrived`, AT slots | AT chat; SMS client |
| SMS client (`tools/messageserver/smsclient.cpp`) | retrieval in progress, identifiers on the SIM | `checkForNewMessages`, `deleteImmediately`, slots for the reader's signals | SMS reader; mail store |
| Modem service (`.../qmodemservice.cpp`) | posted items, SMS retry count | `post`, `needSms`, `suspend`, `wake`, `reset` | every provider, the server |
| System suspend (`server/core_server/systemsuspend.cpp`) | handlers, `waitingOn`, `inputEvent` | `suspendSystem`, `operationCompleted`, input filter | handlers; `ModemSuspend` asks the phone server |
| Modem calls (`.../qmodemcall.cpp`, `.../qmodemcallprovider.cpp`) | calls with state and modem identifier, the incoming call being gathered, three timers | `dial`, `hangup`, `accept`, `hold`, `activate`, `join`, `transfer`; slots of commands, timers and RING, +CRING, +CLIP, +CCWA, NO CARRIER | AT chat; clients by `QPhoneCallProvider` |
| PIN manager (`.../qmodempinmanager.cpp`) | pins wanted, cached PIN | query, verify | AT chat, SIM users |
| GSM 07.10 multiplexer (`.../qgsm0710multiplexer.cpp`) | channels, timers | open, close, frames | serial device, AT chats |
| Application launcher (`server/core_server/applicationlauncher.cpp`, `server/processctrl/quickexe/`) | who runs what, what is starting, processes by application, the pool of quicklaunchers | `launch`, `kill`, `handleStateChange`, `terminated`, ends of processes, `available` | processes; the QCop router |
| QCop router (`server/core_server/qcoprouter.cpp`) | routes by application, the message being routed | `routeMessage`, `addRoute`, `remRoute` | launcher; applications by a file and a prod |
| Applications (`libraries/qtopia/qtopiaapplication.cpp`, `tools/quicklauncher/`) | name, channels, queue of messages | `initApp`, `processQCopFile`, `exec`, `dotpidMessage`, `QuickLauncher::message` | the server by QCop (`libraries/qtopiabase/qcopchannel_x11.cpp`) |
| Device managers (`server/comm/session/`, `server/bluetooth/powermgr/`) | queue of events, sessions, connections, timer, state | lines of applications, `bringUp`, `bringDown`, `upStatus`, `downStatus`, `doPending` | applications by local sockets; the device |
| Device sessions (`libraries/qtopiacomm/qcommdevice*.cpp`) | open, in request, socket | `startSession`, `endSession`, `readyRead` | the device manager |

`PROJECT.json` names the rest. What is hard, and what correct means:

* **AT chat.** Slots called from `done()` queue commands re-entrantly; five
  timers and posted calls interfere; the line is shared with unsolicited
  notifications; another user may take or close the device. Correct: one command
  out at a time; each ended once and in order; none forgotten at the head or
  left unwatched; answers go to the command they were sent for.
* **SMS sender.** Waits for a service that may never be ready, retries a first
  fragment by a posted call, shares "needsms"/"smsready" with the reader.
  Correct: one fragment out; each `send()` gets one `finished()` in order; "ok"
  means taken whole; a repeat only when an answer was lost.
* **SMS reader and client.** Listing, deletion and arrival overlap, and the
  client acts on signals that are already out of date. Correct: the store is
  listed once at a time, the cache lacks nothing unless a notification is on its
  way, every message is delivered once and deleted only afterwards.
* **System suspend.** A nested event loop in the middle of a sequence of
  handlers. Correct: suspended from the last to the first, woken in the other
  order, the loop is left, user input aborts the suspending.
* **Modem calls.** The provider keeps its own idea of every call: a command
  answers OK or ERROR and says nothing of what it changed, an incoming call is
  known by repeated lines only, its identifier is a guess, its end is a silence.
  Correct: what is shown is what the modem has, once nothing is under way; every
  caller is announced, once, and stops ringing; a dialed call gets somewhere; no
  identifier leaks.
* **Device sessions.** A session is asked for in one process, queued in another
  and granted several asynchronous steps later; applications die and the device
  goes down in between; descriptors serve as names and are used again. Correct:
  the queue never stands still, a session is backed by an application and by a
  device that is up, an application knows when it has lost it, and every request
  is answered.
* **Applications.** Whoever wants something of an application sends it a message,
  which starts it when it must. The message goes into a file; the process is
  prodded, may not be reachable yet, reads the file at several moments of its
  start, and may be a pooled process that turns into the application. Exits,
  crashes and kills come in between. Correct: one process per application, tables
  of the server that agree, an application shown as running when it can be
  reached, and every message acted upon once and in order.

## The modules

| Module | Models | Shape |
|---|---|---|
| `CommandService` | what a serial queue promises its clients: numbered in order of request, one out at a time, ended once and in order | abstract specification |
| `AtChat` | QAtChat with its line and a modem | refines `CommandService` |
| `SmsSender` | QModemSMSSender with the posted items and `needSms` of QModemService | uses the AT queue as `CommandService` describes it; refines `CommandService` itself |
| `SmsReader` | QModemSMSReader and a SIM | a component without client |
| `SmsInbox` | SmsClient and the mailbox, EXTENDS `SmsReader` | composition over two message queues |
| `SystemSuspend` | SystemSuspendPrivate, ModemSuspend and its peer | complete by itself |
| `ModemCalls` | QModemCallProvider, QModemCall and the commands they have in the AT chat | a component without user or modem |
| `CallNetwork` | a user, the modem's own calls and the network, EXTENDS `ModemCalls` | composition; the modem's calls are what the shown ones are compared with |
| `DeviceManager` | QAbstractCommDeviceManager with BtPowerService and the device | a component without applications |
| `DeviceSession` | QCommDeviceSession in applications, controllers, EXTENDS `DeviceManager` | composition over local sockets |
| `AppLauncher` | ApplicationLauncher, ExeApplicationLauncher, SimpleExe- and QuickExeApplicationLauncher, QCopRouter | operators on the server's record |
| `AppProcesses` | the processes (QtopiaApplication, QuickLauncher) and the QCop connections, EXTENDS `AppLauncher` | composition |
| `AtChat_proofs`, `SmsSender_proofs`, `SmsInbox_proofs`, `SystemSuspend_proofs`, `CallNetwork_proofs`, `DeviceSession_proofs`, `AppProcesses_proofs` | theorems | EXTENDS the component and TLAPS |
| `CallNetworkShown_proofs` | a further theorem | EXTENDS `CallNetwork_proofs` |
| `MCAtChat`, `MCSmsSender`, `MCSmsInbox`, `MCSystemSuspend`, `MCCallNetwork`, `MCDeviceSession`, `MCAppProcesses` | instances for TLC | |

Conventions. A class's private data is one record (`chat`, `sender`, `reader`).
Its member functions are operators from such a record to the next one, because
they call each other; the *actions* are its slots and the calls of its clients.
An action is a whole slot with everything it calls. An operator just before a
definition, with the same parameters and a telling name (`PrimeNever`,
`LinkFirst`, `JoinAndList`), is the definition with a plausible bug; it is used
only to show that a property notices.

### AtChat

| TLA+ | Code |
|---|---|
| `chat.queue`, `queued`, `ended` | `QAtChatPrivate::first..last`; history of ends |
| `deadTimer`, `retryTimer`, `wakeupInProgress`, `lineIdle` | the timers; `lineIdle` is `lastSendTime.elapsed() >= wakeupTime` |
| `wakeupShots`, `failShots` | single-shot timers that cannot be cancelled |
| `lastNotification`, `requestor`, `partial` | next line is a notification's PDU; `requestNextLine()`; an unread `> ` in the buffer |
| `Enqueue`, `Prime`, `PrimeIfNecessary`, `Done` | `queue()`, `prime()`, `primeIfNecessary()`, `done()` |
| `ProcessLine`, `ReadLine` | `processLine()`, `incoming()` |
| `Chat`, `Incoming`, `AbortDial`, `Suspend`, `Resume` | `chat()`, the device's `readyRead()`, `abortDial()`, `suspend()`, `resume()` |
| `Timeout`, `FailNext` | `timeout()` and one round of its loop, which client slots may prolong |
| `RetryTimeout`, `FailCommand`, `WakeupFinished` | the slots of those names |
| `Modem...`, `DeviceClosed`, `LineIdle` | the modem, the device and time |

Lines are abstracted to the type `QPrefixMatcher` gives them and the command
that caused them; commands to four kinds: plain, dial, with a PDU, and without a
response. A slot that queues another command is the parameter `slot`. Lines the
modem sends together, a header and its PDU, stay together.

### SmsSender

The AT chat is the sequence `at` of commands not yet ended; `AtAnswer` ends its
head, in either way, which is what `AtChat` shows of the queue. `sizes` are the
fragments `QSMSMessage::split()` yields. `service.posting` is the list
`postItems()` works through while everything else waits. An answer may be lost:
the modem has taken the fragment and the sender sees a failure (`MaxLost`).

### SmsReader and SmsInbox

| TLA+ | Code |
|---|---|
| `reader.pending`, `pendingPosn`, `haveCached`, `fetching`, `pendingCheck`, `pendingFirstMessage`, `needRefetch`, `initializing`, `pseudoInbox` | the fields of `QModemSMSReaderPrivate` |
| `reader.used`, `total`, `ready` | values in the value space, read by the client at once |
| `reader.at`, `reader.out` | its commands on the AT chat; its signals that the client has not seen |
| `reader.dispatched`, `overtaken` | history: datagrams handed to services; a deletion had to wait behind an AT+CMGL |
| `modem.sim`, `modem.answer`, `rx` | the SIM; the answer being prepared; lines not read |
| `client`, `requests` | `SmsClient`; its calls under way to the reader |

The modem computes an answer in one step and sends it in another, so a message
that arrives between them is announced before a list that lacks it. Identifiers
are a place and the message's date, here its number, as in the code; a place is
used again once it is free. The initial state is the one after `resetModem()`.

### SystemSuspend

`stack` holds the invocations of `suspendSystem()`, for it may be called again
from its own event loop; each has the loop and handler it is at. All share
`waitingOn` and `inputEvent`. `CallSync`, `CallAsync`, `Continue` and `Return` are
the parts of an invocation between visits to the event loop. A handler in `Async`
sends a message to a peer (QModemService) and gets a reply later. With
`Nested = FALSE` calls come one after the other.

### ModemCalls and CallNetwork

| TLA+ | Code |
|---|---|
| `calls`: `key`, `state`, `id`, `poll` | `QPhoneCallProvider::calls()`: the object, `state()`, `modemIdentifier()`, a single-shot `dialCheck()` is pending |
| `usedIds`, `incomingId`, `typeKnown` | `usedIds`, `incomingModemIdentifier`, `!incomingCallType.isEmpty()` |
| `detect`, `missed`, `hangup` | the three timers are active |
| `cmds`, `wire`, `line` | the chat's queue; commands and lines under way |
| `ChangeGroup`, `HasGroup`, `ActivateWaitingOrHeld`, `Swap` | `changeGroup()`, `hasGroup()`, `activateWaitingOrHeld()`, the swap by way of `State(-1)` |
| `HangupCall` ... `Transfer`, `Dial`, `Accept`, `Hold`, `Activate...`, `Join`, `Detach` | the branches of `hangup()`, and the functions of those names; `Detach` is `join(true)` |
| `Ringing`, `DetectTimeout`, `MissedTimeout`, `ClccIncoming`, `AnnounceCall` | the functions of those names |
| `SlotResult`, `SlotCommands` | the `...Done(bool)` slots and `clccDialCheck()` |
| `ReadNoCarrier` | the TerminatorOrNotification case of `processLine()`, and `callNotification()` |

A call that is over is deleted at the end of the handler, though `deleteLater()`
waits for the event loop: nothing runs in between, and the slots of a deleted
call are not called. (The state -1 of a swap compares as a signed number and is
no end state: the build gives the enumeration an int.) The answer of AT+CLCC is
a set of records of identifier and stat. `abortDial()` writes CR to a dial that
is out; its effect is a refused ATD, which the modem may give at any time.
`far` is what the modem has: the properties compare it with `calls`. `adrift`
becomes TRUE when something happens before the last thing was settled, or the
provider is not told of something: from there nothing new happens, what is under
way is played out, and `ShownAsIs` promises nothing. `overtaken` does the same
for the gathering of an incoming call. The modem has 32 identifiers, as the
provider assumes: with all in use (`Room`) no caller reaches it and it refuses
ATD. `nextModemIdentifier()` gives 0 then, which no call of the modem has and
which `IdsAccounted` does not count.

### DeviceManager and DeviceSession

| TLA+ | Code |
|---|---|
| `events`, `posts` | `m_events`; posted calls of `doPending()`, of which there may be more than one |
| `sessions`, `conns` | `m_openSessions`, the connections by descriptor |
| `state`, `timer` | `m_state`, `m_timer` is active |
| `up`, `requests`, `status`, `upRequest`, `before`, `plane` | `isUp()`, requests the hardware has, signals it has sent, the fields of BtPowerService |
| `peer`, `toServer`, `toClient` | a connection and the lines in it, both ways |
| `sock`, `isOpen`, `inRequest` | the fields of `QCommDeviceSession_Private` |
| `DoPendingEmpty`, `DoPreOpenSession`, `DoOpenSession`, `DoCloseSession`, `DoUp`, `DoDown` | `doPending()` by the head of the queue |
| `SpuriousUp`, `UpStatus`, `DownStatus`, `CloseAllSessions` | `upStatus()`, `downStatus()`, `closeAllSessions()` |
| `HardwareDone`, `HardwareFails`, `PlaneModeChanged` | slots of BtPowerService |
| `StartSession`, `EndSession`, `Dies`, `SessionReadyRead` | the application's side |

`server` says whether the server runs, spins in a loop or has crashed (an
unchecked look-up of a dead connection in `closeAllSessions()` or `upStatus()`);
everything stops with it. Descriptors are a small set and the lowest free one is
given to the next connection. `reused` notes that a descriptor was given out
while events of its last owner were queued, `lost` that an event was left behind
without a post (the early returns of `doOpenSession()`, `doCloseSession()`), and
`misnamed` that `error()` reported the failure of a request as that of the other:
it goes by what was asked for last (`upRequest`), which the end of plane mode may
have changed since (`btpowerservice.cpp:221-229`). The plane mode is free at the
start, which is the device turned off: the request that the constructor of
BtPowerService makes for this (`bringDown()`, `btpowerservice.cpp:129`) has been
obeyed by then.

### AppLauncher and AppProcesses

| TLA+ | Code |
|---|---|
| `running`, `busy` | `m_runningApps`, `busyApps` |
| `entries`, `routes` | `m_runningProcesses` of each type launcher, `m_routes` |
| `pool`, `shots` | `mQlProcesses` with `mReady`; pending single shots of `startNewQuicklauncher()` |
| `spawned`, `files`, `out` | processes started so far; the `qcop-msg` files; what the server has sent |
| `phase`, `name`, `queue` | where a process is in its `main()`; `d->appName`; `qcopq` |
| `channels`, `wire`, `inbox` | the QCop server's map of clients; packets under way, to and from the server |
| `RouteMessage`, `AddRoute`, `RemRoute`, `RouteTo` | `QCopRouter`, and `ExeApplicationLauncher::routeMessage()` |
| `Launch`, `Kill`, `HandleStateChange`, `Terminated` | `ApplicationLauncher` |
| `SimpleLaunch`, `QuickLaunch`, `Available`, `AppGone` | the type launchers; `AppGone` is `appExited()` and `appError()` |
| `StartNewQuicklauncher`, `PoolAvailable`, `PoolExited`, `Respawn` | `QuickExeApplicationLauncher` and its pool |
| `InitApp`, `ReadFile`, `Exec`, `DotpidMessage`, `BootQuick`, `IdleReads` | `initApp()` up to and from `processQCopFile()`, `exec()`, `dotpidMessage()`, `QuickLauncher` |

A process is known by the number it was started as, so identifiers are not used
again. QCop is the X11 implementation, the one in this repository: clients
register channels by a packet, and the server answers a message to whoever is
registered when it reads it. The server's messages to itself go through its own
connection; that hop is merged, since it only delays. `initApp()` is two steps,
because the server may route a message between its announcement and its look
into the file. Writing and reading a file is atomic by its lock. `OneInstance`
compares which applications `m_runningApps` has, not the launchers it names for
them: `kill()` names the wrong one ([findings](#findings)). `failed` holds
applications whose process ended or to which a prod was lost while nothing else
would have made them look.

## The runs

TLC checks deadlock nowhere: every model stops when its bounded events are spent.

| Run | Instance | Shows |
|---|---|---|
| `chat_line` | 3 commands of three kinds, nested calls, 1 notification, 1 suspension, healthy line | no stall; answers, response lines and PDUs reach their owner |
| `chat_faults` | 3 commands, both timers, lost lines, 1 closed device | one out at a time, in order, watched; timers have a command; refinement of `CommandService`; every command ends |
| `chat_wake` | 3 commands, wakeup, 1 notification, slots queue nothing | nothing is sent twice; an abort precedes its dial during a wakeup only |
| `sms_delivery` | 3 messages of 1-2 fragments, 2 attempts, 1 lost answer, 1 foreign "needsms" | one watched fragment; one round of attempts; sent means taken whole and in order; refinement of `CommandService`, with signals that bear their message's identifier; every `send()` is answered |
| `inbox_arrival` | 3 messages (1 text, 1 stored datagram, 1 datagram as +CMT:), 2 places, 1 failed listing, 1 check, user deletions | one listing; complete cache; nothing dispatched or retrieved twice, nothing of the SIM in both ways; nothing unread deleted; all delivered; retrievals end |
| `suspend_single` | 4 handlers (2 asynchronous), 3 requests, 2 inputs | order of suspend and wake, abort by input |
| `suspend_nested` | 3 handlers (2 asynchronous), 3 requests nested at will, 1 input | awaited replies are on their way; all invocations return |
| `calls_in_turn` | 4 requests of the user, 3 callers, a modem that obeys what it can | identifiers are accounted for; what is shown is what the modem has |
| `calls_crossing` | 2 requests, 2 callers, 1 refused command, alerting reported | one call is announced at a time, watched, and ends; a dialed call gets somewhere |
| `device_sessions` | 2 applications, 2 session requests, 2 descriptors, UP_TIMED and DOWN of a controller, 1 trouble (a failure of the device or a change of plane mode) | the queue is driven and in order; sessions are backed; applications know what they lost; requests are answered |
| `app_messages` | 1 application that both launchers can start, a pool of 1, 2 messages, 2 quicklaunchers, 2 exits, crashes or kills | one process per application, owned until its end is reported; the tables agree; what runs has its channel registered; messages are acted upon once and in order, and in the end; nothing stays busy |
| `device_down_doc` | minimal | counterexample: see [findings](#findings) |

**Why the bounds are enough.** Three commands are one that has ended, one at the
head and one behind it; the code compares nothing further away. A third message
of the sender is one behind a retried head and one queued by a slot. Two places
and three messages let a place be used again while an old identifier for it is
still around. A retry count of two has a first and a last attempt, and the code
only compares with zero and one. `MaxWire` bounds `RetryTimeout`, which could
otherwise repeat a command to a slow modem without end. Three nested invocations
are an outermost, a middle and an innermost one. Four requests reach every
combination the modem allows, an active, a held and a waiting call, and one
operation upon it; `calls_crossing` needs two of each, since every race is
between two things. Two applications and two descriptors are a session that
goes while another stays, and a descriptor that is used again; one trouble is
one answer that differs from what the queue was prepared for. Device failures
and plane mode share their bound so that each meets every request. In
`app_messages` two messages are one that starts the application and one that
comes at any moment of its start, life and end; applications share nothing but
the pool and the order of the connections, so one of them, with a pooled process
that is taken and its successor, meets every case but a pool emptied by another.
Every property includes the type invariant of its module where it needs one
(`SenderInStep`, `DeliveredOnce`, `IdsAccounted`, `QueueInOrder`, `OneInstance`).
The theorems below hold without these bounds.

**Fairness.** Weak fairness of the slots whose events are pending: the event
loop reads the device, fires timers that run, runs posted calls and delivers
messages. Weak fairness of the modem's reading and answering: without it a chat
with no dead timeout waits forever, which the code accepts. In `chat_faults` the
modem may lose every line, and the dead timer's fairness ends the commands.
`Resume` is fair because the client that took the device gives it back. Nothing
is assumed of clients, users, arriving messages or failures. `RetryTimeout` needs
no fairness. In the inbox both processes run and IPC delivers in order.
In `calls_crossing` the modem obeys, lines are read, `detectTimer`,
`missedTimer` and the poll of a dialed call fire, and a dialed call is answered
or fails in the end: networks give up. `missedTimer` fires only when no call
comes in and no gathering runs, because rings repeat more often than its 5.5 s
(`hasRepeatingRings()`) and `detectTimer` takes 0.8 s. In `device_sessions` the
event loops of server and applications run and the device answers; nobody has to
start or end a session, and `m_timer` need not fire. An application reads one
line per `readyRead()`; the model lets it read all of them in the end. In
`app_messages` the event loops of the server and of living processes run, and
so does the timer of the pool; nobody has to send, exit, crash or kill.

**Conditions in the properties.** `EveryMessageDelivered` exempts a behaviour in
which a listing failed (nothing lists again until the next message) or a deletion
was overtaken by a listing, and `NothingUnreadDeleted` the latter; there the code
does not keep the promise (below). `Announces` is TRUE in the runs: with FALSE,
a message between the first AT+CMGL and the acceptance of AT+CNMI= goes
unnoticed (`SmsReader` then fails `CacheComplete`). `ShownAsIs` holds while `adrift` and `overtaken` are FALSE,
`IncomingWatched` and `IncomingResolved` while no ring overtook an AT+CLCC,
`ClientKnows` and `RequestAnswered` while no descriptor was reused too early;
`DeliveredOnce` exempts from its last part datagrams that came as +CMT:;
`QueueInOrder` and `RequestAnswered` exempt an event left without a post and a
failure reported as the other request's: a DEVICE_DOWN whose failure is told as
one to come up waits for a signal nobody will send (TLC shows it with four
troubles). `RequestAnswered` also exempts a server that is lost. `Served` exempts the messages of an application of which a process ended
or that missed a prod. These are the places where the code keeps no promise; the list of
disagreements names each. A hazard of `PROJECT.json` that lies wholly behind such
a condition, or that no run is configured to reach, names no property and says why.

## The proofs

TLC checks the properties on the instances above; these theorems state them for
every value of the constants that satisfies the named ASSUMEs of the modules,
which TLC evaluates on every run. Where a theorem has a condition of its own, it
is in its statement and explained here; each condition has instances in which
everything the theorem is about happens.

**The AT chat**, for any number of commands, notifications and failures and every
combination of timers, wakeup, echo and a deaf modem. In `AtChat_proofs`:

* `TypeCorrect`, `CommandsEndInOrder`, `OneCommandOut`, `TimersWatchCommands`:
  `Spec => []` of `TypeOK`, `InOrder`, `OnlyHeadPrimed`, `TimersHaveCommand`;
* `QueueNeverStalls`: if no command is of the kind without a response,
  `Spec => []NoStall`. (With such commands it is false: `prime()` ends
  one and does not prime its successor, `qatchat.cpp:992`.)

The inductive invariant is `IInv`,
`TypeOK /\ Good(chat) /\ (chat.failing => Busy(chat)) /\ ("silent" \notin Kinds => NoStall)`.
`Good` joins type, `InOrder`, `OnlyHeadPrimed` and `TimersHaveCommand` of one
record, for none of them is inductive alone: `done()` makes the second command
the head, and that it is unprimed (and so that the timers, which `done()` stops,
watch nothing) comes from `OnlyHeadPrimed`; popping keeps the numbering only
because of `InOrder`; `failing => Busy` is what lets a round of the `timeout()`
loop take a head. The proof follows the code: one lemma per member function
says what it does to a `Good` record (`PopGood`, `TransmitGood`, `PrimeGood`,
`EnqueueGood`, `DoneGood`, `ReadLineHandled`, ...), and one per group of actions
puts them together. `Handled(s, t)` is what a whole slot establishes, and it
composes, which is how the nested `chat()` inside `done()` is dealt with.

Of its services:

* `CommandsAreWatched`: `Spec => []Watched`;
* `AbortsHitTheDial`: `Spec => []AbortAfterDial`, without commands that expect no
  response. Wakeups, retries, timeouts and nested slots are included: the aborted
  command is at the head (`AbortsIn`), and a head that has not been transmitted is
  one for which `NoStall` has a wakeup under way. That is the one way in which the
  code writes an abort before its dial ([findings](#findings)), and the theorem
  says that there is no other;
* `QueueImplementsService`: `Spec => ServiceSafety`, the refinement of
  `CommandService`. `Kept(s, t)` says of a member function that commands only
  move forward in it, at the ends of the queue; a slot in which a command ends
  and another is linked in and transmitted is still one advance of each, because
  phases are compared command by command (`PhasesAdvance`);
* `NothingSentTwice`: `Spec => []NotRepeated` under `Calm`,
  `WakeupActive => SlotKinds = {} /\ MaxFailures = 0`. Without a wakeup command
  nothing is asked of slots or the device. With one the property is false when a
  slot queues a command or the device is closed: `primeIfNecessary()` transmits
  the head while `performWakeup()` is pending, and `wakeupFinished()` transmits
  it again; TLC shows both. The invariant is `Steady`: a pending wakeup is one,
  and its head has not been transmitted.

Further on, what the two sides of the line know of each other:

* `AnswersReachTheirCommands`: `Spec => []AnswersMatch` under `Patient` and
  `OwnNotes`;
* `PdusReachTheirNotification`: `Spec => []PdusDelivered` under both and
  `MaxFailures = 0`.

`Patient` is `QAtChat` as it is constructed: `setDeadTimeout()`,
`setRetryOnNonEcho()` and `registerWakeupCommand()` have not been called. Who
gives up on a command, or transmits it twice, may give its late answer to the
next one. `OwnNotes` excludes a `NO CARRIER` of another call, which ends a dial it
does not belong to ([findings](#findings)). A closed device loses PDUs, hence
`MaxFailures = 0`; answers it loses, too, and the first theorem holds of it all
the same, and of a modem that loses lines. The invariant is `Flow`: of the
command that is out, one thing exists at a time, its line in the device's buffer,
its execution or its answer on the line (`Asked`, `Executing`, `Answered`, `Lost`);
so when the head leaves the queue on an answer, nothing else is on its way
(`Quiet`), and what the slot transmits next meets an empty line. The response
lines are settled by the same argument, since a response line is followed by the
terminator of the same command. `Paired` says that a text line no command asked
for is next to its announcement, and `Delivering` counts: the PDUs delivered, one
if `lastNotification` is set, and the announcements on the line are all that the
modem has announced. `LineStep` is what the second proof needs to know of a step
of the first.

**`SmsSender_proofs`**, for any messages, sizes, attempts and losses:

* `SenderAlwaysInStep`: `Spec => []SenderInStep`, and `OneRoundAtATime`:
  `Spec => []OneReadyRound`. The invariant adds `WaitingIsWatched` (a message at
  the head that is not being sent has a queued ready item, or the round of
  AT+CMGF=0 or its timer runs) and `RetriesLeft` (a fragment not yet taken
  has an attempt left; only so does every failed one end in a retry or in
  `finished()`);
* `ReportedIsSent`: `Spec => []SentWhole`. `OrderInv` relates the fragment that is
  out (`posn`) to what the modem has taken: all before it, and it too if its
  answer was lost;
* `SenderImplementsService`: `Spec => DeliveryInTurn`; steps map to `Advance` or
  nothing (`Forward`). A message has ended when a `finished()` names it
  (`Reported`), and `FinishedInTurn`, which is proved with the refinement, says
  that the k-th `finished()` names the k-th message: counting the signals would
  not show whose they are.

**`SmsInbox_proofs`**, for any messages, places, failed lists, checks and
deletions by the user. The invariant is `InboxInv`, of the reader and the client:

* `ListedOnce`: `Spec => []OneListOut`, by `ListFlags`: `fetching`, `pendingCheck`,
  `pendingFirstMessage` and `needRefetch` against the AT+CMGL that are queued. Each
  member function keeps it (`LocalFetch`, `LocalCheck`, `LocalNews`,
  `LocalListDone`, ...), also where `storeListDone()` begins the list again or
  answers and is asked for another in the same slot.
* `HandledOnce`: `Spec => []DeliveredOnce`: no datagram is dispatched twice, no
  message retrieved twice, and none of the SIM dispatched *and* handed to the
  client. A datagram is deleted as it is
  dispatched, but a list that was already under way brings it back unless its
  deletion is ahead of the list. So the invariant follows a message from the SIM
  over the answer on the line into the cache: it has one place (`SimOnce`), an
  answer lists what was there (`Snapshot`), what has been dispatched is gone
  from the SIM, or its deletion is ahead of the next list (`Gone`), what was
  delivered as +CMT: is in one line or in the pseudo inbox, and not yet dispatched
  (`DirectOnce`, `PseudoNew`). `Retrieved` says of the client that
  `retrievedIds` is empty or contains the mailbox and all that was retrieved. For
  the last part `Clean` follows the identifiers from the list that was joined to
  the client: what is in the cache, in a `fetched()` on the bus or with the client
  has no place on the SIM or is no datagram (`MayHave`). The pseudo inbox is
  excepted because the code excepts it: a +CMT: datagram that a client reads
  during a second listing goes both ways ([findings](#findings)).
* `CacheKnowsAll`: `Spec => [](Announces => CacheComplete)`, by `CacheKept`, the
  same for an answer that is under way: the cache, or the answer that will be it,
  has every message that no announcement and no queued deletion excuses.
* `NothingUnreadIsDeleted`: `Spec => []NothingUnreadDeleted`. A deletion names a
  place, not a message, and is asked for long after the list was read, so the
  property is far from inductive: it needs what the client, the calls and signals
  on the bus, the cache and the queue say of the same place. `ReadInv`, on top of
  `InboxInv`, says it:
  * `Token`: the client or the reader has the turn. One "first" or "next" or its
    answer is under way, or the reader has `pendingFirstMessage`, exactly while
    the client is fetching. Without it two answers could meet in one list.
  * `Received`: the identifiers the client keeps are of messages it was given.
  * `DoomedOnce`, `AskedOnce`: each deletion, queued or asked for, is of a
    different place, whose message is still there and has been read, and a queued
    one is ahead of the next AT+CMGL.
  * `KnownOk`, `FetchesOk`: an identifier in `activeIds` or in a `fetched()` on its
    way is of a message that stays, or the user has deleted it and the client is to
    read the list again (`sawNewMessage`, or a newCount that comes before).
  * `CacheStays`, `NoneTwice`, `Begins`: the cache names what is on the SIM, one
    reading of it gives the client no identifier twice unless it is to read
    again, and when a reading begins nothing is left of the last.

  All but the first two are given up once a deletion had to wait behind a list
  (`overtaken`), which is the exception of the property itself.

The model cuts its lists with recursive functions (`Only`, `Freed`) and not with
`SelectSeq`, which the prover cannot expand; that they exist and what they return
is proved first, from a least counterexample (`OnlyKept`, `OnlyProperties`).

**`SystemSuspend_proofs`**, for any number of handlers, requests and inputs:

* `TypeCorrect`, `WaitsAreAnswered`: `Spec => []TypeOK`, `Spec => []ReplyOnItsWay`,
  nested calls included. `IInv` adds `WaitsForAsync` (whoever waits is at a
  handler that answers later) and `LoopState` (an invocation that runs while
  something is awaited has called nobody yet: it is a nested one, and the reply
  its caller waits for is not lost when it sets `waitingOn` itself).
* `SuspendedInOrder`, `WokenInOrder`, `AbortedByInput`: under `~Nested`, by the
  invariant `Ordered`. It adds `Settled` (only the handler that is awaited has a
  message or a reply under way, without which a late message could put a handler
  to sleep that was already woken), `Handshake` (that handler's message, then its
  reply, then nothing awaited), `Passed` (the order, also while the invocation
  waits) and `Noticed` (an input event is seen after the wait in which it came).

**`CallNetwork_proofs`**, for any bounds:

* `CallsTypeCorrect`: `Spec => []TypeOK`. `Typed` adds what is in the queue and on
  the line, that a slot knows its command, and that keys (`NewKey`, the least
  number nobody has) are of one call and one dial command each.
* `OneIncomingWatched`: `Spec => []IncomingWatched`, by `GatherInv`: between its
  first ring and its announcement a call has `detectTimer` or one AT+CLCC, never
  both, and `missedTimer` runs until it is taken.
* `IdentifiersAccounted`: `Spec => []IdsAccounted`. That no identifier leaks is in
  `IdsKept` and holds always. That none is freed too early or twice holds while
  the two are in step and needs what is under way: `Wired` (a command is on its
  way, or its answer is, and the answer lists the calls the modem has *now*),
  `Owned` (who has which identifier) and `Foreign`: the incoming call of the modem
  never has the identifier of another call of the provider, unless ATA or AT+CHLD=2
  is about to accept it. The last is where `clccIncoming()` might take over an
  identifier that is in use.
* `CallsShownAsTheyAre` (`CallNetworkShown_proofs`): under `Alerting = FALSE`, `Spec => []ShownAsIs`; the
  condition is the run's too, because `clccDialCheck()` does not know *alerting*
  (below). The provider moves its calls when a request is made *and* when its
  answer arrives, the modem moves its own when the command does. `ShownParts`
  therefore compares what they come to once all that is out has been dealt with:
  - `Match`: a call as its answer will leave it (`Becomes`: what the slot of the
    command that is out does to it, or the `NO CARRIER` on the line) is a call the
    modem will have when it has obeyed (`Aim`), by identifier and state, and the
    other way round but for a call that comes in. A call still shown as dialing may be
    active already: the poll finds it out. When nothing is out this is
    `ShownAsIs`, and `FarInv` (the modem's identifiers are of one call each, and
    one call comes in) makes it a bijection.
  - `Guess`: of an incoming call the provider's guess is right: it has the
    identifier kept in `incomingModemIdentifier`, or the least free one before its
    first ring is read. Nothing but an AT+CLCC may be out while a call is
    gathered, or it could take the identifier or free a lesser one.
  - `NoSwap`: while a swap is out a waiting call is known to the provider. Else
    AT+CHLD=2 would take that one in place of the held.
  - `Carrier`: a `NO CARRIER` comes first on the line and not within the 200 ms in
    which it would be ignored.
  - `Behind`: a command that asks for a call has one, and behind the first come
    AT+CLCC and the AT+CHLD=1x of a group only, whose order does not matter.
  - `Dialled`: a dialing call waits for its timer or an answer. So when nothing
    is out and no poll waits, no call dials.

  Each step that leaves `InStep` TRUE is of a kind of its own (`StepKinds`): a
  request made when all is settled (`Wished`, one lemma for all branches of
  hold(), activate(), join(), ..., each compared with `Obeyed` of its command),
  a dialing, something on the network, the modem's obeying, an answer, a ring, a
  `NO CARRIER`, a timer.

**`DeviceSession_proofs`**, for any descriptors, applications and controls and any
number of starts and troubles:

* `QueueNeverStops`: `Spec => []QueueInOrder`, by `Queue` (`Ordered`: a
  DEVICE_UP_SESSION is only ever at the head, before the SESSION_OPEN it was made
  for; `Awaited`: a queue without a post waits for a request the hardware still
  has, or for a signal it has sent). There is one lemma per handler and per slot
  of BtPowerService; what `Awaited` says of the head is what `upStatus()` and
  `downStatus()` compare it with. This proof showed what the run was too small
  for: with more troubles `error()` misnames a failure and the queue stops.
* `SessionsAreBacked`: `Spec => []SessionsBacked`, by `Backed`: a session without its
  connection has a SESSION_CLOSE queued, a session or a grant at the head stands
  on a device that is up or whose loss is in `status`, and a signal of a device
  that came up is true or followed by one that it went (`UpsIn`).
* `ApplicationsKnow`: `Spec => []ClientKnows`, by `Knows`: connections have one
  owner (`SocketsOwned`; that the lowest free descriptor exists and is free is
  the well-founded order of the naturals), the end of a session is asked for by
  nobody who still has it open (`ClosedBehind`), and who has read or will read
  that its session started has it, or has the line of its end behind (`Told`).

**The applications**, for any applications and plug-ins, pools, messages and
deaths. `AppsAssumption` says that no application is called "quicklauncher" or
"QPEProcessQCop", names the code gives to processes and lines of its own.

* `LauncherTypeCorrect`, `TablesAlwaysAgree` (`AppProcesses_proofs`):
  `Spec => []TablesAgree(launcher)`, a part of `OneInstance`. The invariant is
  `Good(launcher) /\ sent \in Seq(Apps)`, where `Good` adds the type: that an entry
  has a process (a number that is not 0) comes from the type of the pool. There is
  one lemma per operator (`AddStartingGood`, `SimpleLaunchGood`, `QuickLaunchGood`,
  `LaunchGood`, `RouteMessageGood`, `AvailableGood`, `AppGoneGood`, `KillGood`, ...).
  In the middle of a launch the tables of the application do not agree: there the
  lemmas carry `Agree` of all others, and what is known of this one.
* `OneInstanceEach` (`AppProcesses_proofs`): `Spec => []OneInstance`. `Lives` adds
  that a process is in one place of the pool or in one entry (`Placed`), that it
  has such an owner until its end is reported (`Owns`), and that numbers not given
  out are of nobody (`Fresh`). The lemmas say of each operator that it keeps the
  owners or starts one process (`Keeps`, `Starts`).
* `RunningIsReachable` (`AppProcesses_proofs`): `Spec => []RunningIsReady`, that
  the channel of a living process shown as running is in `channels`, by
  `Reachable`: what a process was started as, is called, and has in its inbox
  agrees with who owns it, from the pool (`PoolWaits`) over execute() (`InboxFor`)
  to the announcement (`Announced`, `EntryReady`). The order of a process's packets
  is the heart of it: the registration is written before the announcement, so who
  has read the second has read the first. `Registered` follows the packet: a
  process that has begun to run its application is registered, or its registration
  is in its connection, ahead of every announcement (`Joining`); the connection of a
  process shown as running has been read to its end (`RunningQuiet`), and `channels` loses only
  the channels of the dead.
* `MessagesAreAccounted` (`AppProcesses_proofs`): `Spec => []MessagesAccounted`. The
  invariant is the property with `RInv` and `Settled` (a message waits in a process
  only between the reading of its file and exec()). It says of each step how the
  trail of every application changes, `heard \o waiting \o file`: appended to at
  one end, moved along, or cut by a death, whose victims `dropped` has.

**Only model-checked.** All liveness (`EveryCommandEnds`, `EverySendFinishes`,
`EveryMessageDelivered`, `EveryRetrievalEnds`, `EverySuspendEnds`,
`RequestAnswered`, `IncomingResolved`, `DialingEnds`, `Served`): it needs fairness
and ENABLED, which are beyond the prover. Every safety property that a run
checks has a theorem, under the hypotheses given above. The type invariants of `AtChat` and
`SystemSuspend` are only proved.

## Findings

One is a run in which TLC finds the violation, `device_down_doc`: `closeAllSessions()`
(`qabstractdevicemanager.cpp:868`) goes over the queue for events to remove and
advances only when it removes one. When the device goes down by itself while an
application asks for a session, the server never leaves the loop.

Disagreements seen while modelling, visible in the models by changing an option
of a configuration, by dropping a condition of a property or adding
`TrueMeansSuspended` (`SystemSuspend`), or outside what is modelled, that no run
is spent on:

* A `+CMT:` that arrives during a wakeup is dropped with its PDU, though the
  comment at `qatchat.cpp:870` says notifications are still processed "in case
  an important event like an incoming SMS arrives".
* A wakeup begun by a command a `done()` slot queues is followed at once by the
  command itself, and by it again when the wakeup ends (`qatchat.cpp:998`).
* `prime()` of a command without a response ends it and does not prime its
  successor (`qatchat.cpp:992`): the queue stands still.
* During the second listing that `needRefetch` asks for, `haveCached` is already
  TRUE (`qmodemsmsreader.cpp:555`) and `pending` holds the pseudo inbox as it
  is: a client is handed a datagram as a message.
* `suspendSystem()` returns true after an input event has aborted it
  (`systemsuspend.cpp:307` against the doc at `:86`).
* *Calls.* `clccDialCheck()` (`qmodemcall.cpp:643`) knows three of the stats
  AT+CLCC gives; *alerting* falls through to what is meant for a failed AT+CLCC
  (its comment at `:641`), and the call is shown as connected while the other
  telephone rings. A `NO CARRIER` ends the AT+CHLD, ATA or ATD that is out
  (`qatchat.cpp:783`) whichever call it tells of, and one within 200 ms of a
  remote hang-up is taken for its repetition (`qmodemcallprovider.cpp:684`). BUSY
  for a dialed call whose ATD has ended changes nothing (`:684`, only connected
  calls hang up) and the poll then assumes the call connected. `missedTimer` and
  `acceptDone(false)` stop `detectTimer` whoever it runs for (`:744`). `accept()`
  stops the timers, but a `hold()` or a hang-up that accepts the waiting call
  leaves `missedTimer` running. A modem that obeys AT+CHLD=1 or AT+CHLD=2 takes a
  waiting call that has not been announced, and `hangup()` of a dialing call
  beside an incoming one sends AT+CHLD=1, which accepts the caller
  (`qmodemcall.cpp:207`). Calls put on hold by `dial()` stay so when ATD is
  refused (`:170`). `transfer()` of connected calls wants an incoming call, where
  its comment says it cannot do this (`:538-543`). `activate(CallOnly)` of the
  only connected call holds it in the modem and not in the provider (`:380`).
  `incomingNumber` is kept when AT+CLCC takes long, or a call is missed before it
  is announced, and the next anonymous one shows it (`:777`).
* *Sessions.* An application that dies at the wrong moment makes the server
  dereference a null pointer (`qabstractdevicemanager.cpp:740`, `:861`); its
  descriptor may be the next application's, which then loses its session or is
  given one it did not ask for; a session the manager closes while its
  application asks again leaves `m_inRequest` set, and `endSession()` refuses; two
  early returns leave the queue without a post (`:556`); an error is taken for
  that of the request remembered last, so after plane mode a failed request to go
  down may be told as one to come up, and the queue stands still
  (`btpowerservice.cpp:221-229`; drop `misnamed` from `Driven`); `m_timer` that expires while events are
  pending is not started again, and the device stays on (`:631`).
* *Applications.* `ApplicationLauncher::kill()` asks the first launcher that could
  start the application now (`applicationlauncher.cpp:1714`), against "Kill the
  process for application" (`:1706`): one started by the simple launcher is not
  killed while a pooled process is ready, and `m_runningApps` names the wrong
  launcher. Killing one that does not run enters it there, and `launch()` returns
  true without launching from then on. A prod that is dropped because the
  channel's registration has not been read, though the file has, is repeated by
  nobody (`pidChannelOpen` is kept and not used): the message waits for the next
  one. The pool may exceed its size, since `startNewQuicklauncher()` does not
  look. The media server (`mediaserver.cpp:166`) launches itself again inside
  `terminated()`; the entry is still there after a normal exit, so nothing is
  started, and after a crash the `NotRunning` that follows removes the new one
  from `m_runningApps`.
* *Lost message.* `deleteMessage()` queues AT+CMGD behind an AT+CMGL that is
  out. The list brings the deleted message back; a later deletion by its stale
  identifier frees the *place*, which an unread message may have taken
  (`qmodemsmsreader.cpp:174-249`; drop `reader.overtaken` from
  `NothingUnreadDeleted`).
* *Missed message* before AT+CNMI= is accepted (`:363-367`, `:446`).
* `smsclient.cpp:501-503` removes two entries of `activeIds` per deletion, so
  fewer places are freed than the comment at `:484` promises; `:453` and `:469`
  give `deleteImmediately()` an identifier it never knows, so an account that
  deletes mail from the SIM does not.
* A deletion while the client reads the list skips a message until the next
  retrieval (`qmodemsmsreader.cpp:180`); one while `activeIds` is empty is ignored.
* With the retry timeout on and a late echo, a terminator may end the next
  command; an unsolicited `NO CARRIER` ends a dial it does not belong to
  (`AnswersMatch` in `chat_faults` with dial commands).
* An `abortDial()` during a wakeup writes its CR before the dial
  (the second alternative of `AbortAfterDial` in `chat_wake`).
* A nested `suspendSystem()` shares `inputEvent` and the handlers with the outer
  one: handlers are woken under a suspending invocation (`SuspendInOrder`,
  `WakeInOrder`, `InputAborts` with `Nested = TRUE`).

## What is not modelled

Of the modelled components: `send()` and the changes of options while the AT
chat works; the joining of multipart messages, the unread list and count; the
client's sending side and its retrieval timer (whose timeout emits a signal and
leaves its state alone); accounts that delete mail from the SIM; initialisation,
reset and functionality of the modem service; what handlers do to the hardware.
"modemresumed", which the reader listens to, is posted nowhere in the repository.

Of the calls: data calls (`QModemDataCall` and its pppd), dialing of a
supplementary service, tones, numbers and names, +COLP:, the actions a call
offers its user, the state *alerting* (only vendor plug-ins set it), and whatever
a vendor plug-in overrides (`atdBehavior()`, `hasRepeatingRings()`). The calls of
clients (`QPhoneCall`, `QPhoneCallManager`) and the transactions in which they
are told of changes are not modelled.

Of the devices: `IrPowerService` (its question to the user runs an event loop in
the middle of a request), `stop()` and a device that disappears, the blocking
`session()`, what controllers show. Timers of zero length and sockets run in any
order, more freely than in the event loop.

Of the applications: the launchers of builtin, console and sandboxed
applications, the pool at shutdown, an executable that is missing or cannot be
started, reasons of termination and the handlers that want to know them,
`kill()` of an application that does not run (the legacy service allows it),
channels with wildcards and the forwarding of messages between processes,
process identifiers that are used again.

Left out as components: parsers, codecs and message formats (data without
state); the user interface; mail over IMAP and POP, the synchronisation agent
and the security monitor (their peers are outside the repository); the value
space and the other users of IPC (ordered delivery is assumed of them); policy on
measured memory. `PROJECT.json` gives the reason for each.

## Plan

Done: the AT chat with its refinement and its proofs, the sender and the inbox on
top of it, the suspension of the system, the modem's calls against a network,
the sessions of applications on a device, and the start of applications with the
messages for them.

Next, in this order:

1. `PinManager`: pins wanted by several clients, each asked for once, and no
   query given up without an answer (`qmodempinmanager.cpp:374`).
2. `Multiplexer`: opening and closing of GSM 07.10 channels over lost frames.
3. Clients' calls above `ModemCalls`: what a client sees of a call only moves
   forward.
4. `PrefixMatcher` as a function, against the longest registered prefix, over
   bounded inputs; `RetryChat` as a client of `CommandService`.

The proofs that remain are those of these modules: what is checked of the present
ones is proved, but for liveness.
