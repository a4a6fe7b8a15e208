------------------------------ MODULE AppProcesses ------------------------------
(***************************************************************************)
(* Applications as processes (QtopiaApplication, and QuickLauncher until   *)
(* it becomes one) with the server that starts them and the QCop           *)
(* connections between.  Whoever wants something of an application sends   *)
(* it a message, which starts the application when it must.                *)
(***************************************************************************)
EXTENDS AppLauncher, FiniteSets

CONSTANT MaxDeaths  \* bound: exits, crashes and kills

ASSUME DeathsAssumption == MaxDeaths \in Nat

VARIABLES
    phase,     \* pid -> "new", "idle" (a quicklauncher), "init", "open" (initApp()
               \* is done), "loop" (exec()), "dead", "reaped"
    name,      \* pid -> d->appName
    queue,     \* pid -> qcopq
    inbox,     \* pid -> messages on its channels it has not read
    wire,      \* pid -> what it sent and the server has not read
    channels,  \* pairs of pid and channel that the server has registered
    sent,      \* the application each message was for, in order
    heard,     \* app -> messages its processes have acted upon
    dropped,   \* messages that died with a process
    failed,    \* applications of which a process died, or that missed a prod
    deaths     \* what the bound counts

processes == <<phase, name, queue, inbox>>
qcop == <<wire, channels>>
history == <<sent, heard, dropped, failed, deaths>>
vars == <<launcher, processes, qcop, history>>

Init ==
    /\ LauncherInit
    /\ phase = [p \in Pids |-> "new"]
    /\ name = [p \in Pids |-> "quicklauncher"]
    /\ queue = [p \in Pids |-> <<>>]
    /\ inbox = [p \in Pids |-> <<>>]
    /\ wire = [p \in Pids |-> <<>>]
    /\ channels = {}
    /\ sent = <<>> /\ heard = [a \in Apps |-> <<>>]
    /\ dropped = {} /\ failed = {} /\ deaths = 0

Started == DOMAIN launcher.spawned
Alive(p) == p \in Started /\ phase[p] \notin {"dead", "reaped"}

Says(channel, what) == [channel |-> channel, what |-> what]

-----------------------------------------------------------------------------
\* The server

\* A message for an application reaches QCopRouter
Route(app) ==
    /\ Len(sent) < MaxMessages
    /\ sent' = Append(sent, app)
    /\ launcher' = RouteMessage(launcher, app, Len(sent) + 1)
    /\ UNCHANGED <<processes, qcop, heard, dropped, failed, deaths>>

\* The shot of respawnQuicklauncher()
RespawnShot ==
    /\ launcher.shots > 0
    /\ Cardinality({ p \in Started : launcher.spawned[p] = "quicklauncher" }) < MaxPooled
    /\ launcher' = StartNewQuicklauncher(launcher)
    /\ UNCHANGED <<processes, qcop, history>>

\* The server reads a packet of a process: it keeps the channels, and acts
\* on what was sent to its own (their way through its own connection is not
\* a step of its own: it only delays them)
ServerReads(p) ==
    /\ wire[p] # <<>>
    /\ wire' = [wire EXCEPT ![p] = Tail(@)]
    /\ LET m == Head(wire[p]) IN
       \/ /\ m.what = "register"
          /\ channels' = channels \cup {<<p, m.channel>>}
          /\ UNCHANGED launcher
       \/ /\ m.what = "detach"
          /\ channels' = channels \ {<<p, m.channel>>}
          /\ UNCHANGED launcher
       \/ /\ m.what = "disconnected"
          /\ channels' = { c \in channels : c[1] # p }
          /\ UNCHANGED launcher
       \/ /\ m = Says("QPE/QtopiaApplication", "available")
          /\ launcher' = Available(launcher, name[p], p)
          /\ UNCHANGED channels
       \/ /\ m = Says("QPE/QuickLauncher", "available")
          /\ launcher' = PoolAvailable(launcher, p)
          /\ UNCHANGED channels
    /\ UNCHANGED <<processes, history>>

\* A message of the server goes to whoever has registered its channel, or to
\* nobody.  A prod that nobody gets is a loss when the file has been read
Dispatch ==
    /\ launcher.out # <<>>
    /\ LET m == Head(launcher.out)
           known == <<m.to, m.channel>> \in channels /\ Alive(m.to)
           missed == ~known /\ m.channel = "pid" /\ phase[m.to] \in {"open", "loop"}
       IN /\ inbox' = IF known THEN [inbox EXCEPT ![m.to] = Append(@, m.what)] ELSE inbox
          /\ failed' = IF missed THEN failed \cup {name[m.to]} ELSE failed
    /\ launcher' = [launcher EXCEPT !.out = Tail(@)]
    /\ UNCHANGED <<phase, name, queue, qcop, sent, heard, dropped, deaths>>

\* QProcess reports the end of a process to whoever owns it
Reap(p) ==
    /\ phase[p] = "dead"
    /\ phase' = [phase EXCEPT ![p] = "reaped"]
    /\ \/ /\ \E i \in DOMAIN launcher.pool : launcher.pool[i].pid = p
          /\ launcher' = PoolExited(launcher, p)
          /\ UNCHANGED failed
       \/ \E k \in Kinds, app \in Apps :
             /\ launcher.entries[k][app].pid = p
             /\ launcher' = AppGone(launcher, k, app)
             /\ failed' = failed \cup {app}
    /\ UNCHANGED <<name, queue, inbox, qcop, sent, heard, dropped, deaths>>

-----------------------------------------------------------------------------
\* The processes

\* initApp(): the channel of the process is registered anew, then the server
\* is told.  The file is read in a step of its own
InitAppAnnouncedEarly(p, app, before) ==
    /\ phase' = [phase EXCEPT ![p] = "init"]
    /\ name' = [name EXCEPT ![p] = app]
    /\ wire' = [wire EXCEPT ![p] = @ \o before \o
                  <<Says("QPE/QtopiaApplication", "available"), Says("pid", "register")>>]
InitApp(p, app, before) ==
    /\ phase' = [phase EXCEPT ![p] = "init"]
    /\ name' = [name EXCEPT ![p] = app]
    /\ wire' = [wire EXCEPT ![p] = @ \o before \o
                  <<Says("pid", "register"), Says("QPE/QtopiaApplication", "available")>>]

\* main() of an application
Boot(p) ==
    /\ p \in Started /\ phase[p] = "new" /\ launcher.spawned[p] \in Apps
    /\ InitApp(p, launcher.spawned[p], <<>>)
    /\ UNCHANGED <<launcher, queue, inbox, channels, history>>

BootQuickAnnouncedEarly(p) ==
    /\ p \in Started /\ phase[p] = "new" /\ launcher.spawned[p] = "quicklauncher"
    /\ phase' = [phase EXCEPT ![p] = "idle"]
    /\ wire' = [wire EXCEPT ![p] = @ \o
                  <<Says("QPE/QuickLauncher", "available"),
                    Says("pid", "register"), Says("quick", "register")>>]
    /\ UNCHANGED <<launcher, name, queue, inbox, channels, history>>

\* main() of quicklauncher: initApp() for the name quicklauncher, whose
\* available() no launcher knows and whose file nobody writes, then the
\* constructor of QuickLauncher
BootQuick(p) ==
    /\ p \in Started /\ phase[p] = "new" /\ launcher.spawned[p] = "quicklauncher"
    /\ phase' = [phase EXCEPT ![p] = "idle"]
    /\ wire' = [wire EXCEPT ![p] = @ \o
                  <<Says("pid", "register"), Says("quick", "register"),
                    Says("QPE/QuickLauncher", "available")>>]
    /\ UNCHANGED <<launcher, name, queue, inbox, channels, history>>

\* An idle quicklauncher reads a message: a prod makes it look into its own
\* file, execute() makes it the application
IdleReads(p) ==
    /\ phase[p] = "idle" /\ inbox[p] # <<>>
    /\ inbox' = [inbox EXCEPT ![p] = Tail(@)]
    /\ \/ /\ Head(inbox[p]) = "QPEProcessQCop"
          /\ UNCHANGED <<phase, name, wire>>
       \/ /\ Head(inbox[p]) \in Apps
          /\ InitApp(p, Head(inbox[p]), <<Says("quick", "detach"), Says("pid", "detach")>>)
    /\ UNCHANGED <<launcher, queue, channels, history>>

\* processQCopFile(): all of the file goes into the queue
ProcessQCopFile(p) ==
    /\ launcher' = [launcher EXCEPT !.files[name[p]] = <<>>]
    /\ queue' = [queue EXCEPT ![p] = @ \o launcher.files[name[p]]]

\* The end of initApp()
ReadFile(p) ==
    /\ phase[p] = "init"
    /\ phase' = [phase EXCEPT ![p] = "open"]
    /\ ProcessQCopFile(p)
    /\ UNCHANGED <<name, inbox, qcop, history>>

\* exec(): sendQCopQ(), then the event loop
Exec(p) ==
    /\ phase[p] = "open"
    /\ phase' = [phase EXCEPT ![p] = "loop"]
    /\ heard' = [heard EXCEPT ![name[p]] = @ \o queue[p]]
    /\ queue' = [queue EXCEPT ![p] = <<>>]
    /\ UNCHANGED <<launcher, name, inbox, qcop, sent, dropped, failed, deaths>>

\* dotpidMessage(): processQCopFile() and sendQCopQ()
DotpidMessage(p) ==
    /\ phase[p] = "loop" /\ inbox[p] # <<>>
    /\ inbox' = [inbox EXCEPT ![p] = Tail(@)]
    /\ launcher' = [launcher EXCEPT !.files[name[p]] = <<>>]
    /\ heard' = [heard EXCEPT ![name[p]] = @ \o queue[p] \o launcher.files[name[p]]]
    /\ queue' = [queue EXCEPT ![p] = <<>>]
    /\ UNCHANGED <<phase, name, qcop, sent, dropped, failed, deaths>>

\* A process ends: its connection is closed, and what it had queued is lost
Ends(p) ==
    /\ phase' = [phase EXCEPT ![p] = "dead"]
    /\ wire' = [wire EXCEPT ![p] = Append(@, Says("", "disconnected"))]
    /\ inbox' = [inbox EXCEPT ![p] = <<>>]
    /\ queue' = [queue EXCEPT ![p] = <<>>]
    /\ dropped' = dropped \cup ToSet(queue[p])

\* It quits or crashes, when it likes
Dies(p) ==
    /\ deaths < MaxDeaths /\ Alive(p)
    /\ deaths' = deaths + 1
    /\ Ends(p)
    /\ UNCHANGED <<launcher, name, channels, sent, heard, failed>>

\* The memory monitor, the task manager or the shutdown kills an application
\* that runs; the type launcher asked may have no process for it
KillApp(app) ==
    /\ deaths < MaxDeaths /\ Owners(launcher, app) # {}
    /\ deaths' = deaths + 1
    /\ launcher' = Kill(launcher, app)
    /\ LET pid == KilledPid(launcher, app) IN
       IF pid # 0 /\ Alive(pid) THEN Ends(pid)
       ELSE UNCHANGED <<phase, wire, inbox, queue, dropped>>
    /\ UNCHANGED <<name, channels, sent, heard, failed>>

\* What goes on by itself
Progress ==
    \/ RespawnShot \/ Dispatch
    \/ \E p \in Pids :
          \/ ServerReads(p) \/ Reap(p) \/ Boot(p) \/ BootQuick(p) \/ IdleReads(p)
          \/ ReadFile(p) \/ Exec(p) \/ DotpidMessage(p)

Next ==
    \/ Progress
    \/ \E app \in Apps : Route(app) \/ KillApp(app)
    \/ \E p \in Pids : Dies(p)

Spec == Init /\ [][Next]_vars

FairSpec == Spec /\ WF_vars(Progress)
-----------------------------------------------------------------------------
\* Properties

TypeOK ==
    /\ launcher \in LauncherType
    /\ phase \in [Pids -> {"new", "idle", "init", "open", "loop", "dead", "reaped"}]
    /\ name \in [Pids -> Apps \cup {"quicklauncher"}]
    /\ queue \in [Pids -> Seq(1..MaxMessages)]
    /\ inbox \in [Pids -> Seq(Apps \cup {"QPEProcessQCop"})]
    /\ channels \subseteq Pids \X {"pid", "quick"}
    /\ sent \in Seq(Apps) /\ Len(sent) <= MaxMessages
    /\ heard \in [Apps -> Seq(1..MaxMessages)]
    /\ dropped \subseteq 1..MaxMessages /\ failed \subseteq Apps
    /\ deaths \in 0..MaxDeaths

\* Every process that was started has one owner until its end is reported:
\* a place in the pool, or the entry of an application
ProcessesOwned ==
    \A p \in Started :
        Cardinality({ i \in DOMAIN launcher.pool : launcher.pool[i].pid = p })
      + Cardinality({ e \in Kinds \X Apps : launcher.entries[e[1]][e[2]].pid = p })
        = IF phase[p] = "reaped" THEN 0 ELSE 1

\* An application has one process, and the server's tables about it agree,
\* whatever is killed, crashes or becomes ready in between
OneInstance == TypeOK /\ TablesAgree(launcher) /\ ProcessesOwned

\* An application shown as running has become that application, and while its
\* process lives the server has its channel, so that a prod reaches it; one that
\* has become the application is shown as running, or its announcement is on its
\* way (qtopiaApplicationChannel(), initApp())
RunningIsReady ==
    \A k \in Kinds, app \in Apps :
        LET e == launcher.entries[k][app] IN
        e.pid # 0 =>
          /\ e.state = "Running" => phase[e.pid] \notin {"new", "idle"}
          /\ e.state = "Running" /\ Alive(e.pid) => <<e.pid, "pid">> \in channels
          /\ phase[e.pid] \in {"init", "open", "loop"} =>
                \/ e.state = "Running"
                \/ \E i \in DOMAIN wire[e.pid] :
                      wire[e.pid][i] = Says("QPE/QtopiaApplication", "available")

\* What has been acted upon, then what waits in the process, then in the file
Trail(app) ==
    LET mine == { p \in Started : Alive(p) /\ name[p] = app } IN
    heard[app] \o (IF mine = {} THEN <<>> ELSE queue[CHOOSE p \in mine : TRUE])
               \o launcher.files[app]

\* Every message is in one place, and they are acted upon once, in the order
\* they were routed, whichever process has the application at the time
MessagesAccounted ==
    \A app \in Apps :
        /\ \A i, j \in DOMAIN Trail(app) : i < j => Trail(app)[i] < Trail(app)[j]
        /\ ToSet(Trail(app)) \cap dropped = {}
        /\ { n \in DOMAIN sent : sent[n] = app } \ dropped = ToSet(Trail(app))

\* The message n is still to be acted upon, and nothing has gone wrong
Pending(n) ==
    n \in DOMAIN sent /\ n \notin ToSet(heard[sent[n]]) /\ sent[n] \notin failed

\* A message for an application that neither dies nor misses a prod is acted
\* upon, and a busy application does not stay so
Served ==
    /\ \A n \in 1..MaxMessages : Pending(n) ~> ~Pending(n)
    /\ \A app \in Apps : app \in launcher.busy ~> app \notin launcher.busy
=============================================================================
