------------------------------ MODULE AppLauncher ------------------------------
(***************************************************************************)
(* The server's side of applications: ApplicationLauncher, which type      *)
(* launcher runs what; SimpleExeApplicationLauncher and                    *)
(* QuickExeApplicationLauncher, their processes (ExeApplicationLauncher)   *)
(* and the pool of quicklauncher processes; QCopRouter, the messages to    *)
(* applications.  The state is one record; a member function is an         *)
(* operator from such a record to the next one.  A process is known by the *)
(* number it was started as.                                               *)
(***************************************************************************)
EXTENDS Naturals, SequencesExt

CONSTANTS
    Apps,         \* applications
    PluginApps,   \* those that a quicklauncher can load
    PoolSize,     \* NUM_POOLED_QLPROCESSES
    MaxMessages,  \* bound: messages to applications
    MaxPooled     \* bound: quicklaunchers that are started

\* Neither the executable of the pool nor the name of the prod is an application
ASSUME AppsAssumption ==
    PluginApps \subseteq Apps /\ {"quicklauncher", "QPEProcessQCop"} \cap Apps = {}
ASSUME LauncherBounds == {PoolSize, MaxMessages, MaxPooled} \subseteq Nat

VARIABLE
    launcher  \* running: app -> the type launcher m_runningApps has for it
              \* busy: busyApps
              \* entries: type launcher -> app -> its m_runningProcesses entry
              \* routes: app -> its destinations in m_routes
              \* pool: mQlProcesses, in order
              \* shots: pending single shots of startNewQuicklauncher()
              \* spawned: what was started, in order
              \* files: app -> messages in its qcop-msg file
              \* out: what the server has sent and not yet dispatched

Kinds == {"quick", "simple"}
Pids == 1..(MaxPooled + MaxMessages)
States == {"NotRunning", "Starting", "Running"}
NoEntry == [pid |-> 0, state |-> "NotRunning"]

LauncherInit ==
    launcher = [running |-> [a \in Apps |-> "none"], busy |-> {},
                entries |-> [k \in Kinds |-> [a \in Apps |-> NoEntry]],
                routes |-> [a \in Apps |-> {}],
                pool |-> <<>>, shots |-> 1, spawned |-> <<>>,
                files |-> [a \in Apps |-> <<>>], out |-> <<>>]

-----------------------------------------------------------------------------
\* ApplicationLauncher

\* handleStateChange(): an application that is not in m_runningApps is nobody's
HandleStateChange(s, app, state) ==
    IF s.running[app] = "none" THEN s
    ELSE CASE state = "NotRunning" ->
                [s EXCEPT !.running[app] = "none", !.busy = @ \ {app}]
           [] state = "Starting" -> [s EXCEPT !.busy = @ \cup {app}]
           [] state = "Running" -> [s EXCEPT !.busy = @ \ {app}]

Terminated(s, app) == [s EXCEPT !.running[app] = "none", !.busy = @ \ {app}]

-----------------------------------------------------------------------------
\* QCopRouter and the destinations it knows

IsRunning(s, kind, app) == s.entries[kind][app].pid # 0

\* ExeApplicationLauncher::routeMessage(): into the file, and a prod
RouteTo(s, kind, app, msg) ==
    [s EXCEPT !.files[app] = Append(@, msg),
              !.out = Append(@, [to |-> s.entries[kind][app].pid, channel |-> "pid",
                                 what |-> "QPEProcessQCop"])]

\* addRoute(): a destination that appears while a message is routed gets it
\* at once.  msg is the message being routed, or 0
AddRoute(s, kind, app, msg) ==
    LET t == [s EXCEPT !.routes[app] = @ \cup {kind}] IN
    IF msg = 0 THEN t ELSE RouteTo(t, kind, app, msg)

RemRoute(s, kind, app) == [s EXCEPT !.routes[app] = @ \ {kind}]

-----------------------------------------------------------------------------
\* The type launchers

Spawn(s, exe) == [s EXCEPT !.spawned = Append(@, exe)]

AddStartingApplication(s, kind, app, pid, msg) ==
    LET t == [s EXCEPT !.entries[kind][app] = [pid |-> pid, state |-> "Starting"]] IN
    HandleStateChange(AddRoute(t, kind, app, msg), app, "Starting")

SimpleLaunch(s, app, msg) ==
    IF IsRunning(s, "simple", app) THEN s
    ELSE AddStartingApplication(Spawn(s, app), "simple", app, Len(s.spawned) + 1, msg)

\* Where the first ready process of the pool is, if there is one
Ready(s) == { i \in DOMAIN s.pool :
                 s.pool[i].ready /\ \A j \in 1..(i - 1) : ~s.pool[j].ready }

\* createProcess() and respawnQuicklauncher()
Respawn(s) == IF Len(s.pool) < PoolSize THEN [s EXCEPT !.shots = @ + 1] ELSE s

\* The first ready process becomes the application's.  The envelope with
\* execute() goes out at the end of the function, behind the prod of addRoute()
QuickLaunch(s, app, msg) ==
    IF IsRunning(s, "quick", app) THEN s
    ELSE LET i == CHOOSE j \in Ready(s) : TRUE
             pid == s.pool[i].pid
             t == AddStartingApplication([s EXCEPT !.pool = RemoveAt(@, i)],
                                         "quick", app, pid, msg)
         IN Respawn([t EXCEPT !.out = Append(@, [to |-> pid, channel |-> "quick",
                                                 what |-> app])])

\* canLaunch() of the quick launcher; every application has an executable
CanQuickLaunch(s, app) == app \in PluginApps /\ Ready(s) # {}

\* The first launcher that can; the quick one comes first in Tasks.cfg
Chosen(s, app) == IF CanQuickLaunch(s, app) THEN "quick" ELSE "simple"

LaunchAgain(s, app, msg) ==
    LET t == [s EXCEPT !.running[app] = Chosen(s, app)] IN
    IF Chosen(s, app) = "quick" THEN QuickLaunch(t, app, msg)
    ELSE SimpleLaunch(t, app, msg)

Launch(s, app, msg) ==
    IF s.running[app] # "none" THEN s
    ELSE LET t == [s EXCEPT !.running[app] = Chosen(s, app)] IN
         IF Chosen(s, app) = "quick" THEN QuickLaunch(t, app, msg)
         ELSE SimpleLaunch(t, app, msg)

RouteMessageTwice(s, app, msg) ==
    LET t == Launch(s, app, msg)
        quick == IF "quick" \in t.routes[app] THEN RouteTo(t, "quick", app, msg) ELSE t
    IN IF "simple" \in t.routes[app] THEN RouteTo(quick, "simple", app, msg) ELSE quick

\* QCopRouter::routeMessage(): launches the application, then every
\* destination that did not get the message by addRoute()
RouteMessage(s, app, msg) ==
    LET t == Launch(s, app, msg)
        quick == IF "quick" \in s.routes[app] THEN RouteTo(t, "quick", app, msg) ELSE t
    IN IF "simple" \in s.routes[app] THEN RouteTo(quick, "simple", app, msg) ELSE quick

\* available(QString,int) on QPE/QtopiaApplication, which both type launchers
\* read: the process must be the one they started for that name
Available(s, app, pid) ==
    LET mine == { k \in Kinds : app \in Apps /\ s.entries[k][app].pid = pid } IN
    IF mine = {} THEN s
    ELSE HandleStateChange(
           [s EXCEPT !.entries = [k \in Kinds |->
               IF k \in mine THEN [@[k] EXCEPT ![app].state = "Running"] ELSE @[k]]],
           app, "Running")

\* appExited() and appError(): in whatever order the one and the other do it,
\* the route, the entry and what ApplicationLauncher knows are gone
AppGone(s, kind, app) ==
    HandleStateChange(
        Terminated([RemRoute(s, kind, app) EXCEPT !.entries[kind][app] = NoEntry], app),
        app, "NotRunning")

\* ApplicationLauncher::kill() asks the launcher that would start the
\* application now, which need not be the one that did
Kill(s, app) == [s EXCEPT !.running[app] = Chosen(s, app)]
KilledPid(s, app) == s.entries[Chosen(s, app)][app].pid

-----------------------------------------------------------------------------
\* The pool

StartNewQuicklauncher(s) ==
    [Spawn(s, "quicklauncher") EXCEPT
        !.pool = Append(@, [pid |-> Len(s.spawned) + 1, ready |-> FALSE]),
        !.shots = @ - 1]

\* quickLauncherChannel()
PoolAvailable(s, pid) ==
    Respawn([s EXCEPT !.pool = [i \in DOMAIN @ |->
                IF @[i].pid = pid THEN [@[i] EXCEPT !.ready = TRUE] ELSE @[i]]])

\* qlProcessExited() and qlProcessError()
PoolExited(s, pid) ==
    LET i == CHOOSE j \in DOMAIN s.pool : s.pool[j].pid = pid
    IN Respawn([s EXCEPT !.pool = RemoveAt(@, i)])

-----------------------------------------------------------------------------
\* Properties of the server's tables

LauncherType ==
    [running : [Apps -> Kinds \cup {"none"}], busy : SUBSET Apps,
     entries : [Kinds -> [Apps -> [pid : Nat, state : States]]],
     routes : [Apps -> SUBSET Kinds],
     pool : Seq([pid : Nat \ {0}, ready : BOOLEAN]), shots : Nat,
     spawned : Seq(Apps \cup {"quicklauncher"}), files : [Apps -> Seq(1..MaxMessages)],
     out : Seq([to : Nat, channel : {"pid", "quick"}, what : Apps \cup {"QPEProcessQCop"}])]

\* The type launchers that have an entry for an application
Owners(s, app) == { k \in Kinds : s.entries[k][app].pid # 0 }

\* All that the server keeps about an application says the same
Agree(s, app) ==
    /\ \A k, l \in Owners(s, app) : k = l
    /\ s.running[app] = "none" <=> Owners(s, app) = {}
    /\ s.routes[app] = Owners(s, app)
    /\ app \in s.busy <=> \E k \in Owners(s, app) : s.entries[k][app].state = "Starting"

\* An application runs at most once: one type launcher at most has an entry for
\* it; m_runningApps knows it as long, that launcher is its one route, and it
\* is busy while it is starting (launch(), addStartingApplication(),
\* appExited(), appError())
TablesAgree(s) == \A app \in Apps : Agree(s, app)
=============================================================================
