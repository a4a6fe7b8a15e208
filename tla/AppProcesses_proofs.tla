------------------------ MODULE AppProcesses_proofs ------------------------
(***************************************************************************)
(* The server's tables about applications agree, every process that was    *)
(* started has one owner, an application shown as running can be reached,  *)
(* and every message routed to one is acted upon once and in order or died *)
(* with a process: for every set of applications and plug-ins, every size  *)
(* of the pool and any number of messages and deaths.                      *)
(***************************************************************************)
EXTENDS AppProcesses, TLAPS, FiniteSetTheorems

Good(s) == s \in LauncherType /\ TablesAgree(s)

\* What an operator that only deals with messages or with the pool leaves alone
SameTables(s, t) ==
    /\ t.running = s.running /\ t.busy = s.busy
    /\ t.entries = s.entries /\ t.routes = s.routes

LEMMA SameTablesAgree ==
    ASSUME NEW s, NEW t, SameTables(s, t), TablesAgree(s)
    PROVE  TablesAgree(t)
  BY DEF SameTables, TablesAgree, Agree, Owners

Pooled == [pid : Nat \ {0}, ready : BOOLEAN]
Sent == [to : Nat, channel : {"pid", "quick"}, what : Apps \cup {"QPEProcessQCop"}]

\* The types of the parts, for which a record need not be expanded
LEMMA Parts ==
    ASSUME NEW s \in LauncherType
    PROVE  /\ s.running \in [Apps -> Kinds \cup {"none"}]
           /\ s.busy \in SUBSET Apps
           /\ s.entries \in [Kinds -> [Apps -> [pid : Nat, state : States]]]
           /\ s.routes \in [Apps -> SUBSET Kinds]
           /\ s.pool \in Seq(Pooled) /\ s.shots \in Nat
           /\ s.spawned \in Seq(Apps \cup {"quicklauncher"})
           /\ s.files \in [Apps -> Seq(1..MaxMessages)]
           /\ s.out \in Seq(Sent)
  BY DEF LauncherType, Pooled, Sent

LEMMA RemoveAtSeq ==
    ASSUME NEW S, NEW q \in Seq(S), NEW i \in DOMAIN q
    PROVE  RemoveAt(q, i) \in Seq(S)
  <1>1. i \in 1..Len(q) /\ Len(q) \in Nat
    OBVIOUS
  <1>2. SubSeq(q, 1, i - 1) \in Seq(S)
    <2>1. \A j \in 1..(i - 1) : q[j] \in S
      BY <1>1
    <2> QED
      BY <1>1, <2>1
  <1>3. SubSeq(q, i + 1, Len(q)) \in Seq(S)
    <2>1. \A j \in (i + 1)..Len(q) : q[j] \in S
      BY <1>1
    <2> QED
      BY <1>1, <2>1
  <1> QED
    BY <1>2, <1>3 DEF RemoveAt

LEMMA AppendSeq ==
    ASSUME NEW S, NEW q \in Seq(S), NEW x \in S
    PROVE  Append(q, x) \in Seq(S) /\ Len(q) \in Nat
  OBVIOUS

LEMMA RouteToType ==
    ASSUME NEW s \in LauncherType, NEW kind \in Kinds, NEW app \in Apps,
           NEW msg \in 1..MaxMessages
    PROVE  RouteTo(s, kind, app, msg) \in LauncherType
           /\ SameTables(s, RouteTo(s, kind, app, msg))
  <1>1. Append(s.files[app], msg) \in Seq(1..MaxMessages)
    BY Parts
  <1>2. s.entries[kind][app].pid \in Nat
    BY Parts
  <1> DEFINE prod == [to |-> s.entries[kind][app].pid, channel |-> "pid",
                      what |-> "QPEProcessQCop"]
  <1>3. prod \in Sent
    BY <1>2 DEF Sent
  <1>4. Append(s.out, prod) \in Seq(Sent)
    <2> HIDE DEF prod
    <2> QED
      BY <1>3, Parts, AppendSeq
  <1> QED
    BY <1>1, <1>4 DEF RouteTo, LauncherType, SameTables, Sent

\* handleStateChange() only touches m_runningApps and busyApps
LEMMA HandleStateChangeType ==
    ASSUME NEW s \in LauncherType, NEW app \in Apps, NEW state \in States
    PROVE  HandleStateChange(s, app, state) \in LauncherType
  BY DEF HandleStateChange, LauncherType, States, Kinds

\* What a launcher does once it has a process: an entry and a route appear
LEMMA AddStartingGood ==
    ASSUME NEW s \in LauncherType, NEW kind \in Kinds, NEW app \in Apps,
           NEW pid \in Nat \ {0}, NEW msg \in 0..MaxMessages,
           s.running[app] = kind, Owners(s, app) = {}, s.routes[app] = {},
           \A a \in Apps \ {app} : Agree(s, a)
    PROVE  Good(AddStartingApplication(s, kind, app, pid, msg))
  <1> DEFINE e == [pid |-> pid, state |-> "Starting"]
             t == [s EXCEPT !.entries[kind][app] = e]
             u == [t EXCEPT !.routes[app] = @ \cup {kind}]
             v == AddRoute(t, kind, app, msg)
             w == HandleStateChange(v, app, "Starting")
  <1>1. t \in LauncherType /\ t.running = s.running /\ t.busy = s.busy
        /\ t.routes = s.routes
        /\ t.entries = [s.entries EXCEPT ![kind][app] = e]
    <2>1. e \in [pid : Nat, state : States]
      BY DEF States
    <2> QED
      BY <2>1 DEF LauncherType
  <1>2. u \in LauncherType /\ u.running = s.running /\ u.busy = s.busy
        /\ u.entries = [s.entries EXCEPT ![kind][app] = e]
        /\ u.routes = [s.routes EXCEPT ![app] = {kind}]
    <2> HIDE DEF t
    <2>1. [t.routes EXCEPT ![app] = @ \cup {kind}] \in [Apps -> SUBSET Kinds]
      BY <1>1, Parts
    <2>2. t.routes[app] \cup {kind} = {kind}
      BY <1>1
    <2> QED
      BY <1>1, <2>1, <2>2 DEF LauncherType
  <1>3. v \in LauncherType /\ v.running = s.running /\ v.busy = s.busy
        /\ v.entries = [s.entries EXCEPT ![kind][app] = e]
        /\ v.routes = [s.routes EXCEPT ![app] = {kind}]
    <2> HIDE DEF u
    <2>1. \/ v = u
          \/ msg \in 1..MaxMessages /\ v = RouteTo(u, kind, app, msg)
      BY LauncherBounds DEF AddRoute, u
    <2> QED
      BY <1>2, <2>1, RouteToType DEF SameTables
  <1>4. w \in LauncherType /\ w.running = s.running /\ w.busy = s.busy \cup {app}
        /\ w.entries = [s.entries EXCEPT ![kind][app] = e]
        /\ w.routes = [s.routes EXCEPT ![app] = {kind}]
    <2> HIDE DEF v
    <2>1. w \in LauncherType
      BY <1>3, HandleStateChangeType DEF States
    <2>2. v.running[app] # "none"
      BY <1>3 DEF Kinds
    <2> QED
      BY <1>3, <2>1, <2>2 DEF HandleStateChange, LauncherType
  <1>5. Agree(w, app)
    <2> HIDE DEF w
    <2>1. \A k \in Kinds : k # kind => w.entries[k][app] = s.entries[k][app]
      BY <1>4, Parts
    <2>2. w.entries[kind][app] = e
      BY <1>4, Parts
    <2>3. \A k \in Kinds : s.entries[k][app].pid = 0
      BY DEF Owners
    <2>4. Owners(w, app) = {kind}
      BY <2>1, <2>2, <2>3 DEF Owners
    <2>5. w.routes[app] = {kind} /\ w.running[app] = kind /\ app \in w.busy
      BY <1>4, Parts
    <2> QED
      BY <2>2, <2>4, <2>5 DEF Agree, Kinds
  <1>6. \A a \in Apps \ {app} : Agree(w, a)
    <2> HIDE DEF w
    <2> SUFFICES ASSUME NEW a \in Apps \ {app} PROVE Agree(w, a)
      OBVIOUS
    <2>1. \A k \in Kinds : w.entries[k][a] = s.entries[k][a]
      BY <1>4, Parts
    <2>2. w.routes[a] = s.routes[a] /\ w.running[a] = s.running[a]
          /\ (a \in w.busy <=> a \in s.busy)
      BY <1>4, Parts
    <2>3. Owners(w, a) = Owners(s, a)
      BY <2>1 DEF Owners
    <2>4. \A k \in Owners(s, a) : w.entries[k][a] = s.entries[k][a]
      BY <2>1 DEF Owners
    <2> QED
      BY <2>2, <2>3, <2>4 DEF Agree
  <1> QED
    BY <1>4, <1>5, <1>6 DEF Good, TablesAgree, AddStartingApplication

LEMMA SpawnType ==
    ASSUME NEW s \in LauncherType, NEW exe \in Apps \cup {"quicklauncher"}
    PROVE  /\ Spawn(s, exe) \in LauncherType /\ SameTables(s, Spawn(s, exe))
           /\ Len(s.spawned) + 1 \in Nat \ {0}
  <1> DEFINE q == Append(s.spawned, exe)
  <1>1. q \in Seq(Apps \cup {"quicklauncher"}) /\ Len(s.spawned) \in Nat
    BY Parts, AppendSeq
  <1>2. Spawn(s, exe) = [s EXCEPT !.spawned = q]
    BY DEF Spawn
  <1> HIDE DEF q
  <1>3. Spawn(s, exe) \in LauncherType
    BY <1>1, <1>2 DEF LauncherType
  <1>4. SameTables(s, Spawn(s, exe))
    BY <1>2 DEF LauncherType, SameTables
  <1>5. Len(s.spawned) + 1 \in Nat \ {0}
    BY <1>1
  <1> QED
    BY <1>3, <1>4, <1>5

LEMMA RespawnType ==
    ASSUME NEW s \in LauncherType
    PROVE  Respawn(s) \in LauncherType /\ SameTables(s, Respawn(s))
  <1>1. s.shots + 1 \in Nat
    BY Parts
  <1>2. [s EXCEPT !.shots = s.shots + 1] \in LauncherType
        /\ SameTables(s, [s EXCEPT !.shots = s.shots + 1])
    BY <1>1 DEF LauncherType, SameTables
  <1> QED
    BY <1>2 DEF Respawn, SameTables

\* An application that nobody runs, once m_runningApps has it
Known(s, app, kind) == [s EXCEPT !.running[app] = kind]

LEMMA KnownAgrees ==
    ASSUME NEW s, Good(s), NEW app \in Apps, s.running[app] = "none",
           NEW kind \in Kinds
    PROVE  LET t == Known(s, app, kind) IN
           /\ t \in LauncherType /\ t.running[app] = kind
           /\ t.pool = s.pool
           /\ Owners(t, app) = {} /\ t.routes[app] = {}
           /\ \A a \in Apps \ {app} : Agree(t, a)
  <1> DEFINE t == Known(s, app, kind)
  <1>1. Agree(s, app) /\ s \in LauncherType
    BY DEF Good, TablesAgree
  <1>2. t \in LauncherType /\ t.pool = s.pool /\ t.entries = s.entries
        /\ t.routes = s.routes /\ t.busy = s.busy
        /\ t.running = [s.running EXCEPT ![app] = kind]
    BY <1>1 DEF LauncherType, Known
  <1> HIDE DEF t
  <1>3. t.running[app] = kind /\ \A a \in Apps \ {app} : t.running[a] = s.running[a]
    BY <1>1, <1>2, Parts
  <1>4. \A a \in Apps : Owners(t, a) = Owners(s, a)
    BY <1>2 DEF Owners
  <1>5. Owners(s, app) = {} /\ s.routes[app] = {}
    BY <1>1 DEF Agree
  <1>6. \A a \in Apps \ {app} : Agree(t, a)
    BY <1>2, <1>3, <1>4 DEF Good, TablesAgree, Agree
  <1> QED
    BY <1>2, <1>3, <1>4, <1>5, <1>6 DEF t

LEMMA SimpleLaunchGood ==
    ASSUME NEW s \in LauncherType, NEW app \in Apps, NEW msg \in 0..MaxMessages,
           s.running[app] = "simple", Owners(s, app) = {}, s.routes[app] = {},
           \A a \in Apps \ {app} : Agree(s, a)
    PROVE  Good(SimpleLaunch(s, app, msg))
  <1> DEFINE t == Spawn(s, app)
  <1>1. t \in LauncherType /\ SameTables(s, t) /\ Len(s.spawned) + 1 \in Nat \ {0}
    BY SpawnType
  <1>2. /\ t.running[app] = "simple" /\ Owners(t, app) = {} /\ t.routes[app] = {}
        /\ \A a \in Apps \ {app} : Agree(t, a)
    BY <1>1 DEF SameTables, Owners, Agree
  <1>3. Good(AddStartingApplication(t, "simple", app, Len(s.spawned) + 1, msg))
    <2> HIDE DEF t
    <2> QED
      BY <1>1, <1>2, AddStartingGood DEF Kinds
  <1>4. ~IsRunning(s, "simple", app)
    BY DEF IsRunning, Owners, Kinds
  <1> QED
    BY <1>3, <1>4 DEF SimpleLaunch

LEMMA QuickLaunchGood ==
    ASSUME NEW s \in LauncherType, NEW app \in Apps, NEW msg \in 0..MaxMessages,
           s.running[app] = "quick", Owners(s, app) = {}, s.routes[app] = {},
           \A a \in Apps \ {app} : Agree(s, a), Ready(s) # {}
    PROVE  Good(QuickLaunch(s, app, msg))
  <1> DEFINE i == CHOOSE j \in Ready(s) : TRUE
             pid == s.pool[i].pid
             t == [s EXCEPT !.pool = RemoveAt(@, i)]
             u == AddStartingApplication(t, "quick", app, pid, msg)
             x == [to |-> pid, channel |-> "quick", what |-> app]
             v == [u EXCEPT !.out = Append(@, x)]
  <1>1. i \in DOMAIN s.pool /\ pid \in Nat \ {0}
    <2>1. i \in DOMAIN s.pool
      BY DEF Ready
    <2> HIDE DEF i
    <2>2. s.pool[i] \in Pooled
      BY <2>1, Parts
    <2> QED
      BY <2>1, <2>2 DEF Pooled
  <1>2. t \in LauncherType /\ SameTables(s, t)
    <2>1. RemoveAt(s.pool, i) \in Seq(Pooled)
      <3> HIDE DEF i
      <3> QED
        BY <1>1, Parts, RemoveAtSeq
    <2> HIDE DEF i
    <2> QED
      BY <2>1 DEF LauncherType, SameTables, Pooled
  <1> HIDE DEF i, pid, t
  <1>3. /\ t.running[app] = "quick" /\ Owners(t, app) = {} /\ t.routes[app] = {}
        /\ \A a \in Apps \ {app} : Agree(t, a)
    BY <1>2 DEF SameTables, Owners, Agree
  <1>4. Good(u)
    BY <1>1, <1>2, <1>3, AddStartingGood DEF Kinds
  <1> HIDE DEF u
  <1>5. Append(u.out, x) \in Seq(Sent)
    <2>1. x \in Sent
      BY <1>1 DEF Sent
    <2> HIDE DEF x
    <2> QED
      BY <1>4, <2>1, Parts, AppendSeq DEF Good
  <1>6. v \in LauncherType /\ SameTables(u, v)
    BY <1>4, <1>5 DEF Good, LauncherType, SameTables, Sent
  <1> HIDE DEF v
  <1>7. Respawn(v) \in LauncherType /\ SameTables(u, Respawn(v))
    BY <1>6, RespawnType DEF SameTables
  <1>8. Good(Respawn(v))
    BY <1>4, <1>7, SameTablesAgree DEF Good
  <1>9. ~IsRunning(s, "quick", app)
    BY DEF IsRunning, Owners, Kinds
  <1> QED
    BY <1>8, <1>9 DEF QuickLaunch, v, u, t, pid, i

LEMMA LaunchGood ==
    ASSUME NEW s, Good(s), NEW app \in Apps, NEW msg \in 0..MaxMessages
    PROVE  Good(Launch(s, app, msg))
  <1> DEFINE t == [s EXCEPT !.running[app] = Chosen(s, app)]
  <1>1. CASE s.running[app] # "none"
    BY <1>1 DEF Launch
  <1>2. CASE s.running[app] = "none" /\ Chosen(s, app) = "quick"
    <2>1. t = Known(s, app, "quick")
      BY <1>2 DEF Known
    <2> HIDE DEF t
    <2>2. /\ t \in LauncherType /\ t.running[app] = "quick"
          /\ t.pool = s.pool /\ Owners(t, app) = {} /\ t.routes[app] = {}
          /\ \A a \in Apps \ {app} : Agree(t, a)
      <3>1. "quick" \in Kinds
        BY DEF Kinds
      <3> QED
        BY <1>2, <2>1, <3>1, KnownAgrees
    <2>3. Ready(t) # {}
      BY <1>2, <2>2 DEF Chosen, CanQuickLaunch, Ready
    <2> QED
      BY <1>2, <2>2, <2>3, QuickLaunchGood DEF Launch, t
  <1>3. CASE s.running[app] = "none" /\ Chosen(s, app) # "quick"
    <2>1. Chosen(s, app) = "simple"
      BY <1>3 DEF Chosen
    <2>2. t = Known(s, app, "simple")
      BY <2>1 DEF Known
    <2> HIDE DEF t
    <2>3. /\ t \in LauncherType /\ t.running[app] = "simple"
          /\ Owners(t, app) = {} /\ t.routes[app] = {}
          /\ \A a \in Apps \ {app} : Agree(t, a)
      <3>1. "simple" \in Kinds
        BY DEF Kinds
      <3>2. s.running[app] = "none"
        BY <1>3
      <3> QED
        BY <2>2, <3>1, <3>2, KnownAgrees
    <2> QED
      BY <1>3, <2>3, SimpleLaunchGood DEF Launch, t
  <1> QED
    BY <1>1, <1>2, <1>3

LEMMA RouteMessageGood ==
    ASSUME NEW s, Good(s), NEW app \in Apps, NEW msg \in 1..MaxMessages
    PROVE  Good(RouteMessage(s, app, msg))
  <1> DEFINE t == Launch(s, app, msg)
             u == IF "quick" \in s.routes[app] THEN RouteTo(t, "quick", app, msg) ELSE t
             v == IF "simple" \in s.routes[app] THEN RouteTo(u, "simple", app, msg) ELSE u
  <1>0. msg \in 0..MaxMessages /\ "quick" \in Kinds /\ "simple" \in Kinds
    BY LauncherBounds DEF Kinds
  <1>1. Good(t)
    BY <1>0, LaunchGood
  <1> HIDE DEF t
  <1>2. Good(u)
    BY <1>0, <1>1, RouteToType, SameTablesAgree DEF Good
  <1> HIDE DEF u
  <1>3. Good(v)
    BY <1>0, <1>2, RouteToType, SameTablesAgree DEF Good
  <1> QED
    BY <1>3 DEF RouteMessage, t, u, v

LEMMA AvailableGood ==
    ASSUME NEW s, Good(s), NEW app, NEW pid \in Nat \ {0}
    PROVE  Good(Available(s, app, pid))
  <1> DEFINE mine == {k \in Kinds : app \in Apps /\ s.entries[k][app].pid = pid}
             e == [k \in Kinds |-> IF k \in mine THEN [s.entries[k] EXCEPT ![app].state = "Running"]
                                   ELSE s.entries[k]]
             t == [s EXCEPT !.entries = e]
             u == HandleStateChange(t, app, "Running")
  <1>1. CASE mine = {}
    BY <1>1 DEF Available
  <1>2. CASE mine # {}
    <2>0. s \in LauncherType /\ app \in Apps /\ Agree(s, app) /\ "Running" \in States
      BY <1>2 DEF Good, TablesAgree, States
    <2>1. PICK k \in Kinds : Owners(s, app) = {k} /\ s.entries[k][app].pid = pid
      BY <1>2, <2>0 DEF Owners, Agree
    <2>2. mine = {k}
      BY <2>0, <2>1 DEF Owners
    <2> DEFINE g == [s.entries[k][app] EXCEPT !.state = "Running"]
    <2>a. g \in [pid : Nat, state : States] /\ g.pid = pid /\ g.state = "Running"
      <3>1. s.entries[k][app] \in [pid : Nat, state : States]
        BY <2>0, Parts
      <3> QED
        BY <2>0, <2>1, <3>1
    <2>3. e = [s.entries EXCEPT ![k][app] = g]
      <3> HIDE DEF g
      <3>1. [s.entries[k] EXCEPT ![app].state = "Running"] = [s.entries[k] EXCEPT ![app] = g]
        BY DEF g
      <3> QED
        BY <2>2, <2>0, <3>1, Parts
    <2> HIDE DEF g
    <2>4. e \in [Kinds -> [Apps -> [pid : Nat, state : States]]]
      <3> HIDE DEF e
      <3> QED
        BY <2>0, <2>3, <2>a, Parts
    <2>5. t \in LauncherType /\ t.running = s.running /\ t.busy = s.busy
          /\ t.routes = s.routes /\ t.entries = e
      <3> HIDE DEF e
      <3> QED
        BY <2>0, <2>4 DEF LauncherType
    <2>6. s.running[app] # "none"
      BY <2>0, <2>1 DEF Agree
    <2> HIDE DEF t
    <2>7. u \in LauncherType /\ u.running = s.running /\ u.busy = s.busy \ {app}
          /\ u.routes = s.routes /\ u.entries = e
      <3>1. u \in LauncherType
        BY <2>0, <2>5, HandleStateChangeType
      <3> HIDE DEF e, mine
      <3>2. u = [t EXCEPT !.busy = @ \ {app}]
        BY <2>5, <2>6 DEF HandleStateChange
      <3> QED
        BY <2>5, <3>1, <3>2 DEF LauncherType
    <2> HIDE DEF u, mine, e
    <2>8. e[k][app].state = "Running" /\ e[k][app].pid = pid
      BY <2>0, <2>3, <2>a, Parts
    <2>9. \A l \in Kinds, a \in Apps : l # k \/ a # app => e[l][a] = s.entries[l][a]
      BY <2>0, <2>3, Parts
    <2>10. Agree(u, app)
      <3>1. Owners(u, app) = {k}
        BY <2>0, <2>1, <2>7, <2>8, <2>9 DEF Owners
      <3> QED
        BY <2>0, <2>1, <2>6, <2>7, <2>8, <3>1 DEF Agree
    <2>11. \A a \in Apps \ {app} : Agree(u, a)
      <3> SUFFICES ASSUME NEW a \in Apps \ {app} PROVE Agree(u, a)
        OBVIOUS
      <3>1. \A l \in Kinds : u.entries[l][a] = s.entries[l][a]
        BY <2>7, <2>9
      <3>2. Owners(u, a) = Owners(s, a)
        BY <3>1 DEF Owners
      <3>3. \A l \in Owners(s, a) : u.entries[l][a] = s.entries[l][a]
        BY <3>1 DEF Owners
      <3>4. Agree(s, a)
        BY DEF Good, TablesAgree
      <3> QED
        BY <2>7, <3>2, <3>3, <3>4 DEF Agree
    <2>12. Good(u)
      BY <2>7, <2>10, <2>11 DEF Good, TablesAgree
    <2>13. Available(s, app, pid) = u
      BY <1>2 DEF Available, u, t, e, mine
    <2> QED
      BY <2>12, <2>13
  <1> QED
    BY <1>1, <1>2

LEMMA AppGoneGood ==
    ASSUME NEW s, Good(s), NEW kind \in Kinds, NEW app \in Apps,
           s.entries[kind][app].pid # 0
    PROVE  Good(AppGone(s, kind, app))
  <1> DEFINE r == RemRoute(s, kind, app)
             t == [r EXCEPT !.entries[kind][app] = NoEntry]
             u == Terminated(t, app)
  <1>0. s \in LauncherType /\ Agree(s, app) /\ Owners(s, app) = {kind}
    BY DEF Good, TablesAgree, Agree, Owners
  <1>1. r \in LauncherType /\ r.running = s.running /\ r.busy = s.busy
        /\ r.entries = s.entries
        /\ r.routes = [s.routes EXCEPT ![app] = s.routes[app] \ {kind}]
    <2>1. [s.routes EXCEPT ![app] = s.routes[app] \ {kind}] \in [Apps -> SUBSET Kinds]
      BY <1>0, Parts
    <2> QED
      BY <1>0, <2>1 DEF RemRoute, LauncherType
  <1> HIDE DEF r
  <1>2. t \in LauncherType /\ t.running = s.running /\ t.busy = s.busy
        /\ t.routes = r.routes
        /\ t.entries = [s.entries EXCEPT ![kind][app] = NoEntry]
    <2>1. NoEntry \in [pid : Nat, state : States]
      BY DEF NoEntry, States
    <2>2. [s.entries EXCEPT ![kind][app] = NoEntry]
              \in [Kinds -> [Apps -> [pid : Nat, state : States]]]
      BY <1>0, <2>1, Parts
    <2> QED
      BY <1>1, <2>2 DEF LauncherType
  <1> HIDE DEF t
  <1>3. u \in LauncherType /\ u.busy = s.busy \ {app}
        /\ u.running = [s.running EXCEPT ![app] = "none"]
        /\ u.routes = r.routes
        /\ u.entries = [s.entries EXCEPT ![kind][app] = NoEntry]
    BY <1>2 DEF Terminated, LauncherType
  <1> HIDE DEF u
  <1>4. HandleStateChange(u, app, "NotRunning") = u
    <2>1. u.running[app] = "none"
      BY <1>0, <1>3, Parts
    <2> QED
      BY <2>1 DEF HandleStateChange
  <1>5. Agree(u, app)
    <2>1. \A k \in Kinds : k # kind => s.entries[k][app].pid = 0
      BY <1>0 DEF Owners
    <2>2. \A k \in Kinds : u.entries[k][app].pid = 0
      BY <1>0, <1>3, <2>1, Parts DEF NoEntry
    <2>3. Owners(u, app) = {}
      BY <2>2 DEF Owners
    <2>4. u.routes[app] = {} /\ u.running[app] = "none" /\ app \notin u.busy
      BY <1>0, <1>1, <1>3, Parts DEF Agree
    <2> QED
      BY <2>3, <2>4 DEF Agree
  <1>6. \A a \in Apps \ {app} : Agree(u, a)
    <2> SUFFICES ASSUME NEW a \in Apps \ {app} PROVE Agree(u, a)
      OBVIOUS
    <2>1. \A l \in Kinds : u.entries[l][a] = s.entries[l][a]
      BY <1>0, <1>3, Parts
    <2>2. Owners(u, a) = Owners(s, a)
      BY <2>1 DEF Owners
    <2>3. \A l \in Owners(s, a) : u.entries[l][a] = s.entries[l][a]
      BY <2>1 DEF Owners
    <2>4. Agree(s, a)
      BY DEF Good, TablesAgree
    <2>5. u.routes[a] = s.routes[a] /\ u.running[a] = s.running[a]
          /\ (a \in u.busy <=> a \in s.busy)
      BY <1>0, <1>1, <1>3, Parts
    <2> QED
      BY <2>2, <2>3, <2>4, <2>5 DEF Agree
  <1>7. Good(u)
    BY <1>3, <1>5, <1>6 DEF Good, TablesAgree
  <1> QED
    BY <1>4, <1>7 DEF AppGone, r, t, u

LEMMA KillGood ==
    ASSUME NEW s, Good(s), NEW app \in Apps, Owners(s, app) # {}
    PROVE  Good(Kill(s, app))
  <1> DEFINE k == Chosen(s, app)
             t == [s EXCEPT !.running[app] = k]
  <1>1. k \in Kinds /\ k # "none"
    BY DEF Chosen, Kinds
  <1> HIDE DEF k
  <1>2. t \in LauncherType /\ t.busy = s.busy /\ t.entries = s.entries
        /\ t.routes = s.routes /\ t.running = [s.running EXCEPT ![app] = k]
    BY <1>1 DEF Good, LauncherType
  <1>3. t.running[app] = k /\ \A a \in Apps \ {app} : t.running[a] = s.running[a]
    BY <1>2, Parts DEF Good
  <1> HIDE DEF t
  <1>4. \A a \in Apps : Owners(t, a) = Owners(s, a)
    BY <1>2 DEF Owners
  <1>5. \A a \in Apps : Agree(t, a)
    BY <1>1, <1>2, <1>3, <1>4 DEF Good, TablesAgree, Agree
  <1> QED
    BY <1>2, <1>5 DEF Good, TablesAgree, Kill, t, k

LEMMA StartNewGood ==
    ASSUME NEW s, Good(s), s.shots > 0
    PROVE  Good(StartNewQuicklauncher(s))
  <1> DEFINE t == Spawn(s, "quicklauncher")
             x == [pid |-> Len(s.spawned) + 1, ready |-> FALSE]
             u == StartNewQuicklauncher(s)
  <1>1. t \in LauncherType /\ SameTables(s, t) /\ Len(s.spawned) + 1 \in Nat \ {0}
    BY SpawnType DEF Good
  <1>2. x \in Pooled
    BY <1>1 DEF Pooled
  <1>3. t.shots = s.shots /\ s.shots \in Nat
    BY Parts DEF Good, Spawn, LauncherType
  <1> HIDE DEF x, t
  <1>4. Append(t.pool, x) \in Seq(Pooled) /\ t.shots - 1 \in Nat
    BY <1>1, <1>2, <1>3, Parts, AppendSeq
  <1>5. u = [t EXCEPT !.pool = Append(t.pool, x), !.shots = t.shots - 1]
    BY DEF StartNewQuicklauncher, t, x
  <1> HIDE DEF u
  <1>6. u \in LauncherType /\ SameTables(s, u)
    BY <1>1, <1>4, <1>5 DEF LauncherType, SameTables, Pooled
  <1> QED
    BY <1>6, SameTablesAgree DEF Good, u

\* A change of the pool alone
LEMMA PoolGood ==
    ASSUME NEW s, Good(s), NEW q \in Seq(Pooled)
    PROVE  Good(Respawn([s EXCEPT !.pool = q]))
  <1> DEFINE t == [s EXCEPT !.pool = q]
  <1>1. t \in LauncherType /\ SameTables(s, t)
    BY DEF Good, LauncherType, SameTables, Pooled
  <1> HIDE DEF t
  <1>2. Respawn(t) \in LauncherType /\ SameTables(s, Respawn(t))
    BY <1>1, RespawnType DEF SameTables
  <1> QED
    BY <1>2, SameTablesAgree DEF Good, t

LEMMA PoolAvailableGood ==
    ASSUME NEW s, Good(s), NEW pid
    PROVE  Good(PoolAvailable(s, pid))
  <1> DEFINE q == [i \in DOMAIN s.pool |->
                      IF s.pool[i].pid = pid THEN [s.pool[i] EXCEPT !.ready = TRUE]
                      ELSE s.pool[i]]
  <1>1. s.pool \in Seq(Pooled) /\ Len(s.pool) \in Nat /\ DOMAIN s.pool = 1..Len(s.pool)
    BY Parts DEF Good
  <1>2. \A i \in 1..Len(s.pool) : s.pool[i] \in Pooled
    BY <1>1
  <1>3. \A p \in Pooled : [p EXCEPT !.ready = TRUE] \in Pooled
    BY DEF Pooled
  <1>4. q \in [1..Len(s.pool) -> Pooled]
    BY <1>1, <1>2, <1>3
  <1> HIDE DEF q
  <1>5. q \in Seq(Pooled)
    BY <1>1, <1>4
  <1> QED
    BY <1>5, PoolGood DEF PoolAvailable, q

LEMMA PoolExitedGood ==
    ASSUME NEW s, Good(s), NEW pid, \E i \in DOMAIN s.pool : s.pool[i].pid = pid
    PROVE  Good(PoolExited(s, pid))
  <1> DEFINE i == CHOOSE j \in DOMAIN s.pool : s.pool[j].pid = pid
  <1>1. i \in DOMAIN s.pool
    OBVIOUS
  <1> HIDE DEF i
  <1>2. RemoveAt(s.pool, i) \in Seq(Pooled)
    BY <1>1, Parts, RemoveAtSeq DEF Good
  <1> QED
    BY <1>2, PoolGood DEF PoolExited, i

\* What a process does to a file and the server to its messages
LEMMA FileGood ==
    ASSUME NEW s, Good(s), NEW app
    PROVE  Good([s EXCEPT !.files[app] = <<>>])
  <1> DEFINE t == [s EXCEPT !.files[app] = <<>>]
  <1>1. [s.files EXCEPT ![app] = <<>>] \in [Apps -> Seq(1..MaxMessages)]
    <2>1. s.files \in [Apps -> Seq(1..MaxMessages)] /\ <<>> \in Seq(1..MaxMessages)
      BY Parts DEF Good
    <2> DEFINE f == s.files
    <2>2. f \in [Apps -> Seq(1..MaxMessages)]
      BY <2>1
    <2> HIDE DEF f
    <2>3. [f EXCEPT ![app] = <<>>] \in [Apps -> Seq(1..MaxMessages)]
      BY <2>1, <2>2
    <2> QED
      BY <2>3 DEF f
  <1>2. t \in LauncherType /\ SameTables(s, t)
    BY <1>1 DEF Good, LauncherType, SameTables
  <1> HIDE DEF t
  <1> QED
    BY <1>2, SameTablesAgree DEF Good, t

LEMMA OutGood ==
    ASSUME NEW s, Good(s), s.out # <<>>
    PROVE  Good([s EXCEPT !.out = Tail(s.out)])
  <1> DEFINE t == [s EXCEPT !.out = Tail(s.out)]
  <1>1. Tail(s.out) \in Seq(Sent)
    BY Parts DEF Good
  <1>2. t \in LauncherType /\ SameTables(s, t)
    BY <1>1 DEF Good, LauncherType, SameTables, Sent
  <1> HIDE DEF t
  <1> QED
    BY <1>2, SameTablesAgree DEF Good, t
-----------------------------------------------------------------------------

IInv == Good(launcher) /\ sent \in Seq(Apps)

LEMMA InitIInv == Init => IInv
  <1> SUFFICES ASSUME Init PROVE IInv
    OBVIOUS
  <1>1. launcher \in LauncherType
    BY DEF Init, LauncherInit, LauncherType, NoEntry, States, Kinds
  <1>2. \A app \in Apps : Owners(launcher, app) = {}
    BY DEF Init, LauncherInit, Owners, NoEntry
  <1>3. TablesAgree(launcher)
    BY <1>2 DEF Init, LauncherInit, TablesAgree, Agree
  <1> QED
    BY <1>1, <1>3 DEF Init, IInv, Good

LEMMA StepIInv == IInv /\ [Next]_vars => IInv'
  <1> SUFFICES ASSUME IInv, [Next]_vars PROVE IInv'
    OBVIOUS
  <1>0. Good(launcher) /\ sent \in Seq(Apps) /\ \A p \in Pids : p \in Nat \ {0}
    BY DEF IInv, Pids
  <1>1. ASSUME NEW app \in Apps, Route(app) PROVE IInv'
    <2>1. Len(sent) + 1 \in 1..MaxMessages
      BY <1>0, <1>1, LauncherBounds DEF Route
    <2>2. Good(RouteMessage(launcher, app, Len(sent) + 1))
      BY <1>0, <2>1, RouteMessageGood
    <2>3. Append(sent, app) \in Seq(Apps)
      BY <1>0, AppendSeq
    <2> QED
      BY <1>1, <2>2, <2>3 DEF Route, IInv
  <1>2. ASSUME RespawnShot PROVE IInv'
    BY <1>0, <1>2, StartNewGood DEF RespawnShot, IInv, history
  <1>3. ASSUME NEW p \in Pids, ServerReads(p) PROVE IInv'
    <2>1. \/ launcher' = launcher
          \/ launcher' = Available(launcher, name[p], p)
          \/ launcher' = PoolAvailable(launcher, p)
      BY <1>3 DEF ServerReads
    <2>2. Good(launcher')
      BY <1>0, <2>1, AvailableGood, PoolAvailableGood
    <2> QED
      BY <1>0, <1>3, <2>2 DEF ServerReads, IInv, history
  <1>4. ASSUME Dispatch PROVE IInv'
    BY <1>0, <1>4, OutGood DEF Dispatch, IInv
  <1>5. ASSUME NEW p \in Pids, Reap(p) PROVE IInv'
    <2>1. sent' = sent
      BY <1>5 DEF Reap
    <2>2. Good(launcher')
      BY <1>0, <1>5, PoolExitedGood, AppGoneGood DEF Reap
    <2> QED
      BY <1>0, <2>1, <2>2 DEF IInv
  <1>6. ASSUME NEW p \in Pids,
               \/ Boot(p) \/ BootQuick(p) \/ IdleReads(p) \/ Exec(p) \/ Dies(p)
        PROVE IInv'
    BY <1>0, <1>6 DEF Boot, BootQuick, IdleReads, Exec, Dies, IInv, history
  <1>7. ASSUME NEW p \in Pids, ReadFile(p) \/ DotpidMessage(p) PROVE IInv'
    <2>1. launcher' = [launcher EXCEPT !.files[name[p]] = <<>>] /\ sent' = sent
      BY <1>7 DEF ReadFile, DotpidMessage, ProcessQCopFile, history
    <2>2. Good([launcher EXCEPT !.files[name[p]] = <<>>])
      BY <1>0, FileGood
    <2> QED
      BY <1>0, <2>1, <2>2 DEF IInv
  <1>8. ASSUME NEW app \in Apps, KillApp(app) PROVE IInv'
    BY <1>0, <1>8, KillGood DEF KillApp, IInv
  <1>9. CASE UNCHANGED vars
    BY <1>0, <1>9 DEF vars, history, IInv
  <1> QED
    BY <1>1, <1>2, <1>3, <1>4, <1>5, <1>6, <1>7, <1>8, <1>9 DEF Next, Progress

\* An application has one process at most, and m_runningApps, the entries of
\* the type launchers, the routes and busyApps agree about it, whatever is
\* launched, killed, crashes or becomes ready, and in whatever order it is told
\* (ApplicationLauncher, ExeApplicationLauncher, QCopRouter).
THEOREM TablesAlwaysAgree == Spec => []TablesAgree(launcher)
  <1>1. IInv => TablesAgree(launcher)
    BY DEF IInv, Good
  <1> QED
    BY <1>1, InitIInv, StepIInv, PTL DEF Spec

\* The server's state keeps its type.
THEOREM LauncherTypeCorrect == Spec => [](launcher \in LauncherType)
  <1>1. IInv => launcher \in LauncherType
    BY DEF IInv, Good
  <1> QED
    BY <1>1, InitIInv, StepIInv, PTL DEF Spec

-----------------------------------------------------------------------------
\* Who owns a process

Entry == [pid : Nat, state : States]

InPool(s, p) == \E i \in DOMAIN s.pool : s.pool[i].pid = p
InEntry(s, p) == \E k \in Kinds, a \in Apps : s.entries[k][a].pid = p

\* The processes the server waits for
Owned(s) == { p \in Nat \ {0} : InPool(s, p) \/ InEntry(s, p) }

\* A process is in one place of the pool or in one entry, it was started, and
\* so was the one a message of the server goes to
Placed(s) ==
    /\ \A i, j \in DOMAIN s.pool : s.pool[i].pid = s.pool[j].pid => i = j
    /\ \A k, l \in Kinds, a, b \in Apps :
           s.entries[k][a].pid = s.entries[l][b].pid /\ s.entries[k][a].pid # 0 =>
               k = l /\ a = b
    /\ \A i \in DOMAIN s.pool, k \in Kinds, a \in Apps : s.pool[i].pid # s.entries[k][a].pid
    /\ Owned(s) \subseteq DOMAIN s.spawned
    /\ \A i \in DOMAIN s.out : s.out[i].to \in DOMAIN s.spawned

\* What an operator that starts and ends no process leaves alone
SamePlaces(s, t) ==
    /\ DOMAIN t.pool = DOMAIN s.pool /\ \A i \in DOMAIN s.pool : t.pool[i].pid = s.pool[i].pid
    /\ t.spawned = s.spawned
    /\ \A k \in Kinds, a \in Apps : t.entries[k][a].pid = s.entries[k][a].pid

LEMMA SameOwned ==
    ASSUME NEW s, NEW t, SamePlaces(s, t)
    PROVE  Owned(t) = Owned(s)
  BY DEF SamePlaces, Owned, InPool, InEntry

LEMMA SamePlaced ==
    ASSUME NEW s, NEW t, SamePlaces(s, t), Placed(s),
           \A i \in DOMAIN t.out : t.out[i].to \in DOMAIN t.spawned
    PROVE  Placed(t)
  BY SameOwned DEF SamePlaces, Placed

LEMMA SentOne ==
    ASSUME NEW q \in Seq(Sent), NEW x \in Sent, NEW D,
           \A i \in DOMAIN q : q[i].to \in D, x.to \in D
    PROVE  \A i \in DOMAIN Append(q, x) : Append(q, x)[i].to \in D
  <1> HIDE DEF Sent
  <1>1. DOMAIN Append(q, x) = DOMAIN q \cup {Len(q) + 1}
        /\ (\A i \in DOMAIN q : Append(q, x)[i] = q[i]) /\ Append(q, x)[Len(q) + 1] = x
    OBVIOUS
  <1> QED
    BY <1>1

LEMMA RouteToPlaced ==
    ASSUME NEW s \in LauncherType, NEW kind \in Kinds, NEW app \in Apps,
           NEW msg \in 1..MaxMessages, Placed(s), s.entries[kind][app].pid # 0
    PROVE  /\ Placed(RouteTo(s, kind, app, msg)) /\ SamePlaces(s, RouteTo(s, kind, app, msg))
  <1> DEFINE prod == [to |-> s.entries[kind][app].pid, channel |-> "pid",
                      what |-> "QPEProcessQCop"]
             t == RouteTo(s, kind, app, msg)
  <1>1. s.entries[kind][app].pid \in Nat /\ s.out \in Seq(Sent)
    BY Parts
  <1>2. prod \in Sent /\ prod.to = s.entries[kind][app].pid
    BY <1>1 DEF Sent
  <1>3. prod.to \in DOMAIN s.spawned
    BY <1>1, <1>2 DEF Placed, Owned, InEntry
  <1>4. t.out = Append(s.out, prod) /\ SamePlaces(s, t)
    BY DEF RouteTo, LauncherType, SamePlaces
  <1> HIDE DEF prod, t
  <1>5. \A i \in DOMAIN t.out : t.out[i].to \in DOMAIN t.spawned
    BY <1>1, <1>2, <1>3, <1>4, SentOne DEF Placed, SamePlaces
  <1> QED
    BY <1>4, <1>5, SamePlaced DEF t

LEMMA ChangeKeeps ==
    ASSUME NEW s \in LauncherType, NEW app \in Apps, NEW state \in States
    PROVE  LET t == HandleStateChange(s, app, state) IN
           /\ t.entries = s.entries /\ t.pool = s.pool /\ t.spawned = s.spawned
           /\ t.out = s.out /\ t.routes = s.routes
  BY DEF HandleStateChange, LauncherType, States

\* The entries with a new one
Entered(s, kind, app, pid) ==
    [s.entries EXCEPT ![kind][app] = [pid |-> pid, state |-> "Starting"]]

\* What addStartingApplication() does to the processes' places
LEMMA AddStartingPlaces ==
    ASSUME NEW s \in LauncherType, NEW kind \in Kinds, NEW app \in Apps,
           NEW pid \in Nat \ {0}, NEW msg \in 0..MaxMessages
    PROVE  LET w == AddStartingApplication(s, kind, app, pid, msg) IN
           /\ w \in LauncherType
           /\ w.entries = Entered(s, kind, app, pid)
           /\ w.pool = s.pool /\ w.spawned = s.spawned
           /\ \/ w.out = s.out
              \/ \E x \in Sent : x.to = pid /\ x.channel = "pid" /\ w.out = Append(s.out, x)
  <1> DEFINE e == [pid |-> pid, state |-> "Starting"]
             t == [s EXCEPT !.entries[kind][app] = e]
             u == [t EXCEPT !.routes[app] = @ \cup {kind}]
             v == AddRoute(t, kind, app, msg)
             w == HandleStateChange(v, app, "Starting")
             x == [to |-> pid, channel |-> "pid", what |-> "QPEProcessQCop"]
  <1>1. t \in LauncherType /\ t.pool = s.pool /\ t.spawned = s.spawned /\ t.out = s.out
        /\ t.entries = [s.entries EXCEPT ![kind][app] = e]
    <2>1. e \in [pid : Nat, state : States]
      BY DEF States
    <2> QED
      BY <2>1 DEF LauncherType
  <1>2. u \in LauncherType /\ u.pool = s.pool /\ u.spawned = s.spawned /\ u.out = s.out
        /\ u.entries = [s.entries EXCEPT ![kind][app] = e]
    <2> HIDE DEF t
    <2>1. [t.routes EXCEPT ![app] = @ \cup {kind}] \in [Apps -> SUBSET Kinds]
      BY <1>1, Parts
    <2> QED
      BY <1>1, <2>1 DEF LauncherType
  <1>3. u.entries[kind][app].pid = pid
    <2> HIDE DEF u
    <2> QED
      BY <1>2, Parts
  <1>4. x \in Sent
    BY DEF Sent
  <1>5. v \in LauncherType /\ v.pool = s.pool /\ v.spawned = s.spawned
        /\ (v.out = s.out \/ v.out = Append(s.out, x))
        /\ v.entries = [s.entries EXCEPT ![kind][app] = e]
    <2> HIDE DEF u
    <2>1. CASE msg = 0
      BY <1>2, <2>1 DEF AddRoute, u
    <2>2. CASE msg \in 1..MaxMessages
      <3>1. v = RouteTo(u, kind, app, msg)
        BY <2>2 DEF AddRoute, u
      <3>2. v \in LauncherType
        BY <1>2, <2>2, <3>1, RouteToType
      <3>3. v.pool = u.pool /\ v.spawned = u.spawned /\ v.entries = u.entries
            /\ v.out = Append(u.out, x)
        BY <1>2, <1>3, <3>1 DEF RouteTo, LauncherType
      <3> QED
        BY <1>2, <3>2, <3>3
    <2>3. msg = 0 \/ msg \in 1..MaxMessages
      BY LauncherBounds
    <2> QED
      BY <2>1, <2>2, <2>3
  <1> HIDE DEF v, x
  <1>6. "Starting" \in States
    BY DEF States
  <1>7. /\ w \in LauncherType /\ w.entries = v.entries /\ w.pool = v.pool
        /\ w.spawned = v.spawned /\ w.out = v.out
    BY <1>5, <1>6, HandleStateChangeType, ChangeKeeps
  <1>8. x.to = pid /\ x.channel = "pid"
    BY DEF x
  <1>9. AddStartingApplication(s, kind, app, pid, msg) = w
    BY DEF AddStartingApplication, v
  <1> HIDE DEF w, e
  <1> QED
    BY <1>4, <1>5, <1>7, <1>8, <1>9 DEF e, Entered

\* A process that nobody owned becomes the one of an application that had none
LEMMA EntryPlaced ==
    ASSUME NEW s \in LauncherType, NEW w \in LauncherType, Placed(s),
           NEW kind \in Kinds, NEW app \in Apps, NEW pid \in Nat \ {0},
           s.entries[kind][app].pid = 0, pid \notin Owned(s), pid \in DOMAIN s.spawned,
           w.entries = Entered(s, kind, app, pid),
           w.pool = s.pool, w.spawned = s.spawned,
           \/ w.out = s.out
           \/ \E x \in Sent : x.to = pid /\ w.out = Append(s.out, x)
    PROVE  Placed(w) /\ Owned(w) = Owned(s) \cup {pid}
  <1>1. /\ w.entries[kind][app].pid = pid
        /\ \A k \in Kinds, a \in Apps : k # kind \/ a # app => w.entries[k][a] = s.entries[k][a]
        /\ \A k \in Kinds, a \in Apps : s.entries[k][a].pid \in Nat
    BY Parts DEF Entered
  <1>2. \A k \in Kinds, a \in Apps : s.entries[k][a].pid # pid
    BY DEF Owned, InEntry
  <1>3. \A i \in DOMAIN s.pool : s.pool[i].pid # pid
    BY DEF Owned, InPool
  <1>4. Owned(w) = Owned(s) \cup {pid}
    <2>1. \A p \in Nat \ {0} : InEntry(w, p) <=> InEntry(s, p) \/ p = pid
      BY <1>1 DEF InEntry
    <2>2. \A p : InPool(w, p) <=> InPool(s, p)
      BY DEF InPool
    <2> QED
      BY <2>1, <2>2 DEF Owned
  <1>5. \A i \in DOMAIN w.out : w.out[i].to \in DOMAIN w.spawned
    <2>1. s.out \in Seq(Sent) /\ \A i \in DOMAIN s.out : s.out[i].to \in DOMAIN s.spawned
      BY Parts DEF Placed
    <2>2. CASE w.out = s.out
      BY <2>1, <2>2
    <2>3. ASSUME NEW x \in Sent, x.to = pid, w.out = Append(s.out, x)
          PROVE  \A i \in DOMAIN w.out : w.out[i].to \in DOMAIN w.spawned
      <3>1. \A i \in DOMAIN Append(s.out, x) : Append(s.out, x)[i].to \in DOMAIN s.spawned
        BY <2>1, <2>3, SentOne
      <3> QED
        BY <2>3, <3>1
    <2> QED
      BY <2>2, <2>3
  <1>6. \A k, l \in Kinds, a, b \in Apps :
           w.entries[k][a].pid = w.entries[l][b].pid /\ w.entries[k][a].pid # 0 =>
               k = l /\ a = b
    <2> SUFFICES ASSUME NEW k \in Kinds, NEW l \in Kinds, NEW a \in Apps, NEW b \in Apps,
                        w.entries[k][a].pid = w.entries[l][b].pid, w.entries[k][a].pid # 0
                 PROVE  k = l /\ a = b
      OBVIOUS
    <2>1. s.entries[k][a].pid = s.entries[l][b].pid /\ s.entries[k][a].pid # 0 =>
               k = l /\ a = b
      BY DEF Placed
    <2>2. CASE (k # kind \/ a # app) /\ (l # kind \/ b # app)
      BY <1>1, <2>1, <2>2
    <2>3. CASE k = kind /\ a = app
      BY <1>1, <1>2, <2>3
    <2>4. CASE l = kind /\ b = app
      BY <1>1, <1>2, <2>4
    <2> QED
      BY <2>2, <2>3, <2>4
  <1>7. \A i \in DOMAIN w.pool, k \in Kinds, a \in Apps : w.pool[i].pid # w.entries[k][a].pid
    BY <1>1, <1>3 DEF Placed
  <1> QED
    BY <1>4, <1>5, <1>6, <1>7 DEF Placed

LEMMA ConcatSeq ==
    ASSUME NEW S, NEW q \in Seq(S), NEW r \in Seq(S)
    PROVE  /\ q \o r \in Seq(S) /\ Len(q \o r) = Len(q) + Len(r)
           /\ DOMAIN (q \o r) = 1..(Len(q) + Len(r))
           /\ \A j \in 1..(Len(q) + Len(r)) :
                  (q \o r)[j] = IF j <= Len(q) THEN q[j] ELSE r[j - Len(q)]
  OBVIOUS

\* What is left of a sequence without one of its elements
LEMMA RemoveAtElements ==
    ASSUME NEW S, NEW q \in Seq(S), NEW i \in DOMAIN q
    PROVE  /\ \A j \in DOMAIN RemoveAt(q, i) : \E n \in DOMAIN q \ {i} : RemoveAt(q, i)[j] = q[n]
           /\ \A n \in DOMAIN q \ {i} : \E j \in DOMAIN RemoveAt(q, i) : RemoveAt(q, i)[j] = q[n]
           /\ \A j, m \in DOMAIN RemoveAt(q, i) : j # m => \E n, o \in DOMAIN q \ {i} :
                  n # o /\ RemoveAt(q, i)[j] = q[n] /\ RemoveAt(q, i)[m] = q[o]
  <1> DEFINE r == RemoveAt(q, i)
             l == Len(q)
             a == SubSeq(q, 1, i - 1)
             b == SubSeq(q, i + 1, l)
             at(j) == IF j < i THEN j ELSE j + 1
  <1>1. l \in Nat /\ i \in 1..l /\ DOMAIN q = 1..l
    OBVIOUS
  <1>2. \A j \in 1..l : q[j] \in S
    BY <1>1
  <1>3. r = a \o b
    BY DEF RemoveAt
  <1>4. a \in Seq(S) /\ Len(a) = i - 1 /\ \A j \in 1..(i - 1) : a[j] = q[j]
    <2>1. \A j \in 1..(i - 1) : j \in 1..l
      BY <1>1
    <2> QED
      BY <1>1, <1>2, <2>1
  <1>5. b \in Seq(S) /\ Len(b) = l - i /\ \A j \in 1..(l - i) : b[j] = q[i + j]
    <2> HIDE DEF l
    <2>1. b = [j \in 1..(l - i) |-> q[i + j]]
      BY <1>1
    <2>2. \A j \in 1..(l - i) : i + j \in 1..l
      BY <1>1
    <2>3. l - i \in Nat
      BY <1>1
    <2> HIDE DEF b
    <2> QED
      BY <1>2, <2>1, <2>2, <2>3
  <1> HIDE DEF r, a, b, l
  <1>6. /\ Len(r) = l - 1 /\ DOMAIN r = 1..(l - 1)
        /\ \A j \in 1..(l - 1) : r[j] = IF j <= i - 1 THEN a[j] ELSE b[j - (i - 1)]
    <2>1. Len(a) + Len(b) = l - 1
      BY <1>1, <1>4, <1>5
    <2>2. Len(r) = Len(a) + Len(b) /\ DOMAIN r = 1..Len(r)
          /\ \A j \in 1..Len(r) : r[j] = IF j <= Len(a) THEN a[j] ELSE b[j - Len(a)]
      BY <1>3, <1>4, <1>5, ConcatSeq
    <2>3. Len(r) = l - 1
      BY <2>1, <2>2
    <2>4. Len(a) = i - 1
      BY <1>4
    <2> QED
      BY <2>2, <2>3, <2>4, Zenon
  <1>7. \A j \in DOMAIN r : r[j] = q[at(j)] /\ at(j) \in DOMAIN q \ {i}
    <2> SUFFICES ASSUME NEW j \in 1..(l - 1)
                 PROVE  r[j] = q[at(j)] /\ at(j) \in (1..l) \ {i}
      BY <1>1, <1>6
    <2>1. CASE j < i
      BY <1>1, <1>4, <1>6, <2>1
    <2>2. CASE ~(j < i)
      <3>1. j - (i - 1) \in 1..(l - i) /\ r[j] = b[j - (i - 1)]
        BY <1>1, <1>6, <2>2
      <3>2. b[j - (i - 1)] = q[i + (j - (i - 1))] /\ i + (j - (i - 1)) = j + 1
        BY <1>1, <1>5, <3>1
      <3> QED
        BY <1>1, <2>2, <3>1, <3>2
    <2> QED
      BY <2>1, <2>2
  <1>8. \A j, m \in DOMAIN r : j # m => at(j) # at(m)
    BY <1>1, <1>6
  <1>9. ASSUME NEW n \in DOMAIN q \ {i} PROVE \E j \in DOMAIN r : at(j) = n
    <2>1. CASE n < i
      <3>1. n \in 1..(l - 1) /\ at(n) = n
        BY <1>1, <2>1
      <3> QED
        BY <1>6, <3>1
    <2>2. CASE n > i
      <3>1. n - 1 \in 1..(l - 1) /\ at(n - 1) = n
        BY <1>1, <2>2
      <3> QED
        BY <1>6, <3>1
    <2> QED
      BY <1>1, <2>1, <2>2
  <1> HIDE DEF at
  <1>10. \A n \in DOMAIN q \ {i} : \E j \in DOMAIN r : r[j] = q[n]
    BY <1>7, <1>9
  <1> QED
    BY <1>7, <1>8, <1>10 DEF r

\* A process is taken from the pool
LEMMA PoolTaken ==
    ASSUME NEW s \in LauncherType, NEW t \in LauncherType, Placed(s), NEW i \in DOMAIN s.pool,
           t.pool = RemoveAt(s.pool, i), t.entries = s.entries, t.spawned = s.spawned,
           t.out = s.out
    PROVE  /\ Placed(t) /\ Owned(t) = Owned(s) \ {s.pool[i].pid}
           /\ s.pool[i].pid \in Owned(s)
  <1> DEFINE q == s.pool
             r == t.pool
             pid == q[i].pid
  <1>1. q \in Seq(Pooled) /\ q[i] \in Pooled
    BY Parts
  <1>2. /\ \A j \in DOMAIN r : \E n \in DOMAIN q \ {i} : r[j] = q[n]
        /\ \A n \in DOMAIN q \ {i} : \E j \in DOMAIN r : r[j] = q[n]
        /\ \A j, m \in DOMAIN r : j # m => \E n, o \in DOMAIN q \ {i} :
               n # o /\ r[j] = q[n] /\ r[m] = q[o]
    <2> HIDE DEF q, r
    <2>1. r = RemoveAt(q, i) /\ i \in DOMAIN q
      BY DEF q, r
    <2> QED
      BY <1>1, <2>1, RemoveAtElements
  <1>3. pid \in Nat \ {0} /\ pid \in Owned(s)
    BY <1>1 DEF Pooled, Owned, InPool
  <1>4. \A n \in DOMAIN q \ {i} : q[n].pid # pid
    BY DEF Placed
  <1>5. \A k \in Kinds, a \in Apps : s.entries[k][a].pid # pid
    BY DEF Placed
  <1>6. \A p : InPool(t, p) <=> InPool(s, p) /\ p # pid
    BY <1>2, <1>4 DEF InPool
  <1>7. \A p : InEntry(t, p) <=> InEntry(s, p)
    BY DEF InEntry
  <1>8. ~InEntry(s, pid)
    BY <1>5 DEF InEntry
  <1>9. Owned(t) = Owned(s) \ {pid}
    BY <1>6, <1>7, <1>8 DEF Owned
  <1>10. \A j, m \in DOMAIN r : r[j].pid = r[m].pid => j = m
    BY <1>2 DEF Placed
  <1>11. \A j \in DOMAIN r, k \in Kinds, a \in Apps : r[j].pid # t.entries[k][a].pid
    BY <1>2 DEF Placed
  <1> QED
    BY <1>3, <1>9, <1>10, <1>11 DEF Placed

\* A process that nobody owns is no entry's and not in the pool
LEMMA NotOwned ==
    ASSUME NEW s \in LauncherType, NEW p \in Nat \ {0}
    PROVE  /\ p \notin Owned(s) <=> ~InPool(s, p) /\ ~InEntry(s, p)
           /\ (\A i \in DOMAIN s.pool : s.pool[i].pid \in Owned(s))
           /\ (\A k \in Kinds, a \in Apps : s.entries[k][a].pid # 0 => s.entries[k][a].pid \in Owned(s))
  <1>1. \A i \in DOMAIN s.pool : s.pool[i].pid \in Nat \ {0}
    <2>1. \A i \in DOMAIN s.pool : s.pool[i] \in Pooled
      BY Parts
    <2> QED
      BY <2>1 DEF Pooled
  <1>2. \A k \in Kinds, a \in Apps : s.entries[k][a].pid \in Nat
    BY Parts
  <1> QED
    BY <1>1, <1>2 DEF Owned, InPool, InEntry

\* What starting nothing, and what starting one process does
Keeps(s, t) == t.spawned = s.spawned /\ Owned(t) = Owned(s)
Starts(s, t, exe) ==
    /\ t.spawned = Append(s.spawned, exe)
    /\ Owned(t) = Owned(s) \cup {Len(s.spawned) + 1}

LEMMA SameKeeps ==
    ASSUME NEW s, NEW t, SamePlaces(s, t), t.out = s.out, Placed(s)
    PROVE  Placed(t) /\ Keeps(s, t)
  BY SameOwned, SamePlaced DEF Keeps, Placed, SamePlaces

LEMMA RespawnPlaces ==
    ASSUME NEW s \in LauncherType
    PROVE  SamePlaces(s, Respawn(s)) /\ Respawn(s).out = s.out
  BY DEF Respawn, SamePlaces, LauncherType

LEMMA SpawnPlaced ==
    ASSUME NEW s \in LauncherType, NEW exe \in Apps \cup {"quicklauncher"}, Placed(s)
    PROVE  LET t == Spawn(s, exe)
               pid == Len(s.spawned) + 1 IN
           /\ t.spawned = Append(s.spawned, exe) /\ t.pool = s.pool /\ t.entries = s.entries
           /\ Placed(t) /\ Owned(t) = Owned(s)
           /\ pid \in Nat \ {0} /\ pid \in DOMAIN t.spawned /\ pid \notin Owned(t)
  <1> DEFINE t == Spawn(s, exe)
             pid == Len(s.spawned) + 1
             q == Append(s.spawned, exe)
  <1>1. t.spawned = q /\ t.pool = s.pool /\ t.entries = s.entries /\ t.out = s.out
    BY DEF Spawn, LauncherType
  <1>2. s.spawned \in Seq(Apps \cup {"quicklauncher"})
    BY Parts
  <1>3. /\ Len(s.spawned) \in Nat /\ DOMAIN s.spawned = 1..Len(s.spawned)
        /\ DOMAIN q = 1..(Len(s.spawned) + 1)
    BY <1>2
  <1> HIDE DEF t, q
  <1>4. pid \in Nat \ {0} /\ pid \in DOMAIN q /\ pid \notin DOMAIN s.spawned
        /\ DOMAIN s.spawned \subseteq DOMAIN q
    BY <1>3
  <1> HIDE DEF pid
  <1>5. Owned(t) = Owned(s)
    BY <1>1 DEF Owned, InPool, InEntry
  <1>6. Placed(t)
    BY <1>1, <1>4, <1>5 DEF Placed
  <1>7. pid \notin Owned(t)
    BY <1>4, <1>5 DEF Placed
  <1> QED
    BY <1>1, <1>4, <1>5, <1>6, <1>7 DEF t, q, pid

LEMMA StartEntryPlaced ==
    ASSUME NEW s \in LauncherType, Placed(s), NEW kind \in Kinds, NEW app \in Apps,
           NEW pid \in Nat \ {0}, NEW msg \in 0..MaxMessages,
           s.entries[kind][app].pid = 0, pid \notin Owned(s), pid \in DOMAIN s.spawned
    PROVE  LET w == AddStartingApplication(s, kind, app, pid, msg) IN
           /\ w \in LauncherType /\ Placed(w) /\ Owned(w) = Owned(s) \cup {pid}
           /\ w.spawned = s.spawned
  <1> DEFINE w == AddStartingApplication(s, kind, app, pid, msg)
  <1>1. /\ w \in LauncherType
        /\ w.entries = Entered(s, kind, app, pid)
        /\ w.pool = s.pool /\ w.spawned = s.spawned
        /\ \/ w.out = s.out
           \/ \E x \in Sent : x.to = pid /\ x.channel = "pid" /\ w.out = Append(s.out, x)
    BY AddStartingPlaces
  <1> HIDE DEF w
  <1>2. w.out = s.out \/ \E x \in Sent : x.to = pid /\ w.out = Append(s.out, x)
    BY <1>1
  <1>3. Placed(w) /\ Owned(w) = Owned(s) \cup {pid}
    BY <1>1, <1>2, EntryPlaced
  <1> QED
    BY <1>1, <1>3 DEF w

LEMMA SimpleLaunchPlaced ==
    ASSUME NEW s \in LauncherType, Placed(s), NEW app \in Apps, NEW msg \in 0..MaxMessages,
           s.entries["simple"][app].pid = 0
    PROVE  LET w == SimpleLaunch(s, app, msg) IN
           w \in LauncherType /\ Placed(w) /\ Starts(s, w, app)
  <1> DEFINE t == Spawn(s, app)
             pid == Len(s.spawned) + 1
             w == AddStartingApplication(t, "simple", app, pid, msg)
  <1>0. "simple" \in Kinds
    BY DEF Kinds
  <1>1. t \in LauncherType
    BY SpawnType
  <1>2. /\ t.spawned = Append(s.spawned, app) /\ t.pool = s.pool /\ t.entries = s.entries
        /\ Placed(t) /\ Owned(t) = Owned(s)
        /\ pid \in Nat \ {0} /\ pid \in DOMAIN t.spawned /\ pid \notin Owned(t)
    BY SpawnPlaced
  <1> HIDE DEF t, pid
  <1>3. t.entries["simple"][app].pid = 0
    BY <1>2
  <1>4. /\ w \in LauncherType /\ Placed(w) /\ Owned(w) = Owned(t) \cup {pid}
        /\ w.spawned = t.spawned
    BY <1>0, <1>1, <1>2, <1>3, StartEntryPlaced
  <1> HIDE DEF w
  <1>5. Starts(s, w, app)
    BY <1>2, <1>4 DEF Starts, pid
  <1>6. SimpleLaunch(s, app, msg) = w
    BY DEF SimpleLaunch, IsRunning, w, t, pid
  <1> QED
    BY <1>4, <1>5, <1>6

LEMMA QuickLaunchPlaced ==
    ASSUME NEW s \in LauncherType, Placed(s), NEW app \in Apps, NEW msg \in 0..MaxMessages,
           s.entries["quick"][app].pid = 0, Ready(s) # {}
    PROVE  LET w == QuickLaunch(s, app, msg) IN
           w \in LauncherType /\ Placed(w) /\ Keeps(s, w)
  <1> DEFINE i == CHOOSE j \in Ready(s) : TRUE
             pid == s.pool[i].pid
             t == [s EXCEPT !.pool = RemoveAt(@, i)]
             u == AddStartingApplication(t, "quick", app, pid, msg)
             x == [to |-> pid, channel |-> "quick", what |-> app]
             v == [u EXCEPT !.out = Append(@, x)]
  <1>0. "quick" \in Kinds
    BY DEF Kinds
  <1>1. i \in DOMAIN s.pool
    BY DEF Ready
  <1> HIDE DEF i
  <1>2. s.pool[i] \in Pooled /\ RemoveAt(s.pool, i) \in Seq(Pooled)
    BY <1>1, Parts, RemoveAtSeq
  <1>3. /\ t \in LauncherType /\ t.pool = RemoveAt(s.pool, i) /\ t.entries = s.entries
        /\ t.spawned = s.spawned /\ t.out = s.out
    BY <1>2 DEF LauncherType, Pooled
  <1>4. pid \in Nat \ {0}
    BY <1>2 DEF Pooled
  <1> HIDE DEF t
  <1>5. Placed(t) /\ Owned(t) = Owned(s) \ {pid} /\ pid \in Owned(s)
    BY <1>1, <1>3, PoolTaken
  <1>6. pid \in DOMAIN t.spawned
    BY <1>3, <1>5 DEF Placed
  <1> HIDE DEF pid
  <1>8. t.entries["quick"][app].pid = 0 /\ pid \notin Owned(t)
    BY <1>3, <1>5
  <1>7. /\ u \in LauncherType /\ Placed(u) /\ Owned(u) = Owned(t) \cup {pid}
        /\ u.spawned = t.spawned
    BY <1>0, <1>3, <1>4, <1>5, <1>6, <1>8, StartEntryPlaced
  <1> HIDE DEF u
  <1>9. Owned(u) = Owned(s)
    BY <1>5, <1>7
  <1>10. x \in Sent /\ x.to = pid
    BY <1>4 DEF Sent
  <1> HIDE DEF x
  <1>11. u.out \in Seq(Sent) /\ Append(u.out, x) \in Seq(Sent)
    BY <1>7, <1>10, Parts, AppendSeq
  <1>12. v \in LauncherType /\ SamePlaces(u, v) /\ v.out = Append(u.out, x)
    BY <1>7, <1>11 DEF LauncherType, SamePlaces, Sent
  <1> HIDE DEF v
  <1>13. \A j \in DOMAIN v.out : v.out[j].to \in DOMAIN v.spawned
    <2>1. v.spawned = u.spawned
      BY <1>12 DEF SamePlaces
    <2>2. (\A j \in DOMAIN u.out : u.out[j].to \in DOMAIN u.spawned) /\ x.to \in DOMAIN u.spawned
      BY <1>6, <1>7, <1>10 DEF Placed
    <2> QED
      BY <1>10, <1>11, <1>12, <2>1, <2>2, SentOne
  <1>14. Placed(v) /\ Owned(v) = Owned(u) /\ v.spawned = u.spawned
    BY <1>7, <1>12, <1>13, SamePlaced, SameOwned DEF SamePlaces
  <1>15. Respawn(v) \in LauncherType /\ Placed(Respawn(v)) /\ Keeps(v, Respawn(v))
    BY <1>12, <1>14, RespawnType, RespawnPlaces, SameKeeps
  <1>16. Keeps(s, Respawn(v))
    BY <1>3, <1>7, <1>9, <1>14, <1>15 DEF Keeps
  <1>17. QuickLaunch(s, app, msg) = Respawn(v)
    BY DEF QuickLaunch, IsRunning, v, x, u, t, pid, i
  <1> QED
    BY <1>15, <1>16, <1>17

LEMMA LaunchPlaced ==
    ASSUME NEW s, Good(s), Placed(s), NEW app \in Apps, NEW msg \in 0..MaxMessages
    PROVE  LET w == Launch(s, app, msg) IN
           Placed(w) /\ (Keeps(s, w) \/ Starts(s, w, app))
  <1> DEFINE w == Launch(s, app, msg)
             t == [s EXCEPT !.running[app] = Chosen(s, app)]
  <1>1. CASE s.running[app] # "none"
    BY <1>1 DEF Launch, Keeps
  <1>2. CASE s.running[app] = "none"
    <2>1. Chosen(s, app) \in Kinds /\ (Chosen(s, app) = "quick" => Ready(s) # {})
      BY DEF Chosen, CanQuickLaunch, Kinds
    <2>2. /\ t \in LauncherType /\ t.pool = s.pool /\ t.entries = s.entries
          /\ t.spawned = s.spawned /\ t.out = s.out
      BY <2>1 DEF Good, LauncherType
    <2> HIDE DEF t
    <2>3. Placed(t) /\ Keeps(s, t)
      BY <2>2, SameKeeps DEF SamePlaces
    <2>4. Owners(s, app) = {}
      BY <1>2 DEF Good, TablesAgree, Agree
    <2>5. t.entries["quick"][app].pid = 0 /\ t.entries["simple"][app].pid = 0
      BY <2>2, <2>4 DEF Owners, Kinds
    <2>6. CASE Chosen(s, app) = "quick"
      <3>1. Ready(t) # {}
        BY <2>1, <2>2, <2>6 DEF Ready
      <3>2. w = QuickLaunch(t, app, msg)
        BY <1>2, <2>6 DEF Launch, t
      <3>3. Placed(w) /\ Keeps(t, w)
        BY <2>2, <2>3, <2>5, <3>1, <3>2, QuickLaunchPlaced
      <3> QED
        BY <2>3, <3>3 DEF Keeps
    <2>7. CASE Chosen(s, app) # "quick"
      <3>1. w = SimpleLaunch(t, app, msg)
        BY <1>2, <2>7 DEF Launch, t
      <3>2. Placed(w) /\ Starts(t, w, app)
        BY <2>2, <2>3, <2>5, <3>1, SimpleLaunchPlaced
      <3> QED
        BY <2>3, <3>2 DEF Keeps, Starts
    <2> QED
      BY <2>6, <2>7
  <1> QED
    BY <1>1, <1>2

LEMMA RouteMessagePlaced ==
    ASSUME NEW s, Good(s), Placed(s), NEW app \in Apps, NEW msg \in 1..MaxMessages
    PROVE  LET w == RouteMessage(s, app, msg) IN
           Placed(w) /\ (Keeps(s, w) \/ Starts(s, w, app))
  <1> DEFINE t == Launch(s, app, msg)
             u == IF "quick" \in s.routes[app] THEN RouteTo(t, "quick", app, msg) ELSE t
             v == IF "simple" \in s.routes[app] THEN RouteTo(u, "simple", app, msg) ELSE u
  <1>0. msg \in 0..MaxMessages /\ "quick" \in Kinds /\ "simple" \in Kinds
        /\ s \in LauncherType
    BY LauncherBounds DEF Kinds, Good
  <1>1. s.routes[app] = Owners(s, app) /\ (s.routes[app] # {} => t = s)
    BY DEF Good, TablesAgree, Agree, Launch
  <1>2. Placed(t) /\ (Keeps(s, t) \/ Starts(s, t, app))
    BY <1>0, LaunchPlaced
  <1> HIDE DEF t
  <1>3. CASE s.routes[app] = {}
    <2>1. u = t
      BY <1>3
    <2> HIDE DEF u
    <2>2. v = u
      BY <1>3
    <2>3. RouteMessage(s, app, msg) = v
      BY DEF RouteMessage, v, u, t
    <2> QED
      BY <1>2, <2>1, <2>2, <2>3
  <1>4. CASE s.routes[app] # {}
    <2>1. /\ u \in LauncherType /\ Placed(u) /\ SamePlaces(s, u)
      <3>1. CASE "quick" \in s.routes[app]
        <4>1. s.entries["quick"][app].pid # 0
          BY <1>1, <3>1 DEF Owners
        <4> QED
          BY <1>0, <1>1, <1>4, <3>1, <4>1, RouteToType, RouteToPlaced
      <3>2. CASE "quick" \notin s.routes[app]
        BY <1>0, <1>1, <1>4, <3>2 DEF SamePlaces
      <3> QED
        BY <3>1, <3>2
    <2> HIDE DEF u
    <2>2. Placed(v) /\ SamePlaces(u, v)
      <3>1. CASE "simple" \in s.routes[app]
        <4>1. u.entries["simple"][app].pid # 0
          BY <1>0, <1>1, <2>1, <3>1 DEF Owners, SamePlaces
        <4> QED
          BY <1>0, <2>1, <3>1, <4>1, RouteToPlaced
      <3>2. CASE "simple" \notin s.routes[app]
        BY <2>1, <3>2 DEF SamePlaces
      <3> QED
        BY <3>1, <3>2
    <2>3. Keeps(s, v)
      <3> HIDE DEF v
      <3>1. Owned(u) = Owned(s) /\ Owned(v) = Owned(u)
        BY <2>1, <2>2, SameOwned
      <3> QED
        BY <2>1, <2>2, <3>1 DEF Keeps, SamePlaces
    <2> QED
      BY <2>2, <2>3 DEF RouteMessage, v, u, t
  <1> QED
    BY <1>3, <1>4

LEMMA AvailablePlaced ==
    ASSUME NEW s \in LauncherType, Placed(s), NEW app, NEW pid \in Nat \ {0}
    PROVE  Placed(Available(s, app, pid)) /\ Keeps(s, Available(s, app, pid))
  <1> DEFINE mine == {k \in Kinds : app \in Apps /\ s.entries[k][app].pid = pid}
             e == [k \in Kinds |-> IF k \in mine THEN [s.entries[k] EXCEPT ![app].state = "Running"]
                                   ELSE s.entries[k]]
             t == [s EXCEPT !.entries = e]
             u == HandleStateChange(t, app, "Running")
  <1>1. CASE mine = {}
    BY <1>1 DEF Available, Keeps
  <1>2. CASE mine # {}
    <2>1. \A k \in Kinds, a \in Apps : e[k][a].pid = s.entries[k][a].pid
      <3> SUFFICES ASSUME NEW k \in Kinds, NEW a \in Apps PROVE e[k][a].pid = s.entries[k][a].pid
        OBVIOUS
      <3> DEFINE f == s.entries[k]
      <3>1. f \in [Apps -> Entry]
        BY Parts DEF Entry
      <3> HIDE DEF f
      <3>2. \A g \in Entry : [g EXCEPT !.state = "Running"].pid = g.pid
        BY DEF Entry
      <3>3. [f EXCEPT ![app].state = "Running"][a].pid = f[a].pid
        BY <3>1, <3>2
      <3> HIDE DEF mine
      <3> QED
        BY <3>3 DEF f
    <2> HIDE DEF e, mine
    <2>2. t.pool = s.pool /\ t.spawned = s.spawned /\ t.out = s.out /\ t.entries = e
      BY DEF LauncherType
    <2>3. u.pool = t.pool /\ u.spawned = t.spawned /\ u.out = t.out /\ u.entries = t.entries
      BY DEF HandleStateChange, LauncherType
    <2> HIDE DEF u, t
    <2>4. SamePlaces(s, u)
      BY <2>1, <2>2, <2>3 DEF SamePlaces
    <2>5. Available(s, app, pid) = u
      BY <1>2 DEF Available, u, t, e, mine
    <2> QED
      BY <2>2, <2>3, <2>4, <2>5, SameKeeps
  <1> QED
    BY <1>1, <1>2

\* The end of a process of the pool, or of an application
LEMMA PoolExitedPlaced ==
    ASSUME NEW s \in LauncherType, Placed(s), NEW pid, \E i \in DOMAIN s.pool : s.pool[i].pid = pid
    PROVE  LET t == PoolExited(s, pid) IN
           Placed(t) /\ t.spawned = s.spawned /\ Owned(t) = Owned(s) \ {pid}
  <1> DEFINE i == CHOOSE j \in DOMAIN s.pool : s.pool[j].pid = pid
             u == [s EXCEPT !.pool = RemoveAt(s.pool, i)]
  <1>1. i \in DOMAIN s.pool /\ s.pool[i].pid = pid
    OBVIOUS
  <1> HIDE DEF i
  <1>2. RemoveAt(s.pool, i) \in Seq(Pooled)
    BY <1>1, Parts, RemoveAtSeq
  <1>3. /\ u \in LauncherType /\ u.pool = RemoveAt(s.pool, i) /\ u.entries = s.entries
        /\ u.spawned = s.spawned /\ u.out = s.out
    BY <1>2 DEF LauncherType, Pooled
  <1> HIDE DEF u
  <1>4. Placed(u) /\ Owned(u) = Owned(s) \ {pid}
    BY <1>1, <1>3, PoolTaken
  <1>5. Placed(Respawn(u)) /\ Keeps(u, Respawn(u))
    BY <1>3, <1>4, RespawnPlaces, SameKeeps
  <1>6. PoolExited(s, pid) = Respawn(u)
    BY DEF PoolExited, u, i
  <1> QED
    BY <1>3, <1>4, <1>5, <1>6 DEF Keeps

LEMMA AppGonePlaced ==
    ASSUME NEW s, Good(s), Placed(s), NEW kind \in Kinds, NEW app \in Apps,
           NEW pid, pid # 0, s.entries[kind][app].pid = pid
    PROVE  LET t == AppGone(s, kind, app) IN
           Placed(t) /\ t.spawned = s.spawned /\ Owned(t) = Owned(s) \ {pid}
  <1> DEFINE r == RemRoute(s, kind, app)
             t == [r EXCEPT !.entries[kind][app] = NoEntry]
             u == Terminated(t, app)
             w == HandleStateChange(u, app, "NotRunning")
  <1>0. s \in LauncherType
    BY DEF Good
  <1>1. /\ w.pool = s.pool /\ w.spawned = s.spawned /\ w.out = s.out
        /\ w.entries = [s.entries EXCEPT ![kind][app] = NoEntry]
    BY <1>0 DEF HandleStateChange, Terminated, RemRoute, LauncherType
  <1>2. AppGone(s, kind, app) = w
    BY DEF AppGone
  <1> HIDE DEF w
  <1>3. /\ w.entries[kind][app].pid = 0
        /\ \A k \in Kinds, a \in Apps : k # kind \/ a # app => w.entries[k][a] = s.entries[k][a]
    BY <1>0, <1>1, Parts DEF NoEntry
  <1>4. \A k \in Kinds, a \in Apps : s.entries[k][a].pid = pid => k = kind /\ a = app
    BY DEF Placed
  <1>5. \A p \in Nat \ {0} : InEntry(w, p) <=> InEntry(s, p) /\ p # pid
    <2> SUFFICES ASSUME NEW p \in Nat \ {0} PROVE InEntry(w, p) <=> InEntry(s, p) /\ p # pid
      OBVIOUS
    <2>1. ASSUME NEW k \in Kinds, NEW a \in Apps, w.entries[k][a].pid = p
          PROVE  s.entries[k][a].pid = p /\ p # pid
      BY <1>3, <1>4, <2>1
    <2>2. ASSUME NEW k \in Kinds, NEW a \in Apps, s.entries[k][a].pid = p, p # pid
          PROVE  w.entries[k][a].pid = p
      BY <1>3, <2>2
    <2> QED
      BY <2>1, <2>2 DEF InEntry
  <1>6. \A p : InPool(w, p) <=> InPool(s, p)
    BY <1>1 DEF InPool
  <1>7. ~InPool(s, pid)
    BY DEF Placed, InPool
  <1>8. Owned(w) = Owned(s) \ {pid}
    BY <1>5, <1>6, <1>7 DEF Owned
  <1>9. \A k, l \in Kinds, a, b \in Apps :
           w.entries[k][a].pid = w.entries[l][b].pid /\ w.entries[k][a].pid # 0 =>
               k = l /\ a = b
    <2> SUFFICES ASSUME NEW k \in Kinds, NEW l \in Kinds, NEW a \in Apps, NEW b \in Apps,
                        w.entries[k][a].pid = w.entries[l][b].pid, w.entries[k][a].pid # 0
                 PROVE  k = l /\ a = b
      OBVIOUS
    <2>1. s.entries[k][a].pid = s.entries[l][b].pid /\ s.entries[k][a].pid # 0 =>
               k = l /\ a = b
      BY DEF Placed
    <2> QED
      BY <1>3, <2>1
  <1>10. \A i \in DOMAIN w.pool, k \in Kinds, a \in Apps : w.pool[i].pid # w.entries[k][a].pid
    <2>1. \A i \in DOMAIN s.pool : s.pool[i].pid # 0
      <3>1. \A i \in DOMAIN s.pool : s.pool[i] \in Pooled
        BY <1>0, Parts
      <3> QED
        BY <3>1 DEF Pooled
    <2> QED
      BY <1>1, <1>3, <2>1 DEF Placed
  <1>11. Placed(w)
    BY <1>1, <1>8, <1>9, <1>10 DEF Placed
  <1> QED
    BY <1>1, <1>2, <1>8, <1>11

LEMMA PoolAvailablePlaced ==
    ASSUME NEW s \in LauncherType, Placed(s), NEW pid
    PROVE  Placed(PoolAvailable(s, pid)) /\ Keeps(s, PoolAvailable(s, pid))
  <1> DEFINE q == [i \in DOMAIN s.pool |->
                      IF s.pool[i].pid = pid THEN [s.pool[i] EXCEPT !.ready = TRUE]
                      ELSE s.pool[i]]
             u == [s EXCEPT !.pool = q]
  <1>1. s.pool \in Seq(Pooled) /\ Len(s.pool) \in Nat /\ DOMAIN s.pool = 1..Len(s.pool)
    BY Parts
  <1>2. \A i \in DOMAIN s.pool : s.pool[i] \in Pooled
    BY <1>1
  <1>3. \A p \in Pooled : [p EXCEPT !.ready = TRUE] \in Pooled /\ [p EXCEPT !.ready = TRUE].pid = p.pid
    BY DEF Pooled
  <1>4. q \in [1..Len(s.pool) -> Pooled] /\ DOMAIN q = DOMAIN s.pool
        /\ \A i \in DOMAIN s.pool : q[i].pid = s.pool[i].pid
    BY <1>1, <1>2, <1>3
  <1>5. PoolAvailable(s, pid) = Respawn(u)
    BY DEF PoolAvailable
  <1> HIDE DEF q
  <1>6. q \in Seq(Pooled)
    BY <1>1, <1>4
  <1>7. /\ u \in LauncherType /\ u.pool = q /\ u.entries = s.entries
        /\ u.spawned = s.spawned /\ u.out = s.out
    BY <1>6 DEF LauncherType, Pooled
  <1> HIDE DEF u
  <1>8. SamePlaces(s, u)
    BY <1>4, <1>7 DEF SamePlaces
  <1>9. Placed(u) /\ Keeps(s, u)
    BY <1>7, <1>8, SameKeeps
  <1>10. Placed(Respawn(u)) /\ Keeps(u, Respawn(u))
    BY <1>7, <1>9, RespawnPlaces, SameKeeps
  <1> QED
    BY <1>5, <1>9, <1>10 DEF Keeps

LEMMA KillPlaced ==
    ASSUME NEW s \in LauncherType, Placed(s), NEW app
    PROVE  Placed(Kill(s, app)) /\ Keeps(s, Kill(s, app))
  <1>1. SamePlaces(s, Kill(s, app)) /\ Kill(s, app).out = s.out
    BY DEF Kill, SamePlaces, LauncherType
  <1> QED
    BY <1>1, SameKeeps

LEMMA FilePlaced ==
    ASSUME NEW s \in LauncherType, Placed(s), NEW app
    PROVE  LET t == [s EXCEPT !.files[app] = <<>>] IN Placed(t) /\ Keeps(s, t)
  <1> DEFINE t == [s EXCEPT !.files[app] = <<>>]
  <1>1. SamePlaces(s, t) /\ t.out = s.out
    BY DEF SamePlaces, LauncherType
  <1> HIDE DEF t
  <1>2. Placed(t) /\ Keeps(s, t)
    BY <1>1, SameKeeps
  <1> QED
    BY <1>2 DEF t

LEMMA OutPlaced ==
    ASSUME NEW s \in LauncherType, Placed(s), s.out # <<>>
    PROVE  LET t == [s EXCEPT !.out = Tail(@)] IN Placed(t) /\ Keeps(s, t)
  <1> DEFINE t == [s EXCEPT !.out = Tail(@)]
             q == s.out
  <1>1. SamePlaces(s, t) /\ t.out = Tail(s.out) /\ t.spawned = s.spawned
    BY DEF SamePlaces, LauncherType
  <1> HIDE DEF t
  <1>2. q \in Seq(Sent) /\ q # <<>>
    BY Parts
  <1> HIDE DEF q
  <1>3. \A i \in DOMAIN Tail(q) : i + 1 \in DOMAIN q /\ Tail(q)[i] = q[i + 1]
    BY <1>2
  <1>4. \A i \in DOMAIN t.out : t.out[i].to \in DOMAIN t.spawned
    BY <1>1, <1>3 DEF Placed, q
  <1>5. Placed(t) /\ Keeps(s, t)
    BY <1>1, <1>4, SamePlaced, SameOwned DEF Keeps
  <1> QED
    BY <1>5 DEF t

LEMMA StartNewPlaced ==
    ASSUME NEW s \in LauncherType, Placed(s)
    PROVE  LET u == StartNewQuicklauncher(s) IN
           Placed(u) /\ Starts(s, u, "quicklauncher")
  <1> DEFINE t == Spawn(s, "quicklauncher")
             pid == Len(s.spawned) + 1
             x == [pid |-> pid, ready |-> FALSE]
             q == s.pool
             u == StartNewQuicklauncher(s)
  <1>1. /\ t.spawned = Append(s.spawned, "quicklauncher") /\ t.pool = s.pool
        /\ t.entries = s.entries /\ Placed(t) /\ Owned(t) = Owned(s)
        /\ pid \in Nat \ {0} /\ pid \in DOMAIN t.spawned /\ pid \notin Owned(t)
    BY SpawnPlaced
  <1>2. t \in LauncherType
    BY SpawnType
  <1>3. u = [t EXCEPT !.pool = Append(t.pool, x), !.shots = t.shots - 1]
    BY DEF StartNewQuicklauncher
  <1> HIDE DEF u, t, pid
  <1>4. /\ u.pool = Append(q, x) /\ u.entries = t.entries /\ u.spawned = t.spawned
        /\ u.out = t.out
    BY <1>1, <1>2, <1>3 DEF LauncherType
  <1>5. q \in Seq(Pooled) /\ x \in Pooled /\ x.pid = pid
    BY <1>1, Parts DEF Pooled
  <1> HIDE DEF q, x
  <1>6. /\ DOMAIN Append(q, x) = DOMAIN q \cup {Len(q) + 1} /\ Len(q) + 1 \notin DOMAIN q
        /\ (\A i \in DOMAIN q : Append(q, x)[i] = q[i]) /\ Append(q, x)[Len(q) + 1] = x
    BY <1>5
  <1>7. (\A i \in DOMAIN q : q[i].pid # pid)
        /\ \A k \in Kinds, a \in Apps : s.entries[k][a].pid # pid
    BY <1>1, NotOwned DEF InPool, InEntry, q
  <1>8. Owned(u) = Owned(s) \cup {pid}
    <2>1. \A p : InPool(u, p) <=> InPool(s, p) \/ p = pid
      BY <1>4, <1>5, <1>6 DEF InPool, q
    <2>2. \A p : InEntry(u, p) <=> InEntry(s, p)
      BY <1>1, <1>4 DEF InEntry
    <2> QED
      BY <1>1, <2>1, <2>2 DEF Owned
  <1>9. \A i, j \in DOMAIN u.pool : u.pool[i].pid = u.pool[j].pid => i = j
    BY <1>4, <1>5, <1>6, <1>7 DEF Placed, q
  <1>10. \A i \in DOMAIN u.pool, k \in Kinds, a \in Apps : u.pool[i].pid # u.entries[k][a].pid
    BY <1>1, <1>4, <1>5, <1>6, <1>7 DEF Placed, q
  <1>11. Placed(u)
    <2>1. Owned(u) \subseteq DOMAIN u.spawned
      BY <1>1, <1>4, <1>8 DEF Placed
    <2> QED
      BY <1>1, <1>4, <1>9, <1>10, <2>1 DEF Placed
  <1> QED
    BY <1>1, <1>4, <1>8, <1>11 DEF Starts, u, pid

-----------------------------------------------------------------------------
\* How many processes are started

Quicks(q) == { p \in DOMAIN q : q[p] = "quicklauncher" }
Direct(q) == { p \in DOMAIN q : q[p] # "quicklauncher" }

LEMMA CountAppend ==
    ASSUME NEW S, NEW q \in Seq(S), NEW x \in S
    PROVE  /\ Cardinality(Quicks(q)) \in Nat /\ Cardinality(Direct(q)) \in Nat
           /\ x = "quicklauncher" =>
                  /\ Cardinality(Quicks(Append(q, x))) = Cardinality(Quicks(q)) + 1
                  /\ Direct(Append(q, x)) = Direct(q)
           /\ x # "quicklauncher" =>
                  /\ Cardinality(Direct(Append(q, x))) = Cardinality(Direct(q)) + 1
                  /\ Quicks(Append(q, x)) = Quicks(q)
  <1> DEFINE r == Append(q, x)
             n == Len(q) + 1
  <1>1. Len(q) \in Nat /\ DOMAIN q = 1..Len(q)
    OBVIOUS
  <1>2. DOMAIN r = DOMAIN q \cup {n} /\ n \notin DOMAIN q
        /\ (\A i \in DOMAIN q : r[i] = q[i]) /\ r[n] = x
    OBVIOUS
  <1>3. IsFiniteSet(DOMAIN q)
    BY <1>1, FS_Interval
  <1>4. IsFiniteSet(Quicks(q)) /\ IsFiniteSet(Direct(q))
    BY <1>3, FS_Subset DEF Quicks, Direct
  <1>5. n \notin Quicks(q) /\ n \notin Direct(q)
    BY <1>2 DEF Quicks, Direct
  <1> HIDE DEF r, n
  <1>6. x = "quicklauncher" => Quicks(r) = Quicks(q) \cup {n} /\ Direct(r) = Direct(q)
    BY <1>2 DEF Quicks, Direct
  <1>7. x # "quicklauncher" => Direct(r) = Direct(q) \cup {n} /\ Quicks(r) = Quicks(q)
    BY <1>2 DEF Quicks, Direct
  <1>8. Cardinality(Quicks(q)) \in Nat /\ Cardinality(Direct(q)) \in Nat
    BY <1>4, FS_CardinalityType
  <1>9. /\ Cardinality(Quicks(q) \cup {n}) = Cardinality(Quicks(q)) + 1
        /\ Cardinality(Direct(q) \cup {n}) = Cardinality(Direct(q)) + 1
    BY <1>4, <1>5, FS_AddElement
  <1> QED
    BY <1>6, <1>7, <1>8, <1>9 DEF r

LEMMA CountAll ==
    ASSUME NEW S, NEW q \in Seq(S), NEW m \in Nat, NEW n \in Nat,
           Cardinality(Quicks(q)) <= m, Cardinality(Direct(q)) <= n
    PROVE  DOMAIN q \subseteq 1..(m + n)
  <1>1. Len(q) \in Nat /\ DOMAIN q = 1..Len(q)
    OBVIOUS
  <1>2. IsFiniteSet(1..Len(q)) /\ Cardinality(1..Len(q)) = Len(q)
    <2> DEFINE l == Len(q)
    <2>1. l \in Nat /\ 1 \in Int /\ l \in Int
      BY <1>1
    <2> HIDE DEF l
    <2>2. IsFiniteSet(1..l) /\ Cardinality(1..l) = IF 1 > l THEN 0 ELSE l - 1 + 1
      BY <2>1, FS_Interval
    <2>3. Cardinality(1..l) = l
      BY <2>1, <2>2
    <2> QED
      BY <2>2, <2>3 DEF l
  <1>3. IsFiniteSet(Quicks(q)) /\ IsFiniteSet(Direct(q))
    BY <1>1, <1>2, FS_Subset DEF Quicks, Direct
  <1>4. Quicks(q) \cup Direct(q) = 1..Len(q) /\ Quicks(q) \cap Direct(q) = {}
    BY <1>1 DEF Quicks, Direct
  <1>5. Cardinality(1..Len(q)) = Cardinality(Quicks(q)) + Cardinality(Direct(q))
                                  - Cardinality(Quicks(q) \cap Direct(q))
    BY <1>3, <1>4, FS_Union
  <1>6. Cardinality(Quicks(q) \cap Direct(q)) = 0
    BY <1>4, FS_EmptySet
  <1>7. Cardinality(Quicks(q)) \in Nat /\ Cardinality(Direct(q)) \in Nat
    BY <1>3, FS_CardinalityType
  <1> QED
    BY <1>1, <1>2, <1>5, <1>6, <1>7

Bounded ==
    /\ Cardinality(Quicks(launcher.spawned)) <= MaxPooled
    /\ Cardinality(Direct(launcher.spawned)) <= Len(sent)
    /\ Len(sent) <= MaxMessages

LEMMA StartedIds == IInv /\ Bounded => Started \subseteq Pids
  <1> SUFFICES ASSUME IInv, Bounded PROVE Started \subseteq Pids
    OBVIOUS
  <1>1. launcher.spawned \in Seq(Apps \cup {"quicklauncher"})
    BY Parts DEF IInv, Good
  <1>2. MaxPooled \in Nat /\ MaxMessages \in Nat
    BY LauncherBounds
  <1>3. Cardinality(Direct(launcher.spawned)) \in Nat /\ Len(sent) \in Nat
    <2>1. "quicklauncher" \in Apps \cup {"quicklauncher"}
      OBVIOUS
    <2>2. Cardinality(Direct(launcher.spawned)) \in Nat
      BY <1>1, <2>1, CountAppend
    <2> QED
      BY <2>2 DEF IInv
  <1>4. Cardinality(Direct(launcher.spawned)) <= MaxMessages
    BY <1>2, <1>3 DEF Bounded
  <1> QED
    BY <1>1, <1>2, <1>4, CountAll DEF Bounded, Started, Pids

\* What a step does to what was started
Spawned(exe) == launcher'.spawned = Append(launcher.spawned, exe)

LEMMA RouteBounded ==
    ASSUME IInv, Bounded, NEW app \in Apps, Route(app),
           launcher'.spawned = launcher.spawned \/ Spawned(app)
    PROVE  Bounded'
  <1>1. launcher.spawned \in Seq(Apps \cup {"quicklauncher"}) /\ app # "quicklauncher"
    BY Parts, AppsAssumption DEF IInv, Good
  <1>2. sent \in Seq(Apps) /\ Len(sent) \in Nat /\ Len(sent') = Len(sent) + 1
        /\ Len(sent) < MaxMessages /\ MaxMessages \in Nat
    BY LauncherBounds DEF IInv, Route
  <1>3. Cardinality(Direct(launcher.spawned)) \in Nat
    BY <1>1, CountAppend
  <1>4. CASE launcher'.spawned = launcher.spawned
    BY <1>2, <1>3, <1>4 DEF Bounded
  <1>5. CASE Spawned(app)
    <2>1. /\ Cardinality(Direct(launcher'.spawned)) = Cardinality(Direct(launcher.spawned)) + 1
          /\ Quicks(launcher'.spawned) = Quicks(launcher.spawned)
      BY <1>1, <1>5, CountAppend DEF Spawned
    <2> QED
      BY <1>2, <1>3, <2>1 DEF Bounded
  <1> QED
    BY <1>4, <1>5

LEMMA ShotBounded ==
    ASSUME IInv, Bounded, RespawnShot, Spawned("quicklauncher")
    PROVE  Bounded'
  <1>1. launcher.spawned \in Seq(Apps \cup {"quicklauncher"}) /\ sent' = sent
    BY Parts DEF IInv, Good, RespawnShot, history
  <1>2. Cardinality(Quicks(launcher.spawned)) < MaxPooled /\ MaxPooled \in Nat
    BY LauncherBounds DEF RespawnShot, Quicks, Started
  <1>3. /\ Cardinality(Quicks(launcher.spawned)) \in Nat
        /\ Cardinality(Quicks(launcher'.spawned)) = Cardinality(Quicks(launcher.spawned)) + 1
        /\ Direct(launcher'.spawned) = Direct(launcher.spawned)
    BY <1>1, CountAppend DEF Spawned
  <1> QED
    BY <1>1, <1>2, <1>3 DEF Bounded
-----------------------------------------------------------------------------
\* The processes and the server

Phases == {"new", "idle", "init", "open", "loop", "dead", "reaped"}
Packet == [channel : {"pid", "quick"}, what : {"register", "detach"}]
              \cup {Says("QPE/QtopiaApplication", "available"),
                    Says("QPE/QuickLauncher", "available"), Says("", "disconnected")}

ProcessType ==
    /\ phase \in [Pids -> Phases]
    /\ name \in [Pids -> Apps \cup {"quicklauncher"}]
    /\ queue \in [Pids -> Seq(1..MaxMessages)]
    /\ inbox \in [Pids -> Seq(Apps \cup {"QPEProcessQCop"})]
    /\ wire \in [Pids -> Seq(Packet)]
    /\ channels \subseteq Pids \X {"pid", "quick"}
    /\ heard \in [Apps -> Seq(1..MaxMessages)]
    /\ dropped \subseteq 1..MaxMessages /\ failed \subseteq Apps
    /\ deaths \in 0..MaxDeaths

\* A process has an owner until its end is reported, one that was not started
\* does nothing, and one that has run initApp() is an application
Owns == \A p \in Started : p \in Owned(launcher) <=> phase[p] # "reaped"
Fresh == \A p \in Pids \ Started : phase[p] = "new"
Named == \A p \in Pids : phase[p] \in {"init", "open", "loop"} => name[p] \in Apps

Lives == Placed(launcher) /\ Owns /\ Fresh /\ Named
OInv == IInv /\ Bounded /\ ProcessType /\ Lives

\* A launcher's step that starts no process, or one, with the phases as they are
LEMMA KeptLives ==
    ASSUME IInv, Lives, IInv', Bounded', Placed(launcher'), UNCHANGED <<phase, name>>,
           \/ Keeps(launcher, launcher')
           \/ \E exe \in Apps \cup {"quicklauncher"} : Starts(launcher, launcher', exe)
    PROVE  Lives'
  <1>1. CASE Keeps(launcher, launcher')
    BY <1>1 DEF Keeps, Lives, Owns, Fresh, Named, Started
  <1>2. ASSUME NEW exe \in Apps \cup {"quicklauncher"}, Starts(launcher, launcher', exe)
        PROVE  Lives'
    <2> DEFINE n == Len(launcher.spawned) + 1
    <2>1. launcher.spawned \in Seq(Apps \cup {"quicklauncher"})
      BY Parts DEF IInv, Good
    <2>2. Started' = Started \cup {n} /\ n \notin Started
      BY <1>2, <2>1 DEF Starts, Started
    <2>3. Started' \subseteq Pids
      <3>1. (Started \subseteq Pids)'
        BY StartedIds, PTL
      <3> QED
        BY <3>1 DEF Pids
    <2>4. Owned(launcher') = Owned(launcher) \cup {n}
      BY <1>2 DEF Starts
    <2> HIDE DEF n
    <2>5. phase[n] = "new"
      BY <2>2, <2>3 DEF Lives, Fresh
    <2>6. Owns'
      BY <2>2, <2>4, <2>5 DEF Lives, Owns
    <2>7. Fresh'
      BY <2>2 DEF Lives, Fresh, Pids
    <2>8. Named'
      BY DEF Lives, Named, Pids
    <2> QED
      BY <2>6, <2>7, <2>8 DEF Lives
  <1> QED
    BY <1>1, <1>2

\* A process goes on, or dies, while the server starts and ends none
LEMMA PhaseLives ==
    ASSUME Lives, ProcessType, NEW p \in Pids, p \in Started, phase[p] # "reaped",
           NEW f \in Phases \ {"reaped"}, phase' = [phase EXCEPT ![p] = f],
           Placed(launcher'), Keeps(launcher, launcher'),
           \A q \in Pids \ {p} : name'[q] = name[q],
           f \in {"init", "open", "loop"} => name'[p] \in Apps
    PROVE  Lives'
  <1>1. phase'[p] = f /\ \A q \in Pids \ {p} : phase'[q] = phase[q]
    BY DEF ProcessType
  <1>2. Started' = Started
    BY DEF Keeps, Started
  <1>3. Owned(launcher') = Owned(launcher)
    BY DEF Keeps
  <1>4. Owns'
    <2> SUFFICES ASSUME NEW q \in Started PROVE q \in Owned(launcher) <=> phase'[q] # "reaped"
      BY <1>2, <1>3 DEF Owns
    <2>1. CASE q = p
      BY <1>1, <2>1 DEF Lives, Owns
    <2>2. CASE q # p
      <3>1. phase'[q] = phase[q]
        BY <2>2 DEF ProcessType
      <3> QED
        BY <3>1 DEF Lives, Owns
    <2> QED
      BY <2>1, <2>2
  <1>5. Fresh'
    BY <1>1, <1>2 DEF Lives, Fresh, Pids
  <1>6. Named'
    BY <1>1 DEF Lives, Named, Pids
  <1> QED
    BY <1>4, <1>5, <1>6 DEF Lives

\* The end of a process is reported
LEMMA ReapLives ==
    ASSUME OInv, NEW p \in Pids, Reap(p)
    PROVE  Lives' /\ launcher'.spawned = launcher.spawned
  <1>0. Good(launcher) /\ launcher \in LauncherType /\ Placed(launcher) /\ p \in Nat \ {0}
    BY DEF OInv, IInv, Good, Lives, Pids
  <1>1. /\ Placed(launcher') /\ launcher'.spawned = launcher.spawned
        /\ Owned(launcher') = Owned(launcher) \ {p}
    <2>1. CASE /\ \E i \in DOMAIN launcher.pool : launcher.pool[i].pid = p
               /\ launcher' = PoolExited(launcher, p)
      BY <1>0, <2>1, PoolExitedPlaced
    <2>2. ASSUME NEW k \in Kinds, NEW app \in Apps, launcher.entries[k][app].pid = p,
                 launcher' = AppGone(launcher, k, app)
          PROVE  /\ Placed(launcher') /\ launcher'.spawned = launcher.spawned
                 /\ Owned(launcher') = Owned(launcher) \ {p}
      BY <1>0, <2>2, AppGonePlaced
    <2> QED
      BY <2>1, <2>2 DEF Reap
  <1>2. phase'[p] = "reaped" /\ (\A q \in Pids \ {p} : phase'[q] = phase[q]) /\ name' = name
    BY DEF Reap, OInv, ProcessType
  <1>3. Started' = Started
    BY <1>1 DEF Started
  <1>4. Owns'
    <2> SUFFICES ASSUME NEW q \in Started PROVE q \in Owned(launcher') <=> phase'[q] # "reaped"
      BY <1>3 DEF Owns
    <2>1. CASE q = p
      BY <1>1, <1>2, <2>1
    <2>2. CASE q # p
      <3>1. phase'[q] = phase[q]
        BY <2>2 DEF Reap, OInv, ProcessType
      <3> QED
        BY <1>1, <2>2, <3>1 DEF OInv, Lives, Owns
    <2> QED
      BY <2>1, <2>2
  <1>5. p \in Started
    BY DEF OInv, Lives, Fresh, Reap
  <1>6. Fresh'
    BY <1>2, <1>3, <1>5 DEF OInv, Lives, Fresh, Pids
  <1>7. Named'
    BY <1>2 DEF OInv, Lives, Named, Pids
  <1> QED
    BY <1>1, <1>4, <1>6, <1>7 DEF Lives

-----------------------------------------------------------------------------
\* Every step keeps the processes' types

LEMMA ConcatType ==
    ASSUME NEW S, NEW q \in Seq(S), NEW r \in Seq(S)
    PROVE  q \o r \in Seq(S)
  OBVIOUS

LEMMA TailType ==
    ASSUME NEW S, NEW q \in Seq(S), q # <<>>
    PROVE  Tail(q) \in Seq(S) /\ Head(q) \in S
  OBVIOUS

LEMMA ElementsOf ==
    ASSUME NEW S, NEW q \in Seq(S)
    PROVE  ToSet(q) \subseteq S
  BY DEF ToSet

Told == <<Says("pid", "register"), Says("QPE/QtopiaApplication", "available")>>

LEMMA Packets ==
    /\ \A c \in {"pid", "quick"} : Says(c, "register") \in Packet /\ Says(c, "detach") \in Packet
    /\ Says("QPE/QtopiaApplication", "available") \in Packet
    /\ Says("QPE/QuickLauncher", "available") \in Packet
    /\ Says("", "disconnected") \in Packet
    /\ \A m \in Packet : m.what \in {"register", "detach"} => m.channel \in {"pid", "quick"}
  <1>1. \A c \in {"pid", "quick"}, w \in {"register", "detach"} : Says(c, w) \in Packet
    <2>1. \A c \in {"pid", "quick"}, w \in {"register", "detach"} :
              Says(c, w) \in [channel : {"pid", "quick"}, what : {"register", "detach"}]
      BY DEF Says
    <2> QED
      BY <2>1 DEF Packet
  <1>2. /\ Says("QPE/QtopiaApplication", "available") \in Packet
        /\ Says("QPE/QuickLauncher", "available") \in Packet
        /\ Says("", "disconnected") \in Packet
    BY DEF Packet
  <1>3. ASSUME NEW m \in Packet, m.what \in {"register", "detach"}
        PROVE  m.channel \in {"pid", "quick"}
    <2>1. CASE m \in [channel : {"pid", "quick"}, what : {"register", "detach"}]
      BY <2>1
    <2>2. CASE m \in {Says("QPE/QtopiaApplication", "available"),
                       Says("QPE/QuickLauncher", "available"), Says("", "disconnected")}
      <3>1. m.what \in {"available", "disconnected"}
        <4>1. \A c, w : Says(c, w).what = w
          BY DEF Says
        <4> QED
          BY <2>2, <4>1, Zenon
      <3> QED
        BY <1>3, <3>1
    <2> QED
      BY <2>1, <2>2 DEF Packet
  <1> QED
    BY <1>1, <1>2, <1>3

LEMMA InitAppTyped ==
    ASSUME ProcessType, NEW p \in Pids, NEW app \in Apps, NEW before \in Seq(Packet),
           InitApp(p, app, before)
    PROVE  /\ phase' \in [Pids -> Phases] /\ name' \in [Pids -> Apps \cup {"quicklauncher"}]
           /\ wire' \in [Pids -> Seq(Packet)]
  <1>1. Told \in Seq(Packet)
    <2> DEFINE a == Says("pid", "register")
               b == Says("QPE/QtopiaApplication", "available")
    <2>1. a \in Packet /\ b \in Packet
      BY Packets
    <2> HIDE DEF a, b
    <2>2. <<a, b>> \in Seq(Packet)
      BY <2>1
    <2> QED
      BY <2>2 DEF Told, a, b
  <1>2. wire[p] \in Seq(Packet) /\ wire' = [wire EXCEPT ![p] = wire[p] \o before \o Told]
    BY DEF ProcessType, InitApp, Told
  <1>3. wire[p] \o before \o Told \in Seq(Packet)
    <2>1. wire[p] \o before \in Seq(Packet)
      BY <1>2, ConcatType
    <2> QED
      BY <1>1, <2>1, ConcatType
  <1> QED
    BY <1>2, <1>3 DEF InitApp, ProcessType, Phases

LEMMA EndsTyped ==
    ASSUME ProcessType, NEW p \in Pids, Ends(p)
    PROVE  /\ phase' \in [Pids -> Phases] /\ wire' \in [Pids -> Seq(Packet)]
           /\ inbox' \in [Pids -> Seq(Apps \cup {"QPEProcessQCop"})]
           /\ queue' \in [Pids -> Seq(1..MaxMessages)]
           /\ dropped' \subseteq 1..MaxMessages
  <1> DEFINE x == Says("", "disconnected")
  <1>1. x \in Packet
    BY Packets
  <1> HIDE DEF x
  <1>2. Append(wire[p], x) \in Seq(Packet)
    BY <1>1 DEF ProcessType
  <1>3. wire' \in [Pids -> Seq(Packet)]
    BY <1>2 DEF Ends, ProcessType, x
  <1>4. phase' \in [Pids -> Phases]
    BY DEF Ends, ProcessType, Phases
  <1>5. inbox' \in [Pids -> Seq(Apps \cup {"QPEProcessQCop"})]
    <2>1. <<>> \in Seq(Apps \cup {"QPEProcessQCop"})
      OBVIOUS
    <2> QED
      BY <2>1 DEF Ends, ProcessType
  <1>6. queue' \in [Pids -> Seq(1..MaxMessages)]
    <2>1. <<>> \in Seq(1..MaxMessages)
      OBVIOUS
    <2> QED
      BY <2>1 DEF Ends, ProcessType
  <1>7. dropped' \subseteq 1..MaxMessages
    <2>1. queue[p] \in Seq(1..MaxMessages)
      BY DEF ProcessType
    <2>2. ToSet(queue[p]) \subseteq 1..MaxMessages
      BY <2>1, ElementsOf
    <2> QED
      BY <2>2 DEF Ends, ProcessType
  <1> QED
    BY <1>3, <1>4, <1>5, <1>6, <1>7

LEMMA ServerTyped ==
    ASSUME OInv, NEW p \in Pids, ServerReads(p)
    PROVE  ProcessType'
  <1>1. wire[p] \in Seq(Packet) /\ wire[p] # <<>>
    BY DEF OInv, ProcessType, ServerReads
  <1>2. Tail(wire[p]) \in Seq(Packet) /\ Head(wire[p]) \in Packet
    BY <1>1, TailType
  <1>3. wire' \in [Pids -> Seq(Packet)]
    BY <1>2 DEF OInv, ProcessType, ServerReads
  <1>4. channels' \subseteq Pids \X {"pid", "quick"}
    <2> DEFINE m == Head(wire[p])
    <2>1. m.what \in {"register", "detach"} => m.channel \in {"pid", "quick"}
      BY <1>2, Packets
    <2>2. \/ m.what = "register" /\ channels' = channels \cup {<<p, m.channel>>}
          \/ channels' \subseteq channels
      BY DEF ServerReads
    <2> HIDE DEF m
    <2> QED
      BY <2>1, <2>2 DEF OInv, ProcessType
  <1> QED
    BY <1>3, <1>4 DEF OInv, ProcessType, ServerReads, processes, history, Pids, Phases, Packet, Says

LEMMA DispatchTyped ==
    ASSUME OInv, Started \subseteq Pids, Dispatch
    PROVE  ProcessType'
  <1> DEFINE m == Head(launcher.out)
             known == <<m.to, m.channel>> \in channels /\ Alive(m.to)
             missed == ~known /\ m.channel = "pid" /\ phase[m.to] \in {"open", "loop"}
  <1>1. launcher.out \in Seq(Sent) /\ launcher.out # <<>>
    BY Parts DEF OInv, IInv, Good, Dispatch
  <1>2. m \in Sent
    BY <1>1, TailType
  <1>3. m.to \in Started
    <2> DEFINE q == launcher.out
    <2>1. q \in Seq(Sent) /\ q # <<>>
      BY <1>1
    <2> HIDE DEF q
    <2>2. 1 \in DOMAIN q /\ Head(q) = q[1]
      BY <2>1
    <2> QED
      BY <2>2 DEF OInv, Lives, Placed, Started, q
  <1>4. m.what \in Apps \cup {"QPEProcessQCop"} /\ m.to \in Pids
    BY <1>2, <1>3 DEF Sent
  <1>5. inbox' = (IF known THEN [inbox EXCEPT ![m.to] = Append(@, m.what)] ELSE inbox)
        /\ failed' = (IF missed THEN failed \cup {name[m.to]} ELSE failed)
    BY DEF Dispatch
  <1>6. missed => name[m.to] \in Apps
    BY <1>4 DEF OInv, Lives, Named
  <1> HIDE DEF m, known, missed
  <1>7. inbox' \in [Pids -> Seq(Apps \cup {"QPEProcessQCop"})]
    <2>1. inbox[m.to] \in Seq(Apps \cup {"QPEProcessQCop"})
      BY <1>4 DEF OInv, ProcessType
    <2>2. Append(inbox[m.to], m.what) \in Seq(Apps \cup {"QPEProcessQCop"})
      BY <1>4, <2>1
    <2> QED
      BY <1>5, <2>2 DEF OInv, ProcessType
  <1>8. failed' \subseteq Apps
    BY <1>5, <1>6 DEF OInv, ProcessType
  <1> QED
    BY <1>7, <1>8 DEF OInv, ProcessType, Dispatch, qcop, Pids, Phases, Packet, Says

LEMMA BootTyped ==
    ASSUME OInv, NEW p \in Pids, Boot(p) \/ BootQuick(p) \/ IdleReads(p)
    PROVE  ProcessType'
  <1>0. ProcessType
    BY DEF OInv
  <1>1. CASE Boot(p)
    <2>1. <<>> \in Seq(Packet) /\ launcher.spawned[p] \in Apps
      BY <1>1 DEF Boot
    <2>2. InitApp(p, launcher.spawned[p], <<>>)
      BY <1>1 DEF Boot
    <2> QED
      BY <1>0, <1>1, <2>1, <2>2, InitAppTyped DEF Boot, ProcessType, history
  <1>2. CASE BootQuick(p)
    <2> DEFINE a == Says("pid", "register")
               b == Says("quick", "register")
               c == Says("QPE/QuickLauncher", "available")
    <2>1. a \in Packet /\ b \in Packet /\ c \in Packet
      BY Packets
    <2>2. wire' = [wire EXCEPT ![p] = wire[p] \o <<a, b, c>>]
      BY <1>2 DEF BootQuick
    <2> HIDE DEF a, b, c
    <2>3. <<a, b, c>> \in Seq(Packet) /\ wire[p] \in Seq(Packet)
      BY <1>0, <2>1 DEF ProcessType
    <2>4. wire[p] \o <<a, b, c>> \in Seq(Packet)
      BY <2>3, ConcatType
    <2>5. wire' \in [Pids -> Seq(Packet)]
      BY <1>0, <2>2, <2>4 DEF ProcessType
    <2>6. phase' \in [Pids -> Phases]
      BY <1>0, <1>2 DEF BootQuick, ProcessType, Phases
    <2> QED
      BY <1>0, <1>2, <2>5, <2>6 DEF BootQuick, ProcessType, history
  <1>3. CASE IdleReads(p)
    <2>1. inbox[p] \in Seq(Apps \cup {"QPEProcessQCop"}) /\ inbox[p] # <<>>
      BY <1>0, <1>3 DEF ProcessType, IdleReads
    <2>2. Tail(inbox[p]) \in Seq(Apps \cup {"QPEProcessQCop"})
      BY <2>1, TailType
    <2>3. inbox' \in [Pids -> Seq(Apps \cup {"QPEProcessQCop"})]
      BY <1>0, <1>3, <2>2 DEF ProcessType, IdleReads
    <2>4. /\ phase' \in [Pids -> Phases] /\ name' \in [Pids -> Apps \cup {"quicklauncher"}]
          /\ wire' \in [Pids -> Seq(Packet)]
      <3>1. CASE UNCHANGED <<phase, name, wire>>
        BY <1>0, <3>1 DEF ProcessType
      <3>2. CASE /\ Head(inbox[p]) \in Apps
                 /\ InitApp(p, Head(inbox[p]), <<Says("quick", "detach"), Says("pid", "detach")>>)
        <4> DEFINE a == Says("quick", "detach")
                   b == Says("pid", "detach")
        <4>1. a \in Packet /\ b \in Packet
          BY Packets
        <4>2. InitApp(p, Head(inbox[p]), <<a, b>>)
          BY <3>2
        <4> HIDE DEF a, b
        <4>3. <<a, b>> \in Seq(Packet)
          BY <4>1
        <4> QED
          BY <1>0, <3>2, <4>2, <4>3, InitAppTyped
      <3> QED
        BY <1>3, <3>1, <3>2 DEF IdleReads
    <2> QED
      BY <1>0, <1>3, <2>3, <2>4 DEF IdleReads, ProcessType, history
  <1> QED
    BY <1>1, <1>2, <1>3

LEMMA ReadTyped ==
    ASSUME OInv, NEW p \in Pids, ReadFile(p) \/ Exec(p) \/ DotpidMessage(p)
    PROVE  ProcessType'
  <1>0. ProcessType /\ launcher \in LauncherType
    BY DEF OInv, IInv, Good
  <1>1. name[p] \in Apps
    BY DEF OInv, Lives, Named, ReadFile, Exec, DotpidMessage
  <1>2. /\ queue[p] \in Seq(1..MaxMessages) /\ launcher.files[name[p]] \in Seq(1..MaxMessages)
        /\ heard[name[p]] \in Seq(1..MaxMessages) /\ <<>> \in Seq(1..MaxMessages)
    BY <1>0, <1>1, Parts DEF ProcessType
  <1> DEFINE M == 1..MaxMessages
             q == queue[p]
             f == launcher.files[name[p]]
             h == heard[name[p]]
  <1>3. q \in Seq(M) /\ f \in Seq(M) /\ h \in Seq(M) /\ <<>> \in Seq(M)
    BY <1>2
  <1> HIDE DEF M, q, f, h
  <1>4. q \o f \in Seq(M) /\ h \o q \in Seq(M)
    BY <1>3, ConcatType
  <1>5. h \o q \o f \in Seq(M)
    BY <1>3, <1>4, ConcatType
  <1>6. /\ queue[p] \o launcher.files[name[p]] \in Seq(1..MaxMessages)
        /\ heard[name[p]] \o queue[p] \in Seq(1..MaxMessages)
        /\ heard[name[p]] \o queue[p] \o launcher.files[name[p]] \in Seq(1..MaxMessages)
    BY <1>4, <1>5 DEF M, q, f, h
  <1>7. CASE ReadFile(p)
    <2>1. queue' \in [Pids -> Seq(1..MaxMessages)]
      BY <1>0, <1>6, <1>7 DEF ReadFile, ProcessQCopFile, ProcessType
    <2>2. phase' \in [Pids -> Phases]
      BY <1>0, <1>7 DEF ReadFile, ProcessType, Phases
    <2> QED
      BY <1>0, <1>7, <2>1, <2>2 DEF ReadFile, ProcessType, history, qcop
  <1>8. CASE Exec(p)
    <2>1. queue' \in [Pids -> Seq(1..MaxMessages)]
      BY <1>0, <1>2, <1>8 DEF Exec, ProcessType
    <2>2. phase' \in [Pids -> Phases]
      BY <1>0, <1>8 DEF Exec, ProcessType, Phases
    <2>3. heard' \in [Apps -> Seq(1..MaxMessages)]
      BY <1>0, <1>6, <1>8 DEF Exec, ProcessType
    <2> QED
      BY <1>0, <1>8, <2>1, <2>2, <2>3 DEF Exec, ProcessType, qcop
  <1>9. CASE DotpidMessage(p)
    <2>1. queue' \in [Pids -> Seq(1..MaxMessages)]
      BY <1>0, <1>2, <1>9 DEF DotpidMessage, ProcessType
    <2>2. heard' \in [Apps -> Seq(1..MaxMessages)]
      BY <1>0, <1>6, <1>9 DEF DotpidMessage, ProcessType
    <2>3. inbox' \in [Pids -> Seq(Apps \cup {"QPEProcessQCop"})]
      <3>1. Tail(inbox[p]) \in Seq(Apps \cup {"QPEProcessQCop"})
        <4>1. inbox[p] \in Seq(Apps \cup {"QPEProcessQCop"}) /\ inbox[p] # <<>>
          BY <1>0, <1>9 DEF ProcessType, DotpidMessage
        <4> QED
          BY <4>1, TailType
      <3> QED
        BY <1>0, <1>9, <3>1 DEF DotpidMessage, ProcessType
    <2> QED
      BY <1>0, <1>9, <2>1, <2>2, <2>3 DEF DotpidMessage, ProcessType, qcop
  <1> QED
    BY <1>7, <1>8, <1>9

LEMMA DeathTyped ==
    ASSUME OInv, Started \subseteq Pids,
           (\E p \in Pids : Dies(p)) \/ \E app \in Apps : KillApp(app)
    PROVE  ProcessType'
  <1>0. ProcessType
    BY DEF OInv
  <1>1. deaths' \in 0..MaxDeaths
    BY <1>0, DeathsAssumption DEF Dies, KillApp, ProcessType
  <1>2. /\ UNCHANGED <<name, channels, heard, failed>>
        /\ (\E p \in Pids : Ends(p)) \/ UNCHANGED <<phase, wire, inbox, queue, dropped>>
    BY DEF Dies, KillApp, Alive
  <1>3. CASE \E p \in Pids : Ends(p)
    BY <1>0, <1>1, <1>2, <1>3, EndsTyped DEF ProcessType
  <1>4. CASE UNCHANGED <<phase, wire, inbox, queue, dropped>>
    BY <1>0, <1>1, <1>2, <1>4 DEF ProcessType
  <1> QED
    BY <1>2, <1>3, <1>4

-----------------------------------------------------------------------------
\* Every step keeps the owners

LEMMA NextLives ==
    ASSUME OInv, Next, IInv'
    PROVE  Lives' /\ Bounded'
  <1>0. /\ IInv /\ Bounded /\ ProcessType /\ Lives /\ Good(launcher) /\ Placed(launcher)
        /\ launcher \in LauncherType /\ sent \in Seq(Apps)
    BY DEF OInv, IInv, Good, Lives
  <1>a. Started \subseteq Pids
    BY <1>0, StartedIds
  <1>b. ASSUME sent' = sent, launcher'.spawned = launcher.spawned PROVE Bounded'
    BY <1>0, <1>b DEF Bounded
  <1>c. Keeps(launcher, launcher)
    BY DEF Keeps
  <1>1. ASSUME NEW app \in Apps, Route(app) PROVE Lives' /\ Bounded'
    <2>1. Len(sent) + 1 \in 1..MaxMessages
      BY <1>0, <1>1, LauncherBounds DEF Route
    <2>2. Placed(launcher') /\ (Keeps(launcher, launcher') \/ Starts(launcher, launcher', app))
      BY <1>0, <1>1, <2>1, RouteMessagePlaced DEF Route
    <2>3. Bounded'
      BY <1>0, <1>1, <2>2, RouteBounded DEF Keeps, Starts, Spawned
    <2> QED
      BY <1>0, <1>1, <2>2, <2>3, KeptLives DEF Route, processes
  <1>2. ASSUME RespawnShot PROVE Lives' /\ Bounded'
    <2>1. Placed(launcher') /\ Starts(launcher, launcher', "quicklauncher")
      BY <1>0, <1>2, StartNewPlaced DEF RespawnShot
    <2>2. Bounded'
      BY <1>0, <1>2, <2>1, ShotBounded DEF Starts, Spawned
    <2> QED
      BY <1>0, <1>2, <2>1, <2>2, KeptLives DEF RespawnShot, processes
  <1>3. ASSUME NEW p \in Pids, ServerReads(p) PROVE Lives' /\ Bounded'
    <2>1. \/ launcher' = launcher
          \/ launcher' = Available(launcher, name[p], p)
          \/ launcher' = PoolAvailable(launcher, p)
      BY <1>3 DEF ServerReads
    <2>2. Placed(launcher') /\ Keeps(launcher, launcher')
      BY <1>0, <1>c, <2>1, AvailablePlaced, PoolAvailablePlaced DEF Pids
    <2>3. UNCHANGED <<phase, name, sent>>
      BY <1>3 DEF ServerReads, processes, history
    <2>4. Bounded'
      BY <1>b, <2>2, <2>3 DEF Keeps
    <2> QED
      BY <1>0, <2>2, <2>3, <2>4, KeptLives
  <1>4. ASSUME Dispatch PROVE Lives' /\ Bounded'
    <2>1. Placed(launcher') /\ Keeps(launcher, launcher')
      BY <1>0, <1>4, OutPlaced DEF Dispatch
    <2>2. UNCHANGED <<phase, name, sent>>
      BY <1>4 DEF Dispatch
    <2>3. Bounded'
      BY <1>b, <2>1, <2>2 DEF Keeps
    <2> QED
      BY <1>0, <2>1, <2>2, <2>3, KeptLives
  <1>5. ASSUME NEW p \in Pids, Reap(p) PROVE Lives' /\ Bounded'
    BY <1>b, <1>5, ReapLives DEF Reap
  <1>6. ASSUME NEW p \in Pids, Boot(p) PROVE Lives' /\ Bounded'
    <2>1. phase' = [phase EXCEPT ![p] = "init"] /\ name' = [name EXCEPT ![p] = launcher.spawned[p]]
          /\ launcher' = launcher /\ sent' = sent /\ p \in Started /\ phase[p] = "new"
          /\ launcher.spawned[p] \in Apps
      BY <1>6 DEF Boot, InitApp, history
    <2>2. name'[p] \in Apps /\ \A q \in Pids \ {p} : name'[q] = name[q]
      BY <1>0, <2>1 DEF ProcessType
    <2> QED
      BY <1>0, <1>b, <1>c, <2>1, <2>2, PhaseLives DEF Phases
  <1>7. ASSUME NEW p \in Pids, BootQuick(p) PROVE Lives' /\ Bounded'
    <2>1. phase' = [phase EXCEPT ![p] = "idle"] /\ name' = name
          /\ launcher' = launcher /\ sent' = sent /\ p \in Started /\ phase[p] = "new"
      BY <1>7 DEF BootQuick, history
    <2> QED
      BY <1>0, <1>b, <1>c, <2>1, PhaseLives DEF Phases
  <1>8. ASSUME NEW p \in Pids, IdleReads(p) PROVE Lives' /\ Bounded'
    <2>1. launcher' = launcher /\ sent' = sent
      BY <1>8 DEF IdleReads, history
    <2>2. CASE UNCHANGED <<phase, name, wire>>
      BY <1>0, <1>b, <1>c, <2>1, <2>2, KeptLives
    <2>3. CASE /\ Head(inbox[p]) \in Apps
               /\ InitApp(p, Head(inbox[p]), <<Says("quick", "detach"), Says("pid", "detach")>>)
      <3>1. phase' = [phase EXCEPT ![p] = "init"] /\ name' = [name EXCEPT ![p] = Head(inbox[p])]
        BY <2>3 DEF InitApp
      <3>2. phase[p] = "idle" /\ p \in Started
        BY <1>0, <1>8 DEF IdleReads, Lives, Fresh
      <3>3. name'[p] \in Apps /\ \A q \in Pids \ {p} : name'[q] = name[q]
        BY <1>0, <2>3, <3>1 DEF ProcessType
      <3> QED
        BY <1>0, <1>b, <1>c, <2>1, <3>1, <3>2, <3>3, PhaseLives DEF Phases
    <2> QED
      BY <1>8, <2>2, <2>3 DEF IdleReads
  <1>9. ASSUME NEW p \in Pids, ReadFile(p) \/ DotpidMessage(p) PROVE Lives' /\ Bounded'
    <2>1. launcher' = [launcher EXCEPT !.files[name[p]] = <<>>] /\ sent' = sent /\ name' = name
      BY <1>9 DEF ReadFile, DotpidMessage, ProcessQCopFile, history
    <2>2. Placed(launcher') /\ Keeps(launcher, launcher')
      BY <1>0, <2>1, FilePlaced
    <2>3. Bounded'
      BY <1>b, <2>1, <2>2 DEF Keeps
    <2>4. CASE ReadFile(p)
      <3>1. phase[p] = "init" /\ phase' = [phase EXCEPT ![p] = "open"] /\ p \in Started
        BY <1>0, <2>4 DEF ReadFile, Lives, Fresh
      <3>2. name'[p] \in Apps
        BY <1>0, <2>1, <3>1 DEF Lives, Named
      <3> QED
        BY <1>0, <2>1, <2>2, <2>3, <3>1, <3>2, PhaseLives DEF Phases
    <2>5. CASE DotpidMessage(p)
      <3>1. phase' = phase
        BY <2>5 DEF DotpidMessage
      <3> QED
        BY <1>0, <2>1, <2>2, <2>3, <3>1, KeptLives
    <2> QED
      BY <1>9, <2>4, <2>5
  <1>10. ASSUME NEW p \in Pids, Exec(p) PROVE Lives' /\ Bounded'
    <2>1. /\ launcher' = launcher /\ sent' = sent /\ name' = name
          /\ phase[p] = "open" /\ phase' = [phase EXCEPT ![p] = "loop"] /\ p \in Started
      BY <1>0, <1>10 DEF Exec, Lives, Fresh
    <2>2. name'[p] \in Apps
      BY <1>0, <2>1 DEF Lives, Named
    <2> QED
      BY <1>0, <1>b, <1>c, <2>1, <2>2, PhaseLives DEF Phases
  <1>11. ASSUME NEW p \in Pids, Dies(p) PROVE Lives' /\ Bounded'
    <2>1. /\ launcher' = launcher /\ sent' = sent /\ name' = name
          /\ phase' = [phase EXCEPT ![p] = "dead"] /\ p \in Started /\ phase[p] # "reaped"
      BY <1>11 DEF Dies, Ends, Alive
    <2> QED
      BY <1>0, <1>b, <1>c, <2>1, PhaseLives DEF Phases
  <1>12. ASSUME NEW app \in Apps, KillApp(app) PROVE Lives' /\ Bounded'
    <2>1. launcher' = Kill(launcher, app) /\ sent' = sent /\ name' = name
      BY <1>12 DEF KillApp
    <2>2. Placed(launcher') /\ Keeps(launcher, launcher')
      BY <1>0, <2>1, KillPlaced
    <2>3. Bounded'
      BY <1>b, <2>1, <2>2 DEF Keeps
    <2>4. \/ phase' = phase
          \/ \E p \in Started : phase[p] # "reaped" /\ phase' = [phase EXCEPT ![p] = "dead"]
      BY <1>12 DEF KillApp, Ends, Alive
    <2> QED
      BY <1>0, <1>a, <2>1, <2>2, <2>3, <2>4, KeptLives, PhaseLives DEF Phases
  <1> QED
    BY <1>1, <1>2, <1>3, <1>4, <1>5, <1>6, <1>7, <1>8, <1>9, <1>10, <1>11, <1>12 DEF Next, Progress

LEMMA NextTyped ==
    ASSUME OInv, Next
    PROVE  ProcessType'
  <1>0. Started \subseteq Pids /\ ProcessType
    BY StartedIds DEF OInv
  <1>1. ASSUME NEW p \in Pids, Reap(p) PROVE ProcessType'
    BY <1>0, <1>1 DEF Reap, ProcessType, Phases, qcop
  <1>2. ASSUME RespawnShot \/ \E app \in Apps : Route(app) PROVE ProcessType'
    BY <1>0, <1>2 DEF RespawnShot, Route, ProcessType, processes, qcop, history
  <1> QED
    BY <1>0, <1>1, <1>2, ServerTyped, DispatchTyped, BootTyped, ReadTyped, DeathTyped DEF Next, Progress

LEMMA InitOwned == Init => OInv
  <1> SUFFICES ASSUME Init PROVE OInv
    OBVIOUS
  <1>1. IInv
    BY InitIInv
  <1>2. /\ launcher.spawned = <<>> /\ launcher.pool = <<>> /\ launcher.out = <<>>
        /\ \A k \in Kinds, a \in Apps : launcher.entries[k][a].pid = 0
    BY DEF Init, LauncherInit, NoEntry
  <1>3. Started = {}
    BY <1>2 DEF Started
  <1>4. Owned(launcher) = {}
    BY <1>2 DEF Owned, InPool, InEntry
  <1>5. Lives
    BY <1>2, <1>3, <1>4 DEF Lives, Placed, Owns, Fresh, Named, Init
  <1>6. Bounded
    <2>1. Quicks(<<>>) = {} /\ Direct(<<>>) = {}
      BY DEF Quicks, Direct
    <2>2. Cardinality({}) = 0
      BY FS_EmptySet
    <2>3. Len(sent) = 0
      BY DEF Init
    <2>4. MaxPooled \in Nat /\ MaxMessages \in Nat
      BY LauncherBounds
    <2>5. Cardinality(Quicks(launcher.spawned)) = 0 /\ Cardinality(Direct(launcher.spawned)) = 0
      BY <1>2, <2>1, <2>2
    <2> QED
      BY <2>3, <2>4, <2>5 DEF Bounded
  <1>7. ProcessType
    <2>1. <<>> \in Seq(1..MaxMessages) /\ <<>> \in Seq(Packet) /\ <<>> \in Seq(Apps \cup {"QPEProcessQCop"})
      OBVIOUS
    <2> QED
      BY <2>1, DeathsAssumption DEF Init, ProcessType, Phases
  <1> QED
    BY <1>1, <1>5, <1>6, <1>7 DEF OInv

LEMMA StepOwned == OInv /\ [Next]_vars => OInv'
  <1> SUFFICES ASSUME OInv, [Next]_vars PROVE OInv'
    OBVIOUS
  <1>1. IInv'
    BY StepIInv DEF OInv
  <1>2. CASE Next
    BY <1>1, <1>2, NextLives, NextTyped DEF OInv
  <1>3. CASE UNCHANGED vars
    BY <1>3 DEF vars, processes, qcop, history, OInv, IInv, Bounded, ProcessType, Lives, Owns,
                Fresh, Named, Started
  <1> QED
    BY <1>2, <1>3

LEMMA OwnedOnce == OInv => OneInstance
  <1> SUFFICES ASSUME OInv PROVE OneInstance
    OBVIOUS
  <1>0. launcher \in LauncherType /\ TablesAgree(launcher) /\ Placed(launcher) /\ Owns
    BY DEF OInv, IInv, Good, Lives
  <1>1. TypeOK
    BY <1>0 DEF OInv, IInv, Bounded, ProcessType, Phases, TypeOK
  <1>2. ProcessesOwned
    <2> SUFFICES ASSUME NEW p \in Started
                 PROVE  Cardinality({ i \in DOMAIN launcher.pool : launcher.pool[i].pid = p })
                      + Cardinality({ e \in Kinds \X Apps : launcher.entries[e[1]][e[2]].pid = p })
                        = IF phase[p] = "reaped" THEN 0 ELSE 1
      BY DEF ProcessesOwned
    <2> DEFINE P == { i \in DOMAIN launcher.pool : launcher.pool[i].pid = p }
               E == { e \in Kinds \X Apps : launcher.entries[e[1]][e[2]].pid = p }
    <2>1. p \in Nat \ {0}
      BY StartedIds DEF OInv, Pids
    <2>2. Cardinality({}) = 0 /\ \A x : Cardinality({x}) = 1
      BY FS_EmptySet, FS_Singleton
    <2>3. CASE phase[p] = "reaped"
      <3>1. ~InPool(launcher, p) /\ ~InEntry(launcher, p)
        BY <1>0, <2>1, <2>3, NotOwned DEF Owns
      <3>2. P = {} /\ E = {}
        BY <3>1 DEF InPool, InEntry
      <3> HIDE DEF P, E
      <3>3. Cardinality(P) = 0 /\ Cardinality(E) = 0
        BY <2>2, <3>2, Zenon
      <3>4. Cardinality(P) + Cardinality(E) = 0
        BY <3>3
      <3> QED
        BY <2>3, <3>4 DEF P, E
    <2>4. CASE phase[p] # "reaped" /\ InPool(launcher, p)
      <3>1. PICK i \in DOMAIN launcher.pool : launcher.pool[i].pid = p
        BY <2>4 DEF InPool
      <3>2. P = {i} /\ E = {}
        BY <1>0, <3>1 DEF Placed
      <3> HIDE DEF P, E
      <3>3. Cardinality(P) = 1 /\ Cardinality(E) = 0
        BY <2>2, <3>2, Zenon
      <3>4. Cardinality(P) + Cardinality(E) = 1
        BY <3>3
      <3> QED
        BY <2>4, <3>4 DEF P, E
    <2>5. CASE phase[p] # "reaped" /\ ~InPool(launcher, p)
      <3>1. InEntry(launcher, p)
        BY <1>0, <2>1, <2>5, NotOwned DEF Owns
      <3>2. PICK k \in Kinds, a \in Apps : launcher.entries[k][a].pid = p
        BY <3>1 DEF InEntry
      <3>3. \A e \in Kinds \X Apps : launcher.entries[e[1]][e[2]].pid = p => e = <<k, a>>
        BY <1>0, <2>1, <3>2 DEF Placed
      <3>4. E = {<<k, a>>}
        BY <3>2, <3>3
      <3>5. P = {}
        BY <2>5 DEF InPool
      <3> HIDE DEF P, E
      <3>6. Cardinality(P) = 0 /\ Cardinality(E) = 1
        BY <2>2, <3>4, <3>5, Zenon
      <3>7. Cardinality(P) + Cardinality(E) = 1
        BY <3>6
      <3> QED
        BY <2>5, <3>7 DEF P, E
    <2> QED
      BY <2>3, <2>4, <2>5
  <1> QED
    BY <1>0, <1>1, <1>2 DEF OneInstance

\* An application has one process at most, the server's tables about it agree,
\* and every process that was started has one owner until its end is reported,
\* whatever is launched, killed, crashes or becomes ready in between
\* (ApplicationLauncher, ExeApplicationLauncher, QuickExeApplicationLauncher).
THEOREM OneInstanceEach == Spec => []OneInstance
  BY InitOwned, StepOwned, OwnedOnce, PTL DEF Spec

-----------------------------------------------------------------------------
\* What routing a message does to the server, exactly

Prod(pid) == [to |-> pid, channel |-> "pid", what |-> "QPEProcessQCop"]
Execute(pid, app) == [to |-> pid, channel |-> "quick", what |-> app]
Filed(s, app, msg) == [s.files EXCEPT ![app] = Append(s.files[app], msg)]

LEMMA RouteToDoes ==
    ASSUME NEW s \in LauncherType, NEW kind \in Kinds, NEW app \in Apps,
           NEW msg \in 1..MaxMessages
    PROVE  LET t == RouteTo(s, kind, app, msg) IN
           /\ t \in LauncherType /\ t.files = Filed(s, app, msg)
           /\ t.out = Append(s.out, Prod(s.entries[kind][app].pid))
           /\ t.pool = s.pool /\ t.entries = s.entries /\ t.spawned = s.spawned
  <1>1. RouteTo(s, kind, app, msg) \in LauncherType
    BY RouteToType
  <1>2. LET t == RouteTo(s, kind, app, msg) IN
        /\ t.files = Filed(s, app, msg)
        /\ t.out = Append(s.out, Prod(s.entries[kind][app].pid))
        /\ t.pool = s.pool /\ t.entries = s.entries /\ t.spawned = s.spawned
    BY DEF RouteTo, LauncherType, Filed, Prod
  <1> QED
    BY <1>1, <1>2

LEMMA AddStartingDoes ==
    ASSUME NEW s \in LauncherType, NEW kind \in Kinds, NEW app \in Apps,
           NEW pid \in Nat \ {0}, NEW msg \in 1..MaxMessages
    PROVE  LET w == AddStartingApplication(s, kind, app, pid, msg) IN
           /\ w \in LauncherType /\ w.files = Filed(s, app, msg)
           /\ w.out = Append(s.out, Prod(pid))
           /\ w.pool = s.pool /\ w.entries = Entered(s, kind, app, pid)
           /\ w.spawned = s.spawned
  <1> DEFINE e == [pid |-> pid, state |-> "Starting"]
             t == [s EXCEPT !.entries[kind][app] = e]
             u == [t EXCEPT !.routes[app] = @ \cup {kind}]
             v == AddRoute(t, kind, app, msg)
             w == HandleStateChange(v, app, "Starting")
  <1>1. /\ t \in LauncherType /\ t.pool = s.pool /\ t.spawned = s.spawned /\ t.out = s.out
        /\ t.entries = Entered(s, kind, app, pid) /\ t.files = s.files
    <2>1. e \in [pid : Nat, state : States]
      BY DEF States
    <2> QED
      BY <2>1 DEF LauncherType, Entered
  <1>2. /\ u \in LauncherType /\ u.pool = t.pool /\ u.spawned = t.spawned /\ u.out = t.out
        /\ u.entries = t.entries /\ u.files = t.files
    <2> HIDE DEF t
    <2>1. [t.routes EXCEPT ![app] = @ \cup {kind}] \in [Apps -> SUBSET Kinds]
      BY <1>1, Parts
    <2> QED
      BY <1>1, <2>1 DEF LauncherType
  <1>3. u.entries[kind][app].pid = pid
    <2> HIDE DEF u
    <2> QED
      BY <1>1, <1>2, Parts DEF Entered
  <1>4. v = RouteTo(u, kind, app, msg)
    BY LauncherBounds DEF AddRoute, u
  <1> HIDE DEF t, u, v
  <1>5. /\ v \in LauncherType /\ v.files = Filed(u, app, msg) /\ v.out = Append(u.out, Prod(pid))
        /\ v.pool = u.pool /\ v.entries = u.entries /\ v.spawned = u.spawned
    <2>1. u \in LauncherType
      BY <1>2
    <2>2. LET t2 == RouteTo(u, kind, app, msg) IN
          /\ t2 \in LauncherType /\ t2.files = Filed(u, app, msg)
          /\ t2.out = Append(u.out, Prod(u.entries[kind][app].pid))
          /\ t2.pool = u.pool /\ t2.entries = u.entries /\ t2.spawned = u.spawned
      BY <2>1, RouteToDoes
    <2> QED
      BY <1>3, <1>4, <2>2
  <1>6. "Starting" \in States
    BY DEF States
  <1>7. /\ w \in LauncherType /\ w.entries = v.entries /\ w.pool = v.pool
        /\ w.spawned = v.spawned /\ w.out = v.out
    BY <1>5, <1>6, HandleStateChangeType, ChangeKeeps
  <1>8. w.files = v.files
    BY <1>5 DEF HandleStateChange, LauncherType
  <1>9. AddStartingApplication(s, kind, app, pid, msg) = w
    BY DEF AddStartingApplication, v, t
  <1>10. Filed(u, app, msg) = Filed(s, app, msg)
    BY <1>1, <1>2 DEF Filed
  <1> HIDE DEF w
  <1> QED
    BY <1>1, <1>2, <1>5, <1>7, <1>8, <1>9, <1>10

\* The message goes to the process that has the application, or a process is
\* started for it, or one of the pool becomes it
ToOwner(s, t, app) ==
    /\ t.pool = s.pool /\ t.entries = s.entries /\ t.spawned = s.spawned
    /\ \E k \in Owners(s, app) : t.out = Append(s.out, Prod(s.entries[k][app].pid))
ToNew(s, t, app) ==
    LET pid == Len(s.spawned) + 1 IN
    /\ t.pool = s.pool /\ t.spawned = Append(s.spawned, app)
    /\ t.entries = Entered(s, "simple", app, pid) /\ t.out = Append(s.out, Prod(pid))
ToPooled(s, t, app, i) ==
    LET pid == s.pool[i].pid IN
    /\ t.pool = RemoveAt(s.pool, i) /\ t.spawned = s.spawned
    /\ t.entries = Entered(s, "quick", app, pid)
    /\ t.out = Append(Append(s.out, Prod(pid)), Execute(pid, app))

Routed(s, t, app, msg) ==
    /\ t.files = Filed(s, app, msg)
    /\ \/ ToOwner(s, t, app)
       \/ Owners(s, app) = {} /\ ToNew(s, t, app)
       \/ Owners(s, app) = {} /\ \E i \in DOMAIN s.pool : ToPooled(s, t, app, i)

LEMMA SimpleLaunchDoes ==
    ASSUME NEW s \in LauncherType, NEW app \in Apps, NEW msg \in 1..MaxMessages,
           s.entries["simple"][app].pid = 0
    PROVE  LET w == SimpleLaunch(s, app, msg) IN
           w.files = Filed(s, app, msg) /\ ToNew(s, w, app)
  <1> DEFINE t == Spawn(s, app)
             pid == Len(s.spawned) + 1
             w == AddStartingApplication(t, "simple", app, pid, msg)
  <1>1. t \in LauncherType /\ pid \in Nat \ {0} /\ "simple" \in Kinds
    BY SpawnType DEF Kinds
  <1>2. /\ t.spawned = Append(s.spawned, app) /\ t.pool = s.pool /\ t.entries = s.entries
        /\ t.out = s.out /\ t.files = s.files
    BY DEF Spawn, LauncherType
  <1> HIDE DEF t, pid
  <1>3. /\ w.files = Filed(t, app, msg) /\ w.out = Append(t.out, Prod(pid))
        /\ w.pool = t.pool /\ w.entries = Entered(t, "simple", app, pid)
        /\ w.spawned = t.spawned
    BY <1>1, AddStartingDoes
  <1> HIDE DEF w
  <1>4. Filed(t, app, msg) = Filed(s, app, msg)
        /\ Entered(t, "simple", app, pid) = Entered(s, "simple", app, pid)
    BY <1>2 DEF Filed, Entered
  <1>5. SimpleLaunch(s, app, msg) = w
    BY DEF SimpleLaunch, IsRunning, w, t, pid
  <1> QED
    BY <1>2, <1>3, <1>4, <1>5 DEF ToNew, pid

LEMMA QuickLaunchDoes ==
    ASSUME NEW s \in LauncherType, NEW app \in Apps, NEW msg \in 1..MaxMessages,
           s.entries["quick"][app].pid = 0, Ready(s) # {}
    PROVE  LET w == QuickLaunch(s, app, msg) IN
           w.files = Filed(s, app, msg) /\ \E i \in DOMAIN s.pool : ToPooled(s, w, app, i)
  <1> DEFINE i == CHOOSE j \in Ready(s) : TRUE
             pid == s.pool[i].pid
             t == [s EXCEPT !.pool = RemoveAt(@, i)]
             u == AddStartingApplication(t, "quick", app, pid, msg)
             v == [u EXCEPT !.out = Append(@, Execute(pid, app))]
  <1>0. "quick" \in Kinds
    BY DEF Kinds
  <1>1. i \in DOMAIN s.pool
    BY DEF Ready
  <1> HIDE DEF i
  <1>2. s.pool[i] \in Pooled /\ RemoveAt(s.pool, i) \in Seq(Pooled)
    BY <1>1, Parts, RemoveAtSeq
  <1>3. /\ t \in LauncherType /\ t.pool = RemoveAt(s.pool, i) /\ t.entries = s.entries
        /\ t.spawned = s.spawned /\ t.out = s.out /\ t.files = s.files
    BY <1>2 DEF LauncherType, Pooled
  <1>4. pid \in Nat \ {0}
    BY <1>2 DEF Pooled
  <1> HIDE DEF t, pid
  <1>5. /\ u \in LauncherType /\ u.files = Filed(t, app, msg) /\ u.out = Append(t.out, Prod(pid))
        /\ u.pool = t.pool /\ u.entries = Entered(t, "quick", app, pid)
        /\ u.spawned = t.spawned
    <2>1. t \in LauncherType
      BY <1>3
    <2>2. LET w == AddStartingApplication(t, "quick", app, pid, msg) IN
          /\ w \in LauncherType /\ w.files = Filed(t, app, msg)
          /\ w.out = Append(t.out, Prod(pid))
          /\ w.pool = t.pool /\ w.entries = Entered(t, "quick", app, pid)
          /\ w.spawned = t.spawned
      BY <1>0, <1>4, <2>1, AddStartingDoes
    <2> QED
      BY <2>2
  <1> HIDE DEF u
  <1>6. /\ v.files = u.files /\ v.out = Append(u.out, Execute(pid, app))
        /\ v.pool = u.pool /\ v.entries = u.entries /\ v.spawned = u.spawned
    BY <1>5 DEF LauncherType
  <1>7. /\ Respawn(v).files = v.files /\ Respawn(v).out = v.out
        /\ Respawn(v).pool = v.pool /\ Respawn(v).entries = v.entries
        /\ Respawn(v).spawned = v.spawned
    BY <1>5 DEF LauncherType, Respawn
  <1> HIDE DEF v
  <1>8. Filed(t, app, msg) = Filed(s, app, msg)
        /\ Entered(t, "quick", app, pid) = Entered(s, "quick", app, pid)
    BY <1>3 DEF Filed, Entered
  <1>9. QuickLaunch(s, app, msg) = Respawn(v)
    BY DEF QuickLaunch, IsRunning, v, u, t, pid, i, Execute
  <1>10. ToPooled(s, Respawn(v), app, i)
    BY <1>3, <1>5, <1>6, <1>7, <1>8 DEF ToPooled, pid
  <1> QED
    BY <1>1, <1>5, <1>6, <1>7, <1>8, <1>9, <1>10

LEMMA RouteMessageDoes ==
    ASSUME NEW s, Good(s), NEW app \in Apps, NEW msg \in 1..MaxMessages
    PROVE  Routed(s, RouteMessage(s, app, msg), app, msg)
  <1> DEFINE t == Launch(s, app, msg)
             u == IF "quick" \in s.routes[app] THEN RouteTo(t, "quick", app, msg) ELSE t
             v == IF "simple" \in s.routes[app] THEN RouteTo(u, "simple", app, msg) ELSE u
  <1>0. /\ s \in LauncherType /\ "quick" \in Kinds /\ "simple" \in Kinds
        /\ \A k \in Kinds : k = "quick" \/ k = "simple"
    BY DEF Good, Kinds
  <1>1. /\ s.routes[app] = Owners(s, app) /\ (s.running[app] = "none" <=> Owners(s, app) = {})
        /\ \A k, l \in Owners(s, app) : k = l
    BY DEF Good, TablesAgree, Agree
  <1>2. RouteMessage(s, app, msg) = v
    BY DEF RouteMessage
  <1>3. CASE Owners(s, app) = {}
    <2> DEFINE r == [s EXCEPT !.running[app] = Chosen(s, app)]
    <2>1. Chosen(s, app) \in Kinds /\ (Chosen(s, app) = "quick" => Ready(s) # {})
      BY DEF Chosen, CanQuickLaunch, Kinds
    <2>2. /\ r \in LauncherType /\ r.pool = s.pool /\ r.entries = s.entries
          /\ r.spawned = s.spawned /\ r.out = s.out /\ r.files = s.files
      BY <1>0, <2>1 DEF LauncherType
    <2>3. t = IF Chosen(s, app) = "quick" THEN QuickLaunch(r, app, msg)
              ELSE SimpleLaunch(r, app, msg)
      BY <1>1, <1>3 DEF Launch
    <2>4. v = t
      BY <1>1, <1>3
    <2> HIDE DEF r, t, u, v
    <2>5. r.entries["quick"][app].pid = 0 /\ r.entries["simple"][app].pid = 0
      BY <1>0, <1>3, <2>2 DEF Owners
    <2>6. Ready(r) = Ready(s)
      BY <2>2 DEF Ready
    <2>7. \/ t.files = Filed(r, app, msg) /\ ToNew(r, t, app)
          \/ t.files = Filed(r, app, msg) /\ \E i \in DOMAIN r.pool : ToPooled(r, t, app, i)
      BY <2>1, <2>2, <2>3, <2>5, <2>6, SimpleLaunchDoes, QuickLaunchDoes
    <2>8. /\ Filed(r, app, msg) = Filed(s, app, msg)
          /\ ToNew(r, t, app) => ToNew(s, t, app)
          /\ \A i : ToPooled(r, t, app, i) => ToPooled(s, t, app, i)
      BY <2>2 DEF Filed, ToNew, ToPooled, Entered
    <2> QED
      BY <1>2, <1>3, <2>2, <2>4, <2>7, <2>8 DEF Routed
  <1>4. CASE Owners(s, app) # {}
    <2>1. PICK k \in Kinds : Owners(s, app) = {k}
      BY <1>1, <1>4 DEF Owners
    <2>2. t = s
      BY <1>1, <1>4 DEF Launch
    <2>3. v = RouteTo(s, k, app, msg)
      <3>1. CASE k = "quick"
        BY <1>1, <2>1, <2>2, <3>1
      <3>2. CASE k = "simple"
        BY <1>1, <2>1, <2>2, <3>2
      <3> QED
        BY <1>0, <3>1, <3>2
    <2> HIDE DEF v
    <2>4. /\ v.files = Filed(s, app, msg) /\ v.out = Append(s.out, Prod(s.entries[k][app].pid))
          /\ v.pool = s.pool /\ v.entries = s.entries /\ v.spawned = s.spawned
      BY <1>0, <2>3, RouteToDoes
    <2> QED
      BY <1>2, <2>1, <2>4 DEF Routed, ToOwner
  <1> QED
    BY <1>3, <1>4

-----------------------------------------------------------------------------
\* Where processes come from

\* The processes of the pool were started as quicklaunchers, an application's
\* as itself or as a quicklauncher, and execute() goes to a process that has
\* the application or whose end was reported
Addressed(s) ==
    /\ \A p \in Nat \ {0} : InPool(s, p) => s.spawned[p] = "quicklauncher"
    /\ \A k \in Kinds, a \in Apps : s.entries[k][a].pid # 0 =>
           s.spawned[s.entries[k][a].pid] \in {a, "quicklauncher"}
    /\ \A i \in DOMAIN s.out : s.out[i].what \in Apps =>
           \/ \E k \in Kinds : s.entries[k][s.out[i].what].pid = s.out[i].to
           \/ s.out[i].to \notin Owned(s)

\* An entry that a step makes: of a process that is started for it, or that
\* leaves the pool
Comes(s, t, k, a) ==
    LET p == t.entries[k][a].pid IN
    /\ t.entries[k][a].state = "Starting"
    /\ \/ InPool(s, p)
       \/ p \in DOMAIN t.spawned \ DOMAIN s.spawned /\ t.spawned[p] = a

\* What a step of the server may do to the places of processes
Moves(s, t) ==
    /\ \A p \in DOMAIN s.spawned : p \in DOMAIN t.spawned /\ t.spawned[p] = s.spawned[p]
    /\ \A p \in Nat \ {0} : InPool(t, p) =>
           \/ InPool(s, p)
           \/ p \in DOMAIN t.spawned \ DOMAIN s.spawned /\ t.spawned[p] = "quicklauncher"
    /\ \A k \in Kinds, a \in Apps : t.entries[k][a].pid # 0 =>
           t.entries[k][a] = s.entries[k][a] \/ Comes(s, t, k, a)
    /\ \A k \in Kinds, a \in Apps : s.entries[k][a].pid # 0 =>
           \/ t.entries[k][a].pid = s.entries[k][a].pid
           \/ s.entries[k][a].pid \notin Owned(t)
    /\ \A p \in DOMAIN s.spawned : p \in Owned(t) => p \in Owned(s)
    /\ \A i \in DOMAIN t.out : t.out[i].what \in Apps =>
           \/ \E j \in DOMAIN s.out : t.out[i] = s.out[j]
           \/ \E k \in Kinds : t.entries[k][t.out[i].what].pid = t.out[i].to

LEMMA MovesAddressed ==
    ASSUME NEW s \in LauncherType, NEW t \in LauncherType, Placed(s), Moves(s, t), Addressed(s)
    PROVE  Addressed(t)
  <1>1. \A k \in Kinds, a \in Apps : s.entries[k][a].pid \in Nat /\ t.entries[k][a].pid \in Nat
    BY Parts
  <1>2. \A p \in Nat \ {0} : InPool(s, p) \/ InEntry(s, p) => p \in Owned(s) /\ p \in DOMAIN s.spawned
    BY DEF Owned, Placed
  <1>3. \A p \in Nat \ {0} : InPool(t, p) => t.spawned[p] = "quicklauncher"
    BY <1>2 DEF Moves, Addressed
  <1>4. ASSUME NEW k \in Kinds, NEW a \in Apps, t.entries[k][a].pid # 0
        PROVE  t.spawned[t.entries[k][a].pid] \in {a, "quicklauncher"}
    <2> DEFINE p == t.entries[k][a].pid
    <2>1. p \in Nat \ {0}
      BY <1>1, <1>4
    <2>2. CASE t.entries[k][a] = s.entries[k][a]
      <3>1. p \in DOMAIN s.spawned /\ s.spawned[p] \in {a, "quicklauncher"}
        BY <1>2, <2>1, <2>2 DEF InEntry, Addressed
      <3> QED
        BY <3>1 DEF Moves
    <2>3. CASE Comes(s, t, k, a)
      <3>1. CASE InPool(s, p)
        BY <1>2, <2>1, <3>1 DEF Addressed, Moves
      <3>2. CASE t.spawned[p] = a
        BY <3>2
      <3> QED
        BY <2>3, <3>1, <3>2 DEF Comes
    <2> QED
      BY <1>4, <2>2, <2>3 DEF Moves
  <1>5. ASSUME NEW i \in DOMAIN t.out, t.out[i].what \in Apps
        PROVE  \/ \E k \in Kinds : t.entries[k][t.out[i].what].pid = t.out[i].to
               \/ t.out[i].to \notin Owned(t)
    <2>1. CASE \E k \in Kinds : t.entries[k][t.out[i].what].pid = t.out[i].to
      BY <2>1
    <2>2. ASSUME NEW j \in DOMAIN s.out, t.out[i] = s.out[j]
          PROVE  \/ \E k \in Kinds : t.entries[k][t.out[i].what].pid = t.out[i].to
                 \/ t.out[i].to \notin Owned(t)
      <3> DEFINE a == t.out[i].what
                 p == t.out[i].to
      <3>1. a \in Apps /\ p = s.out[j].to /\ a = s.out[j].what
        BY <1>5, <2>2
      <3>2. p \in DOMAIN s.spawned
        BY <3>1 DEF Placed
      <3>3. (\E k \in Kinds : s.entries[k][a].pid = p) \/ p \notin Owned(s)
        BY <3>1 DEF Addressed
      <3>4. s.spawned \in Seq(Apps \cup {"quicklauncher"})
        BY Parts
      <3>5. p # 0
        BY <3>2, <3>4
      <3> HIDE DEF a, p
      <3>6. (\E k \in Kinds : t.entries[k][a].pid = p) \/ p \notin Owned(t)
        <4>1. \A k \in Kinds, b \in Apps : s.entries[k][b].pid # 0 =>
                  t.entries[k][b].pid = s.entries[k][b].pid \/ s.entries[k][b].pid \notin Owned(t)
          BY DEF Moves
        <4>2. p \in DOMAIN s.spawned => (p \in Owned(t) => p \in Owned(s))
          BY DEF Moves
        <4> QED
          BY <3>1, <3>2, <3>3, <3>5, <4>1, <4>2
      <3> QED
        BY <3>6 DEF a, p
    <2> QED
      BY <1>5, <2>1, <2>2 DEF Moves
  <1> QED
    BY <1>3, <1>4, <1>5 DEF Addressed

\* A step that leaves the places alone and sends nothing
LEMMA SameMoves ==
    ASSUME NEW s, NEW t, SamePlaces(s, t), t.entries = s.entries,
           \A i \in DOMAIN t.out : \E j \in DOMAIN s.out : t.out[i] = s.out[j]
    PROVE  Moves(s, t)
  <1>1. Owned(t) = Owned(s) /\ \A p : InPool(t, p) <=> InPool(s, p)
    BY SameOwned DEF SamePlaces, InPool
  <1> QED
    BY <1>1 DEF Moves, SamePlaces

LEMMA SameAddressed ==
    ASSUME NEW s, NEW t, SamePlaces(s, t), t.out = s.out, Addressed(s)
    PROVE  Addressed(t)
  <1>1. Owned(t) = Owned(s) /\ \A p : InPool(t, p) <=> InPool(s, p)
    BY SameOwned DEF SamePlaces, InPool
  <1> QED
    BY <1>1 DEF Addressed, SamePlaces

LEMMA AppendedOne ==
    ASSUME NEW S, NEW q \in Seq(S), NEW x
    PROVE  \A i \in DOMAIN Append(q, x) :
               Append(q, x)[i] = x \/ \E j \in DOMAIN q : Append(q, x)[i] = q[j]
  <1>1. DOMAIN Append(q, x) = DOMAIN q \cup {Len(q) + 1}
        /\ (\A i \in DOMAIN q : Append(q, x)[i] = q[i]) /\ Append(q, x)[Len(q) + 1] = x
    OBVIOUS
  <1> QED
    BY <1>1

LEMMA RoutedMoves ==
    ASSUME NEW s, Good(s), Placed(s), NEW app \in Apps, NEW msg \in 1..MaxMessages,
           NEW t, Routed(s, t, app, msg), Placed(t),
           Keeps(s, t) \/ Starts(s, t, app)
    PROVE  Moves(s, t)
  <1>0. /\ s \in LauncherType /\ s.out \in Seq(Sent)
        /\ s.spawned \in Seq(Apps \cup {"quicklauncher"})
        /\ s.entries \in [Kinds -> [Apps -> [pid : Nat, state : States]]]
    BY Parts DEF Good
  <1> DEFINE new == Len(s.spawned) + 1
  <1>1. \A x : /\ DOMAIN Append(s.spawned, x) = DOMAIN s.spawned \cup {new}
               /\ \A p \in DOMAIN s.spawned : Append(s.spawned, x)[p] = s.spawned[p]
               /\ Append(s.spawned, x)[new] = x
               /\ new \notin DOMAIN s.spawned /\ new \in Nat \ {0}
    BY <1>0
  <1> HIDE DEF new
  <1>2. \A p \in DOMAIN s.spawned : p \in Owned(t) => p \in Owned(s)
    BY <1>1 DEF Keeps, Starts, new
  <1>3. \A pid : Prod(pid).what \notin Apps
    BY AppsAssumption DEF Prod
  <1>4. CASE ToOwner(s, t, app)
    <2>1. PICK k \in Owners(s, app) : t.out = Append(s.out, Prod(s.entries[k][app].pid))
      BY <1>4 DEF ToOwner
    <2>2. \A i \in DOMAIN t.out : t.out[i].what \in Apps =>
              \E j \in DOMAIN s.out : t.out[i] = s.out[j]
      BY <1>0, <1>3, <2>1, AppendedOne
    <2>3. \A p : InPool(t, p) <=> InPool(s, p)
      BY <1>4 DEF ToOwner, InPool
    <2> QED
      BY <1>2, <1>4, <2>2, <2>3 DEF ToOwner, Moves
  <1>5. CASE Owners(s, app) = {} /\ ToNew(s, t, app)
    <2>1. /\ t.pool = s.pool /\ t.spawned = Append(s.spawned, app)
          /\ t.entries = Entered(s, "simple", app, new) /\ t.out = Append(s.out, Prod(new))
      BY <1>5 DEF ToNew, new
    <2>2. \A i \in DOMAIN t.out : t.out[i].what \in Apps =>
              \E j \in DOMAIN s.out : t.out[i] = s.out[j]
      BY <1>0, <1>3, <2>1, AppendedOne
    <2>3. \A p : InPool(t, p) <=> InPool(s, p)
      BY <2>1 DEF InPool
    <2>4. /\ t.entries["simple"][app] = [pid |-> new, state |-> "Starting"]
          /\ \A k \in Kinds, a \in Apps : k # "simple" \/ a # app => t.entries[k][a] = s.entries[k][a]
      BY <1>0, <2>1 DEF Entered, Kinds
    <2>5. Comes(s, t, "simple", app)
      <3>1. new \in DOMAIN t.spawned \ DOMAIN s.spawned /\ t.spawned[new] = app
        BY <1>1, <2>1
      <3>2. t.entries["simple"][app].pid = new /\ t.entries["simple"][app].state = "Starting"
        BY <2>4
      <3> QED
        BY <3>1, <3>2 DEF Comes
    <2>6. \A k \in Kinds : s.entries[k][app].pid = 0
      BY <1>5 DEF Owners
    <2>7. \A k \in Kinds, a \in Apps : t.entries[k][a] = s.entries[k][a] \/ Comes(s, t, k, a)
      BY <2>4, <2>5
    <2>8. \A k \in Kinds, a \in Apps : s.entries[k][a].pid # 0 =>
              t.entries[k][a].pid = s.entries[k][a].pid
      BY <2>4, <2>6
    <2>9. \A p \in DOMAIN s.spawned : p \in DOMAIN t.spawned /\ t.spawned[p] = s.spawned[p]
      BY <1>1, <2>1
    <2> QED
      BY <1>2, <2>2, <2>3, <2>7, <2>8, <2>9 DEF Moves
  <1>6. ASSUME Owners(s, app) = {}, NEW i \in DOMAIN s.pool, ToPooled(s, t, app, i)
        PROVE  Moves(s, t)
    <2> DEFINE pid == s.pool[i].pid
    <2>1. /\ t.pool = RemoveAt(s.pool, i) /\ t.spawned = s.spawned
          /\ t.entries = Entered(s, "quick", app, pid)
          /\ t.out = Append(Append(s.out, Prod(pid)), Execute(pid, app))
      BY <1>6 DEF ToPooled
    <2>a. InPool(s, pid)
      BY DEF InPool
    <2>b. s.pool \in Seq(Pooled)
      BY <1>0, Parts
    <2>3. \A p : InPool(t, p) => InPool(s, p)
      <3> DEFINE q == s.pool
      <3>1. q \in Seq(Pooled) /\ i \in DOMAIN q /\ t.pool = RemoveAt(q, i)
        BY <2>b, <2>1
      <3> HIDE DEF q
      <3>2. \A j \in DOMAIN t.pool : \E n \in DOMAIN q : t.pool[j] = q[n]
        BY <3>1, RemoveAtElements
      <3> QED
        BY <3>2 DEF InPool, q
    <2> HIDE DEF pid
    <2>4. /\ t.entries["quick"][app] = [pid |-> pid, state |-> "Starting"]
          /\ \A k \in Kinds, a \in Apps : k # "quick" \/ a # app => t.entries[k][a] = s.entries[k][a]
      BY <1>0, <2>1 DEF Entered, Kinds
    <2>5. Comes(s, t, "quick", app)
      <3>1. t.entries["quick"][app].pid = pid /\ t.entries["quick"][app].state = "Starting"
        BY <2>4
      <3>2. InPool(s, t.entries["quick"][app].pid)
        BY <2>a, <3>1, Zenon
      <3> QED
        BY <3>1, <3>2 DEF Comes
    <2>6. \A k \in Kinds : s.entries[k][app].pid = 0
      BY <1>6 DEF Owners
    <2>7. \A k \in Kinds, a \in Apps : t.entries[k][a] = s.entries[k][a] \/ Comes(s, t, k, a)
      BY <2>4, <2>5
    <2>8. \A k \in Kinds, a \in Apps : s.entries[k][a].pid # 0 =>
              t.entries[k][a].pid = s.entries[k][a].pid
      BY <2>4, <2>6
    <2>9. \A j \in DOMAIN t.out : t.out[j].what \in Apps =>
              \/ \E n \in DOMAIN s.out : t.out[j] = s.out[n]
              \/ \E k \in Kinds : t.entries[k][t.out[j].what].pid = t.out[j].to
      <3> DEFINE x == Prod(pid)
                 y == Execute(pid, app)
                 o == Append(s.out, x)
      <3>1. x \in Sent
        <4>1. s.pool[i] \in Pooled
          BY <2>b
        <4> QED
          BY <4>1 DEF Prod, Sent, Pooled, pid
      <3>2. o \in Seq(Sent)
        BY <1>0, <3>1, AppendSeq
      <3>3. y.what = app /\ y.to = pid
        BY DEF Execute
      <3>4. x.what \notin Apps
        BY <1>3
      <3>5. \A n \in DOMAIN o : o[n] = x \/ \E m \in DOMAIN s.out : o[n] = s.out[m]
        BY <1>0, AppendedOne
      <3> HIDE DEF x, y, o
      <3>6. \A j \in DOMAIN t.out : t.out[j] = y \/ \E n \in DOMAIN o : t.out[j] = o[n]
        <4>1. t.out = Append(o, y)
          BY <2>1 DEF o, x, y
        <4> QED
          BY <3>2, <4>1, AppendedOne
      <3>7. "quick" \in Kinds /\ t.entries["quick"][app].pid = pid
        BY <2>4 DEF Kinds
      <3> QED
        BY <3>3, <3>4, <3>5, <3>6, <3>7
    <2> QED
      BY <1>2, <2>1, <2>3, <2>7, <2>8, <2>9 DEF Moves
  <1> QED
    BY <1>4, <1>5, <1>6 DEF Routed

\* Every other step of the server
LEMMA StartNewMoves ==
    ASSUME NEW s \in LauncherType, Placed(s)
    PROVE  Moves(s, StartNewQuicklauncher(s))
  <1> DEFINE t == Spawn(s, "quicklauncher")
             new == Len(s.spawned) + 1
             x == [pid |-> new, ready |-> FALSE]
             u == StartNewQuicklauncher(s)
             q == s.pool
  <1>1. /\ t.spawned = Append(s.spawned, "quicklauncher") /\ t.pool = q
        /\ t.entries = s.entries /\ t.out = s.out /\ t \in LauncherType
    BY SpawnType DEF Spawn, LauncherType
  <1>2. u = [t EXCEPT !.pool = Append(t.pool, x), !.shots = t.shots - 1]
    BY DEF StartNewQuicklauncher
  <1>3. s.spawned \in Seq(Apps \cup {"quicklauncher"}) /\ q \in Seq(Pooled)
    BY Parts
  <1>4. LET r == Append(s.spawned, "quicklauncher") IN
        /\ DOMAIN r = DOMAIN s.spawned \cup {new} /\ new \notin DOMAIN s.spawned
        /\ (\A p \in DOMAIN s.spawned : r[p] = s.spawned[p]) /\ r[new] = "quicklauncher"
    BY <1>3
  <1>5. Starts(s, u, "quicklauncher")
    BY StartNewPlaced
  <1>6. x.pid = new
    OBVIOUS
  <1> HIDE DEF t, u, x
  <1>7. u.pool = Append(q, x) /\ u.entries = s.entries /\ u.out = s.out
        /\ u.spawned = Append(s.spawned, "quicklauncher")
    BY <1>1, <1>2 DEF LauncherType
  <1> HIDE DEF q
  <1>8. \A i \in DOMAIN u.pool : u.pool[i] = x \/ \E j \in DOMAIN q : u.pool[i] = q[j]
    BY <1>3, <1>7, AppendedOne
  <1>9. \A p : InPool(u, p) => InPool(s, p) \/ p = new
    BY <1>6, <1>8 DEF InPool, q
  <1>10. \A p \in DOMAIN s.spawned : p \in Owned(u) => p \in Owned(s)
    BY <1>4, <1>5 DEF Starts
  <1> HIDE DEF new
  <1> QED
    BY <1>4, <1>7, <1>9, <1>10 DEF Moves, u

LEMMA PoolExitedMoves ==
    ASSUME NEW s \in LauncherType, Placed(s), NEW pid, \E i \in DOMAIN s.pool : s.pool[i].pid = pid
    PROVE  Moves(s, PoolExited(s, pid))
  <1> DEFINE i == CHOOSE j \in DOMAIN s.pool : s.pool[j].pid = pid
             t == PoolExited(s, pid)
             q == s.pool
  <1>1. i \in DOMAIN q
    OBVIOUS
  <1>2. /\ t.pool = RemoveAt(q, i) /\ t.entries = s.entries /\ t.spawned = s.spawned
        /\ t.out = s.out
    BY DEF PoolExited, Respawn, LauncherType
  <1>3. Owned(t) = Owned(s) \ {pid}
    BY PoolExitedPlaced
  <1>4. q \in Seq(Pooled)
    BY Parts
  <1> HIDE DEF i, t, q
  <1>5. \A j \in DOMAIN t.pool : \E n \in DOMAIN q : t.pool[j] = q[n]
    BY <1>1, <1>2, <1>4, RemoveAtElements
  <1>6. \A p : InPool(t, p) => InPool(s, p)
    BY <1>5 DEF InPool, q
  <1> QED
    BY <1>2, <1>3, <1>6 DEF Moves, t

LEMMA AppGoneMoves ==
    ASSUME NEW s, Good(s), Placed(s), NEW kind \in Kinds, NEW app \in Apps,
           s.entries[kind][app].pid # 0
    PROVE  LET t == AppGone(s, kind, app) IN
           /\ Moves(s, t) /\ t.files = s.files
  <1> DEFINE t == AppGone(s, kind, app)
  <1>0. s \in LauncherType
    BY DEF Good
  <1>1. /\ t.pool = s.pool /\ t.spawned = s.spawned /\ t.out = s.out /\ t.files = s.files
        /\ t.entries = [s.entries EXCEPT ![kind][app] = NoEntry]
    BY <1>0 DEF AppGone, HandleStateChange, Terminated, RemRoute, LauncherType
  <1>2. Owned(t) = Owned(s) \ {s.entries[kind][app].pid}
    BY AppGonePlaced
  <1> HIDE DEF t
  <1>3. /\ t.entries[kind][app].pid = 0
        /\ \A k \in Kinds, a \in Apps : k # kind \/ a # app => t.entries[k][a] = s.entries[k][a]
    BY <1>0, <1>1, Parts DEF NoEntry
  <1>4. \A p : InPool(t, p) <=> InPool(s, p)
    BY <1>1 DEF InPool
  <1>5. \A k \in Kinds, a \in Apps : t.entries[k][a].pid # 0 => t.entries[k][a] = s.entries[k][a]
    BY <1>3
  <1>6. \A k \in Kinds, a \in Apps : s.entries[k][a].pid # 0 =>
           \/ t.entries[k][a].pid = s.entries[k][a].pid
           \/ s.entries[k][a].pid \notin Owned(t)
    BY <1>2, <1>3
  <1>7. Moves(s, t)
    BY <1>1, <1>2, <1>4, <1>5, <1>6 DEF Moves
  <1> QED
    BY <1>1, <1>7 DEF t

LEMMA PoolAvailablePlaces ==
    ASSUME NEW s \in LauncherType, NEW pid
    PROVE  LET t == PoolAvailable(s, pid) IN
           /\ SamePlaces(s, t) /\ t.entries = s.entries /\ t.out = s.out /\ t.files = s.files
  <1> DEFINE q == [i \in DOMAIN s.pool |->
                      IF s.pool[i].pid = pid THEN [s.pool[i] EXCEPT !.ready = TRUE]
                      ELSE s.pool[i]]
             t == PoolAvailable(s, pid)
  <1>1. \A i \in DOMAIN s.pool : s.pool[i] \in Pooled
    BY Parts
  <1>2. \A p \in Pooled : [p EXCEPT !.ready = TRUE].pid = p.pid
    BY DEF Pooled
  <1>3. DOMAIN q = DOMAIN s.pool /\ \A i \in DOMAIN s.pool : q[i].pid = s.pool[i].pid
    BY <1>1, <1>2
  <1>4. /\ t.pool = q /\ t.entries = s.entries /\ t.spawned = s.spawned /\ t.out = s.out
        /\ t.files = s.files
    BY DEF PoolAvailable, Respawn, LauncherType
  <1> HIDE DEF q, t
  <1>5. SamePlaces(s, t)
    BY <1>3, <1>4 DEF SamePlaces
  <1> QED
    BY <1>4, <1>5 DEF t

\* available() makes the entry of the process running
LEMMA AvailablePlaces ==
    ASSUME NEW s \in LauncherType, NEW app, NEW pid \in Nat \ {0}
    PROVE  LET t == Available(s, app, pid) IN
           /\ SamePlaces(s, t) /\ t.out = s.out /\ t.files = s.files
           /\ \A k \in Kinds, a \in Apps :
                  IF a = app /\ s.entries[k][a].pid = pid
                  THEN t.entries[k][a].state = "Running"
                  ELSE t.entries[k][a] = s.entries[k][a]
  <1> DEFINE mine == {k \in Kinds : app \in Apps /\ s.entries[k][app].pid = pid}
             e == [k \in Kinds |-> IF k \in mine THEN [s.entries[k] EXCEPT ![app].state = "Running"]
                                   ELSE s.entries[k]]
             t == [s EXCEPT !.entries = e]
             u == HandleStateChange(t, app, "Running")
  <1>1. CASE mine = {}
    BY <1>1 DEF Available, SamePlaces
  <1>2. CASE mine # {}
    <2>1. \A k \in Kinds, a \in Apps :
              /\ e[k][a].pid = s.entries[k][a].pid
              /\ IF a = app /\ s.entries[k][a].pid = pid THEN e[k][a].state = "Running"
                 ELSE e[k][a] = s.entries[k][a]
      <3> SUFFICES ASSUME NEW k \in Kinds, NEW a \in Apps
                   PROVE  /\ e[k][a].pid = s.entries[k][a].pid
                          /\ IF a = app /\ s.entries[k][a].pid = pid THEN e[k][a].state = "Running"
                             ELSE e[k][a] = s.entries[k][a]
        OBVIOUS
      <3> DEFINE f == s.entries[k]
                 g == [f EXCEPT ![app].state = "Running"]
      <3>1. f \in [Apps -> Entry]
        BY Parts DEF Entry
      <3>2. e[k] = IF k \in mine THEN g ELSE f
        OBVIOUS
      <3>3. k \in mine <=> app \in Apps /\ f[app].pid = pid
        OBVIOUS
      <3> HIDE DEF f, mine, e
      <3>4. \A h \in Entry : [h EXCEPT !.state = "Running"].pid = h.pid
                            /\ [h EXCEPT !.state = "Running"].state = "Running"
        BY DEF Entry
      <3>5. a # app => g[a] = f[a]
        BY <3>1
      <3>6. a = app => g[a].pid = f[a].pid /\ g[a].state = "Running"
        BY <3>1, <3>4
      <3> HIDE DEF g
      <3>7. /\ e[k][a].pid = f[a].pid
            /\ IF a = app /\ f[a].pid = pid THEN e[k][a].state = "Running" ELSE e[k][a] = f[a]
        <4>1. CASE a = app /\ f[a].pid = pid
          BY <3>2, <3>3, <3>6, <4>1
        <4>2. CASE a # app
          BY <3>2, <3>5, <4>2
        <4>3. CASE a = app /\ f[a].pid # pid
          BY <3>2, <3>3, <4>3
        <4> QED
          BY <4>1, <4>2, <4>3
      <3> QED
        BY <3>7 DEF f
    <2> HIDE DEF e, mine
    <2>2. t.pool = s.pool /\ t.spawned = s.spawned /\ t.out = s.out /\ t.entries = e
          /\ t.files = s.files
      BY DEF LauncherType
    <2>3. u.pool = t.pool /\ u.spawned = t.spawned /\ u.out = t.out /\ u.entries = t.entries
          /\ u.files = t.files
      BY DEF HandleStateChange, LauncherType
    <2> HIDE DEF u, t
    <2>4. SamePlaces(s, u)
      BY <2>1, <2>2, <2>3 DEF SamePlaces
    <2>5. Available(s, app, pid) = u
      BY <1>2 DEF Available, u, t, e, mine
    <2> QED
      BY <2>1, <2>2, <2>3, <2>4, <2>5
  <1> QED
    BY <1>1, <1>2

-----------------------------------------------------------------------------
\* What is shown as running can be reached

available == Says("QPE/QtopiaApplication", "available")
Announces(w) == \E i \in DOMAIN w : w[i] = available
Acts(f) == f \in {"init", "open", "loop"}

\* A process of the pool has not become an application, one that acts for an
\* application is the one of its entry, execute() reaches the process of the
\* application, an ended process has no messages, and only an application
\* announces itself
PoolWaits == \A p \in Pids : InPool(launcher, p) => phase[p] \in {"new", "idle", "dead"}
EntryNamed ==
    \A k \in Kinds, a \in Apps : \A p \in Pids :
        launcher.entries[k][a].pid = p /\ Acts(phase[p]) => name[p] = a
InboxFor ==
    \A p \in Pids : \A i \in DOMAIN inbox[p] : inbox[p][i] \in Apps =>
        \E k \in Kinds : launcher.entries[k][inbox[p][i]].pid = p
GoneDeaf == \A p \in Pids : phase[p] \in {"dead", "reaped"} => inbox[p] = <<>>
Announced == \A p \in Pids : Announces(wire[p]) => phase[p] \notin {"new", "idle"}
EntryReady ==
    \A k \in Kinds, a \in Apps : \A p \in Pids : launcher.entries[k][a].pid = p =>
        /\ launcher.entries[k][a].state = "Running" => phase[p] \notin {"new", "idle"}
        /\ Acts(phase[p]) => launcher.entries[k][a].state = "Running" \/ Announces(wire[p])

Reachable == PoolWaits /\ EntryNamed /\ InboxFor /\ GoneDeaf /\ Announced /\ EntryReady
RInv == OInv /\ Addressed(launcher) /\ Reachable

\* What the parts of OInv say about the ids
PidFacts ==
    /\ launcher \in LauncherType /\ Good(launcher) /\ Placed(launcher) /\ ProcessType
    /\ Owns /\ Started \subseteq Pids /\ DOMAIN launcher.spawned \subseteq Pids
    /\ \A p \in Pids : p \in Nat \ {0}
    /\ \A p \in Pids : InPool(launcher, p) => p \in Owned(launcher)
    /\ \A k \in Kinds, a \in Apps : launcher.entries[k][a].pid # 0 =>
           /\ launcher.entries[k][a].pid \in Owned(launcher)
           /\ launcher.entries[k][a].pid \in Pids
    /\ \A p \in Owned(launcher) : p \in Pids /\ phase[p] # "reaped"
    /\ \A p \in Pids : p \notin Owned(launcher) => phase[p] \in {"new", "reaped"}
    /\ \A p \in Pids : p \notin DOMAIN launcher.spawned => phase[p] = "new"

LEMMA PidsOwned == OInv => PidFacts
  <1> SUFFICES ASSUME OInv PROVE PidFacts
    OBVIOUS
  <1>1. /\ launcher \in LauncherType /\ Good(launcher) /\ Placed(launcher) /\ ProcessType
        /\ Owns /\ Fresh
    BY DEF OInv, IInv, Good, Lives
  <1>2. Started \subseteq Pids /\ Started = DOMAIN launcher.spawned
    BY StartedIds DEF OInv, Started
  <1>3. \A p \in Pids : p \in Nat \ {0}
    BY DEF Pids
  <1>4. \A p \in Pids : InPool(launcher, p) => p \in Owned(launcher)
    BY <1>3 DEF Owned
  <1>5. \A k \in Kinds, a \in Apps : launcher.entries[k][a].pid # 0 =>
            launcher.entries[k][a].pid \in Owned(launcher)
    BY <1>1, <1>3, NotOwned, Parts DEF Owned, InEntry
  <1>6. Owned(launcher) \subseteq Started
    BY <1>1, <1>2 DEF Placed
  <1>7. \A p \in Owned(launcher) : p \in Pids /\ phase[p] # "reaped"
    BY <1>1, <1>2, <1>6 DEF Owns
  <1>8. \A p \in Pids : p \notin Owned(launcher) => phase[p] \in {"new", "reaped"}
    BY <1>1, <1>2 DEF Owns, Fresh
  <1>9. \A p \in Pids : p \notin DOMAIN launcher.spawned => phase[p] = "new"
    BY <1>1, <1>2 DEF Fresh
  <1> QED
    BY <1>1, <1>2, <1>3, <1>4, <1>5, <1>6, <1>7, <1>8, <1>9 DEF PidFacts

LEMMA ServerStepReady ==
    ASSUME RInv, OInv', Moves(launcher, launcher'), name' = name,
           \A q \in Pids : phase'[q] = phase[q] \/ (phase[q] = "dead" /\ phase'[q] = "reaped"),
           \A q \in Pids : Announces(wire'[q]) <=> Announces(wire[q]),
           \A q \in Pids : \A i \in DOMAIN inbox'[q] : inbox'[q][i] \in Apps =>
               \/ \E j \in DOMAIN inbox[q] : inbox[q][j] = inbox'[q][i]
               \/ \E k \in Kinds : launcher'.entries[k][inbox'[q][i]].pid = q,
           \A q \in Pids : phase[q] \in {"dead", "reaped"} => inbox'[q] = inbox[q]
    PROVE  RInv'
  <1> DEFINE s == launcher
             t == launcher'
  <1>0. /\ s \in LauncherType /\ Placed(s) /\ Addressed(s) /\ Reachable
        /\ \A p \in Pids : p \in Nat \ {0}
        /\ \A p \in Pids : InPool(s, p) => phase[p] \in {"new", "idle", "dead"}
        /\ \A p \in Pids : p \notin DOMAIN s.spawned => phase[p] = "new"
    BY PidsOwned DEF RInv, PidFacts, Reachable, PoolWaits
  <1>1. /\ t \in LauncherType
        /\ \A p \in Pids : InPool(t, p) => p \in Owned(t)
        /\ \A k \in Kinds, a \in Apps : t.entries[k][a].pid # 0 => t.entries[k][a].pid \in Owned(t)
        /\ \A p \in Owned(t) : p \in Pids /\ phase'[p] # "reaped"
        /\ \A p \in Pids : p \notin Owned(t) => phase'[p] \in {"new", "reaped"}
    <2>1. PidFacts'
      BY PidsOwned, PTL
    <2> QED
      BY <2>1 DEF PidFacts, Pids
  <1>2. Addressed(t)
    BY <1>0, <1>1, MovesAddressed
  <1>3. \A p \in Pids : InPool(t, p) => phase'[p] \in {"new", "idle", "dead"}
    BY <1>0, <1>1 DEF Moves
  <1>4. ASSUME NEW k \in Kinds, NEW a \in Apps, NEW p \in Pids, t.entries[k][a].pid = p
        PROVE  \/ t.entries[k][a] = s.entries[k][a]
               \/ t.entries[k][a].state = "Starting" /\ phase[p] \in {"new", "idle", "dead"}
    <2>1. p # 0
      BY <1>0
    <2>2. t.entries[k][a] = s.entries[k][a] \/ Comes(s, t, k, a)
      BY <1>4, <2>1 DEF Moves
    <2>3. CASE Comes(s, t, k, a)
      <3>1. InPool(s, p) \/ p \notin DOMAIN s.spawned
        BY <1>4, <2>3 DEF Comes
      <3>2. t.entries[k][a].state = "Starting"
        BY <2>3 DEF Comes
      <3> QED
        BY <1>0, <3>1, <3>2
    <2> QED
      BY <2>2, <2>3
  <1>5. EntryNamed'
    <2> SUFFICES ASSUME NEW k \in Kinds, NEW a \in Apps, NEW p \in Pids,
                        t.entries[k][a].pid = p, Acts(phase'[p])
                 PROVE  name'[p] = a
      BY DEF EntryNamed, Pids
    <2>1. phase'[p] = phase[p] /\ phase[p] \notin {"new", "idle", "dead"}
      BY DEF Acts
    <2>2. s.entries[k][a].pid = p
      BY <1>4, <2>1
    <2> QED
      BY <1>0, <2>1, <2>2 DEF Reachable, EntryNamed
  <1>6. InboxFor'
    <2> SUFFICES ASSUME NEW p \in Pids, NEW i \in DOMAIN inbox'[p], inbox'[p][i] \in Apps
                 PROVE  \E k \in Kinds : t.entries[k][inbox'[p][i]].pid = p
      BY DEF InboxFor, Pids
    <2> DEFINE a == inbox'[p][i]
    <2>1. ASSUME NEW j \in DOMAIN inbox[p], inbox[p][j] = a
          PROVE  \E k \in Kinds : t.entries[k][a].pid = p
      <3>1. PICK k \in Kinds : s.entries[k][a].pid = p
        BY <1>0, <2>1 DEF Reachable, InboxFor
      <3>2. CASE p \in Owned(t)
        <4>1. s.entries[k][a].pid # 0 /\ s.entries[k][a].pid \in Owned(t)
          BY <1>0, <3>1, <3>2
        <4> QED
          BY <3>1, <4>1 DEF Moves
      <3>3. CASE p \notin Owned(t)
        <4>1. p \in DOMAIN s.spawned
          BY <1>0, <3>1 DEF Placed, Owned, InEntry
        <4>2. p \in Owned(s) /\ phase[p] # "reaped"
          BY <1>0, <3>1, PidsOwned DEF RInv, PidFacts
        <4>3. phase'[p] \in {"new", "reaped"}
          BY <1>1, <3>3
        <4>4. CASE phase'[p] = "reaped"
          <5>1. phase[p] = "dead"
            BY <4>2, <4>4
          <5>2. inbox[p] = <<>>
            BY <1>0, <5>1 DEF Reachable, GoneDeaf
          <5> QED
            BY <2>1, <5>2
        <4>5. CASE phase'[p] = "new"
          <5>1. Owns'
            <6>1. PidFacts'
              BY PidsOwned, PTL
            <6> QED
              BY <6>1 DEF PidFacts
          <5>2. p \in DOMAIN t.spawned
            BY <4>1 DEF Moves
          <5> QED
            BY <3>3, <4>5, <5>1, <5>2 DEF Owns, Started
        <4> QED
          BY <4>3, <4>4, <4>5
      <3> QED
        BY <3>2, <3>3
    <2> QED
      BY <2>1
  <1>7. GoneDeaf'
    <2> SUFFICES ASSUME NEW p \in Pids, phase'[p] \in {"dead", "reaped"} PROVE inbox'[p] = <<>>
      BY DEF GoneDeaf, Pids
    <2>1. phase[p] \in {"dead", "reaped"}
      OBVIOUS
    <2> QED
      BY <1>0, <2>1 DEF Reachable, GoneDeaf
  <1>8. Announced'
    <2> SUFFICES ASSUME NEW p \in Pids, Announces(wire'[p]) PROVE phase'[p] \notin {"new", "idle"}
      BY DEF Announced, Pids, Announces, available, Says
    <2> QED
      BY <1>0 DEF Reachable, Announced
  <1>9. EntryReady'
    <2> SUFFICES ASSUME NEW k \in Kinds, NEW a \in Apps, NEW p \in Pids, t.entries[k][a].pid = p
                 PROVE  /\ t.entries[k][a].state = "Running" => phase'[p] \notin {"new", "idle"}
                        /\ Acts(phase'[p]) => t.entries[k][a].state = "Running" \/ Announces(wire'[p])
      BY DEF EntryReady, Pids
    <2>1. CASE t.entries[k][a] = s.entries[k][a]
      <3>1. /\ s.entries[k][a].state = "Running" => phase[p] \notin {"new", "idle"}
            /\ Acts(phase[p]) => s.entries[k][a].state = "Running" \/ Announces(wire[p])
        BY <1>0, <2>1 DEF Reachable, EntryReady
      <3> QED
        BY <2>1, <3>1 DEF Acts
    <2>2. CASE t.entries[k][a].state = "Starting" /\ phase[p] \in {"new", "idle", "dead"}
      BY <2>2 DEF Acts
    <2> QED
      BY <1>4, <2>1, <2>2
  <1>10. PoolWaits'
    BY <1>3 DEF PoolWaits, Pids
  <1> QED
    BY <1>2, <1>5, <1>6, <1>7, <1>8, <1>9, <1>10 DEF RInv, Reachable

\* A process does something, and the server's tables stay
SameServer(s, t) ==
    t.entries = s.entries /\ t.pool = s.pool /\ t.spawned = s.spawned /\ t.out = s.out

LEMMA ProcessStepReady ==
    ASSUME RInv, OInv', SameServer(launcher, launcher'), NEW p \in Pids,
           \A q \in Pids \ {p} : /\ phase'[q] = phase[q] /\ name'[q] = name[q]
                                /\ inbox'[q] = inbox[q] /\ wire'[q] = wire[q],
           InPool(launcher, p) => phase'[p] \in {"new", "idle", "dead"},
           \A k \in Kinds, a \in Apps : launcher.entries[k][a].pid = p =>
               /\ Acts(phase'[p]) => name'[p] = a
               /\ launcher.entries[k][a].state = "Running" => phase'[p] \notin {"new", "idle"}
               /\ Acts(phase'[p]) => launcher.entries[k][a].state = "Running" \/ Announces(wire'[p]),
           \A i \in DOMAIN inbox'[p] : \E j \in DOMAIN inbox[p] : inbox'[p][i] = inbox[p][j],
           phase'[p] \in {"dead", "reaped"} => inbox'[p] = <<>>,
           Announces(wire'[p]) => phase'[p] \notin {"new", "idle"}
    PROVE  RInv'
  <1> DEFINE s == launcher
             t == launcher'
  <1>0. Addressed(s) /\ Reachable
    BY DEF RInv
  <1>1. SamePlaces(s, t) /\ t.out = s.out /\ t.entries = s.entries
    BY DEF SameServer, SamePlaces
  <1>2. Addressed(t)
    BY <1>0, <1>1, SameAddressed
  <1>3. \A q : InPool(t, q) <=> InPool(s, q)
    BY DEF SameServer, InPool
  <1>4. PoolWaits'
    BY <1>0, <1>3 DEF Reachable, PoolWaits, Pids
  <1>5. EntryNamed'
    <2> SUFFICES ASSUME NEW k \in Kinds, NEW a \in Apps, NEW q \in Pids,
                        s.entries[k][a].pid = q, Acts(phase'[q])
                 PROVE  name'[q] = a
      BY <1>1 DEF EntryNamed, Pids
    <2> QED
      BY <1>0 DEF Reachable, EntryNamed
  <1>6. InboxFor'
    <2> SUFFICES ASSUME NEW q \in Pids, NEW i \in DOMAIN inbox'[q], inbox'[q][i] \in Apps
                 PROVE  \E k \in Kinds : s.entries[k][inbox'[q][i]].pid = q
      BY <1>1 DEF InboxFor, Pids
    <2>1. PICK j \in DOMAIN inbox[q] : inbox'[q][i] = inbox[q][j]
      OBVIOUS
    <2> QED
      BY <1>0, <2>1 DEF Reachable, InboxFor
  <1>7. GoneDeaf'
    BY <1>0 DEF Reachable, GoneDeaf, Pids
  <1>8. Announced'
    <2> SUFFICES ASSUME NEW q \in Pids, Announces(wire'[q]) PROVE phase'[q] \notin {"new", "idle"}
      BY DEF Announced, Pids, Announces, available, Says
    <2> QED
      BY <1>0 DEF Reachable, Announced
  <1>9. EntryReady'
    <2> SUFFICES ASSUME NEW k \in Kinds, NEW a \in Apps, NEW q \in Pids, s.entries[k][a].pid = q
                 PROVE  /\ s.entries[k][a].state = "Running" => phase'[q] \notin {"new", "idle"}
                        /\ Acts(phase'[q]) => s.entries[k][a].state = "Running" \/ Announces(wire'[q])
      BY <1>1 DEF EntryReady, Pids
    <2> QED
      BY <1>0 DEF Reachable, EntryReady
  <1> QED
    BY <1>2, <1>4, <1>5, <1>6, <1>7, <1>8, <1>9 DEF RInv, Reachable

LEMMA TailElements ==
    ASSUME NEW S, NEW q \in Seq(S), q # <<>>
    PROVE  /\ \A i \in DOMAIN Tail(q) : i + 1 \in DOMAIN q /\ Tail(q)[i] = q[i + 1]
           /\ \A i \in DOMAIN q : i # 1 => i - 1 \in DOMAIN Tail(q) /\ Tail(q)[i - 1] = q[i]
           /\ 1 \in DOMAIN q /\ Head(q) = q[1]
  OBVIOUS

LEMMA TailHolds ==
    ASSUME NEW S, NEW q \in Seq(S), q # <<>>, NEW x
    PROVE  /\ (\E i \in DOMAIN Tail(q) : Tail(q)[i] = x) => \E i \in DOMAIN q : q[i] = x
           /\ Head(q) # x /\ (\E i \in DOMAIN q : q[i] = x) =>
                  \E i \in DOMAIN Tail(q) : Tail(q)[i] = x
  <1>1. /\ \A i \in DOMAIN Tail(q) : i + 1 \in DOMAIN q /\ Tail(q)[i] = q[i + 1]
        /\ \A i \in DOMAIN q : i # 1 => i - 1 \in DOMAIN Tail(q) /\ Tail(q)[i - 1] = q[i]
        /\ 1 \in DOMAIN q /\ Head(q) = q[1]
    OBVIOUS
  <1> QED
    BY <1>1

\* Reading a packet of a process that is not the announcement
LEMMA TailAnnounces ==
    ASSUME NEW q \in Seq(Packet), q # <<>>
    PROVE  /\ Announces(Tail(q)) => Announces(q)
           /\ Head(q) # available /\ Announces(q) => Announces(Tail(q))
  <1>1. \A x : /\ (\E i \in DOMAIN Tail(q) : Tail(q)[i] = x) => \E i \in DOMAIN q : q[i] = x
               /\ Head(q) # x /\ (\E i \in DOMAIN q : q[i] = x) =>
                      \E i \in DOMAIN Tail(q) : Tail(q)[i] = x
    BY TailHolds, Zenon
  <1> QED
    BY <1>1, Zenon DEF Announces

\* What a process adds to its wire
LEMMA ConcatAnnounces ==
    ASSUME NEW q \in Seq(Packet), NEW r \in Seq(Packet)
    PROVE  Announces(q \o r) <=> Announces(q) \/ Announces(r)
  <1> HIDE DEF Packet, available
  <1>1. /\ Len(q) \in Nat /\ Len(r) \in Nat /\ DOMAIN q = 1..Len(q) /\ DOMAIN r = 1..Len(r)
        /\ DOMAIN (q \o r) = 1..(Len(q) + Len(r))
        /\ \A j \in 1..(Len(q) + Len(r)) :
               (q \o r)[j] = IF j <= Len(q) THEN q[j] ELSE r[j - Len(q)]
    BY ConcatSeq
  <1> DEFINE m == Len(q)
             n == Len(r)
             w == q \o r
  <1>2. m \in Nat /\ n \in Nat
    BY <1>1
  <1>3. \A j \in 1..(m + n) : IF j <= m THEN w[j] = q[j] ELSE j - m \in 1..n /\ w[j] = r[j - m]
    BY <1>1
  <1>4. (\A j \in 1..m : j \in 1..(m + n) /\ w[j] = q[j])
        /\ (\A j \in 1..n : j + m \in 1..(m + n) /\ w[j + m] = r[j])
    <2>1. \A j \in 1..n : j + m \in 1..(m + n) /\ ~(j + m <= m) /\ (j + m) - m = j
      BY <1>2
    <2> QED
      BY <1>1, <1>2, <2>1
  <1>5. DOMAIN q = 1..m /\ DOMAIN r = 1..n /\ DOMAIN w = 1..(m + n)
    BY <1>1
  <1> HIDE DEF m, n, w
  <1>6. Announces(w) => Announces(q) \/ Announces(r)
    <2> SUFFICES ASSUME NEW j \in DOMAIN w, w[j] = available PROVE Announces(q) \/ Announces(r)
      BY DEF Announces
    <2>1. CASE j <= m
      <3>1. j \in DOMAIN q /\ q[j] = available
        BY <1>2, <1>3, <1>5, <2>1
      <3> QED
        BY <3>1 DEF Announces
    <2>2. CASE ~(j <= m)
      <3>1. j - m \in DOMAIN r /\ r[j - m] = available
        BY <1>2, <1>3, <1>5, <2>2
      <3> QED
        BY <3>1 DEF Announces
    <2> QED
      BY <2>1, <2>2
  <1>7. Announces(q) \/ Announces(r) => Announces(w)
    BY <1>4, <1>5 DEF Announces
  <1> QED
    BY <1>6, <1>7 DEF w

\* The server reads a packet
LEMMA ServerReadsReady ==
    ASSUME RInv, OInv', NEW p \in Pids, ServerReads(p)
    PROVE  RInv'
  <1> DEFINE s == launcher
             t == launcher'
             m == Head(wire[p])
  <1>0. PidFacts
    BY PidsOwned DEF RInv
  <1>a. s \in LauncherType /\ Placed(s) /\ p \in Nat \ {0} /\ Addressed(s) /\ Reachable
    BY <1>0 DEF PidFacts, RInv
  <1>1. /\ wire[p] \in Seq(Packet) /\ wire[p] # <<>> /\ wire'[p] = Tail(wire[p])
        /\ \A q \in Pids \ {p} : wire'[q] = wire[q]
    BY <1>0 DEF PidFacts, ProcessType, ServerReads
  <1>2. UNCHANGED <<phase, name, inbox>>
    BY DEF ServerReads, processes
  <1>3. /\ Announces(wire'[p]) => Announces(wire[p])
        /\ m # available /\ Announces(wire[p]) => Announces(wire'[p])
    BY <1>1, TailAnnounces
  <1>4. CASE m = available
    <2>1. m.what = "available" /\ m # Says("QPE/QuickLauncher", "available")
      BY <1>4 DEF available, Says
    <2>2. t = Available(s, name[p], p)
      BY <2>1 DEF ServerReads
    <2>3. /\ SamePlaces(s, t) /\ t.out = s.out
          /\ \A k \in Kinds, a \in Apps :
                IF a = name[p] /\ s.entries[k][a].pid = p
                THEN t.entries[k][a].state = "Running"
                ELSE t.entries[k][a] = s.entries[k][a]
      BY <1>a, <2>2, AvailablePlaces
    <2>4. /\ \A q : InPool(t, q) <=> InPool(s, q)
          /\ \A k \in Kinds, a \in Apps : t.entries[k][a].pid = s.entries[k][a].pid
      BY <2>3 DEF SamePlaces, InPool
    <2>5. Addressed(t)
      BY <1>a, <2>3, SameAddressed
    <2>6. PoolWaits' /\ EntryNamed' /\ InboxFor' /\ GoneDeaf'
      BY <1>a, <1>2, <2>4 DEF Reachable, PoolWaits, EntryNamed, InboxFor, GoneDeaf, Pids
    <2>7. \A q \in Pids : Announces(wire'[q]) => Announces(wire[q])
      BY <1>1, <1>3
    <2>8. Announced'
      <3> SUFFICES ASSUME NEW q \in Pids, Announces(wire'[q]) PROVE phase'[q] \notin {"new", "idle"}
        BY DEF Announced, Pids, Announces, available, Says
      <3> QED
        BY <1>a, <1>2, <2>7 DEF Reachable, Announced
    <2>9. phase[p] \notin {"new", "idle"}
      <3>1. Announces(wire[p])
        <4> HIDE DEF m
        <4>1. 1 \in DOMAIN wire[p] /\ wire[p][1] = m
          BY <1>1, TailElements DEF m
        <4> QED
          BY <1>4, <4>1 DEF Announces
      <3> QED
        BY <1>a, <3>1 DEF Reachable, Announced
    <2>10. EntryReady'
      <3> SUFFICES ASSUME NEW k \in Kinds, NEW a \in Apps, NEW q \in Pids, t.entries[k][a].pid = q
                   PROVE  /\ t.entries[k][a].state = "Running" => phase[q] \notin {"new", "idle"}
                          /\ Acts(phase[q]) => t.entries[k][a].state = "Running" \/ Announces(wire'[q])
        BY <1>2 DEF EntryReady, Pids
      <3>1. s.entries[k][a].pid = q
        BY <2>4
      <3>2. CASE q # p
        BY <1>a, <1>1, <2>3, <3>1, <3>2 DEF Reachable, EntryReady
      <3>3. CASE q = p /\ name[p] = a
        BY <2>3, <2>9, <3>1, <3>3
      <3>4. CASE q = p /\ name[p] # a
        <4>1. ~Acts(phase[p])
          BY <1>a, <3>1, <3>4 DEF Reachable, EntryNamed
        <4> QED
          BY <2>9, <3>4, <4>1
      <3> QED
        BY <3>2, <3>3, <3>4
    <2> QED
      BY <2>5, <2>6, <2>8, <2>10 DEF RInv, Reachable
  <1>5. CASE m # available
    <2>1. t = s \/ t = PoolAvailable(s, p)
      BY <1>5 DEF ServerReads, available
    <2>2. SamePlaces(s, t) /\ t.entries = s.entries /\ t.out = s.out
      <3>1. CASE t = s
        BY <3>1 DEF SamePlaces
      <3>2. CASE t = PoolAvailable(s, p)
        BY <1>a, <3>2, PoolAvailablePlaces
      <3> QED
        BY <2>1, <3>1, <3>2
    <2>3. Moves(s, t)
      BY <2>2, SameMoves
    <2>4. \A q \in Pids : Announces(wire'[q]) <=> Announces(wire[q])
      BY <1>1, <1>3, <1>5
    <2> QED
      BY <1>2, <2>3, <2>4, ServerStepReady
  <1> QED
    BY <1>4, <1>5

\* A step of the server that delivers nothing to a process
LEMMA QuietServerReady ==
    ASSUME RInv, OInv', Moves(launcher, launcher'), UNCHANGED <<name, wire, inbox>>,
           \A q \in Pids : phase'[q] = phase[q] \/ (phase[q] = "dead" /\ phase'[q] = "reaped")
    PROVE  RInv'
  <1>1. \A q \in Pids : Announces(wire'[q]) <=> Announces(wire[q])
    OBVIOUS
  <1>2. \A q \in Pids : \A i \in DOMAIN inbox'[q] : \E j \in DOMAIN inbox[q] :
            inbox[q][j] = inbox'[q][i]
    OBVIOUS
  <1> QED
    BY <1>1, <1>2, ServerStepReady

LEMMA RouteMoves ==
    ASSUME RInv, NEW app \in Apps, Route(app)
    PROVE  Moves(launcher, launcher')
  <1> DEFINE msg == Len(sent) + 1
  <1>1. Good(launcher) /\ Placed(launcher) /\ sent \in Seq(Apps)
    BY PidsOwned DEF RInv, PidFacts, OInv, IInv
  <1>2. msg \in 1..MaxMessages /\ launcher' = RouteMessage(launcher, app, msg)
    BY <1>1, LauncherBounds DEF Route
  <1> HIDE DEF msg
  <1>3. Placed(launcher') /\ (Keeps(launcher, launcher') \/ Starts(launcher, launcher', app))
    BY <1>1, <1>2, RouteMessagePlaced
  <1>4. Routed(launcher, launcher', app, msg)
    BY <1>1, <1>2, RouteMessageDoes
  <1> QED
    BY <1>1, <1>2, <1>3, <1>4, RoutedMoves

LEMMA RouteReady ==
    ASSUME RInv, OInv', NEW app \in Apps, Route(app)
    PROVE  RInv'
  <1>1. UNCHANGED <<phase, name, wire, inbox>>
    BY DEF Route, processes, qcop
  <1> QED
    BY <1>1, RouteMoves, QuietServerReady

LEMMA ReapMoves ==
    ASSUME RInv, NEW p \in Pids, Reap(p)
    PROVE  /\ Moves(launcher, launcher')
           /\ \A q \in Pids : phase'[q] = phase[q] \/ (phase[q] = "dead" /\ phase'[q] = "reaped")
  <1>0. PidFacts
    BY PidsOwned DEF RInv
  <1>1. Good(launcher) /\ Placed(launcher) /\ launcher \in LauncherType /\ p # 0
    BY <1>0 DEF PidFacts
  <1>2. ASSUME \E i \in DOMAIN launcher.pool : launcher.pool[i].pid = p,
               launcher' = PoolExited(launcher, p)
        PROVE  Moves(launcher, launcher')
    BY <1>1, <1>2, PoolExitedMoves
  <1>3. ASSUME NEW k \in Kinds, NEW app \in Apps, launcher.entries[k][app].pid = p,
               launcher' = AppGone(launcher, k, app)
        PROVE  Moves(launcher, launcher')
    BY <1>1, <1>3, AppGoneMoves
  <1>4. Moves(launcher, launcher')
    BY <1>2, <1>3 DEF Reap
  <1>5. \A q \in Pids : phase'[q] = phase[q] \/ (phase[q] = "dead" /\ phase'[q] = "reaped")
    BY <1>0 DEF Reap, PidFacts, ProcessType
  <1> QED
    BY <1>4, <1>5

LEMMA ReapReady ==
    ASSUME RInv, OInv', NEW p \in Pids, Reap(p)
    PROVE  RInv'
  <1>1. UNCHANGED <<name, wire, inbox>>
    BY DEF Reap, qcop
  <1> QED
    BY <1>1, ReapMoves, QuietServerReady

LEMMA DispatchMoves ==
    ASSUME RInv, Dispatch
    PROVE  Moves(launcher, launcher')
  <1> DEFINE s == launcher
             t == launcher'
  <1>0. PidFacts
    BY PidsOwned DEF RInv
  <1>1. s \in LauncherType /\ s.out \in Seq(Sent) /\ s.out # <<>>
    BY <1>0, Parts DEF PidFacts, Dispatch
  <1>2. \A i \in DOMAIN Tail(s.out) : i + 1 \in DOMAIN s.out /\ Tail(s.out)[i] = s.out[i + 1]
    <2> HIDE DEF Sent
    <2> QED
      BY <1>1, TailElements
  <1>3. t.out = Tail(s.out) /\ t.entries = s.entries /\ t.pool = s.pool /\ t.spawned = s.spawned
    BY <1>1 DEF Dispatch, LauncherType
  <1>4. SamePlaces(s, t)
    BY <1>3 DEF SamePlaces
  <1>5. \A i \in DOMAIN t.out : \E j \in DOMAIN s.out : t.out[i] = s.out[j]
    BY <1>2, <1>3
  <1> QED
    BY <1>3, <1>4, <1>5, SameMoves

LEMMA DispatchReady ==
    ASSUME RInv, OInv', Dispatch
    PROVE  RInv'
  <1> DEFINE s == launcher
             t == launcher'
             m == Head(s.out)
             known == <<m.to, m.channel>> \in channels /\ Alive(m.to)
  <1>0. PidFacts
    BY PidsOwned DEF RInv
  <1>1. s \in LauncherType /\ s.out \in Seq(Sent) /\ s.out # <<>> /\ Addressed(s)
    BY <1>0, Parts DEF PidFacts, RInv, Dispatch
  <1>2. /\ \A i \in DOMAIN Tail(s.out) : i + 1 \in DOMAIN s.out /\ Tail(s.out)[i] = s.out[i + 1]
        /\ 1 \in DOMAIN s.out /\ m = s.out[1]
    <2> HIDE DEF Sent
    <2> QED
      BY <1>1, TailElements
  <1>3. t.out = Tail(s.out) /\ t.entries = s.entries /\ t.pool = s.pool /\ t.spawned = s.spawned
    BY <1>1 DEF Dispatch, LauncherType
  <1>4. inbox' = IF known THEN [inbox EXCEPT ![m.to] = Append(@, m.what)] ELSE inbox
    BY DEF Dispatch
  <1>5. UNCHANGED <<phase, name, wire>>
    BY DEF Dispatch, qcop
  <1> HIDE DEF m
  <1>6. Moves(s, t)
    BY DispatchMoves
  <1>7. known => m.to \in Pids /\ m.to \in Owned(s) /\ phase[m.to] \notin {"dead", "reaped"}
    BY <1>0 DEF Alive, PidFacts, Owns
  <1>8. known /\ m.what \in Apps => \E k \in Kinds : s.entries[k][m.what].pid = m.to
    BY <1>1, <1>2, <1>7 DEF Addressed
  <1>9. \A q \in Pids : inbox[q] \in Seq(Apps \cup {"QPEProcessQCop"})
    BY <1>0 DEF PidFacts, ProcessType
  <1> HIDE DEF known
  <1>10. \A q \in Pids : phase[q] \in {"dead", "reaped"} => inbox'[q] = inbox[q]
    BY <1>4, <1>7
  <1>11. ASSUME NEW q \in Pids, NEW i \in DOMAIN inbox'[q], inbox'[q][i] \in Apps
         PROVE  \/ \E j \in DOMAIN inbox[q] : inbox[q][j] = inbox'[q][i]
                \/ \E k \in Kinds : t.entries[k][inbox'[q][i]].pid = q
    <2>1. CASE known /\ q = m.to
      <3>1. inbox'[q] = Append(inbox[q], m.what)
        BY <1>0, <1>4, <2>1 DEF PidFacts, ProcessType
      <3>2. inbox'[q][i] = m.what \/ \E j \in DOMAIN inbox[q] : inbox'[q][i] = inbox[q][j]
        BY <1>9, <3>1, AppendedOne
      <3> QED
        BY <1>3, <1>8, <1>11, <2>1, <3>2
    <2>2. CASE ~(known /\ q = m.to)
      BY <1>4, <2>2
    <2> QED
      BY <2>1, <2>2
  <1> QED
    BY <1>5, <1>6, <1>10, <1>11, ServerStepReady

\* What an application says as it starts, and a quicklauncher as it starts
LEMMA ToldAnnounces ==
    /\ Told \in Seq(Packet) /\ Announces(Told)
    /\ <<Says("pid", "register"), Says("quick", "register"),
         Says("QPE/QuickLauncher", "available")>> \in Seq(Packet)
    /\ ~Announces(<<Says("pid", "register"), Says("quick", "register"),
                    Says("QPE/QuickLauncher", "available")>>)
    /\ <<Says("", "disconnected")>> \in Seq(Packet)
    /\ ~Announces(<<Says("", "disconnected")>>)
  <1> DEFINE a == Says("pid", "register")
             b == Says("quick", "register")
             c == Says("QPE/QuickLauncher", "available")
             d == Says("", "disconnected")
  <1>1. a \in Packet /\ b \in Packet /\ c \in Packet /\ d \in Packet /\ available \in Packet
    BY Packets DEF available
  <1>2. a # available /\ b # available /\ c # available /\ d # available
    BY DEF Says, available
  <1>3. Told = <<a, available>>
    BY DEF Told, available
  <1> HIDE DEF a, b, c, d, available, Packet
  <1>4. <<a, available>> \in Seq(Packet) /\ <<a, b, c>> \in Seq(Packet) /\ <<d>> \in Seq(Packet)
    BY <1>1
  <1>5. /\ 2 \in DOMAIN <<a, available>> /\ <<a, available>>[2] = available
        /\ \A i \in DOMAIN <<a, b, c>> : <<a, b, c>>[i] \in {a, b, c}
        /\ \A i \in DOMAIN <<d>> : <<d>>[i] = d
    OBVIOUS
  <1>6. Announces(<<a, available>>) /\ ~Announces(<<a, b, c>>) /\ ~Announces(<<d>>)
    BY <1>2, <1>5 DEF Announces
  <1> QED
    BY <1>3, <1>4, <1>6 DEF a, b, c, d

\* initApp() of a process that is in no place of the pool
LEMMA InitAppReady ==
    ASSUME RInv, OInv', NEW p \in Pids, NEW app \in Apps, NEW before \in Seq(Packet),
           InitApp(p, app, before), launcher' = launcher, ~InPool(launcher, p),
           \A k \in Kinds, a \in Apps : launcher.entries[k][a].pid = p => a = app,
           \A q \in Pids \ {p} : inbox'[q] = inbox[q],
           \A i \in DOMAIN inbox'[p] : \E j \in DOMAIN inbox[p] : inbox'[p][i] = inbox[p][j]
    PROVE  RInv'
  <1>0. PidFacts
    BY PidsOwned DEF RInv
  <1>1. /\ phase'[p] = "init" /\ name'[p] = app /\ wire'[p] = wire[p] \o before \o Told
        /\ \A q \in Pids \ {p} : phase'[q] = phase[q] /\ name'[q] = name[q] /\ wire'[q] = wire[q]
    BY <1>0 DEF InitApp, Told, PidFacts, ProcessType
  <1>2. wire[p] \in Seq(Packet)
    BY <1>0 DEF PidFacts, ProcessType
  <1>3. Announces(wire'[p])
    <2> DEFINE w == wire[p] \o before
    <2>1. w \in Seq(Packet)
      BY <1>2, ConcatType
    <2>2. wire'[p] = w \o Told
      BY <1>1
    <2>3. Told \in Seq(Packet) /\ Announces(Told)
      BY ToldAnnounces
    <2> HIDE DEF w
    <2>4. Announces(w \o Told)
      BY <2>1, <2>3, ConcatAnnounces
    <2> QED
      BY <2>2, <2>4
  <1>4. SameServer(launcher, launcher')
    BY DEF SameServer
  <1> QED
    BY <1>1, <1>3, <1>4, ProcessStepReady

LEMMA BootReady ==
    ASSUME RInv, OInv', NEW p \in Pids, Boot(p)
    PROVE  RInv'
  <1> DEFINE app == launcher.spawned[p]
  <1>0. p \in Nat \ {0} /\ Addressed(launcher)
    BY PidsOwned DEF RInv, PidFacts
  <1>1. app \in Apps /\ app # "quicklauncher"
    BY AppsAssumption DEF Boot
  <1>2. ~InPool(launcher, p)
    BY <1>0, <1>1 DEF Addressed
  <1>3. \A k \in Kinds, a \in Apps : launcher.entries[k][a].pid = p => a = app
    BY <1>0, <1>1 DEF Addressed
  <1>4. <<>> \in Seq(Packet)
    OBVIOUS
  <1>5. InitApp(p, app, <<>>) /\ launcher' = launcher /\ inbox' = inbox
    BY DEF Boot
  <1> HIDE DEF app
  <1> QED
    BY <1>1, <1>2, <1>3, <1>4, <1>5, InitAppReady

LEMMA BootQuickReady ==
    ASSUME RInv, OInv', NEW p \in Pids, BootQuick(p)
    PROVE  RInv'
  <1> DEFINE said == <<Says("pid", "register"), Says("quick", "register"),
                       Says("QPE/QuickLauncher", "available")>>
  <1>0. PidFacts /\ Reachable
    BY PidsOwned DEF RInv
  <1>1. /\ phase'[p] = "idle" /\ phase[p] = "new" /\ UNCHANGED <<launcher, name, inbox>>
        /\ wire'[p] = wire[p] \o said
        /\ \A q \in Pids \ {p} : phase'[q] = phase[q] /\ wire'[q] = wire[q]
    BY <1>0 DEF BootQuick, PidFacts, ProcessType
  <1>2. wire[p] \in Seq(Packet)
    BY <1>0 DEF PidFacts, ProcessType
  <1>3. said \in Seq(Packet) /\ ~Announces(said)
    BY ToldAnnounces
  <1> HIDE DEF said
  <1>4. ~Announces(wire'[p])
    BY <1>0, <1>1, <1>2, <1>3, ConcatAnnounces DEF Reachable, Announced
  <1>5. SameServer(launcher, launcher')
    BY <1>1 DEF SameServer
  <1>6. \A k \in Kinds, a \in Apps : launcher.entries[k][a].pid = p =>
            launcher.entries[k][a].state # "Running"
    <2>1. EntryReady /\ phase[p] = "new"
      BY <1>0, <1>1 DEF Reachable
    <2> QED
      BY <2>1 DEF EntryReady
  <1>7. ~Acts(phase'[p]) /\ phase'[p] \in {"new", "idle", "dead"}
        /\ phase'[p] \notin {"dead", "reaped"}
    BY <1>1 DEF Acts
  <1>8. /\ \A q \in Pids \ {p} : /\ phase'[q] = phase[q] /\ name'[q] = name[q]
                                /\ inbox'[q] = inbox[q] /\ wire'[q] = wire[q]
        /\ \A i \in DOMAIN inbox'[p] : \E j \in DOMAIN inbox[p] : inbox'[p][i] = inbox[p][j]
    BY <1>1
  <1> QED
    BY <1>4, <1>5, <1>6, <1>7, <1>8, ProcessStepReady

LEMMA IdleReady ==
    ASSUME RInv, OInv', NEW p \in Pids, IdleReads(p)
    PROVE  RInv'
  <1> DEFINE s == launcher
             m == Head(inbox[p])
             before == <<Says("quick", "detach"), Says("pid", "detach")>>
  <1>0. PidFacts /\ Reachable
    BY PidsOwned DEF RInv
  <1>1. /\ inbox[p] \in Seq(Apps \cup {"QPEProcessQCop"}) /\ inbox[p] # <<>>
        /\ inbox'[p] = Tail(inbox[p]) /\ \A q \in Pids \ {p} : inbox'[q] = inbox[q]
        /\ phase[p] = "idle" /\ launcher' = launcher
    BY <1>0 DEF PidFacts, ProcessType, IdleReads
  <1>2. /\ \A i \in DOMAIN inbox'[p] : \E j \in DOMAIN inbox[p] : inbox'[p][i] = inbox[p][j]
        /\ 1 \in DOMAIN inbox[p] /\ m = inbox[p][1]
    BY <1>1, TailElements
  <1>3. CASE UNCHANGED <<phase, name, wire>>
    <2>1. SameServer(launcher, launcher')
      BY <1>1 DEF SameServer
    <2>2. ~Acts(phase'[p]) /\ phase'[p] = "idle" /\ wire'[p] = wire[p]
      BY <1>1, <1>3 DEF Acts
    <2>3. \A k \in Kinds, a \in Apps : s.entries[k][a].pid = p =>
              s.entries[k][a].state # "Running"
      BY <1>0, <1>1 DEF Reachable, EntryReady
    <2>4. ~Announces(wire'[p])
      BY <1>0, <1>1, <2>2 DEF Reachable, Announced
    <2>5. UNCHANGED <<phase, name, wire>>
      BY <1>3
    <2> QED
      BY <1>1, <1>2, <2>1, <2>2, <2>3, <2>4, <2>5, ProcessStepReady
  <1>4. CASE m \in Apps /\ InitApp(p, m, before)
    <2>1. PICK k \in Kinds : s.entries[k][m].pid = p
      BY <1>0, <1>2, <1>4 DEF Reachable, InboxFor
    <2>2. p # 0 /\ Placed(s)
      BY <1>0 DEF PidFacts
    <2>3. ~InPool(s, p)
      BY <1>4, <2>1, <2>2 DEF Placed, InPool
    <2>4. \A l \in Kinds, a \in Apps : s.entries[l][a].pid = p => a = m
      BY <1>4, <2>1, <2>2 DEF Placed
    <2>5. before \in Seq(Packet)
      <3> DEFINE c == Says("quick", "detach")
                 d == Says("pid", "detach")
      <3>1. c \in Packet /\ d \in Packet
        BY Packets
      <3> HIDE DEF c, d
      <3>2. <<c, d>> \in Seq(Packet)
        BY <3>1
      <3> QED
        BY <3>2 DEF c, d
    <2> HIDE DEF m, before
    <2> QED
      BY <1>1, <1>2, <1>4, <2>3, <2>4, <2>5, InitAppReady
  <1> QED
    BY <1>3, <1>4 DEF IdleReads

\* What a process does that keeps its name, its messages or their order and
\* what it has said, and goes from one phase of an application to another
LEMMA ActsOnReady ==
    ASSUME RInv, OInv', NEW p \in Pids, SameServer(launcher, launcher'),
           UNCHANGED <<name, wire>>, Acts(phase[p]), Acts(phase'[p]),
           \A q \in Pids \ {p} : phase'[q] = phase[q] /\ inbox'[q] = inbox[q],
           \A i \in DOMAIN inbox'[p] : \E j \in DOMAIN inbox[p] : inbox'[p][i] = inbox[p][j]
    PROVE  RInv'
  <1>0. Reachable
    BY DEF RInv
  <1>1. ~InPool(launcher, p)
    BY <1>0 DEF Reachable, PoolWaits, Acts
  <1>2. phase'[p] \notin {"new", "idle", "dead", "reaped"}
    BY DEF Acts
  <1>3. \A k \in Kinds, a \in Apps : launcher.entries[k][a].pid = p =>
            /\ name'[p] = a
            /\ launcher.entries[k][a].state = "Running" \/ Announces(wire'[p])
    BY <1>0 DEF Reachable, EntryNamed, EntryReady
  <1> QED
    BY <1>1, <1>2, <1>3, ProcessStepReady

LEMMA ReadFileReady ==
    ASSUME RInv, OInv', NEW p \in Pids, ReadFile(p) \/ Exec(p) \/ DotpidMessage(p)
    PROVE  RInv'
  <1>0. PidFacts /\ launcher \in LauncherType
    BY PidsOwned DEF RInv, PidFacts
  <1>1. SameServer(launcher, launcher')
    BY <1>0 DEF SameServer, LauncherType, ReadFile, Exec, DotpidMessage, ProcessQCopFile
  <1>2. UNCHANGED <<name, wire>>
    BY DEF ReadFile, Exec, DotpidMessage, qcop
  <1>3. /\ Acts(phase[p]) /\ Acts(phase'[p])
        /\ \A q \in Pids \ {p} : phase'[q] = phase[q] /\ inbox'[q] = inbox[q]
    BY <1>0 DEF ReadFile, Exec, DotpidMessage, Acts, PidFacts, ProcessType
  <1>4. \A i \in DOMAIN inbox'[p] : \E j \in DOMAIN inbox[p] : inbox'[p][i] = inbox[p][j]
    <2>1. CASE inbox' = inbox
      BY <2>1
    <2>2. CASE inbox[p] # <<>> /\ inbox' = [inbox EXCEPT ![p] = Tail(@)]
      <3>1. inbox[p] \in Seq(Apps \cup {"QPEProcessQCop"}) /\ inbox'[p] = Tail(inbox[p])
        BY <1>0, <2>2 DEF PidFacts, ProcessType
      <3> QED
        BY <2>2, <3>1, TailElements
    <2> QED
      BY <2>1, <2>2 DEF ReadFile, Exec, DotpidMessage
  <1> QED
    BY <1>1, <1>2, <1>3, <1>4, ActsOnReady

LEMMA EndsReady ==
    ASSUME RInv, OInv', NEW p \in Pids, Ends(p), SameServer(launcher, launcher'), name' = name
    PROVE  RInv'
  <1> DEFINE x == Says("", "disconnected")
  <1>0. PidFacts
    BY PidsOwned DEF RInv
  <1>1. /\ phase'[p] = "dead" /\ inbox'[p] = <<>>
        /\ wire'[p] = Append(wire[p], x) /\ wire[p] \in Seq(Packet)
        /\ \A q \in Pids \ {p} : phase'[q] = phase[q] /\ wire'[q] = wire[q] /\ inbox'[q] = inbox[q]
    BY <1>0 DEF Ends, PidFacts, ProcessType
  <1>2. \A i \in DOMAIN inbox'[p] : \E j \in DOMAIN inbox[p] : inbox'[p][i] = inbox[p][j]
    <2>1. DOMAIN <<>> = {}
      OBVIOUS
    <2> QED
      BY <1>1, <2>1
  <1> QED
    BY <1>1, <1>2, ProcessStepReady DEF Acts

LEMMA DeathReady ==
    ASSUME RInv, OInv', (\E p \in Pids : Dies(p)) \/ (\E app \in Apps : KillApp(app))
    PROVE  RInv'
  <1>0. PidFacts /\ Started \subseteq Pids
    BY PidsOwned DEF RInv, PidFacts
  <1>1. ASSUME NEW p \in Pids, Dies(p) PROVE RInv'
    BY <1>1, EndsReady DEF Dies, SameServer
  <1>2. ASSUME NEW app \in Apps, KillApp(app) PROVE RInv'
    <2> DEFINE pid == KilledPid(launcher, app)
    <2>1. SameServer(launcher, launcher') /\ name' = name
      BY <1>0, <1>2 DEF KillApp, Kill, SameServer, PidFacts, LauncherType
    <2>2. CASE pid # 0 /\ Alive(pid)
      <3>1. Ends(pid) /\ pid \in Pids
        BY <1>0, <1>2, <2>2 DEF KillApp, Alive
      <3> HIDE DEF pid
      <3> QED
        BY <2>1, <3>1, EndsReady
    <2>3. CASE ~(pid # 0 /\ Alive(pid))
      <3>1. UNCHANGED <<phase, name, wire, inbox>>
        BY <1>2, <2>3 DEF KillApp
      <3>2. SamePlaces(launcher, launcher') /\ launcher'.entries = launcher.entries
            /\ launcher'.out = launcher.out
        BY <2>1 DEF SameServer, SamePlaces
      <3>3. Moves(launcher, launcher')
        BY <3>2, SameMoves
      <3> QED
        BY <3>1, <3>3, QuietServerReady
    <2> QED
      BY <2>2, <2>3
  <1> QED
    BY <1>1, <1>2

LEMMA InitReady == Init => RInv
  <1> SUFFICES ASSUME Init PROVE RInv
    OBVIOUS
  <1>1. /\ launcher.pool = <<>> /\ launcher.out = <<>>
        /\ \A k \in Kinds, a \in Apps : /\ launcher.entries[k][a].pid = 0
                                      /\ launcher.entries[k][a].state = "NotRunning"
    BY DEF Init, LauncherInit, NoEntry
  <1>2. Addressed(launcher) /\ \A p : ~InPool(launcher, p)
    BY <1>1 DEF Addressed, InPool
  <1>3. \A p \in Pids : phase[p] = "new" /\ inbox[p] = <<>> /\ wire[p] = <<>>
    BY DEF Init
  <1>4. Reachable
    BY <1>1, <1>2, <1>3 DEF Reachable, PoolWaits, EntryNamed, InboxFor, GoneDeaf, Announced,
                            EntryReady, Acts, Announces
  <1> QED
    BY <1>2, <1>4, InitOwned DEF RInv

LEMMA StepReady == RInv /\ OInv' /\ [Next]_vars => RInv'
  <1> SUFFICES ASSUME RInv, OInv', [Next]_vars PROVE RInv'
    OBVIOUS
  <1>1. CASE RespawnShot
    <2>1. Moves(launcher, launcher')
      BY <1>1, PidsOwned, StartNewMoves DEF RespawnShot, RInv, PidFacts
    <2>2. UNCHANGED <<phase, name, wire, inbox>>
      BY <1>1 DEF RespawnShot, processes, qcop
    <2> QED
      BY <2>1, <2>2, QuietServerReady
  <1>2. CASE UNCHANGED vars
    <2>1. UNCHANGED <<launcher, phase, name, wire, inbox>>
      BY <1>2 DEF vars, processes, qcop
    <2>2. Moves(launcher, launcher')
      BY <2>1, SameMoves DEF SamePlaces
    <2> QED
      BY <2>1, <2>2, QuietServerReady
  <1> QED
    BY <1>1, <1>2, RouteReady, ServerReadsReady, DispatchReady, ReapReady, BootReady,
       BootQuickReady, IdleReady, ReadFileReady, DeathReady DEF Next, Progress

-----------------------------------------------------------------------------
\* The channel of what is shown as running

\* A process that has become an application has told so, last of all, after it
\* registered its channel; when the announcement is the next packet to be read,
\* the server has the channel
Joining(w) ==
    /\ Len(w) >= 2
    /\ w[Len(w)] = available /\ w[Len(w) - 1] = Says("pid", "register")
    /\ \A i \in 1..(Len(w) - 1) : w[i] # available
HasChannel(p) == <<p, "pid">> \in channels /\ wire[p] \in {<<available>>, <<>>}

Registered == \A p \in Pids : Acts(phase[p]) => Joining(wire[p]) \/ HasChannel(p)
RunningQuiet ==
    \A k \in Kinds, a \in Apps : \A p \in Pids :
        /\ launcher.entries[k][a].pid = p
        /\ launcher.entries[k][a].state = "Running"
        /\ Acts(phase[p])
        => wire[p] = <<>>
Connected == Registered /\ RunningQuiet

\* A step of the server that reads nothing
LEMMA QuietConnected ==
    ASSUME RInv, Connected, Moves(launcher, launcher'), UNCHANGED <<wire, channels>>,
           \A q \in Pids : phase'[q] = phase[q] \/ (phase[q] = "dead" /\ phase'[q] = "reaped")
    PROVE  Connected'
  <1>0. /\ Reachable /\ \A p \in Pids : p # 0
        /\ \A p \in Pids : InPool(launcher, p) => phase[p] \in {"new", "idle", "dead"}
        /\ \A p \in Pids : p \notin DOMAIN launcher.spawned => phase[p] = "new"
    BY PidsOwned DEF RInv, PidFacts, Reachable, PoolWaits
  <1>1. \A q \in Pids : Acts(phase'[q]) => Acts(phase[q]) /\ phase'[q] = phase[q]
    BY DEF Acts
  <1>2. Registered'
    BY <1>1 DEF Connected, Registered, HasChannel, Pids
  <1>3. RunningQuiet'
    <2> SUFFICES ASSUME NEW k \in Kinds, NEW a \in Apps, NEW p \in Pids,
                        launcher'.entries[k][a].pid = p,
                        launcher'.entries[k][a].state = "Running", Acts(phase'[p])
                 PROVE  wire'[p] = <<>>
      BY DEF RunningQuiet, Pids
    <2>1. launcher'.entries[k][a] = launcher.entries[k][a]
          \/ Comes(launcher, launcher', k, a)
      BY <1>0 DEF Moves
    <2>2. launcher'.entries[k][a] = launcher.entries[k][a]
      BY <2>1 DEF Comes
    <2> QED
      BY <1>1, <2>2 DEF Connected, RunningQuiet
  <1> QED
    BY <1>2, <1>3 DEF Connected

\* A step of a process that says nothing new while it acts
LEMMA ActsOnConnected ==
    ASSUME RInv, Connected, SameServer(launcher, launcher'), UNCHANGED channels,
           NEW p \in Pids, Acts(phase'[p]) => Acts(phase[p]) /\ wire'[p] = wire[p],
           \A q \in Pids \ {p} : phase'[q] = phase[q] /\ wire'[q] = wire[q]
    PROVE  Connected'
  <1>1. \A q \in Pids : Acts(phase'[q]) => Acts(phase[q]) /\ wire'[q] = wire[q]
    OBVIOUS
  <1>2. Registered'
    BY <1>1 DEF Connected, Registered, HasChannel, Pids
  <1>3. launcher'.entries = launcher.entries
    BY DEF SameServer
  <1>4. RunningQuiet'
    BY <1>1, <1>3 DEF Connected, RunningQuiet, Pids
  <1> QED
    BY <1>2, <1>4 DEF Connected

LEMMA OneLong ==
    ASSUME NEW S, NEW q \in Seq(S), Len(q) = 1
    PROVE  q = <<q[1]>>
  OBVIOUS

\* What the wire of a process that joins becomes as it is read
LEMMA JoiningTail ==
    ASSUME NEW w \in Seq(Packet), Joining(w)
    PROVE  /\ w # <<>> /\ Head(w) # available
           /\ \/ Joining(Tail(w))
              \/ Head(w) = Says("pid", "register") /\ Tail(w) = <<available>>
  <1> HIDE DEF Packet, available
  <1>0. Len(w) \in Nat /\ Len(w) >= 2 /\ w # <<>>
    BY DEF Joining
  <1>1. /\ Tail(w) \in Seq(Packet) /\ Len(Tail(w)) = Len(w) - 1 /\ Head(w) = w[1]
        /\ \A i \in 1..(Len(w) - 1) : Tail(w)[i] = w[i + 1]
    BY <1>0
  <1>2. Head(w) # available
    BY <1>0, <1>1 DEF Joining
  <1>3. CASE Len(w) = 2
    <2>1. w[2] = available /\ w[1] = Says("pid", "register")
      BY <1>3 DEF Joining
    <2>2. Len(Tail(w)) = 1 /\ Tail(w)[1] = available
      BY <1>1, <1>3, <2>1
    <2>3. Tail(w) = <<available>>
      BY <1>1, <2>2, OneLong
    <2> QED
      BY <1>0, <1>1, <1>2, <2>1, <2>3
  <1>4. CASE Len(w) # 2
    <2> DEFINE n == Len(w)
               v == Tail(w)
    <2>1. n \in Nat /\ n >= 3
      <3>1. \A k \in Nat : k >= 2 /\ k # 2 => k >= 3
        OBVIOUS
      <3> QED
        BY <1>0, <1>4, <3>1, Zenon DEF n
    <2>2. /\ w[n] = available /\ w[n - 1] = Says("pid", "register")
          /\ \A i \in 1..(n - 1) : w[i] # available
      BY DEF Joining
    <2>3. Len(v) = n - 1 /\ \A i \in 1..(n - 1) : v[i] = w[i + 1]
      BY <1>1
    <2> HIDE DEF n, v
    <2>4. n - 1 \in 1..(n - 1) /\ n - 2 \in 1..(n - 1) /\ (n - 1) + 1 = n /\ (n - 2) + 1 = n - 1
          /\ (n - 1) - 1 = n - 2
      BY <2>1
    <2>5. v[n - 1] = available /\ v[n - 2] = Says("pid", "register")
      BY <2>2, <2>3, <2>4
    <2>6. \A i \in 1..(n - 2) : i \in 1..(n - 1) /\ i + 1 \in 1..(n - 1)
      BY <2>1
    <2>7. \A i \in 1..((n - 1) - 1) : v[i] # available
      BY <2>2, <2>3, <2>4, <2>6
    <2>8. n - 1 >= 2
      BY <2>1
    <2>9. Joining(v)
      BY <2>3, <2>4, <2>5, <2>7, <2>8 DEF Joining
    <2> QED
      BY <1>0, <1>2, <2>9 DEF v
  <1> QED
    BY <1>3, <1>4

\* What a process that becomes an application has on its wire
LEMMA ToldJoins ==
    ASSUME NEW w \in Seq(Packet), ~Announces(w)
    PROVE  Joining(w \o Told)
  <1> DEFINE r == Says("pid", "register")
             n == Len(w)
             v == w \o Told
  <1>1. Told \in Seq(Packet) /\ Len(Told) = 2 /\ Told[1] = r /\ Told[2] = available
        /\ r # available
    BY ToldAnnounces DEF Told, available, Says
  <1> HIDE DEF Packet, available, Told, r
  <1>2. /\ n \in Nat /\ DOMAIN w = 1..n
        /\ Len(v) = n + 2
        /\ \A j \in 1..(n + 2) : v[j] = IF j <= n THEN w[j] ELSE Told[j - n]
    <2>1. n \in Nat /\ DOMAIN w = 1..n
      OBVIOUS
    <2>2. /\ Len(v) = n + Len(Told)
          /\ \A j \in 1..(n + Len(Told)) : v[j] = IF j <= n THEN w[j] ELSE Told[j - n]
      <3> HIDE DEF n
      <3>1. Told \in Seq(Packet)
        BY <1>1
      <3> QED
        BY <3>1, ConcatSeq, Zenon DEF n, v
    <2> QED
      BY <1>1, <2>1, <2>2
  <1>3. \A j \in 1..n : w[j] # available
    BY <1>2 DEF Announces
  <1> HIDE DEF n, v
  <1>4. v[n + 1] = r /\ v[n + 2] = available
    <2>1. n + 1 \in 1..(n + 2) /\ ~(n + 1 <= n) /\ (n + 1) - n = 1
          /\ n + 2 \in 1..(n + 2) /\ ~(n + 2 <= n) /\ (n + 2) - n = 2
      BY <1>2
    <2> QED
      BY <1>1, <1>2, <2>1
  <1>5. \A i \in 1..((n + 2) - 1) : v[i] # available
    <2> SUFFICES ASSUME NEW i \in 1..((n + 2) - 1) PROVE v[i] # available
      OBVIOUS
    <2>1. CASE i <= n
      BY <1>2, <1>3, <2>1
    <2>2. CASE ~(i <= n)
      <3>1. i = n + 1
        BY <1>2, <2>2
      <3> QED
        BY <1>1, <1>4, <3>1
    <2> QED
      BY <2>1, <2>2
  <1>6. (n + 2) - 1 = n + 1 /\ n + 2 >= 2
    BY <1>2
  <1>7. Joining(v)
    BY <1>2, <1>4, <1>5, <1>6 DEF Joining, r
  <1> QED
    BY <1>7 DEF v

LEMMA ServerReadsConnected ==
    ASSUME RInv, Connected, NEW p \in Pids, ServerReads(p)
    PROVE  Connected'
  <1> DEFINE s == launcher
             t == launcher'
             w == wire[p]
             m == Head(w)
  <1>0. PidFacts /\ s \in LauncherType /\ Placed(s) /\ p \in Nat \ {0} /\ Reachable
    BY PidsOwned DEF RInv, PidFacts
  <1>1. /\ w \in Seq(Packet) /\ w # <<>> /\ wire'[p] = Tail(w)
        /\ \A q \in Pids \ {p} : wire'[q] = wire[q]
    BY <1>0 DEF PidFacts, ProcessType, ServerReads
  <1>2. phase' = phase
    BY DEF ServerReads, processes
  <1>3. \A q \in Pids \ {p} : <<q, "pid">> \in channels => <<q, "pid">> \in channels'
    BY DEF ServerReads
  <1>4. m.what = "register" => <<p, m.channel>> \in channels'
    BY DEF ServerReads, Says
  <1>5. m = available => channels' = channels /\ t = Available(s, name[p], p)
    BY DEF ServerReads, available, Says
  <1>6. m # available => t.entries = s.entries
    <2> SUFFICES ASSUME m # available PROVE t.entries = s.entries
      OBVIOUS
    <2>1. t = s \/ t = PoolAvailable(s, p)
      BY DEF ServerReads, available
    <2> QED
      BY <1>0, <2>1, PoolAvailablePlaces
  <1>7. ASSUME Acts(phase[p])
        PROVE  Joining(wire'[p]) \/ HasChannel(p)'
    <2>1. CASE Joining(w)
      <3>1. \/ Joining(Tail(w))
            \/ m = Says("pid", "register") /\ Tail(w) = <<available>>
        BY <1>1, <2>1, JoiningTail
      <3>2. Says("pid", "register").what = "register" /\ Says("pid", "register").channel = "pid"
        BY DEF Says
      <3>3. m = Says("pid", "register") => <<p, "pid">> \in channels'
        BY <1>4, <3>2
      <3> HIDE DEF m, w
      <3>4. (<<available>>)' = <<available>>
        BY DEF available, Says
      <3> QED
        BY <1>1, <3>1, <3>3, <3>4 DEF HasChannel
    <2>2. CASE HasChannel(p)
      <3>1. w = <<available>>
        BY <1>1, <2>2 DEF HasChannel
      <3>2. m = available /\ Tail(w) = <<>>
        BY <3>1
      <3>3. channels' = channels
        BY <1>5, <3>2
      <3> QED
        BY <1>1, <2>2, <3>2, <3>3 DEF HasChannel
    <2> QED
      BY <1>7, <2>1, <2>2 DEF Connected, Registered
  <1>8. Registered'
    <2> SUFFICES ASSUME NEW q \in Pids, Acts(phase[q])
                 PROVE  Joining(wire'[q]) \/ HasChannel(q)'
      BY <1>2 DEF Registered, Pids
    <2>1. CASE q # p
      <3>1. (<<available>>)' = <<available>>
        BY DEF available, Says
      <3> QED
        BY <1>1, <1>3, <2>1, <3>1 DEF Connected, Registered, HasChannel
    <2> QED
      BY <1>7, <2>1
  <1>9. RunningQuiet'
    <2> SUFFICES ASSUME NEW k \in Kinds, NEW a \in Apps, NEW q \in Pids,
                        t.entries[k][a].pid = q, t.entries[k][a].state = "Running",
                        Acts(phase[q])
                 PROVE  wire'[q] = <<>>
      BY <1>2 DEF RunningQuiet, Pids
    <2>1. CASE t.entries[k][a] = s.entries[k][a]
      <3>1. wire[q] = <<>>
        BY <2>1 DEF Connected, RunningQuiet
      <3> QED
        BY <1>1, <3>1
    <2>2. CASE t.entries[k][a] # s.entries[k][a]
      <3>1. m = available
        BY <1>6, <2>2
      <3>2. \A l \in Kinds, b \in Apps :
                IF b = name[p] /\ s.entries[l][b].pid = p
                THEN t.entries[l][b].state = "Running"
                ELSE t.entries[l][b] = s.entries[l][b]
        BY <1>0, <1>5, <3>1, AvailablePlaces
      <3>3. SamePlaces(s, t)
        BY <1>0, <1>5, <3>1, AvailablePlaces
      <3>4. q = p
        BY <2>2, <3>2, <3>3 DEF SamePlaces
      <3>5. ~Joining(w)
        BY <1>1, <3>1, JoiningTail
      <3>6. w = <<available>>
        BY <1>1, <3>4, <3>5 DEF Connected, Registered, HasChannel
      <3> QED
        BY <1>1, <3>4, <3>6
    <2> QED
      BY <2>1, <2>2
  <1> QED
    BY <1>8, <1>9 DEF Connected

\* initApp() of a process that was started or is in the pool
LEMMA InitAppConnected ==
    ASSUME RInv, Connected, NEW p \in Pids, NEW app \in Apps, NEW before \in Seq(Packet),
           InitApp(p, app, before), UNCHANGED <<launcher, channels>>,
           phase[p] \in {"new", "idle"}, ~Announces(before)
    PROVE  Connected'
  <1>0. PidFacts /\ Reachable
    BY PidsOwned DEF RInv
  <1>1. /\ phase'[p] = "init" /\ wire'[p] = wire[p] \o before \o Told
        /\ \A q \in Pids \ {p} : phase'[q] = phase[q] /\ wire'[q] = wire[q]
    BY <1>0 DEF InitApp, Told, PidFacts, ProcessType
  <1>2. wire[p] \in Seq(Packet) /\ ~Announces(wire[p])
    BY <1>0 DEF PidFacts, ProcessType, Reachable, Announced
  <1>3. Joining(wire'[p])
    <2> DEFINE w == wire[p] \o before
    <2>1. w \in Seq(Packet)
      BY <1>2, ConcatType
    <2>2. ~Announces(w)
      BY <1>2, ConcatAnnounces
    <2>3. wire'[p] = w \o Told
      BY <1>1
    <2> HIDE DEF w
    <2> QED
      BY <2>1, <2>2, <2>3, ToldJoins
  <1>4. (<<available>>)' = <<available>>
    BY DEF available, Says
  <1>5. Registered'
    BY <1>1, <1>3, <1>4 DEF Connected, Registered, HasChannel, Pids
  <1>6. RunningQuiet'
    <2> SUFFICES ASSUME NEW k \in Kinds, NEW a \in Apps, NEW q \in Pids,
                        launcher.entries[k][a].pid = q,
                        launcher.entries[k][a].state = "Running", Acts(phase'[q])
                 PROVE  wire'[q] = <<>>
      BY DEF RunningQuiet, Pids
    <2>1. q # p
      BY <1>0 DEF Reachable, EntryReady
    <2> QED
      BY <1>1, <2>1 DEF Connected, RunningQuiet
  <1> QED
    BY <1>5, <1>6 DEF Connected

\* What a quicklauncher says before it becomes an application
LEMMA DetachQuiet ==
    LET before == <<Says("quick", "detach"), Says("pid", "detach")>>
    IN  before \in Seq(Packet) /\ ~Announces(before)
  <1> DEFINE c == Says("quick", "detach")
             d == Says("pid", "detach")
  <1>1. c \in Packet /\ d \in Packet
    BY Packets
  <1>2. c # available /\ d # available
    BY DEF Says, available
  <1> HIDE DEF c, d, available, Packet
  <1>3. <<c, d>> \in Seq(Packet) /\ \A i \in DOMAIN <<c, d>> : <<c, d>>[i] \in {c, d}
    BY <1>1
  <1>4. ~Announces(<<c, d>>)
    BY <1>2, <1>3 DEF Announces
  <1> QED
    BY <1>3, <1>4 DEF c, d

LEMMA ProcessConnected ==
    ASSUME RInv, Connected, NEW p \in Pids,
           \/ Boot(p) \/ BootQuick(p) \/ IdleReads(p)
           \/ ReadFile(p) \/ Exec(p) \/ DotpidMessage(p)
    PROVE  Connected'
  <1>0. PidFacts /\ launcher \in LauncherType
    BY PidsOwned DEF RInv, PidFacts
  <1>1. CASE Boot(p)
    <2>1. <<>> \in Seq(Packet) /\ ~Announces(<<>>)
      BY DEF Announces
    <2>2. /\ InitApp(p, launcher.spawned[p], <<>>) /\ launcher.spawned[p] \in Apps
          /\ UNCHANGED <<launcher, channels>> /\ phase[p] = "new"
      BY <1>1 DEF Boot
    <2> QED
      BY <2>1, <2>2, InitAppConnected
  <1>2. CASE BootQuick(p)
    <2>1. SameServer(launcher, launcher') /\ UNCHANGED channels
      BY <1>2 DEF BootQuick, SameServer
    <2>2. /\ ~Acts(phase'[p])
          /\ \A q \in Pids \ {p} : phase'[q] = phase[q] /\ wire'[q] = wire[q]
      BY <1>0, <1>2 DEF BootQuick, Acts, PidFacts, ProcessType
    <2> QED
      BY <2>1, <2>2, ActsOnConnected
  <1>3. CASE IdleReads(p)
    <2> DEFINE before == <<Says("quick", "detach"), Says("pid", "detach")>>
    <2>1. CASE UNCHANGED <<phase, name, wire>>
      <3>1. SameServer(launcher, launcher') /\ UNCHANGED channels
        BY <1>3 DEF IdleReads, SameServer
      <3>2. ~Acts(phase'[p])
        BY <1>3, <2>1 DEF IdleReads, Acts
      <3>3. UNCHANGED <<phase, name, wire>>
        BY <2>1
      <3> QED
        BY <3>1, <3>2, <3>3, ActsOnConnected
    <2>2. CASE Head(inbox[p]) \in Apps /\ InitApp(p, Head(inbox[p]), before)
      <3>1. before \in Seq(Packet) /\ ~Announces(before)
        BY DetachQuiet
      <3>2. UNCHANGED <<launcher, channels>> /\ phase[p] = "idle"
        BY <1>3 DEF IdleReads
      <3> HIDE DEF before
      <3> QED
        BY <2>2, <3>1, <3>2, InitAppConnected
    <2> QED
      BY <1>3, <2>1, <2>2 DEF IdleReads
  <1>4. CASE ReadFile(p) \/ Exec(p) \/ DotpidMessage(p)
    <2>1. SameServer(launcher, launcher')
      BY <1>0, <1>4 DEF SameServer, LauncherType, ReadFile, Exec, DotpidMessage, ProcessQCopFile
    <2>2. UNCHANGED <<wire, channels>>
      BY <1>4 DEF ReadFile, Exec, DotpidMessage, qcop
    <2>3. /\ Acts(phase[p])
          /\ \A q \in Pids \ {p} : phase'[q] = phase[q]
      BY <1>0, <1>4 DEF ReadFile, Exec, DotpidMessage, Acts, PidFacts, ProcessType
    <2> QED
      BY <2>1, <2>2, <2>3, ActsOnConnected
  <1> QED
    BY <1>1, <1>2, <1>3, <1>4

LEMMA DeathConnected ==
    ASSUME RInv, Connected, (\E p \in Pids : Dies(p)) \/ (\E app \in Apps : KillApp(app))
    PROVE  Connected'
  <1>0. PidFacts /\ Started \subseteq Pids
    BY PidsOwned DEF RInv, PidFacts
  <1>1. ASSUME NEW p \in Pids, Ends(p), SameServer(launcher, launcher'), channels' = channels
        PROVE  Connected'
    <2>1. /\ ~Acts(phase'[p])
          /\ \A q \in Pids \ {p} : phase'[q] = phase[q] /\ wire'[q] = wire[q]
      BY <1>0, <1>1 DEF Ends, Acts, PidFacts, ProcessType
    <2> QED
      BY <1>1, <2>1, ActsOnConnected
  <1>2. ASSUME NEW p \in Pids, Dies(p) PROVE Connected'
    BY <1>1, <1>2 DEF Dies, SameServer
  <1>3. ASSUME NEW app \in Apps, KillApp(app) PROVE Connected'
    <2> DEFINE pid == KilledPid(launcher, app)
    <2>1. SameServer(launcher, launcher') /\ channels' = channels
      BY <1>0, <1>3 DEF KillApp, Kill, SameServer, PidFacts, LauncherType
    <2>2. CASE pid # 0 /\ Alive(pid)
      <3>1. Ends(pid) /\ pid \in Pids
        BY <1>0, <1>3, <2>2 DEF KillApp, Alive
      <3> HIDE DEF pid
      <3> QED
        BY <1>1, <2>1, <3>1
    <2>3. CASE ~(pid # 0 /\ Alive(pid))
      <3>1. UNCHANGED <<phase, wire>>
        BY <1>3, <2>3 DEF KillApp
      <3>2. SamePlaces(launcher, launcher') /\ launcher'.entries = launcher.entries
            /\ launcher'.out = launcher.out
        BY <2>1 DEF SameServer, SamePlaces
      <3>3. Moves(launcher, launcher')
        BY <3>2, SameMoves
      <3> QED
        BY <2>1, <3>1, <3>3, QuietConnected
    <2> QED
      BY <2>2, <2>3
  <1> QED
    BY <1>2, <1>3

LEMMA StepConnected == RInv /\ Connected /\ [Next]_vars => Connected'
  <1> SUFFICES ASSUME RInv, Connected, [Next]_vars PROVE Connected'
    OBVIOUS
  <1>1. CASE RespawnShot
    <2>1. Moves(launcher, launcher')
      BY <1>1, PidsOwned, StartNewMoves DEF RespawnShot, RInv, PidFacts
    <2>2. UNCHANGED <<phase, wire, channels>>
      BY <1>1 DEF RespawnShot, processes, qcop
    <2> QED
      BY <2>1, <2>2, QuietConnected
  <1>2. ASSUME NEW app \in Apps, Route(app) PROVE Connected'
    <2>1. UNCHANGED <<phase, wire, channels>>
      BY <1>2 DEF Route, processes, qcop
    <2> QED
      BY <1>2, <2>1, RouteMoves, QuietConnected
  <1>3. CASE Dispatch
    <2>1. UNCHANGED <<phase, wire, channels>>
      BY <1>3 DEF Dispatch, qcop
    <2> QED
      BY <1>3, <2>1, DispatchMoves, QuietConnected
  <1>4. ASSUME NEW p \in Pids, Reap(p) PROVE Connected'
    <2>1. UNCHANGED <<wire, channels>>
      BY <1>4 DEF Reap, qcop
    <2> QED
      BY <1>4, <2>1, ReapMoves, QuietConnected
  <1>5. CASE UNCHANGED vars
    <2>1. UNCHANGED <<launcher, phase, wire, channels>>
      BY <1>5 DEF vars, processes, qcop
    <2>2. Moves(launcher, launcher')
      BY <2>1, SameMoves DEF SamePlaces
    <2> QED
      BY <2>1, <2>2, QuietConnected
  <1> QED
    BY <1>1, <1>2, <1>3, <1>4, <1>5, ServerReadsConnected, ProcessConnected, DeathConnected
       DEF Next, Progress

LEMMA InitConnected == Init => Connected
  <1> SUFFICES ASSUME Init PROVE Connected
    OBVIOUS
  <1>1. \A p \in Pids : ~Acts(phase[p])
    BY DEF Init, Acts
  <1> QED
    BY <1>1 DEF Connected, Registered, RunningQuiet

LEMMA ReadyWhenRunning == RInv /\ Connected => RunningIsReady
  <1> SUFFICES ASSUME RInv, Connected, NEW k \in Kinds, NEW app \in Apps,
                      launcher.entries[k][app].pid # 0
               PROVE  LET e == launcher.entries[k][app] IN
                      /\ e.state = "Running" => phase[e.pid] \notin {"new", "idle"}
                      /\ e.state = "Running" /\ Alive(e.pid) => <<e.pid, "pid">> \in channels
                      /\ phase[e.pid] \in {"init", "open", "loop"} =>
                            \/ e.state = "Running"
                            \/ \E i \in DOMAIN wire[e.pid] :
                                  wire[e.pid][i] = Says("QPE/QtopiaApplication", "available")
    BY DEF RunningIsReady
  <1> DEFINE e == launcher.entries[k][app]
             p == e.pid
  <1>1. p \in Pids /\ phase[p] \in Phases
    BY PidsOwned DEF RInv, PidFacts, ProcessType
  <1>2. e.state = "Running" => phase[p] \notin {"new", "idle"}
    BY <1>1 DEF RInv, Reachable, EntryReady
  <1>3. ASSUME e.state = "Running", Alive(p) PROVE <<p, "pid">> \in channels
    <2>1. Acts(phase[p])
      BY <1>1, <1>2, <1>3 DEF Alive, Acts, Phases
    <2>2. wire[p] = <<>>
      BY <1>1, <1>3, <2>1 DEF Connected, RunningQuiet
    <2>3. ~Joining(wire[p])
      BY <2>2 DEF Joining
    <2> QED
      BY <1>1, <2>1, <2>3 DEF Connected, Registered, HasChannel
  <1>4. Acts(phase[p]) => e.state = "Running" \/ Announces(wire[p])
    BY <1>1 DEF RInv, Reachable, EntryReady
  <1> QED
    BY <1>2, <1>3, <1>4 DEF Acts, Announces, available

\* While the process of an application shown as running lives, the server has
\* its channel, so that a prod reaches it, and an application that has started
\* is shown as running or its announcement is on its way
\* (QtopiaApplication::initApp(), QuickLauncher's execute(),
\* ExeApplicationLauncher::qtopiaApplicationChannel()).
THEOREM RunningIsReachable == Spec => []RunningIsReady
  BY InitOwned, StepOwned, InitReady, StepReady, InitConnected, StepConnected,
     ReadyWhenRunning, PTL DEF Spec

-----------------------------------------------------------------------------
\* Sequences of numbers, and what they hold

Rising(q) == \A i, j \in DOMAIN q : i < j => q[i] < q[j]

LEMMA Joined ==
    ASSUME NEW S, NEW q \in Seq(S), NEW r \in Seq(S), NEW u \in Seq(S)
    PROVE  /\ (q \o r) \o u = q \o (r \o u)
           /\ q \o <<>> = q /\ <<>> \o q = q
  OBVIOUS

LEMMA JoinedSet ==
    ASSUME NEW S, NEW q \in Seq(S), NEW r \in Seq(S)
    PROVE  ToSet(q \o r) = ToSet(q) \cup ToSet(r)
  <1> DEFINE m == Len(q)
             n == Len(r)
             w == q \o r
  <1>1. /\ m \in Nat /\ n \in Nat /\ DOMAIN q = 1..m /\ DOMAIN r = 1..n
        /\ DOMAIN w = 1..(m + n)
        /\ \A j \in 1..(m + n) : w[j] = IF j <= m THEN q[j] ELSE r[j - m]
    BY ConcatSeq
  <1> HIDE DEF m, n, w
  <1>2. \A j \in 1..m : j \in 1..(m + n) /\ w[j] = q[j]
    BY <1>1
  <1>3. \A j \in 1..n : j + m \in 1..(m + n) /\ w[j + m] = r[j]
    <2>1. \A j \in 1..n : j + m \in 1..(m + n) /\ ~(j + m <= m) /\ (j + m) - m = j
      BY <1>1
    <2> QED
      BY <1>1, <2>1
  <1>4. \A j \in 1..(m + n) : (j \in 1..m /\ w[j] = q[j]) \/ (j - m \in 1..n /\ w[j] = r[j - m])
    BY <1>1
  <1>5. \A x \in ToSet(w) : x \in ToSet(q) \cup ToSet(r)
    BY <1>1, <1>4 DEF ToSet
  <1>6. ASSUME NEW x \in ToSet(q) \cup ToSet(r) PROVE x \in ToSet(w)
    <2>1. CASE x \in ToSet(q)
      BY <1>1, <1>2, <2>1 DEF ToSet
    <2>2. CASE x \in ToSet(r)
      <3>1. PICK j \in 1..n : r[j] = x
        BY <1>1, <2>2 DEF ToSet
      <3>2. j + m \in DOMAIN w /\ w[j + m] = x
        BY <1>1, <1>3, <3>1
      <3> QED
        BY <3>2 DEF ToSet
    <2> QED
      BY <2>1, <2>2
  <1> QED
    BY <1>5, <1>6 DEF w

LEMMA RisingJoined ==
    ASSUME NEW q \in Seq(Nat), NEW r \in Seq(Nat)
    PROVE  Rising(q \o r) <=> /\ Rising(q) /\ Rising(r)
                              /\ \A x \in ToSet(q), y \in ToSet(r) : x < y
  <1> DEFINE m == Len(q)
             n == Len(r)
             w == q \o r
  <1>1. /\ m \in Nat /\ n \in Nat /\ DOMAIN q = 1..m /\ DOMAIN r = 1..n
        /\ DOMAIN w = 1..(m + n)
        /\ \A j \in 1..(m + n) : w[j] = IF j <= m THEN q[j] ELSE r[j - m]
    BY ConcatSeq
  <1> HIDE DEF m, n, w
  <1>2. \A j \in 1..m : j \in 1..(m + n) /\ w[j] = q[j]
    BY <1>1
  <1>3. \A j \in 1..n : j + m \in 1..(m + n) /\ w[j + m] = r[j]
    <2>1. \A j \in 1..n : j + m \in 1..(m + n) /\ ~(j + m <= m) /\ (j + m) - m = j
      BY <1>1
    <2> QED
      BY <1>1, <2>1
  <1>4. \A j \in 1..(m + n) : (j \in 1..m /\ w[j] = q[j]) \/ (j - m \in 1..n /\ w[j] = r[j - m])
    BY <1>1
  <1>5. ASSUME Rising(w)
        PROVE  Rising(q) /\ Rising(r) /\ \A x \in ToSet(q), y \in ToSet(r) : x < y
    <2>1. Rising(q)
      BY <1>1, <1>2, <1>5 DEF Rising
    <2>2. Rising(r)
      <3> SUFFICES ASSUME NEW i \in 1..n, NEW j \in 1..n, i < j PROVE r[i] < r[j]
        BY <1>1 DEF Rising
      <3>1. i + m < j + m /\ i + m \in DOMAIN w /\ j + m \in DOMAIN w
        BY <1>1, <1>3
      <3> QED
        BY <1>3, <1>5, <3>1 DEF Rising
    <2>3. ASSUME NEW i \in 1..m, NEW j \in 1..n PROVE q[i] < r[j]
      <3>1. i < j + m /\ i \in DOMAIN w /\ j + m \in DOMAIN w
        BY <1>1, <1>2, <1>3
      <3> QED
        BY <1>2, <1>3, <1>5, <3>1 DEF Rising
    <2> QED
      BY <1>1, <2>1, <2>2, <2>3 DEF ToSet
  <1>6. ASSUME Rising(q), Rising(r), \A x \in ToSet(q), y \in ToSet(r) : x < y
        PROVE  Rising(w)
    <2> SUFFICES ASSUME NEW i \in 1..(m + n), NEW j \in 1..(m + n), i < j PROVE w[i] < w[j]
      BY <1>1 DEF Rising
    <2>1. CASE j <= m
      <3>1. i \in 1..m /\ j \in 1..m
        BY <1>1, <2>1
      <3> QED
        BY <1>1, <1>2, <1>6, <3>1 DEF Rising
    <2>2. CASE ~(j <= m) /\ i <= m
      <3>1. w[i] = q[i] /\ i \in DOMAIN q /\ w[j] = r[j - m] /\ j - m \in DOMAIN r
        BY <1>1, <2>2
      <3>2. w[i] \in ToSet(q) /\ w[j] \in ToSet(r)
        BY <3>1 DEF ToSet
      <3> QED
        BY <1>6, <3>2
    <2>3. CASE ~(i <= m)
      <3>1. /\ w[i] = r[i - m] /\ i - m \in DOMAIN r /\ w[j] = r[j - m] /\ j - m \in DOMAIN r
            /\ i - m < j - m
        BY <1>1, <2>3
      <3> QED
        BY <1>6, <3>1 DEF Rising
    <2> QED
      BY <2>1, <2>2, <2>3
  <1> QED
    BY <1>5, <1>6 DEF w

LEMMA RisingAppend ==
    ASSUME NEW q \in Seq(Nat), NEW x \in Nat, Rising(q), \A y \in ToSet(q) : y < x
    PROVE  Rising(Append(q, x)) /\ ToSet(Append(q, x)) = ToSet(q) \cup {x}
  <1> DEFINE n == Len(q)
             w == Append(q, x)
  <1>1. /\ n \in Nat /\ DOMAIN q = 1..n /\ DOMAIN w = 1..(n + 1) /\ w[n + 1] = x
        /\ \A j \in 1..n : w[j] = q[j]
    OBVIOUS
  <1> HIDE DEF n, w
  <1>2. \A j \in 1..(n + 1) : j \in 1..n \/ j = n + 1
    BY <1>1
  <1>3. Rising(w)
    <2> SUFFICES ASSUME NEW i \in 1..(n + 1), NEW j \in 1..(n + 1), i < j PROVE w[i] < w[j]
      BY <1>1 DEF Rising
    <2>1. i \in 1..n
      BY <1>1
    <2>2. CASE j \in 1..n
      BY <1>1, <2>1, <2>2 DEF Rising
    <2>3. CASE j = n + 1
      BY <1>1, <2>1, <2>3 DEF ToSet
    <2> QED
      BY <1>2, <2>2, <2>3
  <1>4. \A y \in ToSet(w) : y \in ToSet(q) \cup {x}
    BY <1>1, <1>2 DEF ToSet
  <1>5. \A j \in 1..n : j \in 1..(n + 1)
    BY <1>1
  <1>6. n + 1 \in 1..(n + 1)
    BY <1>1
  <1>7. \A y \in ToSet(q) \cup {x} : y \in ToSet(w)
    BY <1>1, <1>5, <1>6 DEF ToSet
  <1> QED
    BY <1>3, <1>4, <1>7 DEF w

-----------------------------------------------------------------------------
\* Where the messages of an application are

For(q, app) == { n \in DOMAIN q : q[n] = app }

\* The messages S, but for those of d that were lost, are what t holds, in order
Account(t, S, d) == Rising(t) /\ ToSet(t) \cap d = {} /\ S \ d = ToSet(t)

\* The processes that act for an application, and what waits in them
Mine(app) == { p \in Pids : Acts(phase[p]) /\ name[p] = app }
Waits(app) == IF Mine(app) = {} THEN <<>> ELSE queue[CHOOSE p \in Mine(app) : TRUE]

\* A process has the name of an application once it acts for it, it queues
\* messages until exec() only, and only a message that was sent is lost
Unnamed == \A p \in Pids : phase[p] \in {"new", "idle"} => name[p] = "quicklauncher"
QueueOpen == \A p \in Pids : queue[p] # <<>> => phase[p] = "open"
Settled == Unnamed /\ QueueOpen /\ dropped \subseteq DOMAIN sent

AInv == RInv /\ Settled /\ MessagesAccounted

\* What the trail of an application is made of
Trailed ==
    \A app \in Apps :
        /\ Trail(app) = heard[app] \o Waits(app) \o launcher.files[app]
        /\ \A p \in Mine(app) : Mine(app) = {p} /\ Waits(app) = queue[p]
        /\ Waits(app) \in Seq(1..MaxMessages)
        /\ heard[app] \in Seq(1..MaxMessages) /\ launcher.files[app] \in Seq(1..MaxMessages)

LEMMA OneActs ==
    ASSUME RInv, NEW app \in Apps, NEW p \in Mine(app), NEW q \in Mine(app)
    PROVE  p = q
  <1>0. PidFacts /\ Reachable /\ Agree(launcher, app)
    BY PidsOwned DEF RInv, OInv, IInv, Good, TablesAgree
  <1>1. ASSUME NEW r \in Mine(app) PROVE \E k \in Kinds : launcher.entries[k][app].pid = r
    <2>1. r \in Pids /\ Acts(phase[r]) /\ name[r] = app
      BY DEF Mine
    <2>2. ~InPool(launcher, r)
      BY <1>0, <2>1 DEF Reachable, PoolWaits, Acts
    <2>3. r \in Owned(launcher)
      BY <1>0, <2>1 DEF PidFacts, Acts
    <2>4. PICK k \in Kinds, a \in Apps : launcher.entries[k][a].pid = r
      BY <2>2, <2>3 DEF Owned, InEntry
    <2>5. a = app
      BY <1>0, <2>1, <2>4 DEF Reachable, EntryNamed
    <2> QED
      BY <2>4, <2>5
  <1>2. PICK k \in Kinds : launcher.entries[k][app].pid = p
    BY <1>1
  <1>3. PICK l \in Kinds : launcher.entries[l][app].pid = q
    BY <1>1
  <1>4. p # 0 /\ q # 0
    BY <1>0 DEF Mine, PidFacts
  <1>5. k \in Owners(launcher, app) /\ l \in Owners(launcher, app)
    BY <1>2, <1>3, <1>4 DEF Owners
  <1>6. k = l
    BY <1>0, <1>5 DEF Agree
  <1> QED
    BY <1>2, <1>3, <1>6

LEMMA TrailedAlways == RInv /\ Unnamed => Trailed
  <1> SUFFICES ASSUME RInv, Unnamed, NEW app \in Apps
               PROVE  /\ Trail(app) = heard[app] \o Waits(app) \o launcher.files[app]
                      /\ \A p \in Mine(app) : Mine(app) = {p} /\ Waits(app) = queue[p]
                      /\ Waits(app) \in Seq(1..MaxMessages)
                      /\ heard[app] \in Seq(1..MaxMessages)
                      /\ launcher.files[app] \in Seq(1..MaxMessages)
    BY DEF Trailed
  <1>0. PidFacts
    BY PidsOwned DEF RInv
  <1>1. app # "quicklauncher"
    BY AppsAssumption
  <1>2. { p \in Started : Alive(p) /\ name[p] = app } = Mine(app)
    <2>1. \A p \in Pids : phase[p] \in Phases
      BY <1>0 DEF PidFacts, ProcessType
    <2>2. \A p \in Pids : Alive(p) /\ name[p] = app <=> Acts(phase[p]) /\ name[p] = app
      BY <1>0, <1>1, <2>1 DEF Alive, Acts, Phases, Unnamed, PidFacts, Started
    <2> QED
      BY <1>0, <2>2 DEF Mine, Alive, PidFacts
  <1>3. Trail(app) = heard[app] \o Waits(app) \o launcher.files[app]
    <2> DEFINE mine == { p \in Started : Alive(p) /\ name[p] = app }
    <2>1. Trail(app) = heard[app] \o (IF mine = {} THEN <<>> ELSE queue[CHOOSE p \in mine : TRUE])
                       \o launcher.files[app]
      BY DEF Trail
    <2> HIDE DEF mine
    <2>2. mine = Mine(app)
      BY <1>2 DEF mine
    <2> QED
      BY <2>1, <2>2, Zenon DEF Waits
  <1>4. ASSUME NEW p \in Mine(app) PROVE Mine(app) = {p} /\ Waits(app) = queue[p]
    <2>1. Mine(app) = {p}
      BY OneActs
    <2> QED
      BY <2>1 DEF Waits
  <1>5. Waits(app) \in Seq(1..MaxMessages)
    <2>1. CASE Mine(app) = {}
      <3>1. <<>> \in Seq(1..MaxMessages)
        OBVIOUS
      <3> QED
        BY <2>1, <3>1 DEF Waits
    <2>2. CASE Mine(app) # {}
      <3>1. PICK p \in Mine(app) : TRUE
        BY <2>2
      <3> QED
        BY <1>0, <1>4, <3>1 DEF Mine, PidFacts, ProcessType
    <2> QED
      BY <2>1, <2>2
  <1>6. heard[app] \in Seq(1..MaxMessages) /\ launcher.files[app] \in Seq(1..MaxMessages)
    BY <1>0, Parts DEF PidFacts, ProcessType, LauncherType
  <1> QED
    BY <1>3, <1>4, <1>5, <1>6

\* An application of which a step leaves everything alone
LEMMA SameTrail ==
    ASSUME Trailed, Trailed', NEW app \in Apps, heard'[app] = heard[app],
           launcher'.files[app] = launcher.files[app], Mine(app)' = Mine(app),
           \A p \in Mine(app) : queue'[p] = queue[p]
    PROVE  Trail(app)' = Trail(app)
  <1>1. Trail(app) = heard[app] \o Waits(app) \o launcher.files[app]
    BY DEF Trailed
  <1>2. Trail(app)' = heard'[app] \o Waits(app)' \o launcher'.files[app]
    BY DEF Trailed
  <1>3. Waits(app)' = Waits(app)
    <2>1. CASE Mine(app) = {}
      BY <2>1 DEF Waits
    <2>2. CASE Mine(app) # {}
      <3>1. PICK p \in Mine(app) : TRUE
        BY <2>2
      <3>2. Waits(app) = queue[p]
        BY <3>1 DEF Trailed
      <3>3. \A q \in Mine(app)' : Waits(app)' = queue'[q]
        BY DEF Trailed
      <3>4. Waits(app)' = queue'[p]
        BY <3>3
      <3> QED
        BY <3>1, <3>2, <3>4
    <2> QED
      BY <2>1, <2>2
  <1> QED
    BY <1>1, <1>2, <1>3

LEMMA AccountedAs == MessagesAccounted <=> \A app \in Apps : Account(Trail(app), For(sent, app), dropped)
  BY DEF MessagesAccounted, Account, For, Rising

\* Nothing is sent or lost, and every message keeps its place in the trail
LEMMA KeptAccounted ==
    ASSUME MessagesAccounted, UNCHANGED <<sent, dropped>>,
           \A app \in Apps : Trail(app)' = Trail(app)
    PROVE  MessagesAccounted'
  <1>1. \A app \in Apps : Account(Trail(app)', For(sent', app), dropped')
    BY AccountedAs
  <1> QED
    BY <1>1 DEF MessagesAccounted, Account, For, Rising

\* A step of one process, seen from an application that is not its own
LEMMA OtherTrail ==
    ASSUME Trailed, Trailed', NEW p \in Pids, NEW app \in Apps, name[p] # app, name'[p] # app,
           \A q \in Pids \ {p} : phase'[q] = phase[q] /\ name'[q] = name[q] /\ queue'[q] = queue[q],
           heard'[app] = heard[app], launcher'.files[app] = launcher.files[app]
    PROVE  Trail(app)' = Trail(app)
  <1>1. \A q \in Pids : Acts(phase'[q]) /\ name'[q] = app <=> Acts(phase[q]) /\ name[q] = app
    OBVIOUS
  <1>2. Mine(app)' = Mine(app)
    BY <1>1 DEF Mine, Pids
  <1>3. \A q \in Mine(app) : queue'[q] = queue[q]
    BY DEF Mine
  <1> QED
    BY <1>2, <1>3, SameTrail

LEMMA SettledTrailed == AInv => Trailed /\ PidFacts /\ \A p \in Pids :
                                   Acts(phase[p]) => name[p] \in Apps
  BY TrailedAlways, PidsOwned DEF AInv, Settled, RInv, OInv, Lives, Named, Acts

\* A step of the server that files nothing
LEMMA QuietAccounted ==
    ASSUME AInv, RInv', UNCHANGED <<name, queue, heard, sent, dropped>>,
           launcher'.files = launcher.files,
           \A q \in Pids : phase'[q] = phase[q] \/ (phase[q] = "dead" /\ phase'[q] = "reaped")
    PROVE  AInv'
  <1>1. Settled'
    BY DEF AInv, Settled, Unnamed, QueueOpen, Pids
  <1>2. Trailed /\ Trailed'
    <2>1. Trailed'
      BY <1>1, TrailedAlways, PTL DEF Settled
    <2> QED
      BY <2>1, SettledTrailed
  <1>3. ASSUME NEW app \in Apps PROVE Trail(app)' = Trail(app)
    <2>1. Mine(app)' = Mine(app)
      <3>1. \A q \in Pids : Acts(phase'[q]) <=> Acts(phase[q])
        BY DEF Acts
      <3> QED
        BY <3>1 DEF Mine, Pids
    <2> QED
      BY <1>2, <2>1, SameTrail
  <1>4. MessagesAccounted'
    BY <1>3, KeptAccounted DEF AInv
  <1> QED
    BY <1>1, <1>4 DEF AInv

LEMMA InitAppAccounted ==
    ASSUME AInv, RInv', NEW p \in Pids, NEW app \in Apps, NEW before, InitApp(p, app, before),
           phase[p] \in {"new", "idle"},
           UNCHANGED <<queue, heard, sent, dropped>>, launcher' = launcher
    PROVE  AInv'
  <1>0. PidFacts
    BY SettledTrailed
  <1>1. /\ phase'[p] = "init" /\ name'[p] = app
        /\ \A q \in Pids \ {p} : phase'[q] = phase[q] /\ name'[q] = name[q]
    BY <1>0 DEF InitApp, PidFacts, ProcessType
  <1>2. queue[p] = <<>> /\ name[p] = "quicklauncher"
    BY DEF AInv, Settled, Unnamed, QueueOpen
  <1>3. Settled'
    BY <1>1, <1>2 DEF AInv, Settled, Unnamed, QueueOpen, Pids
  <1>4. Trailed /\ Trailed'
    <2>1. Trailed'
      BY <1>3, TrailedAlways, PTL DEF Settled
    <2> QED
      BY <2>1, SettledTrailed
  <1>5. ASSUME NEW a \in Apps, a # app PROVE Trail(a)' = Trail(a)
    BY <1>1, <1>2, <1>4, <1>5, AppsAssumption, OtherTrail
  <1>6. Trail(app)' = Trail(app)
    <2>1. p \in Mine(app)'
      BY <1>1 DEF Mine, Acts, Pids
    <2>2. Mine(app)' = {p} /\ Waits(app)' = queue'[p]
      <3>1. \A q \in Mine(app)' : Mine(app)' = {q} /\ Waits(app)' = queue'[q]
        BY <1>4 DEF Trailed
      <3> QED
        BY <2>1, <3>1
    <2>3. Mine(app) = {}
      <3> SUFFICES ASSUME NEW q \in Mine(app) PROVE FALSE
        OBVIOUS
      <3>1. q \in Pids /\ Acts(phase[q]) /\ name[q] = app
        BY DEF Mine
      <3>2. q # p
        BY <3>1 DEF Acts
      <3>3. q \in Mine(app)'
        BY <1>1, <3>1, <3>2 DEF Mine, Pids
      <3> QED
        BY <2>2, <3>2, <3>3
    <2>4. Waits(app) = <<>> /\ Waits(app)' = <<>>
      BY <1>2, <2>2, <2>3 DEF Waits
    <2>5. Trail(app) = heard[app] \o Waits(app) \o launcher.files[app]
      BY <1>4 DEF Trailed
    <2>6. Trail(app)' = heard'[app] \o Waits(app)' \o launcher'.files[app]
      BY <1>4 DEF Trailed
    <2> QED
      BY <2>4, <2>5, <2>6
  <1>7. MessagesAccounted'
    BY <1>5, <1>6, KeptAccounted DEF AInv
  <1> QED
    BY <1>3, <1>7 DEF AInv

\* What a process reads moves on in the trail of its application
LEMMA MovedAccounted ==
    ASSUME AInv, RInv', NEW p \in Pids, NEW app \in Apps, name[p] = app, name' = name,
           Acts(phase[p]), Acts(phase'[p]), UNCHANGED <<sent, dropped>>,
           \A q \in Pids \ {p} : phase'[q] = phase[q] /\ queue'[q] = queue[q],
           queue'[p] # <<>> => phase'[p] = "open",
           \A a \in Apps : a # app =>
               heard'[a] = heard[a] /\ launcher'.files[a] = launcher.files[a],
           heard'[app] \o queue'[p] \o launcher'.files[app]
             = heard[app] \o queue[p] \o launcher.files[app]
    PROVE  AInv'
  <1>1. Settled'
    BY DEF AInv, Settled, Unnamed, QueueOpen, Pids, Acts
  <1>2. Trailed /\ Trailed'
    <2>1. Trailed'
      BY <1>1, TrailedAlways, PTL DEF Settled
    <2> QED
      BY <2>1, SettledTrailed
  <1>3. ASSUME NEW a \in Apps, a # app PROVE Trail(a)' = Trail(a)
    BY <1>2, <1>3, OtherTrail
  <1>4. Trail(app)' = Trail(app)
    <2>1. app = name[p] /\ app = name'[p]
      OBVIOUS
    <2>2. p \in Mine(app) /\ p \in Mine(app)'
      BY <2>1 DEF Mine, Pids
    <2>3. Waits(app) = queue[p]
      BY <1>2, <2>2 DEF Trailed
    <2>4. Waits(app)' = queue'[p]
      <3>1. \A q \in Mine(app)' : Waits(app)' = queue'[q]
        BY <1>2 DEF Trailed
      <3> QED
        BY <2>2, <3>1
    <2>5. Trail(app) = heard[app] \o Waits(app) \o launcher.files[app]
      BY <1>2 DEF Trailed
    <2>6. Trail(app)' = heard'[app] \o Waits(app)' \o launcher'.files[app]
      BY <1>2 DEF Trailed
    <2> QED
      BY <2>1, <2>3, <2>4, <2>5, <2>6
  <1>5. MessagesAccounted'
    BY <1>3, <1>4, KeptAccounted DEF AInv
  <1> QED
    BY <1>1, <1>5 DEF AInv

LEMMA Rearranged ==
    ASSUME NEW S, NEW h \in Seq(S), NEW q \in Seq(S), NEW f \in Seq(S)
    PROVE  /\ h \o (q \o f) \o <<>> = h \o q \o f
           /\ (h \o q) \o <<>> \o f = h \o q \o f
           /\ (h \o q \o f) \o <<>> \o <<>> = h \o q \o f
  OBVIOUS

LEMMA ReadAccounted ==
    ASSUME AInv, RInv', NEW p \in Pids, ReadFile(p) \/ Exec(p) \/ DotpidMessage(p)
    PROVE  AInv'
  <1>0. /\ PidFacts /\ Trailed /\ launcher \in LauncherType /\ queue[p] \in Seq(1..MaxMessages)
        /\ launcher.files \in [Apps -> Seq(1..MaxMessages)]
        /\ heard \in [Apps -> Seq(1..MaxMessages)]
    BY SettledTrailed, Parts DEF PidFacts, ProcessType, LauncherType
  <1>1. /\ Acts(phase[p]) /\ Acts(phase'[p]) /\ UNCHANGED <<name, sent, dropped>>
        /\ \A q \in Pids \ {p} : phase'[q] = phase[q] /\ queue'[q] = queue[q]
        /\ queue'[p] # <<>> => phase'[p] = "open"
    <2>0. phase \in [Pids -> Phases] /\ queue \in [Pids -> Seq(1..MaxMessages)]
      BY <1>0 DEF PidFacts, ProcessType
    <2>1. CASE ReadFile(p)
      BY <2>0, <2>1 DEF ReadFile, ProcessQCopFile, Acts, history
    <2>2. CASE Exec(p)
      BY <2>0, <2>2 DEF Exec, Acts
    <2>3. CASE DotpidMessage(p)
      BY <2>0, <2>3 DEF DotpidMessage, Acts
    <2> QED
      BY <2>1, <2>2, <2>3
  <1>2. PICK app \in Apps : name[p] = app
    BY <1>1, SettledTrailed
  <1>3. heard[app] \in Seq(1..MaxMessages) /\ launcher.files[app] \in Seq(1..MaxMessages)
    BY <1>0
  <1>4. \/ /\ launcher'.files = [launcher.files EXCEPT ![app] = <<>>]
           /\ queue'[p] = queue[p] \o launcher.files[app] /\ heard' = heard
        \/ /\ launcher' = launcher /\ queue'[p] = <<>>
           /\ heard' = [heard EXCEPT ![app] = heard[app] \o queue[p]]
        \/ /\ launcher'.files = [launcher.files EXCEPT ![app] = <<>>] /\ queue'[p] = <<>>
           /\ heard' = [heard EXCEPT ![app] = heard[app] \o queue[p] \o launcher.files[app]]
    <2>0. queue \in [Pids -> Seq(1..MaxMessages)]
      BY <1>0 DEF PidFacts, ProcessType
    <2>a. \A g : [launcher EXCEPT !.files = g].files = g
      BY <1>0 DEF LauncherType
    <2>1. CASE ReadFile(p)
      <3>1. /\ launcher' = [launcher EXCEPT !.files = [launcher.files EXCEPT ![app] = <<>>]]
            /\ queue' = [queue EXCEPT ![p] = queue[p] \o launcher.files[app]] /\ heard' = heard
        BY <1>2, <2>1 DEF ReadFile, ProcessQCopFile, history
      <3> QED
        BY <2>0, <2>a, <3>1
    <2>2. CASE Exec(p)
      BY <1>2, <2>0, <2>2 DEF Exec
    <2>3. CASE DotpidMessage(p)
      <3>1. /\ launcher' = [launcher EXCEPT !.files = [launcher.files EXCEPT ![app] = <<>>]]
            /\ queue' = [queue EXCEPT ![p] = <<>>]
            /\ heard' = [heard EXCEPT ![app] = heard[app] \o queue[p] \o launcher.files[app]]
        BY <1>2, <2>3 DEF DotpidMessage
      <3> QED
        BY <2>0, <2>a, <3>1
    <2> QED
      BY <2>1, <2>2, <2>3
  <1>5. \A a \in Apps : a # app => heard'[a] = heard[a] /\ launcher'.files[a] = launcher.files[a]
    BY <1>0, <1>4
  <1>6. heard'[app] \o queue'[p] \o launcher'.files[app]
          = heard[app] \o queue[p] \o launcher.files[app]
    <2> DEFINE h == heard[app]
               q == queue[p]
               f == launcher.files[app]
    <2>1. \/ heard'[app] = h /\ queue'[p] = q \o f /\ launcher'.files[app] = <<>>
          \/ heard'[app] = h \o q /\ queue'[p] = <<>> /\ launcher'.files[app] = f
          \/ heard'[app] = h \o q \o f /\ queue'[p] = <<>> /\ launcher'.files[app] = <<>>
      BY <1>0, <1>4
    <2>2. h \in Seq(1..MaxMessages) /\ q \in Seq(1..MaxMessages) /\ f \in Seq(1..MaxMessages)
      BY <1>0, <1>3
    <2> HIDE DEF h, q, f
    <2>3. /\ h \o (q \o f) \o <<>> = h \o q \o f
          /\ (h \o q) \o <<>> \o f = h \o q \o f
          /\ (h \o q \o f) \o <<>> \o <<>> = h \o q \o f
      BY <2>2, Rearranged
    <2>4. heard'[app] \o queue'[p] \o launcher'.files[app] = h \o q \o f
      BY <2>1, <2>3, Zenon
    <2> QED
      BY <2>4 DEF h, q, f
  <1> QED
    BY <1>1, <1>2, <1>5, <1>6, MovedAccounted

\* A message that is routed comes last in the trail of its application
LEMMA RouteAccounted ==
    ASSUME AInv, RInv', NEW app \in Apps, Route(app)
    PROVE  AInv'
  <1> DEFINE N == Len(sent) + 1
  <1>0. /\ PidFacts /\ Trailed /\ sent \in Seq(Apps) /\ dropped \subseteq DOMAIN sent
        /\ Good(launcher) /\ launcher.files \in [Apps -> Seq(1..MaxMessages)]
        /\ \A a \in Apps : Account(Trail(a), For(sent, a), dropped)
    BY SettledTrailed, Parts, AccountedAs DEF AInv, RInv, OInv, IInv, Settled, Good
  <1>1. /\ N \in 1..MaxMessages /\ sent' = Append(sent, app) /\ N \in Nat
        /\ launcher' = RouteMessage(launcher, app, N)
        /\ UNCHANGED <<phase, name, queue, heard, dropped>>
    BY <1>0, LauncherBounds DEF Route, processes
  <1>2. /\ DOMAIN sent' = DOMAIN sent \cup {N} /\ sent'[N] = app /\ N \notin DOMAIN sent
        /\ \A n \in DOMAIN sent : sent'[n] = sent[n] /\ n < N
    BY <1>0, <1>1
  <1> HIDE DEF N
  <1>3. launcher'.files = [launcher.files EXCEPT ![app] = Append(launcher.files[app], N)]
    BY <1>0, <1>1, RouteMessageDoes DEF Routed, Filed
  <1>4. Settled'
    BY <1>1, <1>2 DEF AInv, Settled, Unnamed, QueueOpen, Pids
  <1>5. Trailed'
    BY <1>4, TrailedAlways, PTL DEF Settled
  <1>6. ASSUME NEW a \in Apps, a # app PROVE Account(Trail(a)', For(sent', a), dropped')
    <2>1. launcher'.files[a] = launcher.files[a] /\ heard'[a] = heard[a]
      BY <1>0, <1>1, <1>3, <1>6
    <2>2. Mine(a)' = Mine(a) /\ \A p \in Mine(a) : queue'[p] = queue[p]
      BY <1>1 DEF Mine, Pids
    <2>3. Trail(a)' = Trail(a)
      BY <1>0, <1>5, <2>1, <2>2, SameTrail
    <2>4. For(sent', a) = For(sent, a)
      BY <1>2, <1>6 DEF For
    <2> QED
      BY <1>0, <1>1, <2>3, <2>4
  <1>7. Account(Trail(app)', For(sent', app), dropped')
    <2> DEFINE h == heard[app]
               w == Waits(app)
               f == launcher.files[app]
    <2>1. /\ Trail(app) = h \o w \o f
          /\ h \in Seq(1..MaxMessages) /\ w \in Seq(1..MaxMessages) /\ f \in Seq(1..MaxMessages)
      BY <1>0 DEF Trailed
    <2>2. Waits(app)' = w
      BY <1>1 DEF Waits, Mine, Pids
    <2>3. Trail(app)' = heard'[app] \o Waits(app)' \o launcher'.files[app]
      BY <1>5 DEF Trailed
    <2>4. launcher'.files[app] = Append(f, N) /\ heard'[app] = h
      BY <1>0, <1>1, <1>3
    <2> HIDE DEF h, w, f
    <2>5. h \o w \in Seq(1..MaxMessages) /\ h \o w \o f \in Seq(1..MaxMessages)
      <3>1. h \o w \in Seq(1..MaxMessages)
        BY <2>1
      <3>2. h \o w \o f \in Seq(1..MaxMessages)
        BY <2>1
      <3> QED
        BY <3>1, <3>2
    <2>6. Trail(app)' = Append(Trail(app), N)
      <3>1. (h \o w) \o Append(f, N) = Append((h \o w) \o f, N)
        BY <1>1, <2>1
      <3> QED
        BY <2>1, <2>2, <2>3, <2>4, <3>1
    <2> DEFINE q == Trail(app)
    <2>7. q \in Seq(Nat)
      <3>1. 1..MaxMessages \subseteq Nat
        OBVIOUS
      <3>2. \A S, T : S \subseteq T => Seq(S) \subseteq Seq(T)
        OBVIOUS
      <3> QED
        BY <2>1, <2>5, <3>1, <3>2
    <2>8. Account(q, For(sent, app), dropped)
      BY <1>0
    <2>9. Trail(app)' = Append(q, N)
      BY <2>6
    <2> HIDE DEF q
    <2>10. \A y \in ToSet(q) : y < N
      BY <1>2, <2>8 DEF Account, For
    <2>11. Rising(Append(q, N)) /\ ToSet(Append(q, N)) = ToSet(q) \cup {N}
      BY <1>1, <2>7, <2>8, <2>10, RisingAppend DEF Account
    <2>12. For(sent', app) = For(sent, app) \cup {N}
      BY <1>2 DEF For
    <2>13. N \notin dropped
      BY <1>0, <1>2
    <2>14. Account(Append(q, N), For(sent, app) \cup {N}, dropped)
      BY <2>8, <2>11, <2>13 DEF Account
    <2> QED
      BY <1>1, <2>9, <2>12, <2>14
  <1>8. MessagesAccounted'
    <2>1. \A a \in Apps : Account(Trail(a)', For(sent', a), dropped')
      BY <1>6, <1>7
    <2> QED
      BY <2>1 DEF MessagesAccounted, Account, For, Rising
  <1> QED
    BY <1>4, <1>8 DEF AInv

\* What waited in a process leaves the trail when it is lost
LEMMA LostAccounted ==
    ASSUME NEW h \in Seq(Nat), NEW w \in Seq(Nat), NEW f \in Seq(Nat), NEW S, NEW d,
           Account(h \o w \o f, S, d)
    PROVE  Account(h \o <<>> \o f, S, d \cup ToSet(w)) /\ ToSet(w) \subseteq S
  <1>1. h \o w \in Seq(Nat) /\ h \o <<>> = h
    BY Joined
  <1>2. /\ Rising(h \o w) /\ Rising(f)
        /\ \A x \in ToSet(h \o w), y \in ToSet(f) : x < y
    BY <1>1, RisingJoined DEF Account
  <1>3. Rising(h) /\ Rising(w) /\ \A x \in ToSet(h), y \in ToSet(w) : x < y
    BY <1>2, RisingJoined
  <1>4. ToSet(h \o w) = ToSet(h) \cup ToSet(w)
    BY JoinedSet
  <1>5. /\ ToSet(h \o w \o f) = ToSet(h) \cup ToSet(w) \cup ToSet(f)
        /\ ToSet(h \o f) = ToSet(h) \cup ToSet(f)
    <2>1. \A u \in Seq(Nat) : ToSet(u \o f) = ToSet(u) \cup ToSet(f)
      BY JoinedSet
    <2> QED
      BY <1>1, <1>4, <2>1
  <1>6. ToSet(h) \subseteq Nat /\ ToSet(w) \subseteq Nat /\ ToSet(f) \subseteq Nat
    BY ElementsOf
  <1>7. \A x \in ToSet(w) : x \notin ToSet(h) /\ x \notin ToSet(f)
    BY <1>2, <1>3, <1>4, <1>6
  <1>8. Rising(h \o f)
    BY <1>2, <1>3, <1>4, RisingJoined
  <1>9. /\ ToSet(h \o w \o f) \cap d = {} /\ S \ d = ToSet(h \o w \o f)
    BY DEF Account
  <1> HIDE DEF Account
  <1>10. ToSet(h \o f) \cap (d \cup ToSet(w)) = {} /\ S \ (d \cup ToSet(w)) = ToSet(h \o f)
    BY <1>5, <1>7, <1>9
  <1>11. ToSet(w) \subseteq S
    BY <1>5, <1>9
  <1> QED
    BY <1>1, <1>8, <1>10, <1>11 DEF Account

\* What a process had queued dies with it
LEMMA EndsAccounted ==
    ASSUME AInv, RInv', NEW p \in Pids, Ends(p), launcher'.files = launcher.files,
           UNCHANGED <<name, heard, sent>>
    PROVE  AInv'
  <1> DEFINE lost == ToSet(queue[p])
  <1>0. /\ PidFacts /\ Trailed /\ dropped \subseteq DOMAIN sent
        /\ \A a \in Apps : Account(Trail(a), For(sent, a), dropped)
    BY SettledTrailed, AccountedAs DEF AInv, Settled
  <1>1. /\ phase'[p] = "dead" /\ queue'[p] = <<>> /\ dropped' = dropped \cup lost
        /\ \A q \in Pids \ {p} : phase'[q] = phase[q] /\ queue'[q] = queue[q]
    BY <1>0 DEF Ends, PidFacts, ProcessType
  <1>2. ASSUME dropped' \subseteq DOMAIN sent PROVE Settled' /\ Trailed'
    <2>1. Settled'
      BY <1>1, <1>2 DEF AInv, Settled, Unnamed, QueueOpen, Pids
    <2> QED
      BY <2>1, TrailedAlways, PTL DEF Settled
  <1>3. CASE ~Acts(phase[p])
    <2>1. queue[p] = <<>>
      BY <1>3 DEF AInv, Settled, QueueOpen, Acts
    <2>2. lost = {}
      <3>1. DOMAIN <<>> = {}
        OBVIOUS
      <3> QED
        BY <2>1, <3>1 DEF ToSet
    <2>3. dropped' = dropped
      BY <1>1, <2>2
    <2>4. Settled' /\ Trailed'
      BY <1>0, <1>2, <2>3
    <2>5. ASSUME NEW a \in Apps PROVE Trail(a)' = Trail(a)
      <3>1. \A q \in Pids : Acts(phase'[q]) <=> Acts(phase[q])
        BY <1>1, <1>3 DEF Acts
      <3>2. Mine(a)' = Mine(a)
        BY <3>1 DEF Mine, Pids
      <3>3. \A q \in Mine(a) : queue'[q] = queue[q]
        BY <1>1, <1>3 DEF Mine
      <3> QED
        BY <1>0, <2>4, <3>2, <3>3, SameTrail
    <2>6. MessagesAccounted'
      BY <2>3, <2>5, KeptAccounted DEF AInv
    <2> QED
      BY <2>4, <2>6 DEF AInv
  <1>4. CASE Acts(phase[p])
    <2>1. PICK app \in Apps : name[p] = app
      BY <1>4, SettledTrailed
    <2> DEFINE h == heard[app]
               w == queue[p]
               f == launcher.files[app]
    <2>2. p \in Mine(app)
      BY <1>4, <2>1 DEF Mine
    <2>3. /\ Trail(app) = h \o w \o f /\ Mine(app) = {p}
          /\ h \in Seq(1..MaxMessages) /\ w \in Seq(1..MaxMessages) /\ f \in Seq(1..MaxMessages)
      BY <1>0, <2>2 DEF Trailed
    <2>4. h \in Seq(Nat) /\ w \in Seq(Nat) /\ f \in Seq(Nat)
      <3>1. 1..MaxMessages \subseteq Nat
        OBVIOUS
      <3>2. \A S, T : S \subseteq T => Seq(S) \subseteq Seq(T)
        OBVIOUS
      <3> HIDE DEF h, w, f
      <3> QED
        BY <2>3, <3>1, <3>2
    <2>5. Account(h \o w \o f, For(sent, app), dropped)
      BY <1>0, <2>3
    <2>6. /\ Account(h \o <<>> \o f, For(sent, app), dropped \cup lost)
          /\ lost \subseteq For(sent, app)
      <3> HIDE DEF h, f
      <3> QED
        BY <2>4, <2>5, LostAccounted
    <2>7. Settled' /\ Trailed'
      BY <1>0, <1>1, <1>2, <2>6 DEF For
    <2>8. ASSUME NEW a \in Apps, a # app PROVE Account(Trail(a)', For(sent', a), dropped')
      <3>1. Trail(a)' = Trail(a)
        BY <1>0, <1>1, <2>1, <2>7, <2>8, OtherTrail
      <3>2. Account(Trail(a), For(sent, a), dropped)
        BY <1>0
      <3>3. For(sent, a) \cap lost = {}
        BY <2>6, <2>8 DEF For
      <3>4. Account(Trail(a), For(sent, a), dropped \cup lost)
        <4> HIDE DEF lost
        <4> QED
          BY <3>2, <3>3 DEF Account
      <3> QED
        BY <1>1, <3>1, <3>4
    <2>9. Account(Trail(app)', For(sent', app), dropped')
      <3>1. Mine(app)' = {}
        <4>1. \A q \in Pids : ~(Acts(phase'[q]) /\ name[q] = app)
          BY <1>1, <2>3 DEF Mine, Acts
        <4> QED
          BY <4>1 DEF Mine, Pids
      <3>2. Waits(app)' = <<>>
        BY <3>1 DEF Waits
      <3>3. Trail(app)' = heard'[app] \o Waits(app)' \o launcher'.files[app]
        BY <2>7 DEF Trailed
      <3>4. Trail(app)' = h \o <<>> \o f
        BY <3>2, <3>3
      <3> QED
        BY <1>1, <2>6, <3>4
    <2>10. MessagesAccounted'
      <3>1. \A a \in Apps : Account(Trail(a)', For(sent', a), dropped')
        BY <2>8, <2>9
      <3> QED
        BY <3>1 DEF MessagesAccounted, Account, For, Rising
    <2> QED
      BY <2>7, <2>10 DEF AInv
  <1> QED
    BY <1>3, <1>4

LEMMA ReadsAccounted ==
    ASSUME AInv, RInv', NEW p \in Pids, ServerReads(p) \/ Reap(p)
    PROVE  AInv'
  <1>0. PidFacts /\ launcher \in LauncherType /\ Good(launcher) /\ Placed(launcher)
        /\ p \in Nat \ {0}
    BY SettledTrailed DEF PidFacts
  <1>1. CASE ServerReads(p)
    <2>1. \/ launcher' = launcher
          \/ launcher' = Available(launcher, name[p], p)
          \/ launcher' = PoolAvailable(launcher, p)
      BY <1>1 DEF ServerReads
    <2>2. launcher'.files = launcher.files
      BY <1>0, <2>1, AvailablePlaces, PoolAvailablePlaces
    <2> QED
      BY <1>1, <2>2, QuietAccounted DEF ServerReads, processes, history
  <1>2. CASE Reap(p)
    <2>1. ASSUME launcher' = PoolExited(launcher, p)
          PROVE  launcher'.files = launcher.files
      BY <1>0, <2>1 DEF PoolExited, Respawn, LauncherType
    <2>2. ASSUME NEW k \in Kinds, NEW app \in Apps, launcher.entries[k][app].pid = p,
                 launcher' = AppGone(launcher, k, app)
          PROVE  launcher'.files = launcher.files
      BY <1>0, <2>2, AppGoneMoves
    <2>3. launcher'.files = launcher.files
      BY <1>2, <2>1, <2>2 DEF Reap
    <2>4. \A q \in Pids : phase'[q] = phase[q] \/ (phase[q] = "dead" /\ phase'[q] = "reaped")
      BY <1>0, <1>2 DEF Reap, PidFacts, ProcessType
    <2> QED
      BY <1>2, <2>3, <2>4, QuietAccounted DEF Reap
  <1> QED
    BY <1>1, <1>2

LEMMA OtherAccounted ==
    ASSUME AInv, RInv',
           RespawnShot \/ Dispatch \/ UNCHANGED vars \/ \E p \in Pids : BootQuick(p)
    PROVE  AInv'
  <1>0. PidFacts /\ launcher \in LauncherType
    BY SettledTrailed DEF PidFacts
  <1>1. ASSUME RespawnShot \/ Dispatch \/ UNCHANGED vars PROVE AInv'
    <2>1. launcher'.files = launcher.files
      BY <1>0, <1>1 DEF RespawnShot, StartNewQuicklauncher, Spawn, Dispatch, LauncherType, vars
    <2>2. UNCHANGED <<phase, name, queue, heard, sent, dropped>>
      BY <1>1 DEF RespawnShot, Dispatch, processes, history, vars
    <2> QED
      BY <2>1, <2>2, QuietAccounted
  <1>2. ASSUME NEW p \in Pids, BootQuick(p) PROVE AInv'
    <2>1. /\ UNCHANGED <<launcher, name, queue, heard, sent, dropped>>
          /\ phase[p] = "new" /\ phase'[p] = "idle"
          /\ \A q \in Pids \ {p} : phase'[q] = phase[q]
      BY <1>0, <1>2 DEF BootQuick, history, PidFacts, ProcessType
    <2>2. Settled'
      BY <2>1 DEF AInv, Settled, Unnamed, QueueOpen, Pids
    <2>3. Trailed /\ Trailed'
      <3>1. Trailed'
        BY <2>2, TrailedAlways, PTL DEF Settled
      <3> QED
        BY <3>1, SettledTrailed
    <2>4. ASSUME NEW a \in Apps PROVE Trail(a)' = Trail(a)
      <3>1. \A q \in Pids : Acts(phase'[q]) <=> Acts(phase[q])
        BY <2>1 DEF Acts
      <3>2. Mine(a)' = Mine(a)
        BY <2>1, <3>1 DEF Mine, Pids
      <3> QED
        BY <2>1, <2>3, <3>2, SameTrail
    <2>5. MessagesAccounted'
      BY <2>1, <2>4, KeptAccounted DEF AInv
    <2> QED
      BY <2>2, <2>5 DEF AInv
  <1> QED
    BY <1>1, <1>2

LEMMA BootAccounted ==
    ASSUME AInv, RInv', NEW p \in Pids, Boot(p) \/ IdleReads(p)
    PROVE  AInv'
  <1>1. CASE Boot(p)
    <2>1. PICK app \in Apps : app = launcher.spawned[p]
      BY <1>1 DEF Boot
    <2> QED
      BY <1>1, <2>1, InitAppAccounted DEF Boot, history
  <1>2. CASE IdleReads(p)
    <2>1. UNCHANGED <<launcher, queue, heard, sent, dropped>> /\ phase[p] = "idle"
      BY <1>2 DEF IdleReads, history
    <2>2. CASE UNCHANGED <<phase, name, wire>>
      BY <2>1, <2>2, QuietAccounted
    <2>3. CASE /\ Head(inbox[p]) \in Apps
               /\ InitApp(p, Head(inbox[p]), <<Says("quick", "detach"), Says("pid", "detach")>>)
      BY <2>1, <2>3, InitAppAccounted
    <2> QED
      BY <1>2, <2>2, <2>3 DEF IdleReads
  <1> QED
    BY <1>1, <1>2

LEMMA DeathAccounted ==
    ASSUME AInv, RInv', (\E p \in Pids : Dies(p)) \/ (\E app \in Apps : KillApp(app))
    PROVE  AInv'
  <1>0. PidFacts /\ Started \subseteq Pids /\ launcher \in LauncherType
    BY SettledTrailed DEF PidFacts
  <1>1. ASSUME NEW p \in Pids, Dies(p) PROVE AInv'
    BY <1>1, EndsAccounted DEF Dies
  <1>2. ASSUME NEW app \in Apps, KillApp(app) PROVE AInv'
    <2> DEFINE pid == KilledPid(launcher, app)
    <2>1. launcher'.files = launcher.files /\ UNCHANGED <<name, heard, sent>>
      BY <1>0, <1>2 DEF KillApp, Kill, LauncherType
    <2>2. CASE pid # 0 /\ Alive(pid)
      <3>1. Ends(pid) /\ pid \in Pids
        BY <1>0, <1>2, <2>2 DEF KillApp, Alive
      <3> HIDE DEF pid
      <3> QED
        BY <2>1, <3>1, EndsAccounted
    <2>3. CASE ~(pid # 0 /\ Alive(pid))
      <3>1. UNCHANGED <<phase, queue, dropped>>
        BY <1>2, <2>3 DEF KillApp
      <3> QED
        BY <2>1, <3>1, QuietAccounted
    <2> QED
      BY <2>2, <2>3
  <1> QED
    BY <1>1, <1>2

LEMMA InitAccounted == Init => AInv
  <1> SUFFICES ASSUME Init PROVE AInv
    OBVIOUS
  <1>1. RInv
    BY InitReady
  <1>2. /\ \A p \in Pids : phase[p] = "new" /\ name[p] = "quicklauncher" /\ queue[p] = <<>>
        /\ sent = <<>> /\ dropped = {}
        /\ \A app \in Apps : heard[app] = <<>> /\ launcher.files[app] = <<>>
    BY DEF Init, LauncherInit
  <1>3. Settled
    BY <1>2 DEF Settled, Unnamed, QueueOpen
  <1>4. Trailed
    BY <1>1, <1>3, TrailedAlways DEF Settled
  <1>5. DOMAIN <<>> = {}
    OBVIOUS
  <1>6. Account(<<>>, {}, {})
    BY <1>5 DEF Account, Rising, ToSet
  <1>7. ASSUME NEW app \in Apps PROVE Account(Trail(app), For(sent, app), dropped)
    <2>1. Mine(app) = {}
      BY <1>2 DEF Mine, Acts
    <2>2. Waits(app) = <<>>
      BY <2>1 DEF Waits
    <2>3. Trail(app) = <<>> \o <<>> \o <<>>
      BY <1>2, <1>4, <2>2 DEF Trailed
    <2>4. Trail(app) = <<>>
      <3>1. <<>> \o <<>> = <<>>
        OBVIOUS
      <3> QED
        BY <2>3, <3>1
    <2>5. For(sent, app) = {}
      BY <1>2, <1>5 DEF For
    <2> QED
      BY <1>2, <1>6, <2>4, <2>5
  <1>8. MessagesAccounted
    BY <1>7, AccountedAs
  <1> QED
    BY <1>1, <1>3, <1>8 DEF AInv

LEMMA StepAccounted == AInv /\ RInv' /\ [Next]_vars => AInv'
  <1> SUFFICES ASSUME AInv, RInv', [Next]_vars PROVE AInv'
    OBVIOUS
  <1> QED
    BY RouteAccounted, ReadsAccounted, OtherAccounted, BootAccounted, ReadAccounted,
       DeathAccounted DEF Next, Progress

\* Every message routed to an application is acted upon, waits in its process
\* or waits in its file, in the order of the routing, once, or died with a
\* process, however the application is started, killed or started again
\* meanwhile (QCopRouter::routeMessage(), ExeApplicationLauncher::routeMessage(),
\* QtopiaApplication::processQCopFile(), sendQCopQ(), dotpidMessage()).
THEOREM MessagesAreAccounted == Spec => []MessagesAccounted
  <1>1. AInv => MessagesAccounted
    BY DEF AInv
  <1> QED
    BY <1>1, InitOwned, StepOwned, InitReady, StepReady, InitAccounted, StepAccounted, PTL DEF Spec
=============================================================================
