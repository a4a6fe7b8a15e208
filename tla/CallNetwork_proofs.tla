------------------------- MODULE CallNetwork_proofs -------------------------
(***************************************************************************)
(* The calls of the AT modem on the network: their types, one announced    *)
(* call at a time that is watched, and the identifiers of the modem, for   *)
(* every number of requests, callers and refused commands.  The handlers   *)
(* of ModemCalls come first, each with what it does to the calls and to    *)
(* the queue; then the steps of the composition.                           *)
(***************************************************************************)
EXTENDS CallNetwork, TLAPS, WellFoundedInduction, FiniteSetTheorems, SequenceTheorems

-----------------------------------------------------------------------------
\* The calls of a list that are in some states

LEMMA Least ==
  ASSUME NEW T \in SUBSET Nat, T # {}
  PROVE  \E x \in T : \A y \in T : x <= y
  <1>1. PICK x \in T : \A y \in T : ~(<<y, x>> \in OpToRel(<, Nat))
    BY WFMin, NatLessThanWellFounded, Zenon
  <1>2. \A y \in T : ~(y < x)
    BY <1>1 DEF OpToRel
  <1> QED
    BY <1>2

Keeps(kept, cs, some, n) ==
  kept = [k \in 0 .. n |-> IF k = 0 THEN <<>>
                           ELSE IF cs[k].state \in some THEN Append(kept[k - 1], cs[k])
                           ELSE kept[k - 1]]

LEMMA KeptExists ==
  ASSUME NEW cs, NEW some, NEW n \in Nat
  PROVE  \E kept : Keeps(kept, cs, some, n)
  <1> DEFINE T == {m \in Nat : ~ \E kept : Keeps(kept, cs, some, m)}
  <1>1. SUFFICES ASSUME T # {} PROVE FALSE
    BY Zenon
  <1>2. PICK m \in T : \A y \in T : m <= y
    BY <1>1, Least
  <1>3. m # 0
    <2>1. Keeps([k \in 0 .. 0 |-> <<>>], cs, some, 0)
      BY DEF Keeps
    <2> QED
      BY <1>2, <2>1
  <1>4. m - 1 \in Nat /\ m - 1 \notin T
    BY <1>2, <1>3
  <1>5. PICK g : Keeps(g, cs, some, m - 1)
    BY <1>4
  <1> DEFINE Step(acc, k) == IF cs[k].state \in some THEN Append(acc, cs[k]) ELSE acc
             h == [k \in 0 .. m |-> IF k = m THEN Step(g[m - 1], m) ELSE g[k]]
  <1>6. \A k \in 0 .. (m - 1) : g[k] = IF k = 0 THEN <<>> ELSE Step(g[k - 1], k)
    BY <1>5, <1>4 DEF Keeps
  <1>7. ASSUME NEW k \in 0 .. m
        PROVE  h[k] = IF k = 0 THEN <<>> ELSE Step(h[k - 1], k)
    <2>1. CASE k = 0
      BY <2>1, <1>3, <1>4, <1>6
    <2>2. CASE k = m
      BY <2>2, <1>3, <1>4
    <2>3. CASE k \in 1 .. (m - 1)
      <3>1. h[k] = g[k] /\ h[k - 1] = g[k - 1]
        BY <2>3, <1>4
      <3> QED
        BY <3>1, <2>3, <1>6
    <2> QED
      BY <2>1, <2>2, <2>3, <1>4
  <1>8. Keeps(h, cs, some, m)
    BY <1>7, Zenon DEF Keeps
  <1> QED
    BY <1>2, <1>8

LEMMA ThoseKept ==
  ASSUME NEW cs, NEW some, Len(cs) \in Nat
  PROVE  \E kept : Those(cs, some) = kept[Len(cs)] /\ Keeps(kept, cs, some, Len(cs))
  <1> DEFINE K == CHOOSE kept : Keeps(kept, cs, some, Len(cs))
  <1>1. Keeps(K, cs, some, Len(cs))
    BY KeptExists, Zenon
  <1>2. Those(cs, some) = K[Len(cs)]
    BY Zenon DEF Those, Keeps
  <1> QED
    BY <1>1, <1>2

RawStates == States \cup Over \cup {"Swapping"}
RawCalls == [key : Nat, state : RawStates, id : Ids \cup {0}, poll : BOOLEAN]
Keyed(cs) == \A i, j \in DOMAIN cs : cs[i].key = cs[j].key => i = j

LEMMA AppendSet ==
  ASSUME NEW S, NEW s \in Seq(S), NEW x
  PROVE  ToSet(Append(s, x)) = ToSet(s) \cup {x}
  <1>1. DOMAIN Append(s, x) = 1 .. (Len(s) + 1) /\ DOMAIN s = 1 .. Len(s) /\ Len(s) \in Nat
    OBVIOUS
  <1>2. Append(s, x)[Len(s) + 1] = x /\ \A i \in 1 .. Len(s) : Append(s, x)[i] = s[i]
    OBVIOUS
  <1> QED
    BY <1>1, <1>2 DEF ToSet

LEMMA AppendKeyed ==
  ASSUME NEW S, NEW s \in Seq(S), NEW x, Keyed(s), \A c \in ToSet(s) : c.key # x.key
  PROVE  Keyed(Append(s, x))
  <1>1. DOMAIN Append(s, x) = 1 .. (Len(s) + 1) /\ DOMAIN s = 1 .. Len(s) /\ Len(s) \in Nat
    OBVIOUS
  <1>2. Append(s, x)[Len(s) + 1] = x /\ \A i \in 1 .. Len(s) : Append(s, x)[i] = s[i]
    OBVIOUS
  <1>3. \A i \in 1 .. Len(s) : s[i].key # x.key
    BY <1>1 DEF ToSet
  <1> QED
    BY <1>1, <1>2, <1>3 DEF Keyed

LEMMA ThoseProperties ==
  ASSUME NEW S, NEW cs \in Seq(S), NEW some
  PROVE  /\ Those(cs, some) \in Seq(S)
         /\ Those(cs, some) \in Seq({c \in S : c.state \in some})
         /\ ToSet(Those(cs, some)) = {c \in ToSet(cs) : c.state \in some}
         /\ Keyed(cs) => Keyed(Those(cs, some))
  <1> DEFINE R == {c \in S : c.state \in some}
  <1>0. Len(cs) \in Nat /\ DOMAIN cs = 1 .. Len(cs)
    OBVIOUS
  <1>1. PICK kept : Those(cs, some) = kept[Len(cs)] /\ Keeps(kept, cs, some, Len(cs))
    BY <1>0, ThoseKept
  <1> DEFINE Upto(n) == {c \in S : \E i \in 1 .. n : c = cs[i] /\ c.state \in some}
             P(n) == /\ kept[n] \in Seq(R)
                     /\ ToSet(kept[n]) = Upto(n)
                     /\ Keyed(cs) => Keyed(kept[n])
             T == {n \in 0 .. Len(cs) : ~P(n)}
  <1>3. T = {}
    <2>1. SUFFICES ASSUME T # {} PROVE FALSE
      BY Zenon
    <2>2. PICK n \in T : \A y \in T : n <= y
      <3>1. T \in SUBSET Nat
        BY <1>0
      <3> QED
        BY <2>1, <3>1, Least
    <2>3. kept[0] = <<>>
      BY <1>1, <1>0 DEF Keeps
    <2>4. n # 0
      <3>1. DOMAIN kept[0] = {} /\ kept[0] \in Seq(R)
        BY <2>3
      <3>2. Upto(0) = {}
        OBVIOUS
      <3>3. P(0)
        BY <3>1, <3>2 DEF ToSet, Keyed
      <3> QED
        BY <2>2, <3>3
    <2>5. n - 1 \in 0 .. Len(cs) /\ P(n - 1)
      <3> HIDE DEF P
      <3>1. n - 1 \in 0 .. Len(cs) /\ ~(n <= n - 1)
        BY <2>2, <2>4, <1>0
      <3> QED
        BY <3>1, <2>2
    <2>6. kept[n] = IF cs[n].state \in some THEN Append(kept[n - 1], cs[n]) ELSE kept[n - 1]
      BY <1>1, <1>0, <2>2, <2>4 DEF Keeps
    <2>10. n \in 1 .. Len(cs) /\ cs[n] \in S
      <3> HIDE DEF P
      <3> QED
        BY <2>2, <2>4, <1>0
    <2>7. 1 .. n = (1 .. (n - 1)) \cup {n}
      BY <2>10, <1>0
    <2>8. CASE cs[n].state \notin some
      <3>1. Upto(n) = Upto(n - 1)
        BY <2>7, <2>8
      <3> QED
        BY <2>8, <2>2, <2>5, <2>6, <3>1
    <2>9. CASE cs[n].state \in some
      <3> DEFINE s == kept[n - 1]
      <3>1. s \in Seq(R) /\ kept[n] = Append(s, cs[n]) /\ cs[n] \in R
        BY <2>9, <2>5, <2>6, <2>10
      <3>2. kept[n] \in Seq(R) /\ ToSet(kept[n]) = ToSet(s) \cup {cs[n]}
        BY <3>1, AppendSet
      <3>3. ASSUME Keyed(cs) PROVE Keyed(kept[n])
        <4>1. \A c \in ToSet(s) : \E j \in 1 .. (n - 1) : c = cs[j]
          BY <2>5
        <4>2. \A c \in ToSet(s) : c.key # cs[n].key
          BY <4>1, <3>3, <2>10, <1>0 DEF Keyed
        <4>3. Keyed(s)
          BY <2>5, <3>3
        <4> HIDE DEF s
        <4> QED
          BY <4>2, <4>3, <3>1, AppendKeyed
      <3>4. Upto(n) = Upto(n - 1) \cup {cs[n]}
        BY <2>7, <2>9, <2>10
      <3>5. ToSet(s) = Upto(n - 1)
        BY <2>5
      <3> QED
        BY <3>2, <3>3, <3>4, <3>5, <2>2
    <2> QED
      BY <2>8, <2>9
  <1>4. P(Len(cs))
    <2> HIDE DEF P
    <2> QED
      BY <1>0, <1>3
  <1>5. {c \in ToSet(cs) : c.state \in some} = Upto(Len(cs))
    BY <1>0 DEF ToSet
  <1>6. \A r \in Seq(R) : r \in Seq(S)
    OBVIOUS
  <1> QED
    BY <1>1, <1>4, <1>5, <1>6

-----------------------------------------------------------------------------
\* The calls of the provider in the middle of a handler

Listed(cs) == cs \in Seq(RawCalls) /\ Keyed(cs)

\* ds is cs with other states
Restates(ds, cs) ==
  /\ Listed(ds)
  /\ DOMAIN ds = DOMAIN cs
  /\ \A i \in DOMAIN cs :
       ds[i].key = cs[i].key /\ ds[i].id = cs[i].id /\ ds[i].poll = cs[i].poll

LEMMA StatesDiffer ==
  /\ States \subseteq RawStates /\ Over \subseteq RawStates /\ "Swapping" \in RawStates
  /\ States \cap Over = {} /\ "Swapping" \notin States
  /\ Call \subseteq RawCalls
  BY DEF RawStates, RawCalls, Call, States, Over

LEMMA RestateOne ==
  ASSUME NEW c \in RawCalls, NEW new \in RawStates
  PROVE  /\ [c EXCEPT !.state = new] \in RawCalls
         /\ [c EXCEPT !.state = new].state = new
         /\ [c EXCEPT !.state = new].key = c.key
         /\ [c EXCEPT !.state = new].id = c.id
         /\ [c EXCEPT !.state = new].poll = c.poll
  BY DEF RawCalls

LEMMA ListedCall ==
  ASSUME NEW cs, Listed(cs)
  PROVE  /\ Len(cs) \in Nat /\ DOMAIN cs = 1 .. Len(cs)
         /\ \A i \in DOMAIN cs : cs[i] \in RawCalls
         /\ \A i, j \in DOMAIN cs : cs[i].key = cs[j].key => i = j
  BY DEF Listed, Keyed

LEMMA RestateAll ==
  ASSUME NEW cs, Listed(cs), NEW ds, ds = [i \in DOMAIN cs |-> ds[i]],
         \A i \in DOMAIN cs : /\ ds[i] \in RawCalls
                              /\ ds[i].key = cs[i].key /\ ds[i].id = cs[i].id
                              /\ ds[i].poll = cs[i].poll
  PROVE  Restates(ds, cs)
  <1>1. ds \in Seq(RawCalls) /\ DOMAIN ds = DOMAIN cs
    BY ListedCall
  <1> QED
    BY <1>1, ListedCall DEF Restates, Listed, Keyed

LEMMA ChangeGroupIs ==
  ASSUME NEW cs, Listed(cs), NEW old, NEW new \in RawStates
  PROVE  /\ Restates(ChangeGroup(cs, old, new), cs)
         /\ \A i \in DOMAIN cs : ChangeGroup(cs, old, new)[i].state
                                   = IF cs[i].state = old THEN new ELSE cs[i].state
  <1> DEFINE ds == ChangeGroup(cs, old, new)
  <1>1. /\ ds = [i \in DOMAIN cs |-> ds[i]]
        /\ \A i \in DOMAIN cs : ds[i] = IF cs[i].state = old THEN [cs[i] EXCEPT !.state = new]
                                                              ELSE cs[i]
    BY DEF ChangeGroup
  <1> HIDE DEF ds
  <1>2. ASSUME NEW i \in DOMAIN cs
        PROVE  /\ ds[i] \in RawCalls
               /\ ds[i].key = cs[i].key /\ ds[i].id = cs[i].id /\ ds[i].poll = cs[i].poll
               /\ ds[i].state = IF cs[i].state = old THEN new ELSE cs[i].state
    <2>1. cs[i] \in RawCalls
      BY ListedCall
    <2>2. CASE cs[i].state = old
      <3>1. ds[i] = [cs[i] EXCEPT !.state = new]
        BY <1>1, <2>2
      <3> QED
        BY <2>1, <2>2, <3>1, RestateOne
    <2>3. CASE ~(cs[i].state = old)
      BY <1>1, <2>1, <2>3
    <2> QED
      BY <2>2, <2>3
  <1>3. Restates(ds, cs)
    BY <1>1, <1>2, RestateAll
  <1> QED
    BY <1>2, <1>3 DEF ds

LEMMA SetStateIs ==
  ASSUME NEW cs, Listed(cs), NEW key, NEW new \in RawStates
  PROVE  /\ Restates(SetState(cs, key, new), cs)
         /\ \A i \in DOMAIN cs : SetState(cs, key, new)[i].state
                                   = IF cs[i].key = key THEN new ELSE cs[i].state
  <1> DEFINE ds == SetState(cs, key, new)
  <1>1. /\ ds = [i \in DOMAIN cs |-> ds[i]]
        /\ \A i \in DOMAIN cs : ds[i] = IF cs[i].key = key THEN [cs[i] EXCEPT !.state = new]
                                                            ELSE cs[i]
    BY DEF SetState
  <1> HIDE DEF ds
  <1>2. ASSUME NEW i \in DOMAIN cs
        PROVE  /\ ds[i] \in RawCalls
               /\ ds[i].key = cs[i].key /\ ds[i].id = cs[i].id /\ ds[i].poll = cs[i].poll
               /\ ds[i].state = IF cs[i].key = key THEN new ELSE cs[i].state
    <2>1. cs[i] \in RawCalls
      BY ListedCall
    <2>2. CASE cs[i].key = key
      <3>1. ds[i] = [cs[i] EXCEPT !.state = new]
        BY <1>1, <2>2
      <3> QED
        BY <2>1, <2>2, <3>1, RestateOne
    <2>3. CASE ~(cs[i].key = key)
      BY <1>1, <2>1, <2>3
    <2> QED
      BY <2>2, <2>3
  <1>3. Restates(ds, cs)
    BY <1>1, <1>2, RestateAll
  <1> QED
    BY <1>2, <1>3 DEF ds

LEMMA RestatesTrans ==
  ASSUME NEW cs, NEW ds, NEW es, Restates(ds, cs), Restates(es, ds)
  PROVE  Restates(es, cs)
  BY DEF Restates

\* Head(Group(cs, "Incoming")) is one of the calls of the group
LEMMA FirstOfGroup ==
  ASSUME NEW cs, Listed(cs), NEW state, HasGroup(cs, state)
  PROVE  \E i \in DOMAIN cs : cs[i].state = state /\ Head(Group(cs, state)).key = cs[i].key
  <1> DEFINE g == Group(cs, state)
  <1>1. g \in Seq(RawCalls) /\ ToSet(g) = {c \in ToSet(cs) : c.state \in {state}}
    <2>1. cs \in Seq(RawCalls)
      BY DEF Listed
    <2> DEFINE some == {state}
    <2>2. Those(cs, some) \in Seq(RawCalls) /\ ToSet(Those(cs, some)) = {c \in ToSet(cs) : c.state \in some}
      <3> HIDE DEF some
      <3>1. /\ Those(cs, some) \in Seq(RawCalls)
            /\ Those(cs, some) \in Seq({c \in RawCalls : c.state \in some})
            /\ ToSet(Those(cs, some)) = {c \in ToSet(cs) : c.state \in some}
            /\ Keyed(cs) => Keyed(Those(cs, some))
        BY <2>1, ThoseProperties, Zenon
      <3> QED
        BY <3>1, Zenon
    <2> QED
      BY <2>2 DEF Group
  <1>2. PICK i \in DOMAIN cs : cs[i].state = state
    BY DEF HasGroup
  <1>3. cs[i] \in ToSet(g)
    BY <1>1, <1>2 DEF ToSet
  <1> HIDE DEF g
  <1>4. Head(g) \in ToSet(g)
    BY <1>1, <1>3 DEF ToSet
  <1>5. Head(g) \in ToSet(cs) /\ Head(g).state = state
    BY <1>1, <1>4
  <1> QED
    BY <1>5 DEF ToSet, g

LEMMA ActivateIs ==
  ASSUME NEW cs, Listed(cs)
  PROVE  /\ Restates(ActivateWaitingOrHeld(cs), cs)
         /\ \A i \in DOMAIN cs :
              LET new == ActivateWaitingOrHeld(cs)[i].state IN
              \/ new = cs[i].state
              \/ new = "Connected" /\ cs[i].state = "Incoming"
              \/ new = "Connected" /\ cs[i].state = "Hold" /\ ~HasGroup(cs, "Incoming")
         /\ HasGroup(cs, "Incoming") =>
              \E i \in DOMAIN cs : cs[i].state = "Incoming" /\ ActivateWaitingOrHeld(cs)[i].state = "Connected"
         /\ ~HasGroup(cs, "Incoming") => ActivateWaitingOrHeld(cs) = ChangeGroup(cs, "Hold", "Connected")
  <1>1. "Connected" \in RawStates
    BY DEF RawStates, States
  <1>2. CASE HasGroup(cs, "Incoming")
    <2>1. PICK i \in DOMAIN cs : cs[i].state = "Incoming" /\ Head(Group(cs, "Incoming")).key = cs[i].key
      BY <1>2, FirstOfGroup
    <2>2. ActivateWaitingOrHeld(cs) = SetState(cs, cs[i].key, "Connected")
      BY <1>2, <2>1 DEF ActivateWaitingOrHeld
    <2>3. /\ Restates(SetState(cs, cs[i].key, "Connected"), cs)
          /\ \A j \in DOMAIN cs : SetState(cs, cs[i].key, "Connected")[j].state
                                   = IF cs[j].key = cs[i].key THEN "Connected" ELSE cs[j].state
      BY <1>1, SetStateIs
    <2>4. \A j \in DOMAIN cs : cs[j].key = cs[i].key => j = i
      BY ListedCall
    <2> QED
      BY <1>2, <2>1, <2>2, <2>3, <2>4
  <1>3. CASE ~HasGroup(cs, "Incoming")
    <2>1. ActivateWaitingOrHeld(cs) = ChangeGroup(cs, "Hold", "Connected")
      BY <1>3 DEF ActivateWaitingOrHeld
    <2> QED
      BY <1>1, <1>3, <2>1, ChangeGroupIs
  <1> QED
    BY <1>2, <1>3

LEMMA SwapIs ==
  ASSUME NEW cs, Listed(cs), \A i \in DOMAIN cs : cs[i].state # "Swapping"
  PROVE  /\ Restates(Swap(cs), cs)
         /\ \A i \in DOMAIN cs :
              LET new == Swap(cs)[i].state IN
              \/ new = "Hold" /\ cs[i].state = "Connected"
              \/ new = cs[i].state /\ cs[i].state # "Connected"
              \/ new = "Connected" /\ cs[i].state = "Incoming"
              \/ new = "Connected" /\ cs[i].state = "Hold" /\ ~HasGroup(cs, "Incoming")
         /\ HasGroup(cs, "Incoming") =>
              \E i \in DOMAIN cs : cs[i].state = "Incoming" /\ Swap(cs)[i].state = "Connected"
         /\ ~HasGroup(cs, "Incoming") =>
              \A i \in DOMAIN cs : cs[i].state = "Hold" => Swap(cs)[i].state = "Connected"
  <1> DEFINE a == ChangeGroup(cs, "Connected", "Swapping")
             b == ActivateWaitingOrHeld(a)
             d == ChangeGroup(b, "Swapping", "Hold")
  <1>0. {"Connected", "Swapping", "Hold"} \subseteq RawStates
    BY DEF RawStates, States
  <1>1. /\ Restates(a, cs)
        /\ \A i \in DOMAIN cs : a[i].state = IF cs[i].state = "Connected" THEN "Swapping" ELSE cs[i].state
    BY <1>0, ChangeGroupIs
  <1>2. Listed(a) /\ DOMAIN a = DOMAIN cs
    BY <1>1 DEF Restates
  <1> HIDE DEF a
  <1>3. HasGroup(a, "Incoming") <=> HasGroup(cs, "Incoming")
    BY <1>1, <1>2 DEF HasGroup
  <1>4. /\ Restates(b, a)
        /\ \A i \in DOMAIN a : LET new == b[i].state IN
              \/ new = a[i].state
              \/ new = "Connected" /\ a[i].state = "Incoming"
              \/ new = "Connected" /\ a[i].state = "Hold" /\ ~HasGroup(a, "Incoming")
        /\ HasGroup(a, "Incoming") =>
              \E i \in DOMAIN a : a[i].state = "Incoming" /\ b[i].state = "Connected"
        /\ ~HasGroup(a, "Incoming") => b = ChangeGroup(a, "Hold", "Connected")
    BY <1>2, ActivateIs
  <1>5. ~HasGroup(a, "Incoming") => \A i \in DOMAIN a : a[i].state = "Hold" => b[i].state = "Connected"
    BY <1>0, <1>2, <1>4, ChangeGroupIs
  <1>6. Listed(b) /\ DOMAIN b = DOMAIN cs
    BY <1>4, <1>2 DEF Restates
  <1> HIDE DEF b
  <1>7. /\ Restates(d, b)
        /\ \A i \in DOMAIN b : d[i].state = IF b[i].state = "Swapping" THEN "Hold" ELSE b[i].state
    BY <1>0, <1>6, ChangeGroupIs
  <1>8. Swap(cs) = d
    BY DEF Swap, a, b
  <1> HIDE DEF d
  <1>9. Restates(d, cs)
    BY <1>1, <1>4, <1>7, RestatesTrans
  <1> QED
    BY <1>1, <1>2, <1>3, <1>4, <1>5, <1>6, <1>7, <1>8, <1>9

-----------------------------------------------------------------------------
\* What the variables hold

Slots == {"none", "dialRequestDone", "acceptDone", "holdRequestDone",
          "activateSingleRequestDone", "activateMultipleRequestDone",
          "joinRequestDone", "detachRequestDone", "clccIncoming", "clccDialCheck"}
Ats == {"ATD", "ATA", "CHLD0", "CHLD1", "CHLD1x", "CHLD2", "CHLD2x", "CHLD3", "CHLD4",
        "CTFR", "CLCC"}
Commands == [at : Ats, id : Ids \cup {0}, slot : Slots, key : Nat]
Sents == [at : Ats, id : Ids \cup {0}]
FarCalls == [id : Ids, stat : Stats]
Lines == [kind : {"ring"}, known : BOOLEAN]
           \cup [kind : {"answer"}, ok : BOOLEAN, list : SUBSET FarCalls]
           \cup [kind : {"nocarrier"}]
Swaps == {"holdRequestDone", "activateMultipleRequestDone"}
Early == {"Incoming", "Dialing"}
DialSlots == {"dialRequestDone", "clccDialCheck"}

\* The slots know what was asked
CmdOk(c) ==
  /\ c.slot = "acceptDone" => c.at \in {"ATA", "CHLD2"}
  /\ c.slot \in Swaps => c.at = "CHLD2"
  /\ (c.slot \in {"clccIncoming", "clccDialCheck"}) <=> (c.at = "CLCC")
  /\ (c.slot = "dialRequestDone") <=> (c.at = "ATD")

CallsTyped ==
  /\ calls \in Seq(Call)
  /\ \A i, j \in DOMAIN calls : calls[i].key = calls[j].key => i = j
  /\ \A i \in DOMAIN calls : calls[i].poll => calls[i].state = "Dialing"

QueueTyped ==
  /\ cmds \in Seq(Commands) /\ wire \in Seq(Sents)
  /\ \A j \in DOMAIN cmds : CmdOk(cmds[j])
  /\ \A j, k \in DOMAIN cmds :
       cmds[j].slot \in DialSlots /\ cmds[k].slot \in DialSlots /\ cmds[j].key = cmds[k].key
         => j = k

\* A call waits for the timer or for an answer, and only a connected one is activated
Waiting ==
  \A c \in AnyCall, j \in DOMAIN cmds : cmds[j].key = c.key =>
     /\ cmds[j].slot \in DialSlots => ~c.poll
     /\ cmds[j].slot = "activateSingleRequestDone" => c.state \notin Early

Typed == TypeOK /\ QueueTyped /\ Waiting /\ line \in Seq(Lines)

LEMMA CallsAre ==
  ASSUME CallsTyped
  PROVE  /\ Listed(calls)
         /\ Len(calls) \in Nat /\ DOMAIN calls = 1 .. Len(calls)
         /\ \A i \in DOMAIN calls : calls[i] \in Call /\ calls[i] \in AnyCall
         /\ AnyCall \subseteq Call
         /\ AnyCall = ToSet(calls)
         /\ \A c, d \in AnyCall : c.key = d.key => c = d
         /\ \A c \in AnyCall : c.poll => c.state = "Dialing"
  <1>1. calls \in Seq(RawCalls)
    BY StatesDiffer DEF CallsTyped
  <1>2. Listed(calls)
    BY <1>1 DEF Listed, Keyed, CallsTyped
  <1>3. calls \in Seq(Call)
    BY DEF CallsTyped
  <1> QED
    BY <1>2, <1>3 DEF CallsTyped, AnyCall, ToSet

LEMMA Counted ==
  ASSUME NEW k \in Nat
  PROVE  IsFiniteSet(1 .. k) /\ Cardinality(1 .. k) = k
  <1>1. 1 \in Int /\ k \in Int
    OBVIOUS
  <1>2. IsFiniteSet(1 .. k) /\ Cardinality(1 .. k) = IF 1 > k THEN 0 ELSE k - 1 + 1
    BY <1>1, FS_Interval
  <1> QED
    BY <1>2

LEMMA NewKeyFresh ==
  ASSUME CallsTyped, QueueTyped
  PROVE  /\ NewKey \in Nat
         /\ \A c \in AnyCall : c.key # NewKey
         /\ \A j \in DOMAIN cmds : cmds[j].key # NewKey
  <1> DEFINE m == Len(calls)
             n == Len(cmds)
             f == [k \in 1 .. m + n |-> IF k <= m THEN calls[k].key ELSE cmds[k - m].key]
             K == {calls[i].key : i \in DOMAIN calls} \cup {cmds[i].key : i \in DOMAIN cmds}
             F == (1 .. m + n + 1) \ K
  <1>1. /\ m \in Nat /\ DOMAIN calls = 1 .. m
        /\ n \in Nat /\ DOMAIN cmds = 1 .. n
    BY DEF CallsTyped, QueueTyped
  <1>2. F # {}
    <2>1. SUFFICES ASSUME 1 .. m + n + 1 \subseteq K PROVE FALSE
      OBVIOUS
    <2>2. f \in Surjection(1 .. m + n, K)
      <3>1. \A k \in 1 .. m + n : f[k] \in K
        <4>1. TAKE k \in 1 .. m + n
        <4>2. CASE k <= m
          BY <4>2, <1>1
        <4>3. CASE ~(k <= m)
          <5>1. k - m \in 1 .. n
            BY <4>3, <1>1
          <5> QED
            BY <4>3, <5>1, <1>1
        <4> QED
          BY <4>2, <4>3
      <3>2. ASSUME NEW x \in K PROVE \E k \in 1 .. m + n : f[k] = x
        <4>1. CASE \E i \in DOMAIN calls : x = calls[i].key
          <5>1. PICK i \in DOMAIN calls : x = calls[i].key
            BY <4>1
          <5>2. i \in 1 .. m + n /\ i <= m
            BY <1>1, <5>1
          <5> QED
            BY <5>1, <5>2
        <4>2. CASE \E i \in DOMAIN cmds : x = cmds[i].key
          <5>1. PICK i \in DOMAIN cmds : x = cmds[i].key
            BY <4>2
          <5>2. i + m \in 1 .. m + n /\ ~(i + m <= m) /\ (i + m) - m = i
            BY <1>1, <5>1
          <5> QED
            BY <5>1, <5>2
        <4> QED
          BY <3>2, <4>1, <4>2
      <3> HIDE DEF K
      <3>3. f \in [1 .. m + n -> K]
        BY <3>1
      <3> HIDE DEF f
      <3> QED
        BY <3>2, <3>3 DEF Surjection
    <2>3. IsFiniteSet(1 .. m + n) /\ Cardinality(1 .. m + n) = m + n
      <3>1. m + n \in Nat
        BY <1>1
      <3> QED
        BY <3>1, Counted
    <2>4. Cardinality(1 .. m + n + 1) = m + n + 1
      <3>1. m + n + 1 \in Nat
        BY <1>1
      <3> QED
        BY <3>1, Counted
    <2> HIDE DEF f, K, F
    <2>5. IsFiniteSet(K) /\ Cardinality(K) <= m + n
      BY <2>2, <2>3, FS_Surjection
    <2>6. Cardinality(1 .. m + n + 1) <= Cardinality(K)
      BY <2>1, <2>5, FS_Subset
    <2>7. Cardinality(K) \in Nat
      BY <2>5, FS_CardinalityType
    <2> HIDE DEF m, n
    <2> QED
      BY <2>4, <2>5, <2>6, <2>7, <1>1
  <1>3. NewKey = CHOOSE x \in F : \A y \in F : x <= y
    BY DEF NewKey, Min
  <1>4. F \in SUBSET Nat
    BY <1>1
  <1> HIDE DEF F
  <1>5. NewKey \in F
    BY <1>2, <1>3, <1>4, Least, Zenon
  <1> QED
    BY <1>5 DEF F, AnyCall

LEMMA NextIdFresh ==
  ASSUME NEW used \in SUBSET Ids
  PROVE  NextId(used) \in Ids \cup {0} /\ NextId(used) \notin used
  <1>1. 0 \notin Ids /\ Ids \in SUBSET Nat
    BY DEF Ids
  <1>2. CASE Ids \subseteq used
    BY <1>1, <1>2 DEF NextId
  <1>3. CASE ~(Ids \subseteq used)
    <2> DEFINE F == Ids \ used
    <2>1. NextId(used) = CHOOSE x \in F : \A y \in F : x <= y
      BY <1>3 DEF NextId, Min
    <2>2. F # {} /\ F \in SUBSET Nat
      BY <1>1, <1>3
    <2> HIDE DEF F
    <2>3. NextId(used) \in F
      BY <2>1, <2>2, Least, Zenon
    <2> QED
      BY <2>3 DEF F
  <1> QED
    BY <1>2, <1>3

\* What a handler has made of the calls when it deletes those that are over
Handled(cs) ==
  /\ Restates(cs, calls)
  /\ \A i \in DOMAIN calls :
       /\ cs[i].state # "Swapping"
       /\ cs[i].state \in {"Incoming", "Dialing"} => cs[i].state = calls[i].state
       /\ calls[i].state = "Dialing" => cs[i].state \in {"Dialing"} \cup Over

Follows(cs) ==
  /\ Listed(cs) /\ DOMAIN cs = DOMAIN calls
  /\ \A i \in DOMAIN calls :
       /\ cs[i].key = calls[i].key /\ cs[i].id = calls[i].id
       /\ cs[i].state # "Swapping"
       /\ cs[i].state \in {"Incoming", "Dialing"} => cs[i].state = calls[i].state
       /\ cs[i].poll /\ cs[i].state \notin Over => cs[i].state = "Dialing"

LEMMA HandledFollows ==
  ASSUME CallsTyped, NEW cs, Handled(cs)
  PROVE  Follows(cs) /\ \A i \in DOMAIN calls : cs[i].poll = calls[i].poll
  <1>1. \A i \in DOMAIN calls : calls[i].poll => calls[i].state = "Dialing"
    BY DEF CallsTyped
  <1> QED
    BY <1>1 DEF Handled, Restates, Follows

LEMMA LeaveEffect ==
  ASSUME CallsTyped, NEW cs, Follows(cs), NEW used, Leave(cs, used)
  PROVE  /\ CallsTyped'
         /\ AnyCall' = {c \in ToSet(cs) : c.state \in States}
         /\ \A d \in AnyCall' : \E i \in DOMAIN calls : d = cs[i] /\ cs[i].state \in States
         /\ \A i \in DOMAIN calls : cs[i].state \in States => cs[i] \in AnyCall'
         /\ usedIds' = used \ Released(cs)
         /\ \A x \in Released(cs) : \E i \in DOMAIN calls : x = calls[i].id /\ cs[i].state \in Over
         /\ \A i \in DOMAIN calls : cs[i].state \in Over => calls[i].id \in Released(cs)
  <1>1. calls' = Those(cs, States) /\ usedIds' = used \ Released(cs)
    BY DEF Leave
  <1>2. cs \in Seq(RawCalls) /\ Keyed(cs) /\ DOMAIN cs = DOMAIN calls
    BY DEF Follows, Listed
  <1>3. /\ Those(cs, States) \in Seq({c \in RawCalls : c.state \in States})
        /\ ToSet(Those(cs, States)) = {c \in ToSet(cs) : c.state \in States}
        /\ Keyed(Those(cs, States))
    BY <1>2, ThoseProperties
  <1>4. {c \in RawCalls : c.state \in States} \subseteq Call
    BY DEF RawCalls, Call
  <1>5. calls' \in Seq(Call)
    BY <1>1, <1>3, <1>4
  <1>6. AnyCall' = ToSet(calls')
    BY DEF AnyCall, ToSet
  <1>7. AnyCall' = {c \in ToSet(cs) : c.state \in States}
    BY <1>1, <1>3, <1>6
  <1>8. \A d \in AnyCall' : \E i \in DOMAIN calls : d = cs[i] /\ cs[i].state \in States
    BY <1>2, <1>7 DEF ToSet
  <1>9. \A i \in DOMAIN calls : cs[i].state \in States => cs[i] \in AnyCall'
    BY <1>2, <1>7 DEF ToSet
  <1>10. ASSUME NEW k \in DOMAIN calls', calls'[k].poll PROVE calls'[k].state = "Dialing"
    <2>1. calls'[k] \in AnyCall'
      BY DEF AnyCall
    <2>2. PICK i \in DOMAIN calls : calls'[k] = cs[i] /\ cs[i].state \in States
      BY <2>1, <1>8
    <2> QED
      BY <2>2, <1>10, StatesDiffer DEF Follows
  <1>11. CallsTyped'
    BY <1>1, <1>3, <1>5, <1>10 DEF CallsTyped, Keyed
  <1>12. /\ \A x \in Released(cs) : \E i \in DOMAIN calls : x = calls[i].id /\ cs[i].state \in Over
         /\ \A i \in DOMAIN calls : cs[i].state \in Over => calls[i].id \in Released(cs)
    BY <1>2 DEF Released, Follows
  <1> QED
    BY <1>1, <1>7, <1>8, <1>9, <1>11, <1>12

-----------------------------------------------------------------------------
\* The queue of commands

LEMMA ConcatIs ==
  ASSUME NEW S, NEW s \in Seq(S), NEW t \in Seq(S)
  PROVE  /\ s \o t \in Seq(S)
         /\ Len(s) \in Nat /\ Len(t) \in Nat
         /\ DOMAIN s = 1 .. Len(s) /\ DOMAIN t = 1 .. Len(t)
         /\ DOMAIN (s \o t) = 1 .. (Len(s) + Len(t))
         /\ \A j \in DOMAIN (s \o t) :
              \/ j \in DOMAIN s /\ (s \o t)[j] = s[j]
              \/ j \notin DOMAIN s /\ j - Len(s) \in DOMAIN t /\ (s \o t)[j] = t[j - Len(s)]
         /\ \A j \in DOMAIN s : j \in DOMAIN (s \o t) /\ (s \o t)[j] = s[j]
         /\ \A k \in DOMAIN t : Len(s) + k \in DOMAIN (s \o t) /\ (s \o t)[Len(s) + k] = t[k]
  OBVIOUS

LEMMA OneIs ==
  ASSUME NEW S, NEW x \in S
  PROVE  /\ <<x>> \in Seq(S) /\ DOMAIN <<x>> = {1} /\ <<x>>[1] = x /\ Len(<<x>>) = 1
         /\ <<x>> # <<>> /\ Head(<<x>>) = x /\ Tail(<<x>>) = <<>>
  OBVIOUS

LEMMA NoneIs ==
  ASSUME NEW S
  PROVE  <<>> \in Seq(S) /\ DOMAIN <<>> = {} /\ Len(<<>>) = 0 /\ \A s \in Seq(S) : s \o <<>> = s
  OBVIOUS

LEMMA TailIs ==
  ASSUME NEW S, NEW s \in Seq(S), s # <<>>
  PROVE  /\ Head(s) \in S /\ Head(s) = s[1] /\ 1 \in DOMAIN s
         /\ Tail(s) \in Seq(S) /\ Len(Tail(s)) = Len(s) - 1
         /\ \A j \in DOMAIN Tail(s) : j + 1 \in DOMAIN s /\ Tail(s)[j] = s[j + 1]
         /\ \A j \in DOMAIN s : j # 1 => j - 1 \in DOMAIN Tail(s) /\ Tail(s)[j - 1] = s[j]
  OBVIOUS

LEMMA SentIn == \A c \in Commands : Sent(c) \in Sents
  BY DEF Commands, Sent, Sents

LEMMA SlotsAre ==
  /\ \A c \in Commands : /\ c.at \in Ats /\ c.id \in Ids \cup {0} /\ c.slot \in Slots /\ c.key \in Nat
  /\ \A at \in Ats, id \in Ids \cup {0}, slot \in Slots, key \in Nat :
       /\ Command(at, id, slot, key) \in Commands
       /\ Command(at, id, slot, key).at = at /\ Command(at, id, slot, key).id = id
       /\ Command(at, id, slot, key).slot = slot /\ Command(at, id, slot, key).key = key
  BY DEF Commands, Command

LEMMA ChatEffect ==
  ASSUME QueueTyped, NEW new \in Seq(Commands), Chat(new)
  PROVE  /\ cmds' \in Seq(Commands) /\ wire' \in Seq(Sents)
         /\ Len(cmds) \in Nat /\ DOMAIN cmds = 1 .. Len(cmds)
         /\ \A j \in DOMAIN cmds' :
              \/ j \in DOMAIN cmds /\ cmds'[j] = cmds[j]
              \/ j \notin DOMAIN cmds /\ j - Len(cmds) \in DOMAIN new /\ cmds'[j] = new[j - Len(cmds)]
         /\ \A j \in DOMAIN cmds : j \in DOMAIN cmds' /\ cmds'[j] = cmds[j]
         /\ \A k \in DOMAIN new : Len(cmds) + k \in DOMAIN cmds' /\ cmds'[Len(cmds) + k] = new[k]
         /\ cmds # <<>> => wire' = wire /\ cmds' # <<>> /\ Head(cmds') = Head(cmds)
         /\ cmds = <<>> /\ new # <<>> => wire' = Append(wire, Sent(Head(new))) /\ cmds' = new
  <1>1. cmds \in Seq(Commands) /\ wire \in Seq(Sents)
    BY DEF QueueTyped
  <1>2. cmds' = cmds \o new
    BY DEF Chat
  <1>3. wire' = IF cmds = <<>> /\ new # <<>> THEN Append(wire, Sent(Head(new))) ELSE wire
    BY DEF Chat
  <1>4. wire' \in Seq(Sents)
    <2>1. CASE cmds = <<>> /\ new # <<>>
      <3>1. Sent(Head(new)) \in Sents
        BY <2>1, SentIn
      <3> QED
        BY <3>1, <2>1, <1>1, <1>3
    <2> QED
      BY <2>1, <1>1, <1>3
  <1>5. cmds # <<>> => wire' = wire /\ cmds' # <<>> /\ Head(cmds') = Head(cmds)
    BY <1>1, <1>2, <1>3
  <1>6. cmds = <<>> /\ new # <<>> => wire' = Append(wire, Sent(Head(new))) /\ cmds' = new
    BY <1>1, <1>2, <1>3
  <1>7. /\ cmds' \in Seq(Commands)
        /\ Len(cmds) \in Nat /\ DOMAIN cmds = 1 .. Len(cmds)
        /\ \A j \in DOMAIN cmds' :
              \/ j \in DOMAIN cmds /\ cmds'[j] = cmds[j]
              \/ j \notin DOMAIN cmds /\ j - Len(cmds) \in DOMAIN new /\ cmds'[j] = new[j - Len(cmds)]
        /\ \A j \in DOMAIN cmds : j \in DOMAIN cmds' /\ cmds'[j] = cmds[j]
        /\ \A k \in DOMAIN new : Len(cmds) + k \in DOMAIN cmds' /\ cmds'[Len(cmds) + k] = new[k]
    BY <1>1, <1>2, ConcatIs
  <1> QED
    BY <1>4, <1>5, <1>6, <1>7

\* new is nothing or one command
LEMMA DoneEffect ==
  ASSUME QueueTyped, cmds # <<>>, NEW new \in Seq(Commands), Done(new)
  PROVE  /\ cmds' \in Seq(Commands) /\ wire' \in Seq(Sents)
         /\ Len(cmds) \in Nat /\ DOMAIN cmds = 1 .. Len(cmds)
         /\ 1 \in DOMAIN cmds /\ cmds[1] = Head(cmds) /\ Head(cmds) \in Commands
         /\ \A j \in DOMAIN cmds' :
              \/ j + 1 \in DOMAIN cmds /\ cmds'[j] = cmds[j + 1]
              \/ j + 1 \notin DOMAIN cmds /\ j + 1 - Len(cmds) \in DOMAIN new /\ cmds'[j] = new[j + 1 - Len(cmds)]
         /\ \A j \in DOMAIN cmds : j # 1 => j - 1 \in DOMAIN cmds' /\ cmds'[j - 1] = cmds[j]
         /\ \A k \in DOMAIN new : Len(cmds) - 1 + k \in DOMAIN cmds' /\ cmds'[Len(cmds) - 1 + k] = new[k]
         /\ wire' = IF cmds' = <<>> THEN wire ELSE Append(wire, Sent(Head(cmds')))
         /\ cmds' = Tail(cmds) \o new
  <1>1. cmds \in Seq(Commands) /\ wire \in Seq(Sents)
    BY DEF QueueTyped
  <1>2. cmds' = Tail(cmds) \o new
    BY DEF Done
  <1>3. wire' = IF cmds' = <<>> THEN wire ELSE Append(wire, Sent(Head(cmds')))
    BY DEF Done
  <1> DEFINE t == Tail(cmds)
  <1>4. /\ Head(cmds) \in Commands /\ Head(cmds) = cmds[1] /\ 1 \in DOMAIN cmds
        /\ t \in Seq(Commands) /\ Len(t) = Len(cmds) - 1
        /\ \A j \in DOMAIN t : j + 1 \in DOMAIN cmds /\ t[j] = cmds[j + 1]
        /\ \A j \in DOMAIN cmds : j # 1 => j - 1 \in DOMAIN t /\ t[j - 1] = cmds[j]
    BY <1>1, TailIs
  <1>5. Len(cmds) \in Nat /\ DOMAIN cmds = 1 .. Len(cmds)
    BY <1>1
  <1> HIDE DEF t
  <1>6. /\ t \o new \in Seq(Commands)
        /\ Len(t) \in Nat /\ DOMAIN t = 1 .. Len(t)
        /\ \A j \in DOMAIN (t \o new) :
              \/ j \in DOMAIN t /\ (t \o new)[j] = t[j]
              \/ j \notin DOMAIN t /\ j - Len(t) \in DOMAIN new /\ (t \o new)[j] = new[j - Len(t)]
        /\ \A j \in DOMAIN t : j \in DOMAIN (t \o new) /\ (t \o new)[j] = t[j]
        /\ \A k \in DOMAIN new : Len(t) + k \in DOMAIN (t \o new) /\ (t \o new)[Len(t) + k] = new[k]
        /\ DOMAIN (t \o new) = 1 .. (Len(t) + Len(new))
    <2>1. t \in Seq(Commands)
      BY <1>4
    <2> QED
      BY <2>1, ConcatIs
  <1>7. cmds' = t \o new
    BY <1>2 DEF t
  <1>8. cmds' \in Seq(Commands)
    BY <1>6, <1>7
  <1>9. wire' \in Seq(Sents)
    <2>1. CASE cmds' # <<>>
      <3>1. Head(cmds') \in Commands
        BY <1>8, <2>1
      <3> QED
        BY <3>1, <2>1, <1>1, <1>3, SentIn
    <2> QED
      BY <2>1, <1>1, <1>3
  <1>10. ASSUME NEW j \in DOMAIN cmds'
         PROVE  \/ j + 1 \in DOMAIN cmds /\ cmds'[j] = cmds[j + 1]
                \/ j + 1 \notin DOMAIN cmds /\ j + 1 - Len(cmds) \in DOMAIN new /\ cmds'[j] = new[j + 1 - Len(cmds)]
    <2>1. j \in Nat /\ j # 0
      BY <1>8
    <2>2. CASE j \in DOMAIN t
      BY <2>2, <1>4, <1>6, <1>7
    <2>3. CASE j \notin DOMAIN t
      <3>1. j - Len(t) \in DOMAIN new /\ cmds'[j] = new[j - Len(t)]
        BY <2>3, <1>6, <1>7
      <3>2. j - Len(t) = j + 1 - Len(cmds) /\ j + 1 \notin DOMAIN cmds
        BY <2>1, <2>3, <1>4, <1>5, <1>6
      <3> QED
        BY <3>1, <3>2
    <2> QED
      BY <2>2, <2>3
  <1>11. \A j \in DOMAIN cmds : j # 1 => j - 1 \in DOMAIN cmds' /\ cmds'[j - 1] = cmds[j]
    BY <1>4, <1>6, <1>7
  <1>12. \A k \in DOMAIN new : Len(cmds) - 1 + k \in DOMAIN cmds' /\ cmds'[Len(cmds) - 1 + k] = new[k]
    BY <1>4, <1>6, <1>7
  <1> QED
    BY <1>2, <1>3, <1>4, <1>5, <1>8, <1>9, <1>10, <1>11, <1>12

\* Commands that may be queued: at most one of them asks for a dialing call
Fresh(new) ==
  /\ new \in Seq(Commands)
  /\ \A k \in DOMAIN new : CmdOk(new[k])
  /\ \A k \in DOMAIN new : new[k].slot \in DialSlots =>
       /\ DOMAIN new = {1}
       /\ \A j \in DOMAIN cmds : cmds[j].slot \in DialSlots => cmds[j].key # new[k].key

FitFor(new) ==
  \A k \in DOMAIN new, d \in AnyCall' : new[k].key = d.key =>
    /\ new[k].slot \in DialSlots => ~d.poll
    /\ new[k].slot = "activateSingleRequestDone" => d.state \notin Early

CallsKept ==
  \A d \in AnyCall' : \E c \in AnyCall :
     c.key = d.key /\ (d.poll => c.poll) /\ (d.state \in Early => c.state \in Early)

LEMMA ChatTyped ==
  ASSUME QueueTyped, NEW new, Fresh(new), Chat(new)
  PROVE  QueueTyped'
  <1>0. new \in Seq(Commands)
    BY DEF Fresh
  <1>1. /\ cmds' \in Seq(Commands) /\ wire' \in Seq(Sents)
        /\ Len(cmds) \in Nat /\ DOMAIN cmds = 1 .. Len(cmds)
        /\ \A j \in DOMAIN cmds' :
              \/ j \in DOMAIN cmds /\ cmds'[j] = cmds[j]
              \/ j \notin DOMAIN cmds /\ j - Len(cmds) \in DOMAIN new /\ cmds'[j] = new[j - Len(cmds)]
    BY <1>0, ChatEffect
  <1>2. ASSUME NEW j \in DOMAIN cmds' PROVE CmdOk(cmds'[j])
    <2>1. CASE j \in DOMAIN cmds /\ cmds'[j] = cmds[j]
      BY <2>1 DEF QueueTyped
    <2>2. CASE j - Len(cmds) \in DOMAIN new /\ cmds'[j] = new[j - Len(cmds)]
      BY <2>2 DEF Fresh
    <2> QED
      BY <2>1, <2>2, <1>1
  <1>3. ASSUME NEW j \in DOMAIN cmds', NEW k \in DOMAIN cmds',
               cmds'[j].slot \in DialSlots, cmds'[k].slot \in DialSlots, cmds'[j].key = cmds'[k].key
        PROVE  j = k
    <2>0. j \in Nat /\ k \in Nat
      BY <1>1
    <2>1. CASE j \in DOMAIN cmds /\ cmds'[j] = cmds[j] /\ k \in DOMAIN cmds /\ cmds'[k] = cmds[k]
      BY <2>1, <1>3 DEF QueueTyped
    <2>2. CASE j \in DOMAIN cmds /\ cmds'[j] = cmds[j] /\ k - Len(cmds) \in DOMAIN new /\ cmds'[k] = new[k - Len(cmds)]
      BY <2>2, <1>3 DEF Fresh
    <2>3. CASE k \in DOMAIN cmds /\ cmds'[k] = cmds[k] /\ j - Len(cmds) \in DOMAIN new /\ cmds'[j] = new[j - Len(cmds)]
      BY <2>3, <1>3 DEF Fresh
    <2>4. CASE /\ j - Len(cmds) \in DOMAIN new /\ cmds'[j] = new[j - Len(cmds)]
               /\ k - Len(cmds) \in DOMAIN new /\ cmds'[k] = new[k - Len(cmds)]
      <3>1. j - Len(cmds) = 1 /\ k - Len(cmds) = 1
        BY <2>4, <1>3 DEF Fresh
      <3> QED
        BY <3>1, <2>0, <1>1
    <2> QED
      BY <2>1, <2>2, <2>3, <2>4, <1>1
  <1> QED
    BY <1>1, <1>2, <1>3 DEF QueueTyped

LEMMA ChatWaiting ==
  ASSUME QueueTyped, Waiting, CallsKept, NEW new \in Seq(Commands), FitFor(new), Chat(new)
  PROVE  Waiting'
  <1>1. \A j \in DOMAIN cmds' :
              \/ j \in DOMAIN cmds /\ cmds'[j] = cmds[j]
              \/ j \notin DOMAIN cmds /\ j - Len(cmds) \in DOMAIN new /\ cmds'[j] = new[j - Len(cmds)]
    BY ChatEffect
  <1>2. ASSUME NEW d \in AnyCall', NEW j \in DOMAIN cmds', cmds'[j].key = d.key
        PROVE  /\ cmds'[j].slot \in DialSlots => ~d.poll
               /\ cmds'[j].slot = "activateSingleRequestDone" => d.state \notin Early
    <2>1. CASE j \in DOMAIN cmds /\ cmds'[j] = cmds[j]
      BY <2>1, <1>2 DEF CallsKept, Waiting
    <2>2. CASE j - Len(cmds) \in DOMAIN new /\ cmds'[j] = new[j - Len(cmds)]
      BY <2>2, <1>2 DEF FitFor
    <2> QED
      BY <2>1, <2>2, <1>1
  <1> QED
    BY <1>2 DEF Waiting

\* After the head of the queue at most a question for the dialing call of that head
FollowUp(new) ==
  \/ new = <<>>
  \/ \E c \in Commands :
       new = <<c>> /\ CmdOk(c) /\ c.key = Head(cmds).key /\ Head(cmds).slot \in DialSlots
       /\ c.slot \in DialSlots

LEMMA DoneTyped ==
  ASSUME QueueTyped, cmds # <<>>, NEW new, FollowUp(new), Done(new)
  PROVE  QueueTyped'
  <1>0. new \in Seq(Commands) /\ \A k \in DOMAIN new : k = 1 /\ CmdOk(new[k]) /\ new[k].key = Head(cmds).key
                                                       /\ Head(cmds).slot \in DialSlots
    <2>1. CASE new = <<>>
      BY <2>1
    <2>2. CASE new # <<>>
      <3>1. PICK c \in Commands :
              new = <<c>> /\ CmdOk(c) /\ c.key = Head(cmds).key /\ Head(cmds).slot \in DialSlots
        BY <2>2 DEF FollowUp
      <3>2. new \in Seq(Commands) /\ DOMAIN new = {1} /\ new[1] = c
        BY <3>1, OneIs
      <3> QED
        BY <3>1, <3>2
    <2> QED
      BY <2>1, <2>2
  <1>1. /\ cmds' \in Seq(Commands) /\ wire' \in Seq(Sents)
        /\ Len(cmds) \in Nat /\ DOMAIN cmds = 1 .. Len(cmds)
        /\ 1 \in DOMAIN cmds /\ cmds[1] = Head(cmds) /\ Head(cmds) \in Commands
        /\ \A j \in DOMAIN cmds' :
              \/ j + 1 \in DOMAIN cmds /\ cmds'[j] = cmds[j + 1]
              \/ j + 1 \notin DOMAIN cmds /\ j + 1 - Len(cmds) \in DOMAIN new /\ cmds'[j] = new[j + 1 - Len(cmds)]
    BY <1>0, DoneEffect
  <1>2. ASSUME NEW j \in DOMAIN cmds' PROVE CmdOk(cmds'[j])
    <2>1. CASE j + 1 \in DOMAIN cmds /\ cmds'[j] = cmds[j + 1]
      BY <2>1 DEF QueueTyped
    <2>2. CASE j + 1 - Len(cmds) \in DOMAIN new /\ cmds'[j] = new[j + 1 - Len(cmds)]
      BY <2>2, <1>0
    <2> QED
      BY <2>1, <2>2, <1>1
  <1>3. ASSUME NEW j \in DOMAIN cmds', NEW k \in DOMAIN cmds',
               cmds'[j].slot \in DialSlots, cmds'[k].slot \in DialSlots, cmds'[j].key = cmds'[k].key
        PROVE  j = k
    <2>0. j \in Nat /\ k \in Nat /\ j # 0 /\ k # 0
      BY <1>1
    <2>1. CASE j + 1 \in DOMAIN cmds /\ cmds'[j] = cmds[j + 1] /\ k + 1 \in DOMAIN cmds /\ cmds'[k] = cmds[k + 1]
      <3>1. j + 1 = k + 1
        BY <2>1, <1>3 DEF QueueTyped
      <3> QED
        BY <3>1, <2>0
    <2>2. CASE j + 1 \in DOMAIN cmds /\ cmds'[j] = cmds[j + 1] /\ k + 1 - Len(cmds) \in DOMAIN new /\ cmds'[k] = new[k + 1 - Len(cmds)]
      <3>1. cmds[j + 1].key = cmds[1].key /\ cmds[1].slot \in DialSlots
        BY <2>2, <1>0, <1>1, <1>3
      <3>2. j + 1 = 1
        BY <3>1, <2>2, <1>1, <1>3 DEF QueueTyped
      <3> QED
        BY <3>2, <2>0
    <2>3. CASE k + 1 \in DOMAIN cmds /\ cmds'[k] = cmds[k + 1] /\ j + 1 - Len(cmds) \in DOMAIN new /\ cmds'[j] = new[j + 1 - Len(cmds)]
      <3>1. cmds[k + 1].key = cmds[1].key /\ cmds[1].slot \in DialSlots
        BY <2>3, <1>0, <1>1, <1>3
      <3>2. k + 1 = 1
        BY <3>1, <2>3, <1>1, <1>3 DEF QueueTyped
      <3> QED
        BY <3>2, <2>0
    <2>4. CASE j + 1 - Len(cmds) \in DOMAIN new /\ k + 1 - Len(cmds) \in DOMAIN new
      BY <2>4, <2>0, <1>0, <1>1
    <2> QED
      BY <2>1, <2>2, <2>3, <2>4, <1>1
  <1> QED
    BY <1>1, <1>2, <1>3 DEF QueueTyped

\* The answer may set the timer of the call it is for
CallsKeptButHead ==
  \A d \in AnyCall' : \E c \in AnyCall :
     /\ c.key = d.key
     /\ d.poll => c.poll \/ (Head(cmds).slot \in DialSlots /\ Head(cmds).key = d.key)
     /\ d.state \in Early => c.state \in Early

LEMMA DoneWaiting ==
  ASSUME QueueTyped, Waiting, CallsKeptButHead, cmds # <<>>, NEW new \in Seq(Commands), FitFor(new), Done(new)
  PROVE  Waiting'
  <1>1. /\ Len(cmds) \in Nat /\ DOMAIN cmds = 1 .. Len(cmds)
        /\ 1 \in DOMAIN cmds /\ cmds[1] = Head(cmds)
        /\ cmds' \in Seq(Commands)
        /\ \A j \in DOMAIN cmds' :
              \/ j + 1 \in DOMAIN cmds /\ cmds'[j] = cmds[j + 1]
              \/ j + 1 \notin DOMAIN cmds /\ j + 1 - Len(cmds) \in DOMAIN new /\ cmds'[j] = new[j + 1 - Len(cmds)]
    BY DoneEffect
  <1>2. ASSUME NEW d \in AnyCall', NEW j \in DOMAIN cmds', cmds'[j].key = d.key
        PROVE  /\ cmds'[j].slot \in DialSlots => ~d.poll
               /\ cmds'[j].slot = "activateSingleRequestDone" => d.state \notin Early
    <2>1. CASE j + 1 \in DOMAIN cmds /\ cmds'[j] = cmds[j + 1]
      <3>1. PICK c \in AnyCall :
              /\ c.key = d.key
              /\ d.poll => c.poll \/ (Head(cmds).slot \in DialSlots /\ Head(cmds).key = d.key)
              /\ d.state \in Early => c.state \in Early
        BY DEF CallsKeptButHead
      <3>2. j + 1 # 1
        BY <1>1
      <3>3. cmds[j + 1].slot \in DialSlots /\ cmds[1].slot \in DialSlots => cmds[1].key # d.key
        BY <3>2, <2>1, <1>1, <1>2 DEF QueueTyped
      <3>4. cmds[j + 1].key = c.key
        BY <2>1, <1>2, <3>1
      <3>5. /\ cmds[j + 1].slot \in DialSlots => ~c.poll
            /\ cmds[j + 1].slot = "activateSingleRequestDone" => c.state \notin Early
        BY <3>4, <2>1 DEF Waiting
      <3> QED
        BY <3>1, <3>3, <3>5, <2>1, <1>1
    <2>2. CASE j + 1 - Len(cmds) \in DOMAIN new /\ cmds'[j] = new[j + 1 - Len(cmds)]
      BY <2>2, <1>2 DEF FitFor
    <2> QED
      BY <2>1, <2>2, <1>1
  <1> QED
    BY <1>2 DEF Waiting

-----------------------------------------------------------------------------
\* What the provider's handlers do to its calls

ProviderTyped ==
  /\ CallsTyped /\ QueueTyped /\ Waiting
  /\ usedIds \subseteq Ids /\ incomingId \in Ids \cup {0}
  /\ typeKnown \in BOOLEAN /\ detect \in BOOLEAN /\ missed \in BOOLEAN /\ hangup \in BOOLEAN

PlainOnly(new) ==
  /\ new \in Seq(Commands)
  /\ \A k \in DOMAIN new : /\ new[k].slot = "none" /\ new[k].key = 0
                           /\ new[k].at \in {"CHLD0", "CHLD1", "CHLD1x", "CTFR"}

LEMMA PlainFresh ==
  ASSUME NEW new, PlainOnly(new)
  PROVE  Fresh(new) /\ FitFor(new)
  BY DEF PlainOnly, Fresh, FitFor, CmdOk, DialSlots, Swaps

LEMMA OnePlain ==
  ASSUME NEW at \in {"CHLD0", "CHLD1", "CHLD1x", "CTFR"}, NEW id \in Ids \cup {0}
  PROVE  PlainOnly(<<Plain(at, id)>>) /\ <<Plain(at, id)>> # <<>>
  <1>1. at \in Ats /\ "none" \in Slots /\ 0 \in Nat
    BY DEF Ats, Slots
  <1>2. /\ Plain(at, id) \in Commands /\ Plain(at, id).slot = "none" /\ Plain(at, id).key = 0
        /\ Plain(at, id).at = at
    BY <1>1, SlotsAre DEF Plain
  <1> QED
    BY <1>2, OneIs DEF PlainOnly

LEMMA ReleaseEachPlain ==
  ASSUME CallsTyped, NEW state, HasGroup(calls, state)
  PROVE  PlainOnly(ReleaseEach(state)) /\ ReleaseEach(state) # <<>>
  <1> DEFINE g == Group(calls, state)
  <1>1. /\ Those(calls, {state}) \in Seq(Call)
        /\ ToSet(Those(calls, {state})) = {c \in ToSet(calls) : c.state \in {state}}
    <2> DEFINE some == {state}
    <2>1. calls \in Seq(Call)
      BY DEF CallsTyped
    <2>2. Those(calls, some) \in Seq(Call) /\ ToSet(Those(calls, some)) = {c \in ToSet(calls) : c.state \in some}
      <3> HIDE DEF some
      <3>1. /\ Those(calls, some) \in Seq(Call)
            /\ Those(calls, some) \in Seq({c \in Call : c.state \in some})
            /\ ToSet(Those(calls, some)) = {c \in ToSet(calls) : c.state \in some}
            /\ Keyed(calls) => Keyed(Those(calls, some))
        BY <2>1, ThoseProperties, Zenon
      <3> QED
        BY <3>1, Zenon
    <2> QED
      BY <2>2
  <1>2. g \in Seq(Call) /\ ToSet(g) = {c \in ToSet(calls) : c.state \in {state}}
    BY <1>1 DEF Group
  <1>3. PICK i \in DOMAIN calls : calls[i].state = state
    BY DEF HasGroup
  <1>4. calls[i] \in ToSet(g)
    BY <1>2, <1>3 DEF ToSet
  <1>5. ReleaseEach(state) = [k \in DOMAIN g |-> Plain("CHLD1x", g[k].id)]
    BY DEF ReleaseEach
  <1> HIDE DEF g
  <1>6. Len(g) \in Nat /\ DOMAIN g = 1 .. Len(g) /\ \A k \in DOMAIN g : g[k].id \in Ids \cup {0}
    <2>1. g \in Seq(Call)
      BY <1>2
    <2>2. \A k \in DOMAIN g : g[k] \in Call
      BY <2>1
    <2>3. \A c \in Call : c.id \in Ids \cup {0}
      BY DEF Call
    <2> QED
      BY <2>1, <2>2, <2>3
  <1>7. \A k \in DOMAIN g : /\ Plain("CHLD1x", g[k].id) \in Commands
                            /\ Plain("CHLD1x", g[k].id).slot = "none"
                            /\ Plain("CHLD1x", g[k].id).key = 0
                            /\ Plain("CHLD1x", g[k].id).at = "CHLD1x"
    <2>1. "CHLD1x" \in Ats /\ "none" \in Slots /\ 0 \in Nat
      BY DEF Ats, Slots
    <2> QED
      BY <2>1, <1>6, SlotsAre DEF Plain
  <1>8. ReleaseEach(state) \in Seq(Commands) /\ DOMAIN ReleaseEach(state) = DOMAIN g
    BY <1>5, <1>6, <1>7
  <1>9. DOMAIN g # {}
    BY <1>4 DEF ToSet
  <1>10. PlainOnly(ReleaseEach(state))
    BY <1>5, <1>7, <1>8 DEF PlainOnly
  <1> QED
    BY <1>8, <1>9, <1>10

\* No incoming call becomes another one
NoneTaken(cs) ==
  \A i \in DOMAIN calls : calls[i].state = "Incoming" => cs[i].state \in {"Incoming"} \cup Over

LEMMA OverIs ==
  /\ {"HangupLocal", "HangupRemote", "Missed"} \subseteq Over
  /\ \A s \in Over : s \notin {"Swapping", "Incoming", "Dialing", "Connected", "Hold"}
  /\ States = {"Incoming", "Dialing", "Connected", "Hold"}
  /\ States \subseteq RawStates /\ Over \subseteq RawStates /\ "Swapping" \in RawStates
  BY DEF Over, States, RawStates

LEMMA EndOne ==
  ASSUME CallsTyped, NEW key, NEW new \in Over
  PROVE  LET cs == SetState(calls, key, new) IN
         /\ Handled(cs) /\ NoneTaken(cs)
         /\ \A i \in DOMAIN calls : cs[i].state = IF calls[i].key = key THEN new ELSE calls[i].state
  <1>1. new \in RawStates
    BY OverIs
  <1>2. /\ Restates(SetState(calls, key, new), calls)
        /\ \A i \in DOMAIN calls : SetState(calls, key, new)[i].state
                                   = IF calls[i].key = key THEN new ELSE calls[i].state
    BY <1>1, CallsAre, SetStateIs
  <1> DEFINE cs == SetState(calls, key, new)
  <1> HIDE DEF cs
  <1>3. \A i \in DOMAIN calls : calls[i].state \in States
    BY CallsAre DEF Call
  <1>4. Handled(cs) /\ NoneTaken(cs)
    BY <1>2, <1>3, OverIs DEF Handled, NoneTaken, cs
  <1> QED
    BY <1>2, <1>4 DEF cs

LEMMA EndGroup ==
  ASSUME CallsTyped, NEW state, NEW new \in Over
  PROVE  LET cs == ChangeGroup(calls, state, new) IN
         /\ Handled(cs) /\ NoneTaken(cs)
         /\ \A i \in DOMAIN calls : cs[i].state = IF calls[i].state = state THEN new ELSE calls[i].state
  <1>1. new \in RawStates
    BY OverIs
  <1>2. /\ Restates(ChangeGroup(calls, state, new), calls)
        /\ \A i \in DOMAIN calls : ChangeGroup(calls, state, new)[i].state
                                   = IF calls[i].state = state THEN new ELSE calls[i].state
    BY <1>1, CallsAre, ChangeGroupIs
  <1> DEFINE cs == ChangeGroup(calls, state, new)
  <1> HIDE DEF cs
  <1>3. \A i \in DOMAIN calls : calls[i].state \in States
    BY CallsAre DEF Call
  <1>4. Handled(cs) /\ NoneTaken(cs)
    BY <1>2, <1>3, OverIs DEF Handled, NoneTaken, cs
  <1> QED
    BY <1>2, <1>4 DEF cs

\* Two groups, one after the other
LEMMA ChangeTwo ==
  ASSUME CallsTyped, NEW s, NEW t, NEW new \in RawStates, NEW next \in RawStates
  PROVE  LET cs == ChangeGroup(ChangeGroup(calls, s, new), t, next) IN
         /\ Restates(cs, calls)
         /\ \A i \in DOMAIN calls :
              LET mid == IF calls[i].state = s THEN new ELSE calls[i].state IN
              cs[i].state = IF mid = t THEN next ELSE mid
  <1> DEFINE a == ChangeGroup(calls, s, new)
             b == ChangeGroup(a, t, next)
  <1>1. /\ Restates(a, calls)
        /\ \A i \in DOMAIN calls : a[i].state = IF calls[i].state = s THEN new ELSE calls[i].state
    BY CallsAre, ChangeGroupIs
  <1>2. Listed(a) /\ DOMAIN a = DOMAIN calls
    BY <1>1 DEF Restates
  <1> HIDE DEF a
  <1>3. /\ Restates(b, a)
        /\ \A i \in DOMAIN a : b[i].state = IF a[i].state = t THEN next ELSE a[i].state
    BY <1>2, ChangeGroupIs
  <1> HIDE DEF b
  <1>4. Restates(b, calls)
    BY <1>1, <1>3, RestatesTrans
  <1>5. \A i \in DOMAIN calls :
              LET mid == IF calls[i].state = s THEN new ELSE calls[i].state IN
              b[i].state = IF mid = t THEN next ELSE mid
    BY <1>1, <1>2, <1>3
  <1> QED
    BY <1>4, <1>5 DEF a, b

\* AT+CHLD=1 with no call coming in: the held calls are active then
ActiveReleased == ActivateWaitingOrHeld(ChangeGroup(ChangeGroup(calls, "Connected", "HangupLocal"),
                                                    "Dialing", "HangupLocal"))
LEMMA ActiveReleasedIs ==
  ASSUME CallsTyped, ~HasGroup(calls, "Incoming")
  PROVE  /\ Handled(ActiveReleased) /\ NoneTaken(ActiveReleased)
         /\ \A i \in DOMAIN calls :
              ActiveReleased[i].state = IF calls[i].state = "Hold" THEN "Connected" ELSE "HangupLocal"
  <1> DEFINE a == ChangeGroup(ChangeGroup(calls, "Connected", "HangupLocal"), "Dialing", "HangupLocal")
             b == ActivateWaitingOrHeld(a)
  <1>0. {"HangupLocal", "Connected"} \subseteq RawStates
    BY OverIs
  <1>1. /\ Restates(a, calls)
        /\ \A i \in DOMAIN calls :
              LET mid == IF calls[i].state = "Connected" THEN "HangupLocal" ELSE calls[i].state IN
              a[i].state = IF mid = "Dialing" THEN "HangupLocal" ELSE mid
    BY <1>0, ChangeTwo
  <1>2. Listed(a) /\ DOMAIN a = DOMAIN calls
    BY <1>1 DEF Restates
  <1> HIDE DEF a
  <1>3. \A i \in DOMAIN calls : calls[i].state \in {"Dialing", "Connected", "Hold"}
    BY CallsAre, OverIs DEF Call, HasGroup
  <1>4. ~HasGroup(a, "Incoming")
    BY <1>1, <1>2, <1>3 DEF HasGroup
  <1>5. b = ChangeGroup(a, "Hold", "Connected")
    BY <1>2, <1>4, ActivateIs
  <1>6. /\ Restates(b, a)
        /\ \A i \in DOMAIN a : b[i].state = IF a[i].state = "Hold" THEN "Connected" ELSE a[i].state
    BY <1>0, <1>2, <1>5, ChangeGroupIs
  <1> HIDE DEF b
  <1>7. Restates(b, calls)
    BY <1>1, <1>6, RestatesTrans
  <1>8. \A i \in DOMAIN calls : b[i].state = IF calls[i].state = "Hold" THEN "Connected" ELSE "HangupLocal"
    BY <1>1, <1>2, <1>3, <1>6
  <1>9. Handled(b) /\ NoneTaken(b)
    BY <1>3, <1>7, <1>8, OverIs DEF Handled, NoneTaken
  <1>10. b = ActiveReleased
    BY DEF a, b, ActiveReleased
  <1> QED
    BY <1>8, <1>9, <1>10

\* An incoming call is deflected together with the active calls
Deflected == ChangeGroup(ChangeGroup(calls, "Connected", "HangupLocal"), "Hold", "Connected")

LEMMA DeflectedIs ==
  ASSUME CallsTyped
  PROVE  Handled(Deflected) /\ NoneTaken(Deflected)
  <1>0. {"HangupLocal", "Connected"} \subseteq RawStates
    BY OverIs
  <1>1. /\ Restates(Deflected, calls)
        /\ \A i \in DOMAIN calls :
              LET mid == IF calls[i].state = "Connected" THEN "HangupLocal" ELSE calls[i].state IN
              Deflected[i].state = IF mid = "Hold" THEN "Connected" ELSE mid
    BY <1>0, ChangeTwo DEF Deflected
  <1>2. \A i \in DOMAIN calls : calls[i].state \in {"Incoming", "Dialing", "Connected", "Hold"}
    BY CallsAre, OverIs DEF Call
  <1> QED
    BY <1>1, <1>2, OverIs DEF Handled, NoneTaken

\* Whatever hangs up, rejects or deflects is of one form
Hanging(c) ==
  \/ HangupCall(c) \/ HangupActiveGroup(c) \/ HangupDialingBesideIncoming(c)
  \/ HangupHeldGroup(c) \/ HangupGroupBesideIncoming(c) \/ Reject(c) \/ Transfer(c)

LEMMA HangingForm ==
  ASSUME CallsTyped, NEW c \in AnyCall, Hanging(c)
  PROVE  \E new, cs : /\ PlainOnly(new) /\ new # <<>>
                      /\ Handled(cs) /\ NoneTaken(cs)
                      /\ HangupWith(new, cs)
  <1>0. c \in Call /\ c.id \in Ids \cup {0} /\ HasGroup(calls, c.state)
    BY CallsAre DEF Call, AnyCall, HasGroup
  <1>1. "HangupLocal" \in Over /\ 0 \in Ids \cup {0}
    BY OverIs
  <1>2. Handled(SetState(calls, c.key, "HangupLocal")) /\ NoneTaken(SetState(calls, c.key, "HangupLocal"))
    BY <1>1, EndOne
  <1>3. \A s : Handled(ChangeGroup(calls, s, "HangupLocal")) /\ NoneTaken(ChangeGroup(calls, s, "HangupLocal"))
    BY <1>1, EndGroup
  <1>4. \A at \in {"CHLD0", "CHLD1", "CTFR"} : PlainOnly(<<Plain(at, 0)>>) /\ <<Plain(at, 0)>> # <<>>
    BY <1>1, OnePlain
  <1>5. CASE HangupCall(c)
    <2>1. PlainOnly(<<Plain("CHLD1x", c.id)>>) /\ <<Plain("CHLD1x", c.id)>> # <<>>
      BY <1>0, OnePlain
    <2>2. HangupWith(<<Plain("CHLD1x", c.id)>>, SetState(calls, c.key, "HangupLocal"))
      BY <1>5, Zenon DEF HangupCall
    <2> QED
      BY <2>1, <2>2, <1>2, Zenon
  <1>6. CASE HangupActiveGroup(c)
    <2>1. HangupWith(<<Plain("CHLD1", 0)>>, ActiveReleased) /\ ~HasGroup(calls, "Incoming")
      BY <1>6, Zenon DEF HangupActiveGroup, ActiveReleased
    <2>2. Handled(ActiveReleased) /\ NoneTaken(ActiveReleased)
      BY <2>1, ActiveReleasedIs
    <2> QED
      BY <2>1, <2>2, <1>4, Zenon
  <1>7. CASE HangupDialingBesideIncoming(c)
    <2>1. HangupWith(<<Plain("CHLD1", 0)>>, SetState(calls, c.key, "HangupLocal"))
      BY <1>7, Zenon DEF HangupDialingBesideIncoming
    <2> QED
      BY <2>1, <1>2, <1>4, Zenon
  <1>8. CASE HangupHeldGroup(c)
    <2>1. HangupWith(<<Plain("CHLD0", 0)>>, ChangeGroup(calls, "Hold", "HangupLocal"))
      BY <1>8, Zenon DEF HangupHeldGroup
    <2> QED
      BY <2>1, <1>3, <1>4, Zenon
  <1>9. CASE HangupGroupBesideIncoming(c)
    <2>1. HangupWith(ReleaseEach(c.state), ChangeGroup(calls, c.state, "HangupLocal"))
      BY <1>9, Zenon DEF HangupGroupBesideIncoming
    <2>2. PlainOnly(ReleaseEach(c.state)) /\ ReleaseEach(c.state) # <<>>
      BY <1>0, ReleaseEachPlain
    <2> QED
      BY <2>1, <2>2, <1>3, Zenon
  <1>10. CASE Reject(c)
    <2>1. HangupWith(<<Plain("CHLD0", 0)>>, SetState(calls, c.key, "HangupLocal"))
      BY <1>10, Zenon DEF Reject
    <2> QED
      BY <2>1, <1>2, <1>4, Zenon
  <1>11. CASE Transfer(c)
    <2>1. \/ HangupWith(<<Plain("CTFR", 0)>>, SetState(calls, c.key, "HangupLocal"))
          \/ HangupWith(<<Plain("CTFR", 0)>>, Deflected)
      BY <1>11, Zenon DEF Transfer, Deflected
    <2>2. Handled(Deflected) /\ NoneTaken(Deflected)
      BY DeflectedIs
    <2> QED
      BY <2>1, <2>2, <1>2, <1>4, Zenon
  <1> QED
    BY <1>5, <1>6, <1>7, <1>8, <1>9, <1>10, <1>11 DEF Hanging

\* A handler that deletes no call
LEMMA DirectEffect ==
  ASSUME CallsTyped, NEW cs, Follows(cs), calls' = cs,
         \A i \in DOMAIN calls : cs[i].state \in States
  PROVE  /\ CallsTyped'
         /\ AnyCall' = ToSet(cs)
         /\ \A d \in AnyCall' : \E i \in DOMAIN calls : d = cs[i]
         /\ \A i \in DOMAIN calls : cs[i] \in AnyCall'
  <1>1. cs \in Seq(RawCalls) /\ Keyed(cs) /\ DOMAIN cs = DOMAIN calls
    BY DEF Follows, Listed
  <1>2. \A i \in DOMAIN cs : cs[i] \in RawCalls
    BY <1>1
  <1>3. \A c \in RawCalls : c.state \in States => c \in Call
    BY DEF RawCalls, Call
  <1>4. \A i \in DOMAIN cs : cs[i] \in Call
    BY <1>1, <1>2, <1>3
  <1>5. cs \in Seq(Call)
    <2>1. Len(cs) \in Nat /\ DOMAIN cs = 1 .. Len(cs) /\ cs = [i \in 1 .. Len(cs) |-> cs[i]]
      BY <1>1
    <2> QED
      BY <1>4, <2>1
  <1>6. \A i \in DOMAIN cs : cs[i].poll => cs[i].state = "Dialing"
    BY <1>1, OverIs DEF Follows
  <1>7. CallsTyped'
    BY <1>1, <1>5, <1>6 DEF CallsTyped, Keyed
  <1>8. AnyCall' = ToSet(cs)
    BY DEF AnyCall, ToSet
  <1> QED
    BY <1>1, <1>7, <1>8 DEF ToSet

\* A call is added to the list
LEMMA AddedEffect ==
  ASSUME CallsTyped, QueueTyped, NEW cs, Follows(cs),
         \A i \in DOMAIN calls : cs[i].state \in States,
         NEW new \in Call, new.key = NewKey, new.poll = FALSE, calls' = Append(cs, new)
  PROVE  /\ CallsTyped'
         /\ AnyCall' = ToSet(cs) \cup {new}
         /\ \A d \in AnyCall' : d = new \/ \E i \in DOMAIN calls : d = cs[i]
         /\ \A i \in DOMAIN calls : cs[i] \in AnyCall'
         /\ new \in AnyCall'
  <1>1. cs \in Seq(RawCalls) /\ Keyed(cs) /\ DOMAIN cs = DOMAIN calls
    BY DEF Follows, Listed
  <1>2. \A i \in DOMAIN cs : cs[i] \in RawCalls
    BY <1>1
  <1>3. \A c \in RawCalls : c.state \in States => c \in Call
    BY DEF RawCalls, Call
  <1>4. \A i \in DOMAIN cs : cs[i] \in Call
    BY <1>1, <1>2, <1>3
  <1>5. cs \in Seq(Call)
    <2>1. Len(cs) \in Nat /\ DOMAIN cs = 1 .. Len(cs) /\ cs = [i \in 1 .. Len(cs) |-> cs[i]]
      BY <1>1
    <2> QED
      BY <1>4, <2>1
  <1>6. \A i \in DOMAIN cs : cs[i].poll => cs[i].state = "Dialing"
    BY <1>1, OverIs DEF Follows
  <1>7. \A c \in ToSet(cs) : c.key # new.key
    <2>1. \A i \in DOMAIN calls : calls[i].key # NewKey
      BY CallsAre, NewKeyFresh
    <2> QED
      BY <2>1, <1>1 DEF ToSet, Follows
  <1>8. calls' \in Seq(Call) /\ ToSet(calls') = ToSet(cs) \cup {new} /\ Keyed(calls')
    BY <1>1, <1>5, <1>7, AppendSet, AppendKeyed
  <1>9. AnyCall' = ToSet(cs) \cup {new}
    BY <1>8 DEF AnyCall, ToSet
  <1>10. ASSUME NEW i \in DOMAIN calls', calls'[i].poll PROVE calls'[i].state = "Dialing"
    <2>1. calls'[i] \in ToSet(cs) \cup {new}
      BY <1>8 DEF ToSet
    <2> QED
      BY <2>1, <1>6, <1>10 DEF ToSet
  <1>11. CallsTyped'
    BY <1>8, <1>10 DEF CallsTyped, Keyed
  <1> QED
    BY <1>1, <1>9, <1>11 DEF ToSet

LEMMA SameFollows ==
  ASSUME CallsTyped
  PROVE  Follows(calls) /\ \A i \in DOMAIN calls : calls[i].state \in States
  <1>1. \A i \in DOMAIN calls : calls[i].state \in States /\ (calls[i].poll => calls[i].state = "Dialing")
    BY CallsAre DEF Call, CallsTyped
  <1> QED
    BY <1>1, CallsAre, OverIs DEF Follows

\* The connected calls are put on hold, for a new one
LEMMA HeldFollows ==
  ASSUME CallsTyped
  PROVE  LET cs == ChangeGroup(calls, "Connected", "Hold") IN
         /\ Restates(cs, calls) /\ Follows(cs)
         /\ \A i \in DOMAIN calls :
              /\ cs[i].state = IF calls[i].state = "Connected" THEN "Hold" ELSE calls[i].state
              /\ cs[i].state \in States /\ cs[i].poll = calls[i].poll
  <1> DEFINE cs == ChangeGroup(calls, "Connected", "Hold")
  <1>1. "Hold" \in RawStates
    BY OverIs
  <1>2. /\ Restates(cs, calls)
        /\ \A i \in DOMAIN calls : cs[i].state = IF calls[i].state = "Connected" THEN "Hold" ELSE calls[i].state
    BY <1>1, CallsAre, ChangeGroupIs
  <1> HIDE DEF cs
  <1>3. \A i \in DOMAIN calls : calls[i].state \in States /\ (calls[i].poll => calls[i].state = "Dialing")
    BY CallsAre DEF Call, CallsTyped
  <1>4. Follows(cs) /\ \A i \in DOMAIN calls : cs[i].state \in States /\ cs[i].poll = calls[i].poll
    BY <1>2, <1>3, OverIs DEF Follows, Restates
  <1> QED
    BY <1>2, <1>4 DEF cs

\* One call gets another state
Accepted(cs, key) == SetState(ChangeGroup(cs, "Connected", "Hold"), key, "Connected")

LEMMA AcceptedIs ==
  ASSUME CallsTyped, NEW key
  PROVE  LET cs == Accepted(calls, key) IN
         /\ Restates(cs, calls)
         /\ \A i \in DOMAIN calls :
              /\ cs[i].state = IF calls[i].key = key THEN "Connected"
                               ELSE IF calls[i].state = "Connected" THEN "Hold" ELSE calls[i].state
              /\ cs[i].state \in States
         /\ (\A i \in DOMAIN calls : calls[i].key = key => calls[i].state # "Dialing")
              => Handled(cs) /\ Follows(cs) /\ \A i \in DOMAIN calls : cs[i].poll = calls[i].poll
  <1> DEFINE a == ChangeGroup(calls, "Connected", "Hold")
             cs == SetState(a, key, "Connected")
  <1>1. {"Hold", "Connected"} \subseteq RawStates
    BY OverIs
  <1>2. /\ Restates(a, calls)
        /\ \A i \in DOMAIN calls : a[i].state = IF calls[i].state = "Connected" THEN "Hold" ELSE calls[i].state
    BY <1>1, CallsAre, ChangeGroupIs
  <1>3. Listed(a) /\ DOMAIN a = DOMAIN calls
    BY <1>2 DEF Restates
  <1> HIDE DEF a
  <1>4. /\ Restates(cs, a)
        /\ \A i \in DOMAIN a : cs[i].state = IF a[i].key = key THEN "Connected" ELSE a[i].state
    BY <1>1, <1>3, SetStateIs
  <1> HIDE DEF cs
  <1>5. Restates(cs, calls)
    BY <1>2, <1>4, RestatesTrans
  <1>6. \A i \in DOMAIN calls : calls[i].state \in States
    BY CallsAre DEF Call
  <1>7. \A i \in DOMAIN calls :
              /\ cs[i].state = IF calls[i].key = key THEN "Connected"
                               ELSE IF calls[i].state = "Connected" THEN "Hold" ELSE calls[i].state
              /\ cs[i].state \in States
    <2>1. \A i \in DOMAIN calls : a[i].key = calls[i].key
      BY <1>2 DEF Restates
    <2> QED
      BY <1>2, <1>3, <1>4, <1>6, <2>1, OverIs
  <1>8. ASSUME \A i \in DOMAIN calls : calls[i].key = key => calls[i].state # "Dialing"
        PROVE  Handled(cs) /\ Follows(cs) /\ \A i \in DOMAIN calls : cs[i].poll = calls[i].poll
    <2>1. Handled(cs)
      BY <1>5, <1>6, <1>7, <1>8, OverIs DEF Handled
    <2> QED
      BY <2>1, HandledFollows
  <1>9. cs = Accepted(calls, key)
    BY DEF cs, a, Accepted
  <1> QED
    BY <1>5, <1>7, <1>8, <1>9

LEMMA KeptByLeave ==
  ASSUME CallsTyped, NEW cs, Follows(cs), \A i \in DOMAIN calls : cs[i].poll = calls[i].poll,
         \A d \in AnyCall' : \E i \in DOMAIN calls : d = cs[i] /\ cs[i].state \in States
  PROVE  CallsKept
  <1>1. ASSUME NEW d \in AnyCall'
        PROVE  \E c \in AnyCall :
                 c.key = d.key /\ (d.poll => c.poll) /\ (d.state \in Early => c.state \in Early)
    <2>1. PICK i \in DOMAIN calls : d = cs[i]
      OBVIOUS
    <2>2. calls[i] \in AnyCall
      BY DEF AnyCall
    <2>3. cs[i].key = calls[i].key /\ (cs[i].state \in Early => calls[i].state \in Early)
      BY DEF Follows, Early
    <2> QED
      BY <2>1, <2>2, <2>3
  <1> QED
    BY <1>1 DEF CallsKept

LEMMA SameKept ==
  ASSUME UNCHANGED calls
  PROVE  AnyCall' = AnyCall /\ CallsKept /\ CallsKeptButHead /\ (CallsTyped => CallsTyped')
  <1>1. AnyCall' = AnyCall
    BY DEF AnyCall
  <1> QED
    BY <1>1 DEF CallsKept, CallsKeptButHead, CallsTyped

LEMMA HangingEffect ==
  ASSUME ProviderTyped, NEW new, PlainOnly(new), NEW cs, Handled(cs), HangupWith(new, cs)
  PROVE  ProviderTyped'
  <1>0. CallsTyped /\ QueueTyped /\ Waiting /\ usedIds \subseteq Ids
    BY DEF ProviderTyped
  <1>1. Chat(new) /\ Leave(cs, usedIds)
    BY DEF HangupWith
  <1>2. Follows(cs) /\ \A i \in DOMAIN calls : cs[i].poll = calls[i].poll
    BY <1>0, HandledFollows
  <1>3. /\ CallsTyped'
        /\ \A d \in AnyCall' : \E i \in DOMAIN calls : d = cs[i] /\ cs[i].state \in States
        /\ usedIds' \subseteq Ids
    BY <1>0, <1>1, <1>2, LeaveEffect
  <1>4. CallsKept
    BY <1>0, <1>2, <1>3, KeptByLeave
  <1>5. Fresh(new) /\ FitFor(new) /\ new \in Seq(Commands)
    BY PlainFresh DEF PlainOnly
  <1>6. QueueTyped' /\ Waiting'
    BY <1>0, <1>1, <1>4, <1>5, ChatTyped, ChatWaiting
  <1> QED
    BY <1>3, <1>6 DEF ProviderTyped, HangupWith, RingTimersStopped

\* One command, that asks for no dialing call
Question(command, c) ==
  /\ command \in Commands /\ CmdOk(command) /\ command.key = c.key
  /\ command.slot \in {"acceptDone", "holdRequestDone", "activateSingleRequestDone",
                       "activateMultipleRequestDone", "joinRequestDone", "detachRequestDone"}

LEMMA QuestionFresh ==
  ASSUME NEW c, NEW command, Question(command, c)
  PROVE  Fresh(<<command>>)
  <1>1. /\ <<command>> \in Seq(Commands)
        /\ \A k \in DOMAIN <<command>> : <<command>>[k] = command
    BY OneIs DEF Question
  <1> QED
    BY <1>1 DEF Question, Fresh, DialSlots

LEMMA CommandIs ==
  ASSUME NEW at \in Ats, NEW id \in Ids \cup {0}, NEW slot \in Slots, NEW key \in Nat
  PROVE  /\ Command(at, id, slot, key) \in Commands
         /\ Command(at, id, slot, key).at = at /\ Command(at, id, slot, key).id = id
         /\ Command(at, id, slot, key).slot = slot /\ Command(at, id, slot, key).key = key
  BY SlotsAre

LEMMA QuestionIs ==
  ASSUME NEW at \in Ats, NEW id \in Ids \cup {0}, NEW c \in Call,
         NEW slot \in {"acceptDone", "holdRequestDone", "activateSingleRequestDone",
                       "activateMultipleRequestDone", "joinRequestDone", "detachRequestDone"},
         slot = "acceptDone" => at \in {"ATA", "CHLD2"},
         slot \in Swaps => at = "CHLD2",
         at \notin {"CLCC", "ATD"}
  PROVE  Question(Command(at, id, slot, c.key), c)
  <1>1. slot \in Slots /\ c.key \in Nat
    BY DEF Slots, Call
  <1>2. /\ Command(at, id, slot, c.key) \in Commands
        /\ Command(at, id, slot, c.key).at = at /\ Command(at, id, slot, c.key).id = id
        /\ Command(at, id, slot, c.key).slot = slot /\ Command(at, id, slot, c.key).key = c.key
    BY <1>1, CommandIs
  <1> QED
    BY <1>2 DEF Question, CmdOk

Asking(c) == Hold(c) \/ ActivateCall(c) \/ ActivateGroup(c) \/ Join(c) \/ Detach(c)

LEMMA AskingForm ==
  ASSUME CallsTyped, NEW c \in AnyCall, Asking(c)
  PROVE  \E command : /\ Question(command, c) /\ command.slot # "acceptDone"
                      /\ c.state \in {"Connected", "Hold"}
                      /\ Chat(<<command>>)
                      /\ UNCHANGED <<calls, usedIds, ring, hangup, line>>
  <1>0. c \in Call /\ c.id \in Ids \cup {0} /\ 0 \in Ids \cup {0}
    BY CallsAre DEF Call
  <1>1. ASSUME NEW at \in Ats, NEW id \in Ids \cup {0}, NEW slot \in Slots, Ask(at, id, slot, c)
        PROVE  /\ Chat(<<Command(at, id, slot, c.key)>>)
               /\ UNCHANGED <<calls, usedIds, ring, hangup, line>>
               /\ Command(at, id, slot, c.key).slot = slot
    <2>1. c.key \in Nat
      BY <1>0 DEF Call
    <2> QED
      BY <1>1, <2>1, CommandIs DEF Ask
  <1>2. {"CHLD2", "CHLD2x", "CHLD3", "CHLD4"} \subseteq Ats
    BY DEF Ats
  <1>3. {"holdRequestDone", "activateSingleRequestDone",
         "activateMultipleRequestDone", "joinRequestDone", "detachRequestDone"} \subseteq Slots
    BY DEF Slots
  <1>4. CASE Hold(c)
    <2>1. Ask("CHLD2", 0, "holdRequestDone", c) /\ c.state = "Connected"
      BY <1>4 DEF Hold
    <2>2. Question(Command("CHLD2", 0, "holdRequestDone", c.key), c)
      BY <1>0, <1>2, QuestionIs DEF Swaps
    <2> QED
      BY <1>0, <1>1, <1>2, <1>3, <2>1, <2>2
  <1>5. CASE ActivateCall(c)
    <2>1. \/ Ask("CHLD2x", c.id, "activateSingleRequestDone", c)
          \/ Ask("CHLD2", 0, "activateSingleRequestDone", c)
      BY <1>5 DEF ActivateCall
    <2>2. Question(Command("CHLD2x", c.id, "activateSingleRequestDone", c.key), c)
      BY <1>0, <1>2, QuestionIs DEF Swaps
    <2>3. Question(Command("CHLD2", 0, "activateSingleRequestDone", c.key), c)
      BY <1>0, <1>2, QuestionIs DEF Swaps
    <2>4. c.state \in {"Connected", "Hold"}
      BY <1>5 DEF ActivateCall
    <2> QED
      BY <1>0, <1>1, <1>2, <1>3, <2>1, <2>2, <2>3, <2>4
  <1>6. CASE ActivateGroup(c)
    <2>1. Ask("CHLD2", 0, "activateMultipleRequestDone", c) /\ c.state \in {"Connected", "Hold"}
      BY <1>6 DEF ActivateGroup
    <2>2. Question(Command("CHLD2", 0, "activateMultipleRequestDone", c.key), c)
      BY <1>0, <1>2, QuestionIs DEF Swaps
    <2> QED
      BY <1>0, <1>1, <1>2, <1>3, <2>1, <2>2
  <1>7. CASE Join(c)
    <2>1. Ask("CHLD3", 0, "joinRequestDone", c) /\ c.state \in {"Connected", "Hold"}
      BY <1>7 DEF Join
    <2>2. Question(Command("CHLD3", 0, "joinRequestDone", c.key), c)
      BY <1>0, <1>2, QuestionIs DEF Swaps
    <2> QED
      BY <1>0, <1>1, <1>2, <1>3, <2>1, <2>2
  <1>8. CASE Detach(c)
    <2>1. Ask("CHLD4", 0, "detachRequestDone", c) /\ c.state \in {"Connected", "Hold"}
      BY <1>8 DEF Detach
    <2>2. Question(Command("CHLD4", 0, "detachRequestDone", c.key), c)
      BY <1>0, <1>2, QuestionIs DEF Swaps
    <2> QED
      BY <1>0, <1>1, <1>2, <1>3, <2>1, <2>2
  <1> QED
    BY <1>4, <1>5, <1>6, <1>7, <1>8 DEF Asking

LEMMA QuestionFits ==
  ASSUME NEW c \in AnyCall, NEW command, Question(command, c),
         \A d \in AnyCall' : d.key = c.key => d.state \notin Early
  PROVE  FitFor(<<command>>) /\ <<command>> \in Seq(Commands)
  <1>1. /\ <<command>> \in Seq(Commands)
        /\ \A k \in DOMAIN <<command>> : <<command>>[k] = command
    BY OneIs DEF Question
  <1> QED
    BY <1>1 DEF Question, FitFor, DialSlots

LEMMA AskingEffect ==
  ASSUME ProviderTyped, NEW c \in AnyCall, NEW command, Question(command, c),
         c.state \in {"Connected", "Hold"}, Chat(<<command>>),
         UNCHANGED <<calls, usedIds, ring, hangup, line>>
  PROVE  ProviderTyped'
  <1>0. CallsTyped /\ QueueTyped /\ Waiting
    BY DEF ProviderTyped
  <1>1. AnyCall' = AnyCall /\ CallsKept /\ CallsTyped'
    BY <1>0, SameKept
  <1>2. \A d \in AnyCall' : d.key = c.key => d.state \notin Early
    BY <1>0, <1>1, CallsAre DEF Early
  <1>3. Fresh(<<command>>) /\ FitFor(<<command>>) /\ <<command>> \in Seq(Commands)
    BY <1>2, QuestionFresh, QuestionFits
  <1>4. QueueTyped' /\ Waiting'
    BY <1>0, <1>1, <1>3, ChatTyped, ChatWaiting
  <1> QED
    BY <1>1, <1>4 DEF ProviderTyped, ring

LEMMA AcceptEffect ==
  ASSUME ProviderTyped, NEW c \in AnyCall, Accept(c)
  PROVE  /\ ProviderTyped'
         /\ c.state = "Incoming" /\ detect' = FALSE /\ missed' = FALSE
         /\ \E command : /\ Question(command, c) /\ command.slot = "acceptDone"
                         /\ command.at = IF HasGroup(calls, "Connected") \/ HasGroup(calls, "Hold")
                                         THEN "CHLD2" ELSE "ATA"
                         /\ Chat(<<command>>)
         /\ Restates(calls', calls)
         /\ \A i \in DOMAIN calls :
              calls'[i].state = IF calls[i].key = c.key THEN "Connected"
                                ELSE IF calls[i].state = "Connected" THEN "Hold" ELSE calls[i].state
         /\ \A d \in AnyCall' : \E i \in DOMAIN calls : d = calls'[i]
         /\ \A i \in DOMAIN calls : calls'[i] \in AnyCall'
         /\ UNCHANGED <<usedIds, incomingId, typeKnown, hangup, line>>
  <1>0. CallsTyped /\ QueueTyped /\ Waiting
    BY DEF ProviderTyped
  <1>1. /\ c.state = "Incoming" /\ detect' = FALSE /\ missed' = FALSE
        /\ calls' = Accepted(calls, c.key)
        /\ UNCHANGED <<usedIds, incomingId, typeKnown, hangup, line>>
    BY Zenon DEF Accept, Accepted
  <1>2. c \in Call /\ \A d \in AnyCall : d.key = c.key => d = c
    BY <1>0, CallsAre
  <1> DEFINE at == IF HasGroup(calls, "Connected") \/ HasGroup(calls, "Hold") THEN "CHLD2" ELSE "ATA"
             command == Command(at, 0, "acceptDone", c.key)
  <1>3. Chat(<<command>>)
    BY Zenon DEF Accept
  <1>4. Question(command, c)
    <2>1. at \in Ats /\ 0 \in Ids \cup {0} /\ at \in {"ATA", "CHLD2"} /\ at \notin {"CLCC", "ATD"}
      BY DEF Ats
    <2> HIDE DEF at
    <2> QED
      BY <2>1, <1>2, QuestionIs DEF Swaps
  <1>5. command.slot = "acceptDone" /\ command.at = at
    <2>1. at \in Ats /\ "acceptDone" \in Slots /\ c.key \in Nat
      BY <1>2 DEF Ats, Slots, Call
    <2> HIDE DEF at
    <2> QED
      BY <2>1, CommandIs
  <1> HIDE DEF command
  <1>6. /\ Restates(calls', calls)
        /\ \A i \in DOMAIN calls :
              /\ calls'[i].state = IF calls[i].key = c.key THEN "Connected"
                                ELSE IF calls[i].state = "Connected" THEN "Hold" ELSE calls[i].state
              /\ calls'[i].state \in States
        /\ Follows(calls') /\ \A i \in DOMAIN calls : calls'[i].poll = calls[i].poll
    <2>1. \A i \in DOMAIN calls : calls[i].key = c.key => calls[i].state # "Dialing"
      BY <1>0, <1>1, <1>2, CallsAre
    <2> QED
      BY <1>0, <1>1, <2>1, AcceptedIs
  <1>7. /\ CallsTyped'
        /\ \A d \in AnyCall' : \E i \in DOMAIN calls : d = calls'[i]
        /\ \A i \in DOMAIN calls : calls'[i] \in AnyCall'
    BY <1>0, <1>6, DirectEffect
  <1>8. CallsKept
    BY <1>0, <1>6, <1>7, KeptByLeave
  <1>9. \A d \in AnyCall' : d.key = c.key => d.state \notin Early
    BY <1>6, <1>7 DEF Restates, Early
  <1>10. Fresh(<<command>>) /\ FitFor(<<command>>) /\ <<command>> \in Seq(Commands)
    BY <1>4, <1>9, QuestionFresh, QuestionFits
  <1>11. QueueTyped' /\ Waiting'
    BY <1>0, <1>3, <1>8, <1>10, ChatTyped, ChatWaiting
  <1>12. ProviderTyped'
    BY <1>1, <1>7, <1>11 DEF ProviderTyped
  <1>13. \E com : /\ Question(com, c) /\ com.slot = "acceptDone"
                         /\ com.at = at
                         /\ Chat(<<com>>)
    BY <1>3, <1>4, <1>5
  <1> QED
    BY <1>1, <1>6, <1>7, <1>12, <1>13

LEMMA ChatOne ==
  ASSUME QueueTyped, NEW command \in Commands, Chat(<<command>>)
  PROVE  /\ cmds' \in Seq(Commands) /\ wire' \in Seq(Sents)
         /\ Len(cmds) \in Nat /\ DOMAIN cmds = 1 .. Len(cmds)
         /\ \A j \in DOMAIN cmds' :
              \/ j \in DOMAIN cmds /\ cmds'[j] = cmds[j]
              \/ j = Len(cmds) + 1 /\ cmds'[j] = command
         /\ \A j \in DOMAIN cmds : j \in DOMAIN cmds' /\ cmds'[j] = cmds[j]
         /\ Len(cmds) + 1 \in DOMAIN cmds' /\ cmds'[Len(cmds) + 1] = command
         /\ cmds' # <<>>
         /\ cmds # <<>> => wire' = wire /\ Head(cmds') = Head(cmds)
         /\ cmds = <<>> => wire' = Append(wire, Sent(command)) /\ cmds' = <<command>>
                           /\ Head(cmds') = command
  <1> DEFINE new == <<command>>
  <1>1. /\ new \in Seq(Commands) /\ DOMAIN new = {1} /\ new[1] = command /\ Len(new) = 1
        /\ new # <<>> /\ Head(new) = command
    BY OneIs
  <1>2. Chat(new)
    OBVIOUS
  <1> HIDE DEF new
  <1>3. /\ cmds' \in Seq(Commands) /\ wire' \in Seq(Sents)
        /\ Len(cmds) \in Nat /\ DOMAIN cmds = 1 .. Len(cmds)
        /\ \A j \in DOMAIN cmds' :
             \/ j \in DOMAIN cmds /\ cmds'[j] = cmds[j]
             \/ j \notin DOMAIN cmds /\ j - Len(cmds) \in DOMAIN new /\ cmds'[j] = new[j - Len(cmds)]
        /\ \A j \in DOMAIN cmds : j \in DOMAIN cmds' /\ cmds'[j] = cmds[j]
        /\ \A k \in DOMAIN new : Len(cmds) + k \in DOMAIN cmds' /\ cmds'[Len(cmds) + k] = new[k]
        /\ cmds # <<>> => wire' = wire /\ cmds' # <<>> /\ Head(cmds') = Head(cmds)
        /\ cmds = <<>> /\ new # <<>> => wire' = Append(wire, Sent(Head(new))) /\ cmds' = new
    BY <1>1, <1>2, ChatEffect
  <1>4. ASSUME NEW j \in DOMAIN cmds'
        PROVE  \/ j \in DOMAIN cmds /\ cmds'[j] = cmds[j]
               \/ j = Len(cmds) + 1 /\ cmds'[j] = command
    <2>1. j \in Nat
      <3>1. cmds' \in Seq(Commands)
        BY <1>3
      <3> QED
        BY <3>1
    <2>2. CASE j \in DOMAIN cmds /\ cmds'[j] = cmds[j]
      BY <2>2
    <2>3. CASE j - Len(cmds) \in DOMAIN new /\ cmds'[j] = new[j - Len(cmds)]
      <3>1. j - Len(cmds) = 1
        BY <2>3, <1>1
      <3> QED
        BY <3>1, <2>1, <2>3, <1>1, <1>3
    <2>4. \/ j \in DOMAIN cmds /\ cmds'[j] = cmds[j]
          \/ j - Len(cmds) \in DOMAIN new /\ cmds'[j] = new[j - Len(cmds)]
      BY <1>3
    <2> QED
      BY <2>2, <2>3, <2>4
  <1>5. Len(cmds) + 1 \in DOMAIN cmds' /\ cmds'[Len(cmds) + 1] = command
    <2>1. 1 \in DOMAIN new /\ new[1] = command
      BY <1>1
    <2>2. \A k \in DOMAIN new : Len(cmds) + k \in DOMAIN cmds' /\ cmds'[Len(cmds) + k] = new[k]
      BY <1>3
    <2> QED
      BY <2>1, <2>2
  <1>6. cmds = <<>> => wire' = Append(wire, Sent(command)) /\ cmds' = new /\ Head(cmds') = command
    BY <1>1, <1>3
  <1>7. cmds' # <<>>
    BY <1>5
  <1>8. /\ cmds' \in Seq(Commands) /\ wire' \in Seq(Sents)
        /\ Len(cmds) \in Nat /\ DOMAIN cmds = 1 .. Len(cmds)
        /\ \A j \in DOMAIN cmds : j \in DOMAIN cmds' /\ cmds'[j] = cmds[j]
        /\ cmds # <<>> => wire' = wire /\ Head(cmds') = Head(cmds)
    BY <1>3
  <1> QED
    BY <1>4, <1>5, <1>6, <1>7, <1>8 DEF new

HasBoth == HasGroup(calls, "Connected") /\ HasGroup(calls, "Hold")
Dialed == [key |-> NewKey, state |-> "Dialing", id |-> NextId(usedIds), poll |-> FALSE]
DialCommand == Command("ATD", 0, "dialRequestDone", NewKey)

LEMMA NewCallIs ==
  ASSUME CallsTyped, QueueTyped, NEW state \in States, NEW id \in Ids \cup {0}
  PROVE  LET new == [key |-> NewKey, state |-> state, id |-> id, poll |-> FALSE] IN
         new \in Call /\ new.key = NewKey /\ new.state = state /\ new.id = id /\ new.poll = FALSE
  BY NewKeyFresh DEF Call

LEMMA DialEffect ==
  ASSUME ProviderTyped, Dial, ~(UNCHANGED provider)
  PROVE  /\ ProviderTyped' /\ ~HasBoth
         /\ Dialed \in Call /\ Dialed.state = "Dialing" /\ Dialed.id = NextId(usedIds)
         /\ Dialed.key = NewKey /\ Dialed.poll = FALSE
         /\ \A c \in AnyCall : c.key # NewKey
         /\ DialCommand \in Commands /\ DialCommand.at = "ATD" /\ DialCommand.id = 0
         /\ DialCommand.slot = "dialRequestDone" /\ DialCommand.key = NewKey
         /\ Chat(<<DialCommand>>)
         /\ calls' = Append(ChangeGroup(calls, "Connected", "Hold"), Dialed)
         /\ LET cs == ChangeGroup(calls, "Connected", "Hold") IN
            /\ Restates(cs, calls)
            /\ \A i \in DOMAIN calls :
                 cs[i].state = IF calls[i].state = "Connected" THEN "Hold" ELSE calls[i].state
            /\ \A d \in AnyCall' : d = Dialed \/ \E i \in DOMAIN calls : d = cs[i]
            /\ \A i \in DOMAIN calls : cs[i] \in AnyCall'
         /\ Dialed \in AnyCall'
         /\ usedIds' = usedIds \cup ({Dialed.id} \ {0})
         /\ UNCHANGED <<ring, hangup, line>>
  <1>0. CallsTyped /\ QueueTyped /\ Waiting /\ usedIds \in SUBSET Ids
    BY DEF ProviderTyped
  <1>1. /\ ~HasBoth
        /\ Chat(<<DialCommand>>)
        /\ calls' = Append(ChangeGroup(calls, "Connected", "Hold"), Dialed)
        /\ usedIds' = usedIds \cup ({NextId(usedIds)} \ {0})
        /\ UNCHANGED <<ring, hangup, line>>
    BY Zenon DEF Dial, HasBoth, Dialed, DialCommand
  <1>2. NextId(usedIds) \in Ids \cup {0} /\ "Dialing" \in States
    BY <1>0, NextIdFresh, OverIs
  <1>3. /\ Dialed \in Call /\ Dialed.state = "Dialing" /\ Dialed.id = NextId(usedIds)
        /\ Dialed.key = NewKey /\ Dialed.poll = FALSE
    BY <1>0, <1>2, NewCallIs DEF Dialed
  <1>4. /\ DialCommand \in Commands /\ DialCommand.at = "ATD" /\ DialCommand.id = 0
        /\ DialCommand.slot = "dialRequestDone" /\ DialCommand.key = NewKey
    <2>1. "ATD" \in Ats /\ "dialRequestDone" \in Slots /\ NewKey \in Nat /\ 0 \in Ids \cup {0}
      BY <1>0, NewKeyFresh DEF Ats, Slots
    <2> QED
      BY <2>1, CommandIs DEF DialCommand
  <1>5. /\ \A c \in AnyCall : c.key # NewKey
        /\ \A j \in DOMAIN cmds : cmds[j].key # NewKey
    BY <1>0, NewKeyFresh
  <1> DEFINE cs == ChangeGroup(calls, "Connected", "Hold")
  <1>6. /\ Restates(cs, calls) /\ Follows(cs)
        /\ \A i \in DOMAIN calls :
              /\ cs[i].state = IF calls[i].state = "Connected" THEN "Hold" ELSE calls[i].state
              /\ cs[i].state \in States /\ cs[i].poll = calls[i].poll
    BY <1>0, HeldFollows
  <1>7. calls' = Append(cs, Dialed)
    BY <1>1
  <1> HIDE DEF cs
  <1>8. /\ CallsTyped'
        /\ \A d \in AnyCall' : d = Dialed \/ \E i \in DOMAIN calls : d = cs[i]
        /\ \A i \in DOMAIN calls : cs[i] \in AnyCall'
        /\ Dialed \in AnyCall'
    <2>1. \A i \in DOMAIN calls : cs[i].state \in States
      BY <1>6
    <2>2. CallsTyped /\ QueueTyped /\ Follows(cs) /\ Dialed \in Call /\ Dialed.key = NewKey
          /\ Dialed.poll = FALSE /\ calls' = Append(cs, Dialed)
      BY <1>0, <1>3, <1>6, <1>7
    <2>3. /\ CallsTyped'
          /\ AnyCall' = ToSet(cs) \cup {Dialed}
          /\ \A d \in AnyCall' : d = Dialed \/ \E i \in DOMAIN calls : d = cs[i]
          /\ \A i \in DOMAIN calls : cs[i] \in AnyCall'
          /\ Dialed \in AnyCall'
      BY <2>1, <2>2, AddedEffect, Zenon
    <2> QED
      BY <2>3
  <1>9. /\ <<DialCommand>> \in Seq(Commands)
        /\ \A k \in DOMAIN <<DialCommand>> : k = 1 /\ <<DialCommand>>[k] = DialCommand
        /\ DOMAIN <<DialCommand>> = {1}
    BY <1>4, OneIs
  <1>10. Fresh(<<DialCommand>>)
    <2>1. CmdOk(DialCommand)
      BY <1>4 DEF CmdOk, Swaps
    <2> QED
      BY <1>4, <1>5, <1>9, <2>1 DEF Fresh
  <1>11. QueueTyped'
    BY <1>0, <1>1, <1>10, ChatTyped
  <1>12. Waiting'
    <2>1. \A j \in DOMAIN cmds' :
              \/ j \in DOMAIN cmds /\ cmds'[j] = cmds[j]
              \/ cmds'[j] = DialCommand
      BY <1>0, <1>1, <1>4, ChatOne
    <2>2. ASSUME NEW d \in AnyCall', NEW j \in DOMAIN cmds', cmds'[j].key = d.key
          PROVE  /\ cmds'[j].slot \in DialSlots => ~d.poll
                 /\ cmds'[j].slot = "activateSingleRequestDone" => d.state \notin Early
      <3>1. CASE d = Dialed
        BY <3>1, <2>1, <2>2, <1>3, <1>4, <1>5
      <3>2. CASE \E i \in DOMAIN calls : d = cs[i]
        <4>1. PICK i \in DOMAIN calls : d = cs[i]
          BY <3>2
        <4>2. d.key = calls[i].key /\ d.poll = calls[i].poll /\ calls[i] \in AnyCall
              /\ (d.state \in Early => calls[i].state \in Early)
          BY <4>1, <1>0, <1>6, CallsAre DEF Restates, Early
        <4>3. j \in DOMAIN cmds /\ cmds'[j] = cmds[j]
          BY <4>2, <2>1, <2>2, <1>4, <1>5
        <4> QED
          BY <4>2, <4>3, <2>2, <1>0 DEF Waiting
      <3> QED
        BY <3>1, <3>2, <1>8
    <2> QED
      BY <2>2 DEF Waiting
  <1>13. usedIds' \subseteq Ids /\ usedIds' = usedIds \cup ({Dialed.id} \ {0})
    BY <1>0, <1>1, <1>2, <1>3
  <1>14. ProviderTyped'
    BY <1>1, <1>8, <1>11, <1>12, <1>13 DEF ProviderTyped, ring
  <1> QED
    BY <1>1, <1>3, <1>4, <1>5, <1>6, <1>8, <1>13, <1>14 DEF cs

LEMMA RingingEffect ==
  ASSUME ProviderTyped, NEW known \in BOOLEAN, Ringing(known), UNCHANGED <<hangup, chat>>
  PROVE  /\ ProviderTyped' /\ AnyCall' = AnyCall
         /\ HasGroup(calls, "Incoming") => UNCHANGED <<usedIds, incomingId, detect>>
         /\ ~HasGroup(calls, "Incoming") =>
              /\ incomingId' = IF incomingId = 0 THEN NextId(usedIds) ELSE incomingId
              /\ usedIds' = usedIds \cup ({incomingId'} \ {0})
              /\ detect' = TRUE
         /\ missed' = TRUE /\ UNCHANGED calls
  <1>0. CallsTyped /\ QueueTyped /\ Waiting /\ usedIds \in SUBSET Ids
    BY DEF ProviderTyped
  <1>1. UNCHANGED calls /\ missed' = TRUE
    BY DEF Ringing
  <1>2. AnyCall' = AnyCall /\ CallsTyped'
    BY <1>0, <1>1, SameKept
  <1>3. QueueTyped' /\ Waiting'
    BY <1>0, <1>2 DEF QueueTyped, Waiting, chat
  <1>4. NextId(usedIds) \in Ids \cup {0}
    BY <1>0, NextIdFresh
  <1>5. /\ HasGroup(calls, "Incoming") => UNCHANGED <<usedIds, incomingId, detect, typeKnown>>
        /\ ~HasGroup(calls, "Incoming") =>
              /\ incomingId' = IF incomingId = 0 THEN NextId(usedIds) ELSE incomingId
              /\ usedIds' = usedIds \cup ({incomingId'} \ {0})
              /\ detect' = TRUE /\ typeKnown' = (typeKnown \/ known)
    BY DEF Ringing
  <1>6. /\ usedIds' \subseteq Ids /\ incomingId' \in Ids \cup {0}
        /\ detect' \in BOOLEAN /\ typeKnown' \in BOOLEAN
    <2>1. CASE HasGroup(calls, "Incoming")
      BY <2>1, <1>5 DEF ProviderTyped
    <2>2. CASE ~HasGroup(calls, "Incoming")
      BY <2>2, <1>4, <1>5 DEF ProviderTyped
    <2> QED
      BY <2>1, <2>2
  <1> QED
    BY <1>1, <1>2, <1>3, <1>5, <1>6 DEF ProviderTyped

AnnouncedCall(id) == [key |-> NewKey, state |-> "Incoming", id |-> id, poll |-> FALSE]

LEMMA AnnounceEffect ==
  ASSUME CallsTyped, QueueTyped, NEW id \in Ids \cup {0}, AnnounceCall(id)
  PROVE  /\ CallsTyped'
         /\ AnnouncedCall(id) \in Call
         /\ AnnouncedCall(id).key = NewKey /\ AnnouncedCall(id).state = "Incoming"
         /\ AnnouncedCall(id).id = id /\ AnnouncedCall(id).poll = FALSE
         /\ AnyCall' = AnyCall \cup {AnnouncedCall(id)}
         /\ incomingId' = 0 /\ typeKnown' = FALSE
  <1>1. calls' = Append(calls, AnnouncedCall(id)) /\ incomingId' = 0 /\ typeKnown' = FALSE
    BY DEF AnnounceCall, Announced, AnnouncedCall
  <1>2. "Incoming" \in States
    BY OverIs
  <1>3. /\ AnnouncedCall(id) \in Call
        /\ AnnouncedCall(id).key = NewKey /\ AnnouncedCall(id).state = "Incoming"
        /\ AnnouncedCall(id).id = id /\ AnnouncedCall(id).poll = FALSE
    BY <1>2, NewCallIs DEF AnnouncedCall
  <1>4. Follows(calls) /\ \A i \in DOMAIN calls : calls[i].state \in States
    BY SameFollows
  <1>5. CallsTyped' /\ AnyCall' = ToSet(calls) \cup {AnnouncedCall(id)}
    BY <1>1, <1>3, <1>4, AddedEffect
  <1> QED
    BY <1>1, <1>3, <1>5, CallsAre

ClccQuestion == Command("CLCC", 0, "clccIncoming", 0)

LEMMA ClccQuestionIs ==
  /\ ClccQuestion \in Commands /\ ClccQuestion.at = "CLCC" /\ ClccQuestion.id = 0
  /\ ClccQuestion.slot = "clccIncoming" /\ ClccQuestion.key = 0
  /\ CmdOk(ClccQuestion)
  /\ <<ClccQuestion>> \in Seq(Commands) /\ Fresh(<<ClccQuestion>>)
  <1>1. "CLCC" \in Ats /\ "clccIncoming" \in Slots /\ 0 \in Nat /\ 0 \in Ids \cup {0}
    BY DEF Ats, Slots
  <1>2. /\ ClccQuestion \in Commands /\ ClccQuestion.at = "CLCC" /\ ClccQuestion.id = 0
        /\ ClccQuestion.slot = "clccIncoming" /\ ClccQuestion.key = 0
    BY <1>1, CommandIs DEF ClccQuestion
  <1>3. CmdOk(ClccQuestion)
    BY <1>2 DEF CmdOk, Swaps
  <1>4. /\ <<ClccQuestion>> \in Seq(Commands)
        /\ \A k \in DOMAIN <<ClccQuestion>> : <<ClccQuestion>>[k] = ClccQuestion
    BY <1>2, OneIs
  <1> QED
    BY <1>2, <1>3, <1>4 DEF Fresh, DialSlots

LEMMA DetectEffect ==
  ASSUME ProviderTyped, DetectTimeout
  PROVE  /\ ProviderTyped' /\ detect = TRUE /\ detect' = FALSE
         /\ \/ /\ AnnouncedCall(incomingId) \in Call
               /\ AnnouncedCall(incomingId).state = "Incoming" /\ AnnouncedCall(incomingId).id = incomingId
               /\ AnnouncedCall(incomingId).key = NewKey /\ AnnouncedCall(incomingId).poll = FALSE
               /\ AnyCall' = AnyCall \cup {AnnouncedCall(incomingId)}
               /\ incomingId' = 0 /\ UNCHANGED chat
            \/ /\ Chat(<<ClccQuestion>>)
               /\ AnyCall' = AnyCall /\ UNCHANGED <<calls, incomingId>>
         /\ UNCHANGED <<usedIds, missed, hangup, line>>
  <1>0. CallsTyped /\ QueueTyped /\ Waiting /\ incomingId \in Ids \cup {0}
    BY DEF ProviderTyped
  <1>1. detect = TRUE /\ detect' = FALSE /\ UNCHANGED <<usedIds, missed, hangup, line>>
    BY DEF DetectTimeout, ProviderTyped
  <1>2. CASE AnnounceCall(incomingId) /\ UNCHANGED chat
    <2>1. /\ CallsTyped'
          /\ AnnouncedCall(incomingId) \in Call
          /\ AnnouncedCall(incomingId).key = NewKey /\ AnnouncedCall(incomingId).state = "Incoming"
          /\ AnnouncedCall(incomingId).id = incomingId /\ AnnouncedCall(incomingId).poll = FALSE
          /\ AnyCall' = AnyCall \cup {AnnouncedCall(incomingId)}
          /\ incomingId' = 0 /\ typeKnown' = FALSE
      BY <1>0, <1>2, AnnounceEffect
    <2>2. QueueTyped'
      BY <1>0, <1>2 DEF QueueTyped, chat
    <2>3. Waiting'
      <3>1. \A j \in DOMAIN cmds : cmds[j].key # NewKey
        BY <1>0, NewKeyFresh
      <3> QED
        BY <3>1, <2>1, <1>0, <1>2 DEF Waiting, chat
    <2> QED
      BY <1>1, <1>2, <2>1, <2>2, <2>3 DEF ProviderTyped
  <1>3. CASE Chat(<<ClccQuestion>>) /\ UNCHANGED <<calls, incomingId, typeKnown>>
    <2>1. AnyCall' = AnyCall /\ CallsKept /\ CallsTyped'
      BY <1>0, <1>3, SameKept
    <2>2. FitFor(<<ClccQuestion>>)
      <3>1. \A k \in DOMAIN <<ClccQuestion>> : <<ClccQuestion>>[k] = ClccQuestion
        BY ClccQuestionIs, OneIs
      <3> QED
        BY <3>1, ClccQuestionIs DEF FitFor, DialSlots
    <2>3. QueueTyped' /\ Waiting'
      BY <1>0, <1>3, <2>1, <2>2, ClccQuestionIs, ChatTyped, ChatWaiting
    <2> QED
      BY <1>1, <1>3, <2>1, <2>3 DEF ProviderTyped
  <1>4. \/ AnnounceCall(incomingId) /\ UNCHANGED chat
        \/ Chat(<<ClccQuestion>>) /\ UNCHANGED <<calls, incomingId, typeKnown>>
    BY Zenon DEF DetectTimeout, ClccQuestion
  <1> QED
    BY <1>2, <1>3, <1>4

LEMMA MissedIs ==
  ASSUME CallsTyped
  PROVE  /\ Handled(Missed(calls)) /\ NoneTaken(Missed(calls))
         /\ \A i \in DOMAIN calls :
              \/ Missed(calls)[i].state = calls[i].state
              \/ calls[i].state = "Incoming" /\ Missed(calls)[i].state = "Missed"
         /\ HasGroup(calls, "Incoming") =>
              \E i \in DOMAIN calls : calls[i].state = "Incoming" /\ Missed(calls)[i].state = "Missed"
  <1>0. "Missed" \in Over
    BY OverIs
  <1>1. CASE HasGroup(calls, "Incoming")
    <2>1. PICK i \in DOMAIN calls : calls[i].state = "Incoming" /\ Head(Group(calls, "Incoming")).key = calls[i].key
      BY <1>1, CallsAre, FirstOfGroup
    <2>2. Missed(calls) = SetState(calls, calls[i].key, "Missed")
      BY <1>1, <2>1 DEF Missed
    <2>3. /\ Handled(Missed(calls)) /\ NoneTaken(Missed(calls))
          /\ \A j \in DOMAIN calls :
               Missed(calls)[j].state = IF calls[j].key = calls[i].key THEN "Missed" ELSE calls[j].state
      BY <1>0, <2>2, EndOne
    <2>4. \A j \in DOMAIN calls : calls[j].key = calls[i].key => j = i
      BY DEF CallsTyped
    <2>5. \A j \in DOMAIN calls :
             \/ Missed(calls)[j].state = calls[j].state
             \/ calls[j].state = "Incoming" /\ Missed(calls)[j].state = "Missed"
      BY <2>1, <2>3, <2>4
    <2>6. calls[i].state = "Incoming" /\ Missed(calls)[i].state = "Missed"
      BY <2>1, <2>3
    <2> QED
      BY <2>3, <2>5, <2>6
  <1>2. CASE ~HasGroup(calls, "Incoming")
    <2>1. Missed(calls) = calls
      BY <1>2 DEF Missed
    <2>2. \A i \in DOMAIN calls : calls[i].state \in States
      BY CallsAre DEF Call
    <2>3. Restates(calls, calls)
      BY CallsAre DEF Restates
    <2>4. Handled(calls)
      BY <2>2, <2>3, OverIs DEF Handled
    <2>5. NoneTaken(calls)
      BY DEF NoneTaken
    <2> QED
      BY <1>2, <2>1, <2>4, <2>5
  <1> QED
    BY <1>1, <1>2

\* Calls end without a command
LEMMA EndingEffect ==
  ASSUME ProviderTyped, NEW cs, Handled(cs), Leave(cs, usedIds), UNCHANGED chat
  PROVE  CallsTyped' /\ QueueTyped' /\ Waiting' /\ usedIds' \subseteq Ids
  <1>0. CallsTyped /\ QueueTyped /\ Waiting /\ usedIds \subseteq Ids
    BY DEF ProviderTyped
  <1>1. Follows(cs) /\ \A i \in DOMAIN calls : cs[i].poll = calls[i].poll
    BY <1>0, HandledFollows
  <1>2. /\ CallsTyped'
        /\ \A d \in AnyCall' : \E i \in DOMAIN calls : d = cs[i] /\ cs[i].state \in States
        /\ usedIds' \subseteq Ids
    BY <1>0, <1>1, LeaveEffect
  <1>3. CallsKept
    BY <1>0, <1>1, <1>2, KeptByLeave
  <1>4. QueueTyped'
    BY <1>0 DEF QueueTyped, chat
  <1>5. ASSUME NEW d \in AnyCall', NEW j \in DOMAIN cmds', cmds'[j].key = d.key
        PROVE  /\ cmds'[j].slot \in DialSlots => ~d.poll
               /\ cmds'[j].slot = "activateSingleRequestDone" => d.state \notin Early
    <2>1. cmds' = cmds
      BY DEF chat
    <2>2. PICK c \in AnyCall :
            c.key = d.key /\ (d.poll => c.poll) /\ (d.state \in Early => c.state \in Early)
      BY <1>3 DEF CallsKept
    <2> QED
      BY <2>1, <2>2, <1>0, <1>5 DEF Waiting
  <1>6. Waiting'
    BY <1>5 DEF Waiting
  <1> QED
    BY <1>2, <1>4, <1>6

LEMMA MissedEffect ==
  ASSUME ProviderTyped, MissedTimeout
  PROVE  /\ ProviderTyped' /\ missed' = FALSE /\ detect' = FALSE
         /\ Handled(Missed(calls)) /\ NoneTaken(Missed(calls)) /\ Leave(Missed(calls), usedIds)
         /\ UNCHANGED <<incomingId, hangup, chat, line>>
  <1>0. CallsTyped
    BY DEF ProviderTyped
  <1>1. /\ missed' = FALSE /\ detect' = FALSE /\ Leave(Missed(calls), usedIds)
        /\ UNCHANGED <<incomingId, typeKnown, hangup, chat, line>>
    BY DEF MissedTimeout
  <1>2. Handled(Missed(calls)) /\ NoneTaken(Missed(calls))
    BY <1>0, MissedIs
  <1>3. CallsTyped' /\ QueueTyped' /\ Waiting' /\ usedIds' \subseteq Ids
    BY <1>1, <1>2, EndingEffect
  <1> QED
    BY <1>1, <1>2, <1>3 DEF ProviderTyped

DialQuestion(c) == Command("CLCC", 0, "clccDialCheck", c.key)

LEMMA DialQuestionIs ==
  ASSUME NEW c \in Call
  PROVE  /\ DialQuestion(c) \in Commands /\ DialQuestion(c).at = "CLCC" /\ DialQuestion(c).id = 0
         /\ DialQuestion(c).slot = "clccDialCheck" /\ DialQuestion(c).key = c.key
         /\ CmdOk(DialQuestion(c)) /\ DialQuestion(c).slot \in DialSlots
         /\ <<DialQuestion(c)>> \in Seq(Commands) /\ DOMAIN <<DialQuestion(c)>> = {1}
         /\ <<DialQuestion(c)>>[1] = DialQuestion(c)
  <1>1. "CLCC" \in Ats /\ "clccDialCheck" \in Slots /\ c.key \in Nat /\ 0 \in Ids \cup {0}
    BY DEF Ats, Slots, Call
  <1>2. /\ DialQuestion(c) \in Commands /\ DialQuestion(c).at = "CLCC" /\ DialQuestion(c).id = 0
        /\ DialQuestion(c).slot = "clccDialCheck" /\ DialQuestion(c).key = c.key
    BY <1>1, CommandIs DEF DialQuestion
  <1> QED
    BY <1>2, OneIs DEF CmdOk, Swaps, DialSlots

\* The timer of one call is set or cleared
Polled(c, poll) == [i \in DOMAIN calls |->
                      IF calls[i].key = c.key THEN [c EXCEPT !.poll = poll] ELSE calls[i]]

LEMMA PolledIs ==
  ASSUME CallsTyped, NEW c \in AnyCall, NEW poll \in BOOLEAN, c.state = "Dialing"
  PROVE  /\ Follows(Polled(c, poll))
         /\ \A i \in DOMAIN calls :
              /\ Polled(c, poll)[i].state = calls[i].state
              /\ Polled(c, poll)[i].poll = IF calls[i].key = c.key THEN poll ELSE calls[i].poll
              /\ Polled(c, poll)[i].state \in States
  <1> DEFINE cs == Polled(c, poll)
  <1>1. c \in Call /\ \A i \in DOMAIN calls : calls[i] \in Call /\ (calls[i].key = c.key => calls[i] = c)
    BY CallsAre
  <1>2. /\ DOMAIN cs = DOMAIN calls
        /\ \A i \in DOMAIN calls : cs[i] = IF calls[i].key = c.key THEN [c EXCEPT !.poll = poll] ELSE calls[i]
        /\ cs = [i \in DOMAIN calls |-> cs[i]]
    BY DEF Polled
  <1> HIDE DEF cs
  <1>3. /\ [c EXCEPT !.poll = poll] \in Call
        /\ [c EXCEPT !.poll = poll].state = c.state /\ [c EXCEPT !.poll = poll].key = c.key
        /\ [c EXCEPT !.poll = poll].id = c.id /\ [c EXCEPT !.poll = poll].poll = poll
    BY <1>1 DEF Call
  <1>4. ASSUME NEW i \in DOMAIN calls
        PROVE  /\ cs[i] \in Call /\ cs[i].key = calls[i].key /\ cs[i].id = calls[i].id
               /\ cs[i].state = calls[i].state
               /\ cs[i].poll = IF calls[i].key = c.key THEN poll ELSE calls[i].poll
    <2>1. CASE calls[i].key = c.key
      <3>1. cs[i] = [c EXCEPT !.poll = poll] /\ calls[i] = c
        BY <1>1, <1>2, <2>1
      <3> QED
        BY <3>1, <2>1, <1>3
    <2>2. CASE calls[i].key # c.key
      BY <1>1, <1>2, <2>2
    <2> QED
      BY <2>1, <2>2
  <1>5. \A i \in DOMAIN calls : cs[i].state \in States /\ cs[i] \in RawCalls
    BY <1>4, StatesDiffer DEF Call
  <1>6. cs \in Seq(RawCalls)
    <2>1. Len(calls) \in Nat /\ DOMAIN calls = 1 .. Len(calls)
      BY CallsAre
    <2> QED
      BY <2>1, <1>2, <1>5
  <1>7. Listed(cs)
    BY <1>2, <1>4, <1>6, CallsAre DEF Listed, Keyed
  <1>8. \A i \in DOMAIN calls : cs[i].poll => cs[i].state = "Dialing"
    BY <1>1, <1>4 DEF CallsTyped
  <1>9. Follows(cs)
    BY <1>2, <1>4, <1>5, <1>7, <1>8, OverIs DEF Follows
  <1> QED
    BY <1>4, <1>5, <1>9 DEF cs

LEMMA DialCheckEffect ==
  ASSUME ProviderTyped, NEW c \in AnyCall, DialCheck(c)
  PROVE  /\ ProviderTyped' /\ c.poll /\ c.state = "Dialing"
         /\ calls' = Polled(c, FALSE)
         /\ Follows(calls')
         /\ \A i \in DOMAIN calls :
              /\ calls'[i].state = calls[i].state
              /\ calls'[i].poll = IF calls[i].key = c.key THEN FALSE ELSE calls[i].poll
         /\ \A d \in AnyCall' : \E i \in DOMAIN calls : d = calls'[i]
         /\ \A i \in DOMAIN calls : calls'[i] \in AnyCall'
         /\ Chat(<<DialQuestion(c)>>)
         /\ UNCHANGED <<usedIds, ring, hangup, line>>
  <1>0. CallsTyped /\ QueueTyped /\ Waiting
    BY DEF ProviderTyped
  <1>1. /\ c.poll /\ calls' = Polled(c, FALSE) /\ Chat(<<DialQuestion(c)>>)
        /\ UNCHANGED <<usedIds, ring, hangup, line>>
    BY Zenon DEF DialCheck, Polled, DialQuestion
  <1>2. c.state = "Dialing" /\ c \in Call /\ c \in AnyCall
    BY <1>0, <1>1, CallsAre
  <1>3. /\ Follows(calls')
        /\ \A i \in DOMAIN calls :
              /\ calls'[i].state = calls[i].state
              /\ calls'[i].poll = IF calls[i].key = c.key THEN FALSE ELSE calls[i].poll
              /\ calls'[i].state \in States
    <2>1. FALSE \in BOOLEAN
      OBVIOUS
    <2> HIDE DEF Polled
    <2>2. /\ Follows(Polled(c, FALSE))
          /\ \A i \in DOMAIN calls :
               /\ Polled(c, FALSE)[i].state = calls[i].state
               /\ Polled(c, FALSE)[i].poll = IF calls[i].key = c.key THEN FALSE ELSE calls[i].poll
               /\ Polled(c, FALSE)[i].state \in States
      BY <2>1, <1>0, <1>2, PolledIs
    <2> QED
      BY <1>1, <2>2
  <1>4. /\ CallsTyped'
        /\ \A d \in AnyCall' : \E i \in DOMAIN calls : d = calls'[i]
        /\ \A i \in DOMAIN calls : calls'[i] \in AnyCall'
    BY <1>0, <1>3, DirectEffect
  <1>5. /\ \A d \in AnyCall' : d.key = c.key => ~d.poll
        /\ CallsKept
    <2>1. ASSUME NEW d \in AnyCall'
          PROVE  /\ d.key = c.key => ~d.poll
                 /\ \E e \in AnyCall :
                      e.key = d.key /\ (d.poll => e.poll) /\ (d.state \in Early => e.state \in Early)
      <3>1. PICK i \in DOMAIN calls : d = calls'[i]
        BY <1>4
      <3>2. calls[i] \in AnyCall /\ d.key = calls[i].key
        BY <3>1, <1>0, <1>3, CallsAre DEF Follows
      <3> QED
        BY <3>1, <3>2, <1>3
    <2> QED
      BY <2>1 DEF CallsKept
  <1>6. /\ DialQuestion(c) \in Commands
        /\ DialQuestion(c).slot = "clccDialCheck" /\ DialQuestion(c).key = c.key
        /\ CmdOk(DialQuestion(c)) /\ DialQuestion(c).slot \in DialSlots
        /\ <<DialQuestion(c)>> \in Seq(Commands) /\ DOMAIN <<DialQuestion(c)>> = {1}
        /\ <<DialQuestion(c)>>[1] = DialQuestion(c)
    BY <1>2, DialQuestionIs
  <1>7. Fresh(<<DialQuestion(c)>>)
    <2>1. \A j \in DOMAIN cmds : cmds[j].slot \in DialSlots => cmds[j].key # c.key
      BY <1>0, <1>1, <1>2 DEF Waiting
    <2> QED
      BY <1>6, <2>1 DEF Fresh
  <1>8. FitFor(<<DialQuestion(c)>>)
    BY <1>5, <1>6 DEF FitFor
  <1>9. QueueTyped' /\ Waiting'
    BY <1>0, <1>1, <1>5, <1>6, <1>7, <1>8, ChatTyped, ChatWaiting
  <1> QED
    BY <1>1, <1>2, <1>3, <1>4, <1>9 DEF ProviderTyped, ring

-----------------------------------------------------------------------------
\* Answers

LEMMA OwnerIs ==
  ASSUME CallsTyped, NEW command, NEW c \in Owner(command)
  PROVE  c \in AnyCall /\ c \in Call /\ c.key = command.key
         /\ \A i \in DOMAIN calls : calls[i].key = command.key => calls[i] = c
  <1>1. c \in AnyCall /\ c.key = command.key
    BY DEF Owner, AnyCall
  <1> QED
    BY <1>1, CallsAre

LEMMA CheckedIs ==
  ASSUME NEW stat
  PROVE  /\ Checked(stat) \in {"Dialing", "Hold", "Connected"}
         /\ Checked(stat) = "Dialing" <=> stat = "dialing"
         /\ Checked(stat) = "Hold" <=> stat = "held"
  <1>1. CASE stat = "dialing"
    BY <1>1 DEF Checked
  <1>2. CASE stat = "held"
    BY <1>2 DEF Checked
  <1>3. CASE stat # "dialing" /\ stat # "held"
    BY <1>3 DEF Checked
  <1> QED
    BY <1>1, <1>2, <1>3

LEMMA DialCheckedIs ==
  ASSUME CallsTyped, NEW c \in AnyCall, c.state = "Dialing", ~c.poll, NEW list
  PROVE  LET cs == ClccDialCheck(c, list)
             mine == {f \in list : f.id = c.id}
             state == IF mine = {} THEN "Connected" ELSE Checked((CHOOSE f \in mine : TRUE).stat) IN
         /\ Follows(cs)
         /\ state \in {"Dialing", "Hold", "Connected"}
         /\ \A i \in DOMAIN calls :
              /\ cs[i].state = IF calls[i].key = c.key THEN state ELSE calls[i].state
              /\ cs[i].poll = (calls[i].poll \/ (calls[i].key = c.key /\ state = "Dialing"))
              /\ cs[i].state \in States
  <1> DEFINE cs == ClccDialCheck(c, list)
             mine == {f \in list : f.id = c.id}
             state == IF mine = {} THEN "Connected" ELSE Checked((CHOOSE f \in mine : TRUE).stat)
  <1>1. state \in {"Dialing", "Hold", "Connected"}
    BY CheckedIs
  <1>2. cs = IF state = "Dialing" THEN Polled(c, TRUE) ELSE SetState(calls, c.key, state)
    BY Zenon DEF ClccDialCheck, Polled
  <1> HIDE DEF state, mine
  <1>3. \A i \in DOMAIN calls : /\ calls[i] \in Call /\ calls[i].poll \in BOOLEAN
                                /\ (calls[i].key = c.key => calls[i] = c)
    BY CallsAre DEF Call
  <1>4. CASE state = "Dialing"
    <2>1. TRUE \in BOOLEAN
      OBVIOUS
    <2>2. /\ Follows(Polled(c, TRUE))
          /\ \A i \in DOMAIN calls :
               /\ Polled(c, TRUE)[i].state = calls[i].state
               /\ Polled(c, TRUE)[i].poll = IF calls[i].key = c.key THEN TRUE ELSE calls[i].poll
               /\ Polled(c, TRUE)[i].state \in States
      BY <2>1, PolledIs
    <2>3. cs = Polled(c, TRUE)
      BY <1>2, <1>4
    <2> HIDE DEF cs
    <2>4. \A i \in DOMAIN calls :
              /\ cs[i].state = IF calls[i].key = c.key THEN state ELSE calls[i].state
              /\ cs[i].poll = (calls[i].poll \/ (calls[i].key = c.key /\ state = "Dialing"))
              /\ cs[i].state \in States
      BY <1>3, <1>4, <2>2, <2>3
    <2> QED
      BY <1>1, <2>2, <2>3, <2>4 DEF cs, state, mine
  <1>5. CASE state \in {"Hold", "Connected"}
    <2>1. state \in RawStates /\ state \in States
      BY <1>5, OverIs
    <2>2. cs = SetState(calls, c.key, state)
      BY <1>2, <1>5
    <2>3. /\ Restates(SetState(calls, c.key, state), calls)
          /\ \A i \in DOMAIN calls : SetState(calls, c.key, state)[i].state
                                   = IF calls[i].key = c.key THEN state ELSE calls[i].state
      BY <2>1, CallsAre, SetStateIs
    <2> HIDE DEF cs
    <2>4. /\ Restates(cs, calls)
          /\ \A i \in DOMAIN calls : cs[i].state = IF calls[i].key = c.key THEN state ELSE calls[i].state
      BY <2>2, <2>3
    <2>5. \A i \in DOMAIN calls : calls[i].state \in States /\ (calls[i].poll => calls[i].state = "Dialing")
      BY CallsAre DEF Call, CallsTyped
    <2>6. Follows(cs)
      BY <1>3, <1>5, <2>1, <2>4, <2>5, OverIs DEF Restates, Follows
    <2>7. \A i \in DOMAIN calls :
              /\ cs[i].state = IF calls[i].key = c.key THEN state ELSE calls[i].state
              /\ cs[i].poll = (calls[i].poll \/ (calls[i].key = c.key /\ state = "Dialing"))
              /\ cs[i].state \in States
      BY <1>3, <1>5, <2>1, <2>4, <2>5 DEF Restates
    <2> QED
      BY <1>1, <2>6, <2>7 DEF cs, state, mine
  <1> QED
    BY <1>1, <1>4, <1>5

LEMMA DialCheckedSome ==
  ASSUME CallsTyped, NEW c \in AnyCall, c.state = "Dialing", ~c.poll, NEW list
  PROVE  /\ Follows(ClccDialCheck(c, list))
         /\ \E state : \A i \in DOMAIN calls :
              /\ ClccDialCheck(c, list)[i].state = IF calls[i].key = c.key THEN state ELSE calls[i].state
              /\ ClccDialCheck(c, list)[i].poll
                    = (calls[i].poll \/ (calls[i].key = c.key /\ state = "Dialing"))
              /\ ClccDialCheck(c, list)[i].state \in States
  <1> DEFINE cs == ClccDialCheck(c, list)
             mine == {f \in list : f.id = c.id}
             state == IF mine = {} THEN "Connected" ELSE Checked((CHOOSE f \in mine : TRUE).stat)
  <1>1. /\ Follows(cs)
        /\ state \in {"Dialing", "Hold", "Connected"}
        /\ \A i \in DOMAIN calls :
              /\ cs[i].state = IF calls[i].key = c.key THEN state ELSE calls[i].state
              /\ cs[i].poll = (calls[i].poll \/ (calls[i].key = c.key /\ state = "Dialing"))
              /\ cs[i].state \in States
    BY DialCheckedIs
  <1> HIDE DEF state, mine, cs
  <1>2. \E s : \A i \in DOMAIN calls :
              /\ cs[i].state = IF calls[i].key = c.key THEN s ELSE calls[i].state
              /\ cs[i].poll = (calls[i].poll \/ (calls[i].key = c.key /\ s = "Dialing"))
              /\ cs[i].state \in States
    BY <1>1, Zenon
  <1> QED
    BY <1>1, <1>2 DEF cs

LEMMA DialCheckedKept ==
  ASSUME CallsTyped, NEW c \in AnyCall, c.state = "Dialing", ~c.poll, NEW list, NEW cs,
         cs = ClccDialCheck(c, list)
  PROVE  /\ Follows(cs)
         /\ \A i \in DOMAIN calls : cs[i].poll => calls[i].poll \/ calls[i].key = c.key
         /\ \A i \in DOMAIN calls : calls[i].key # c.key => cs[i].state = calls[i].state
  <1>1. /\ Follows(ClccDialCheck(c, list))
        /\ \E state : \A i \in DOMAIN calls :
              /\ ClccDialCheck(c, list)[i].state = IF calls[i].key = c.key THEN state ELSE calls[i].state
              /\ ClccDialCheck(c, list)[i].poll
                    = (calls[i].poll \/ (calls[i].key = c.key /\ state = "Dialing"))
              /\ ClccDialCheck(c, list)[i].state \in States
    BY DialCheckedSome, Zenon
  <1>2. PICK state : \A i \in DOMAIN calls :
              /\ cs[i].state = IF calls[i].key = c.key THEN state ELSE calls[i].state
              /\ cs[i].poll = (calls[i].poll \/ (calls[i].key = c.key /\ state = "Dialing"))
    BY <1>1, Zenon
  <1>3. Follows(cs)
    BY <1>1
  <1> QED
    BY <1>2, <1>3

LEMMA ToConnectedIs ==
  ASSUME CallsTyped
  PROVE  LET cs == ChangeGroup(calls, "Hold", "Connected") IN
         /\ Handled(cs)
         /\ \A i \in DOMAIN calls :
              cs[i].state = IF calls[i].state = "Hold" THEN "Connected" ELSE calls[i].state
  <1> DEFINE cs == ChangeGroup(calls, "Hold", "Connected")
  <1>1. "Connected" \in RawStates
    BY OverIs
  <1>2. /\ Restates(cs, calls)
        /\ \A i \in DOMAIN calls : cs[i].state = IF calls[i].state = "Hold" THEN "Connected" ELSE calls[i].state
    BY <1>1, CallsAre, ChangeGroupIs
  <1> HIDE DEF cs
  <1>3. \A i \in DOMAIN calls : calls[i].state \in States
    BY CallsAre DEF Call
  <1>4. Handled(cs)
    BY <1>2, <1>3, OverIs DEF Handled
  <1> QED
    BY <1>2, <1>4 DEF cs

Detached == ChangeGroup(ChangeGroup(calls, "Connected", "HangupLocal"), "Hold", "HangupLocal")

LEMMA DetachedIs ==
  ASSUME CallsTyped
  PROVE  /\ Handled(Detached)
         /\ \A i \in DOMAIN calls :
              Detached[i].state = IF calls[i].state \in {"Connected", "Hold"} THEN "HangupLocal"
                                  ELSE calls[i].state
  <1>0. "HangupLocal" \in RawStates
    BY OverIs
  <1>1. /\ Restates(Detached, calls)
        /\ \A i \in DOMAIN calls :
              LET mid == IF calls[i].state = "Connected" THEN "HangupLocal" ELSE calls[i].state IN
              Detached[i].state = IF mid = "Hold" THEN "HangupLocal" ELSE mid
    BY <1>0, ChangeTwo DEF Detached
  <1>2. \A i \in DOMAIN calls : calls[i].state \in {"Incoming", "Dialing", "Connected", "Hold"}
    BY CallsAre, OverIs DEF Call
  <1>3. \A i \in DOMAIN calls :
          Detached[i].state = IF calls[i].state \in {"Connected", "Hold"} THEN "HangupLocal"
                              ELSE calls[i].state
    BY <1>1, <1>2
  <1> QED
    BY <1>1, <1>2, <1>3, OverIs DEF Handled

LEMMA SwapHandled ==
  ASSUME CallsTyped
  PROVE  Handled(Swap(calls))
  <1>1. \A i \in DOMAIN calls : calls[i].state \in States /\ calls[i].state # "Swapping"
    BY CallsAre, OverIs DEF Call
  <1>2. /\ Restates(Swap(calls), calls)
        /\ \A i \in DOMAIN calls :
              LET new == Swap(calls)[i].state IN
              \/ new = "Hold" /\ calls[i].state = "Connected"
              \/ new = calls[i].state /\ calls[i].state # "Connected"
              \/ new = "Connected" /\ calls[i].state = "Incoming"
              \/ new = "Connected" /\ calls[i].state = "Hold" /\ ~HasGroup(calls, "Incoming")
    BY <1>1, CallsAre, SwapIs
  <1>3. \A i \in DOMAIN calls :
              \/ Swap(calls)[i].state = "Hold" /\ calls[i].state = "Connected"
              \/ Swap(calls)[i].state = calls[i].state
              \/ Swap(calls)[i].state = "Connected" /\ calls[i].state \in {"Incoming", "Hold"}
    BY <1>2
  <1> QED
    BY <1>1, <1>2, <1>3, OverIs DEF Handled

\* The calls after a slot, slot by slot
LEMMA SlotResultCases ==
  ASSUME NEW slot \in Slots, NEW c, NEW ok \in BOOLEAN, NEW list
  PROVE  LET cs == SlotResult(slot, c, ok, list) IN
         /\ slot = "dialRequestDone" =>
              cs = IF c.state = "Dialing" /\ ~ok THEN SetState(calls, c.key, "HangupLocal") ELSE calls
         /\ slot = "clccDialCheck" =>
              cs = IF c.state = "Dialing" THEN ClccDialCheck(c, list) ELSE calls
         /\ slot = "acceptDone" => cs = IF ~ok THEN SetState(calls, c.key, "Missed") ELSE calls
         /\ slot \in Swaps => cs = IF ok THEN Swap(calls) ELSE calls
         /\ slot = "activateSingleRequestDone" => cs = IF ok THEN Accepted(calls, c.key) ELSE calls
         /\ slot = "joinRequestDone" =>
              cs = IF ok THEN ChangeGroup(calls, "Hold", "Connected") ELSE calls
         /\ slot = "detachRequestDone" => cs = IF ok THEN Detached ELSE calls
         /\ slot \in {"none", "clccIncoming"} => cs = calls
  <1>1. slot = "dialRequestDone" =>
           SlotResult(slot, c, ok, list)
              = IF c.state = "Dialing" /\ ~ok THEN SetState(calls, c.key, "HangupLocal") ELSE calls
    BY DEF SlotResult
  <1>2. slot = "clccDialCheck" =>
           SlotResult(slot, c, ok, list) = IF c.state = "Dialing" THEN ClccDialCheck(c, list) ELSE calls
    BY DEF SlotResult
  <1>3. slot = "acceptDone" =>
           SlotResult(slot, c, ok, list) = IF ~ok THEN SetState(calls, c.key, "Missed") ELSE calls
    BY DEF SlotResult
  <1>4. slot \in Swaps => SlotResult(slot, c, ok, list) = IF ok THEN Swap(calls) ELSE calls
    BY DEF SlotResult, Swaps
  <1>5. slot = "activateSingleRequestDone" =>
           SlotResult(slot, c, ok, list) = IF ok THEN Accepted(calls, c.key) ELSE calls
    BY DEF SlotResult, Accepted
  <1>6. slot = "joinRequestDone" =>
           SlotResult(slot, c, ok, list) = IF ok THEN ChangeGroup(calls, "Hold", "Connected") ELSE calls
    BY DEF SlotResult
  <1>7. slot = "detachRequestDone" => SlotResult(slot, c, ok, list) = IF ok THEN Detached ELSE calls
    BY DEF SlotResult, Detached
  <1>8. slot \in {"none", "clccIncoming"} => SlotResult(slot, c, ok, list) = calls
    BY DEF SlotResult
  <1> QED
    BY <1>1, <1>2, <1>3, <1>4, <1>5, <1>6, <1>7, <1>8, Zenon

\* What every slot keeps
IncomingKept(cs, slot, ok) ==
  \A i \in DOMAIN calls : calls[i].state = "Incoming" =>
     \/ cs[i].state = "Incoming"
     \/ slot \in Swaps /\ ok
     \/ slot = "acceptDone" /\ ~ok /\ cs[i].state \in Over

Kept(cs, slot, key, ok) ==
  /\ Follows(cs)
  /\ \A i \in DOMAIN calls :
       cs[i].poll => calls[i].poll \/ (slot = "clccDialCheck" /\ calls[i].key = key)
  /\ IncomingKept(cs, slot, ok)

LEMMA HandledKept ==
  ASSUME CallsTyped, NEW cs, Handled(cs), NEW slot, NEW key, NEW ok, IncomingKept(cs, slot, ok)
  PROVE  Kept(cs, slot, key, ok)
  BY HandledFollows DEF Kept

LEMMA StillIncoming ==
  ASSUME NEW cs, NEW slot, NEW ok,
         \A i \in DOMAIN calls : calls[i].state = "Incoming" => cs[i].state = "Incoming"
  PROVE  IncomingKept(cs, slot, ok)
  BY DEF IncomingKept

LEMMA SameHandled ==
  ASSUME CallsTyped
  PROVE  Handled(calls)
  <1>1. \A i \in DOMAIN calls : calls[i].state \in States
    BY CallsAre DEF Call
  <1>2. Restates(calls, calls)
    BY CallsAre DEF Restates
  <1> QED
    BY <1>1, <1>2, OverIs DEF Handled

LEMMA SlotResultIs ==
  ASSUME ProviderTyped, cmds # <<>>, NEW c \in Owner(Head(cmds)), NEW ok \in BOOLEAN, NEW list
  PROVE  Kept(SlotResult(Head(cmds).slot, c, ok, list), Head(cmds).slot, Head(cmds).key, ok)
  <1>0. CallsTyped /\ QueueTyped /\ Waiting
    BY DEF ProviderTyped
  <1>1. c \in AnyCall /\ c \in Call /\ c.key = Head(cmds).key
        /\ \A i \in DOMAIN calls : calls[i].key = Head(cmds).key => calls[i] = c
    BY <1>0, OwnerIs
  <1>2. Head(cmds) \in Commands /\ Head(cmds) = cmds[1] /\ 1 \in DOMAIN cmds
    BY <1>0, TailIs DEF QueueTyped
  <1> DEFINE slot == Head(cmds).slot
             key == Head(cmds).key
             cs == SlotResult(slot, c, ok, list)
  <1>3. slot \in Slots
    BY <1>2, SlotsAre
  <1>4. /\ slot \in DialSlots => ~c.poll
        /\ slot = "activateSingleRequestDone" => c.state \notin Early
    BY <1>0, <1>1, <1>2 DEF Waiting
  <1>5. /\ slot = "dialRequestDone" =>
             cs = IF c.state = "Dialing" /\ ~ok THEN SetState(calls, c.key, "HangupLocal") ELSE calls
        /\ slot = "clccDialCheck" =>
             cs = IF c.state = "Dialing" THEN ClccDialCheck(c, list) ELSE calls
        /\ slot = "acceptDone" => cs = IF ~ok THEN SetState(calls, c.key, "Missed") ELSE calls
        /\ slot \in Swaps => cs = IF ok THEN Swap(calls) ELSE calls
        /\ slot = "activateSingleRequestDone" => cs = IF ok THEN Accepted(calls, c.key) ELSE calls
        /\ slot = "joinRequestDone" =>
             cs = IF ok THEN ChangeGroup(calls, "Hold", "Connected") ELSE calls
        /\ slot = "detachRequestDone" => cs = IF ok THEN Detached ELSE calls
        /\ slot \in {"none", "clccIncoming"} => cs = calls
    BY <1>3, SlotResultCases, Zenon
  <1> SUFFICES Kept(cs, slot, key, ok)
    OBVIOUS
  <1> HIDE DEF cs, slot, key
  <1>6. Kept(calls, slot, key, ok)
    <2>1. Handled(calls) /\ IncomingKept(calls, slot, ok)
      BY <1>0, SameHandled DEF IncomingKept
    <2> QED
      BY <2>1, <1>0, HandledKept, Zenon
  <1>7. CASE slot = "dialRequestDone" /\ c.state = "Dialing" /\ ~ok
    <2>1. "HangupLocal" \in Over
      BY OverIs
    <2>2. /\ Handled(SetState(calls, c.key, "HangupLocal"))
          /\ \A i \in DOMAIN calls : SetState(calls, c.key, "HangupLocal")[i].state
                                     = IF calls[i].key = c.key THEN "HangupLocal" ELSE calls[i].state
      BY <2>1, <1>0, EndOne
    <2>3. cs = SetState(calls, c.key, "HangupLocal")
      BY <1>5, <1>7
    <2>4. \A i \in DOMAIN calls : calls[i].state = "Incoming" => cs[i].state = "Incoming"
      BY <2>2, <2>3, <1>1, <1>7
    <2>5. Handled(cs) /\ IncomingKept(cs, slot, ok)
      BY <2>2, <2>3, <2>4, StillIncoming, Zenon
    <2> QED
      BY <2>5, <1>0, HandledKept, Zenon
  <1>8. CASE slot = "clccDialCheck" /\ c.state = "Dialing"
    <2>1. cs = ClccDialCheck(c, list) /\ ~c.poll
      BY <1>4, <1>5, <1>8 DEF DialSlots
    <2>2. CallsTyped /\ c \in AnyCall /\ c.state = "Dialing" /\ ~c.poll
      BY <2>1, <1>0, <1>1, <1>8
    <2>3. /\ Follows(cs)
          /\ \A i \in DOMAIN calls : cs[i].poll => calls[i].poll \/ calls[i].key = c.key
          /\ \A i \in DOMAIN calls : calls[i].key # c.key => cs[i].state = calls[i].state
      <3> DEFINE ds == ClccDialCheck(c, list)
      <3>1. ds = ClccDialCheck(c, list)
        OBVIOUS
      <3> HIDE DEF ds
      <3>2. /\ Follows(ds)
            /\ \A i \in DOMAIN calls : ds[i].poll => calls[i].poll \/ calls[i].key = c.key
            /\ \A i \in DOMAIN calls : calls[i].key # c.key => ds[i].state = calls[i].state
        BY <3>1, <2>2, DialCheckedKept
      <3>3. cs = ds
        BY <3>1, <2>1
      <3> QED
        BY <3>2, <3>3
    <2>4. /\ \A i \in DOMAIN calls : cs[i].poll => calls[i].poll \/ calls[i].key = key
          /\ \A i \in DOMAIN calls : calls[i].state = "Incoming" => cs[i].state = "Incoming"
      BY <2>3, <1>1, <1>8 DEF key
    <2>5. IncomingKept(cs, slot, ok)
      BY <2>4, StillIncoming
    <2> QED
      BY <2>3, <2>4, <2>5, <1>8 DEF Kept
  <1>9. CASE slot = "acceptDone" /\ ~ok
    <2>1. "Missed" \in Over
      BY OverIs
    <2>2. /\ Handled(SetState(calls, c.key, "Missed"))
          /\ \A i \in DOMAIN calls : SetState(calls, c.key, "Missed")[i].state
                                     = IF calls[i].key = c.key THEN "Missed" ELSE calls[i].state
      BY <2>1, <1>0, EndOne
    <2>3. cs = SetState(calls, c.key, "Missed")
      BY <1>5, <1>9
    <2>4. \A i \in DOMAIN calls : calls[i].state = "Incoming" =>
            cs[i].state = "Incoming" \/ cs[i].state \in Over
      BY <2>1, <2>2, <2>3
    <2>5. Handled(cs)
      BY <2>2, <2>3
    <2>6. IncomingKept(cs, slot, ok)
      BY <2>4, <1>9 DEF IncomingKept
    <2> QED
      BY <2>5, <2>6, <1>0, HandledKept, Zenon
  <1>10. CASE slot \in Swaps /\ ok
    <2>1. cs = Swap(calls) /\ Handled(cs)
      BY <1>0, <1>5, <1>10, SwapHandled
    <2>2. IncomingKept(cs, slot, ok)
      BY <1>10 DEF IncomingKept
    <2> QED
      BY <2>1, <2>2, <1>0, HandledKept, Zenon
  <1>11. CASE slot = "activateSingleRequestDone" /\ ok
    <2>1. cs = Accepted(calls, c.key)
      BY <1>5, <1>11
    <2>2. /\ \A i \in DOMAIN calls :
               Accepted(calls, c.key)[i].state = IF calls[i].key = c.key THEN "Connected"
                               ELSE IF calls[i].state = "Connected" THEN "Hold" ELSE calls[i].state
          /\ (\A i \in DOMAIN calls : calls[i].key = c.key => calls[i].state # "Dialing")
              => Handled(Accepted(calls, c.key))
      BY <1>0, AcceptedIs
    <2>3. \A i \in DOMAIN calls : calls[i].key = c.key => calls[i].state \notin {"Incoming", "Dialing"}
      BY <1>1, <1>4, <1>11 DEF Early
    <2>4. Handled(cs) /\ \A i \in DOMAIN calls : calls[i].state = "Incoming" => cs[i].state = "Incoming"
      BY <2>1, <2>2, <2>3
    <2>5. IncomingKept(cs, slot, ok)
      BY <2>4, StillIncoming
    <2> QED
      BY <2>4, <2>5, <1>0, HandledKept, Zenon
  <1>12. CASE slot = "joinRequestDone" /\ ok
    <2>1. cs = ChangeGroup(calls, "Hold", "Connected")
      BY <1>5, <1>12
    <2>2. Handled(cs) /\ \A i \in DOMAIN calls : calls[i].state = "Incoming" => cs[i].state = "Incoming"
      BY <2>1, <1>0, ToConnectedIs
    <2>5. IncomingKept(cs, slot, ok)
      BY <2>2, StillIncoming
    <2> QED
      BY <2>2, <2>5, <1>0, HandledKept, Zenon
  <1>13. CASE slot = "detachRequestDone" /\ ok
    <2>1. cs = Detached
      BY <1>5, <1>13
    <2>2. Handled(cs) /\ \A i \in DOMAIN calls : calls[i].state = "Incoming" => cs[i].state = "Incoming"
      BY <2>1, <1>0, DetachedIs
    <2>5. IncomingKept(cs, slot, ok)
      BY <2>2, StillIncoming
    <2> QED
      BY <2>2, <2>5, <1>0, HandledKept, Zenon
  <1>14. \/ slot = "dialRequestDone" /\ c.state = "Dialing" /\ ~ok
         \/ slot = "clccDialCheck" /\ c.state = "Dialing"
         \/ slot = "acceptDone" /\ ~ok
         \/ slot \in Swaps /\ ok
         \/ slot = "activateSingleRequestDone" /\ ok
         \/ slot = "joinRequestDone" /\ ok
         \/ slot = "detachRequestDone" /\ ok
         \/ cs = calls
    BY <1>3, <1>5 DEF Slots, Swaps
  <1> QED
    BY <1>6, <1>7, <1>8, <1>9, <1>10, <1>11, <1>12, <1>13, <1>14, Zenon

LEMMA SlotCommandsAre ==
  ASSUME NEW slot, NEW c \in Call, NEW ok \in BOOLEAN
  PROVE  \/ SlotCommands(slot, c, ok) = <<>>
         \/ /\ slot = "dialRequestDone" /\ c.state = "Dialing" /\ ok
            /\ SlotCommands(slot, c, ok) = <<DialQuestion(c)>>
  <1>1. CASE slot = "dialRequestDone" /\ c.state = "Dialing" /\ ok
    BY <1>1, Zenon DEF SlotCommands, DialQuestion
  <1>2. CASE ~(slot = "dialRequestDone" /\ c.state = "Dialing" /\ ok)
    BY <1>2, Zenon DEF SlotCommands
  <1> QED
    BY <1>1, <1>2

\* The slot of a call that is still there
LEMMA SlotEffect ==
  ASSUME ProviderTyped, cmds # <<>>, NEW c \in Owner(Head(cmds)), NEW ok \in BOOLEAN, NEW list,
         Done(SlotCommands(Head(cmds).slot, c, ok)),
         Leave(SlotResult(Head(cmds).slot, c, ok, list), usedIds)
  PROVE  /\ CallsTyped' /\ QueueTyped' /\ Waiting' /\ usedIds' \subseteq Ids
         /\ FollowUp(SlotCommands(Head(cmds).slot, c, ok))
         /\ SlotCommands(Head(cmds).slot, c, ok) \in Seq(Commands)
         /\ Kept(SlotResult(Head(cmds).slot, c, ok, list), Head(cmds).slot, Head(cmds).key, ok)
  <1>0. CallsTyped /\ QueueTyped /\ Waiting /\ usedIds \subseteq Ids
    BY DEF ProviderTyped
  <1>1. /\ c \in AnyCall /\ c \in Call /\ c.key = Head(cmds).key
        /\ \A i \in DOMAIN calls : calls[i].key = Head(cmds).key => calls[i] = c
    BY <1>0, OwnerIs
  <1>2. Head(cmds) \in Commands /\ Head(cmds) = cmds[1] /\ 1 \in DOMAIN cmds
    BY <1>0, TailIs DEF QueueTyped
  <1> DEFINE new == SlotCommands(Head(cmds).slot, c, ok)
             cs == SlotResult(Head(cmds).slot, c, ok, list)
  <1>3. /\ cs = SlotResult(Head(cmds).slot, c, ok, list)
        /\ new = SlotCommands(Head(cmds).slot, c, ok)
    OBVIOUS
  <1>4. Kept(cs, Head(cmds).slot, Head(cmds).key, ok)
    BY SlotResultIs
  <1>5. \/ new = <<>>
        \/ /\ Head(cmds).slot = "dialRequestDone" /\ c.state = "Dialing" /\ ok
           /\ new = <<DialQuestion(c)>>
    BY <1>1, SlotCommandsAre
  <1>6. Head(cmds).slot = "dialRequestDone" /\ ok => cs = calls
    <2>1. Head(cmds).slot \in Slots
      BY <1>2, SlotsAre
    <2>2. Head(cmds).slot = "dialRequestDone" =>
            cs = IF c.state = "Dialing" /\ ~ok THEN SetState(calls, c.key, "HangupLocal") ELSE calls
      BY <2>1, SlotResultCases, Zenon
    <2> QED
      BY <2>2
  <1>7. Leave(cs, usedIds) /\ Done(new)
    OBVIOUS
  <1> SUFFICES /\ CallsTyped' /\ QueueTyped' /\ Waiting' /\ usedIds' \subseteq Ids
               /\ FollowUp(new) /\ new \in Seq(Commands)
    BY <1>4
  <1> HIDE DEF cs, new
  <1>8. FollowUp(new) /\ new \in Seq(Commands)
    <2>1. CASE new = <<>>
      BY <2>1, NoneIs DEF FollowUp
    <2>2. CASE Head(cmds).slot = "dialRequestDone" /\ new = <<DialQuestion(c)>>
      BY <2>2, <1>1, DialQuestionIs DEF FollowUp, DialSlots
    <2> QED
      BY <2>1, <2>2, <1>5
  <1>9. Follows(cs)
    BY <1>4 DEF Kept
  <1>10. /\ CallsTyped'
         /\ \A d \in AnyCall' : \E i \in DOMAIN calls : d = cs[i] /\ cs[i].state \in States
         /\ usedIds' \subseteq Ids
    BY <1>0, <1>7, <1>9, LeaveEffect
  <1>11. QueueTyped'
    BY <1>0, <1>7, <1>8, DoneTyped
  <1>12. CallsKeptButHead
    <2>1. ASSUME NEW d \in AnyCall'
          PROVE  \E e \in AnyCall :
                   /\ e.key = d.key
                   /\ d.poll => e.poll \/ (Head(cmds).slot \in DialSlots /\ Head(cmds).key = d.key)
                   /\ d.state \in Early => e.state \in Early
      <3>1. PICK i \in DOMAIN calls : d = cs[i] /\ cs[i].state \in States
        BY <1>10
      <3>2. /\ cs[i].key = calls[i].key
            /\ cs[i].state \in {"Incoming", "Dialing"} => cs[i].state = calls[i].state
        BY <1>9 DEF Follows
      <3>3. cs[i].poll => calls[i].poll \/ (Head(cmds).slot = "clccDialCheck" /\ calls[i].key = Head(cmds).key)
        BY <1>4 DEF Kept
      <3>4. calls[i] \in AnyCall
        BY DEF AnyCall
      <3> QED
        BY <3>1, <3>2, <3>3, <3>4 DEF Early, DialSlots
    <2> QED
      BY <2>1 DEF CallsKeptButHead
  <1>13. FitFor(new)
    <2>1. CASE new = <<>>
      BY <2>1, NoneIs DEF FitFor
    <2>2. CASE Head(cmds).slot = "dialRequestDone" /\ ok /\ new = <<DialQuestion(c)>>
      <3>1. cs = calls /\ ~c.poll
        BY <2>2, <1>0, <1>1, <1>2, <1>6 DEF Waiting, DialSlots
      <3>2. ASSUME NEW d \in AnyCall', d.key = c.key PROVE ~d.poll
        <4>1. PICK i \in DOMAIN calls : d = cs[i]
          BY <1>10
        <4> QED
          BY <4>1, <3>1, <3>2, <1>1
      <3>3. \A k \in DOMAIN new : new[k] = DialQuestion(c)
        BY <2>2, <1>1, DialQuestionIs
      <3>4. DialQuestion(c).key = c.key /\ DialQuestion(c).slot # "activateSingleRequestDone"
        BY <1>1, DialQuestionIs
      <3> QED
        BY <3>2, <3>3, <3>4 DEF FitFor
    <2> QED
      BY <2>1, <2>2, <1>5
  <1>14. Waiting'
    BY <1>0, <1>7, <1>8, <1>12, <1>13, DoneWaiting
  <1> QED
    BY <1>8, <1>10, <1>11, <1>14

\* AT+CLCC lists no incoming call: the first that rings is missed, the new one included
LEMMA MissedAtOnce ==
  ASSUME CallsTyped, QueueTyped, NEW id \in Ids \cup {0}, NEW used,
         Leave(Missed(Announced(id)), used)
  PROVE  /\ CallsTyped'
         /\ \E e \in AnyCall \cup {AnnouncedCall(id)} :
              /\ e.state = "Incoming"
              /\ AnyCall' = (AnyCall \cup {AnnouncedCall(id)}) \ {e}
              /\ usedIds' = used \ {e.id}
  <1> DEFINE new == AnnouncedCall(id)
             app == Append(calls, new)
             cs == Missed(app)
  <1>0. app = Announced(id)
    BY DEF Announced, AnnouncedCall
  <1>1. /\ new \in Call /\ new.key = NewKey /\ new.state = "Incoming" /\ new.id = id /\ new.poll = FALSE
    BY NewCallIs DEF AnnouncedCall, States
  <1>2. \A c \in AnyCall : c.key # new.key
    BY <1>1, NewKeyFresh
  <1>3. /\ calls \in Seq(Call) /\ AnyCall = ToSet(calls) /\ AnyCall \subseteq Call /\ Call \subseteq RawCalls
        /\ Keyed(calls) /\ \A c \in AnyCall : c.poll => c.state = "Dialing"
    BY CallsAre, StatesDiffer DEF Listed
  <1> HIDE DEF new
  <1>4. app \in Seq(Call) /\ app \in Seq(RawCalls) /\ Len(app) \in Nat
        /\ DOMAIN app = 1 .. Len(app) /\ app[Len(calls) + 1] = new /\ Len(calls) + 1 \in DOMAIN app
    BY <1>1, <1>3
  <1>5. ToSet(app) = AnyCall \cup {new} /\ Keyed(app)
    BY <1>1, <1>2, <1>3, AppendSet, AppendKeyed
  <1> HIDE DEF app
  <1>6. Listed(app) /\ HasGroup(app, "Incoming")
    BY <1>1, <1>4, <1>5 DEF Listed, HasGroup
  <1>7. PICK i \in DOMAIN app : app[i].state = "Incoming" /\ Head(Group(app, "Incoming")).key = app[i].key
    BY <1>6, FirstOfGroup
  <1>8. "Missed" \in RawStates
    BY OverIs
  <1>9. cs = SetState(app, app[i].key, "Missed")
    BY <1>6, <1>7 DEF Missed
  <1>10. /\ Restates(cs, app)
         /\ \A j \in DOMAIN app : cs[j].state = IF app[j].key = app[i].key THEN "Missed" ELSE app[j].state
    BY <1>6, <1>8, <1>9, SetStateIs
  <1>11. \A j \in DOMAIN app : cs[j] = IF app[j].key = app[i].key THEN [app[j] EXCEPT !.state = "Missed"] ELSE app[j]
    BY <1>9 DEF SetState
  <1>12. cs \in Seq(RawCalls) /\ Keyed(cs) /\ DOMAIN cs = DOMAIN app
    BY <1>10 DEF Restates, Listed
  <1>13. calls' = Those(cs, States) /\ usedIds' = used \ Released(cs)
    BY <1>0 DEF Leave
  <1> HIDE DEF cs
  <1>14. /\ calls' \in Seq({c \in RawCalls : c.state \in States})
         /\ ToSet(calls') = {c \in ToSet(cs) : c.state \in States}
         /\ Keyed(calls')
    BY <1>12, <1>13, ThoseProperties
  <1>15. AnyCall' = ToSet(calls')
    BY DEF AnyCall, ToSet
  <1>16. \A j \in DOMAIN app : app[j].key = app[i].key => j = i
    BY <1>5, <1>7 DEF Keyed
  <1>17. \A j \in DOMAIN app : app[j] \in AnyCall \cup {new}
    BY <1>5 DEF ToSet
  <1>18. \A c \in AnyCall \cup {new} : \E j \in DOMAIN app : c = app[j]
    BY <1>5 DEF ToSet
  <1>19. \A c \in AnyCall \cup {new} : c \in Call /\ c.state \in States /\ (c.poll => c.state = "Dialing")
    BY <1>1, <1>3 DEF Call
  <1>20. "Missed" \notin States /\ "Missed" \in Over /\ States \cap Over = {}
    BY StatesDiffer, OverIs DEF States
  <1>21. ToSet(calls') = (AnyCall \cup {new}) \ {app[i]}
    <2>1. ASSUME NEW c \in ToSet(calls') PROVE c \in (AnyCall \cup {new}) \ {app[i]}
      <3>1. PICK j \in DOMAIN app : c = cs[j] /\ cs[j].state \in States
        BY <2>1, <1>14, <1>12 DEF ToSet
      <3>2. app[j].key # app[i].key /\ cs[j] = app[j]
        BY <3>1, <1>10, <1>11, <1>20
      <3> QED
        BY <3>1, <3>2, <1>17
    <2>2. ASSUME NEW c \in (AnyCall \cup {new}) \ {app[i]} PROVE c \in ToSet(calls')
      <3>1. PICK j \in DOMAIN app : c = app[j]
        BY <1>18
      <3>2. j # i
        BY <3>1
      <3>3. cs[j] = app[j]
        BY <3>2, <1>16, <1>11
      <3> QED
        BY <3>1, <3>3, <1>12, <1>14, <1>19 DEF ToSet
    <2> QED
      BY <2>1, <2>2
  <1>22. Released(cs) = {app[i].id}
    <2>1. cs[i].state \in Over /\ cs[i].id = app[i].id
      BY <1>7, <1>10, <1>20 DEF Restates
    <2>2. \A j \in DOMAIN app : cs[j].state \in Over => j = i
      BY <1>10, <1>16, <1>17, <1>19, <1>20
    <2> QED
      BY <2>1, <2>2, <1>7, <1>12 DEF Released
  <1>23. CallsTyped'
    <2>1. calls' \in Seq(Call)
      <3>1. {c \in RawCalls : c.state \in States} \subseteq Call
        BY DEF RawCalls, Call
      <3> QED
        BY <3>1, <1>14
    <2>2. \A k \in DOMAIN calls' : calls'[k].poll => calls'[k].state = "Dialing"
      BY <1>21, <1>19 DEF ToSet
    <2> QED
      BY <2>1, <2>2, <1>14 DEF CallsTyped, Keyed
  <1>24. new = AnnouncedCall(id)
    BY DEF new
  <1> QED
    BY <1>7, <1>13, <1>15, <1>17, <1>21, <1>22, <1>23, <1>24

\* The answer to AT+CLCC for an incoming call
LEMMA ClccEffect ==
  ASSUME ProviderTyped, cmds # <<>>, NEW ok \in BOOLEAN, NEW list \in SUBSET FarCalls,
         Done(<<>>), ClccIncoming(ok, list)
  PROVE  /\ CallsTyped' /\ QueueTyped' /\ Waiting' /\ usedIds' \subseteq Ids
         /\ incomingId' = 0 /\ typeKnown' = FALSE
         /\ \/ /\ ok
               /\ \E f \in list :
                    /\ f.stat = "incoming" /\ f.id \in Ids
                    /\ usedIds' = (usedIds \ {incomingId}) \cup {f.id}
                    /\ AnyCall' = AnyCall \cup {AnnouncedCall(f.id)}
               /\ UNCHANGED <<detect, missed>>
            \/ /\ ~ok
               /\ AnyCall' = AnyCall \cup {AnnouncedCall(incomingId)}
               /\ UNCHANGED <<usedIds, detect, missed>>
            \/ /\ ok /\ \A f \in list : f.stat # "incoming"
               /\ \E e \in AnyCall \cup {AnnouncedCall(incomingId)} :
                    /\ e.state = "Incoming"
                    /\ AnyCall' = (AnyCall \cup {AnnouncedCall(incomingId)}) \ {e}
                    /\ usedIds' = usedIds \ {e.id}
               /\ detect' = FALSE /\ missed' = FALSE
  <1>0. CallsTyped /\ QueueTyped /\ Waiting /\ usedIds \subseteq Ids /\ incomingId \in Ids \cup {0}
    BY DEF ProviderTyped
  <1>1. QueueTyped'
    BY <1>0, DoneTyped DEF FollowUp
  \* Calls that are new have a new key
  <1>2. ASSUME NEW id \in Ids \cup {0}, AnyCall' \subseteq AnyCall \cup {AnnouncedCall(id)}
        PROVE  Waiting'
    <2>1. /\ AnnouncedCall(id).key = NewKey
          /\ \A j \in DOMAIN cmds : cmds[j].key # NewKey
      BY <1>0, NewKeyFresh, NewCallIs DEF AnnouncedCall, States
    <2>2. <<>> \in Seq(Commands) /\ DOMAIN <<>> = {}
      BY NoneIs
    <2>3. \A j \in DOMAIN cmds' : j + 1 \in DOMAIN cmds /\ cmds'[j] = cmds[j + 1]
      BY <1>0, <2>2, DoneEffect
    <2>4. ASSUME NEW d \in AnyCall', NEW j \in DOMAIN cmds', cmds'[j].key = d.key
          PROVE  /\ cmds'[j].slot \in DialSlots => ~d.poll
                 /\ cmds'[j].slot = "activateSingleRequestDone" => d.state \notin Early
      <3>1. d \in AnyCall
        BY <1>2, <2>1, <2>3, <2>4
      <3> QED
        BY <3>1, <2>3, <2>4, <1>0 DEF Waiting
    <2> QED
      BY <2>4 DEF Waiting
  <1> DEFINE waiting == {f \in list : f.stat = "incoming"}
  <1>3. CASE ok /\ waiting # {} /\ AnnounceCall((CHOOSE f \in waiting : TRUE).id)
             /\ usedIds' = (usedIds \ {incomingId}) \cup {(CHOOSE f \in waiting : TRUE).id}
             /\ UNCHANGED <<detect, missed>>
    <2>1. PICK f \in waiting : f = (CHOOSE g \in waiting : TRUE)
      BY <1>3
    <2>2. f \in FarCalls /\ f \in list /\ f.stat = "incoming" /\ f.id \in Ids
      BY <2>1 DEF FarCalls
    <2>3. /\ AnnounceCall(f.id)
          /\ usedIds' = (usedIds \ {incomingId}) \cup {f.id}
      BY <2>1, <1>3
    <2> HIDE DEF waiting
    <2>4. /\ CallsTyped' /\ AnyCall' = AnyCall \cup {AnnouncedCall(f.id)}
          /\ incomingId' = 0 /\ typeKnown' = FALSE
      BY <2>2, <2>3, <1>0, AnnounceEffect
    <2>5. Waiting'
      BY <2>2, <2>4, <1>2
    <2>6. usedIds' \subseteq Ids
      BY <2>2, <2>3, <1>0
    <2> QED
      BY <1>1, <1>3, <2>2, <2>3, <2>4, <2>5, <2>6
  <1>4. CASE ~ok /\ AnnounceCall(incomingId) /\ UNCHANGED <<usedIds, detect, missed>>
    <2>1. /\ CallsTyped' /\ AnyCall' = AnyCall \cup {AnnouncedCall(incomingId)}
          /\ incomingId' = 0 /\ typeKnown' = FALSE
      BY <1>4, <1>0, AnnounceEffect
    <2>2. Waiting'
      BY <2>1, <1>0, <1>2
    <2> QED
      BY <1>0, <1>1, <1>4, <2>1, <2>2
  <1>5. CASE ok /\ waiting = {} /\ Leave(Missed(Announced(incomingId)), usedIds)
             /\ incomingId' = 0 /\ typeKnown' = FALSE /\ detect' = FALSE /\ missed' = FALSE
    <2>1. CallsTyped'
          /\ \E e \in AnyCall \cup {AnnouncedCall(incomingId)} :
              /\ e.state = "Incoming"
              /\ AnyCall' = (AnyCall \cup {AnnouncedCall(incomingId)}) \ {e}
              /\ usedIds' = usedIds \ {e.id}
      BY <1>5, <1>0, MissedAtOnce
    <2>2. Waiting' /\ usedIds' \subseteq Ids
      BY <2>1, <1>0, <1>2
    <2>3. \A f \in list : f.stat # "incoming"
      BY <1>5
    <2> QED
      BY <1>1, <1>5, <2>1, <2>2, <2>3
  <1>6. \/ ok /\ waiting # {} /\ AnnounceCall((CHOOSE f \in waiting : TRUE).id)
             /\ usedIds' = (usedIds \ {incomingId}) \cup {(CHOOSE f \in waiting : TRUE).id}
             /\ UNCHANGED <<detect, missed>>
        \/ ~ok /\ AnnounceCall(incomingId) /\ UNCHANGED <<usedIds, detect, missed>>
        \/ ok /\ waiting = {} /\ Leave(Missed(Announced(incomingId)), usedIds)
             /\ incomingId' = 0 /\ typeKnown' = FALSE /\ detect' = FALSE /\ missed' = FALSE
    BY Zenon DEF ClccIncoming
  <1> QED
    BY <1>3, <1>4, <1>5, <1>6

ClccAnswered(ok, list) ==
  /\ incomingId' = 0 /\ typeKnown' = FALSE
  /\ \/ /\ ok
        /\ \E f \in list :
             /\ f.stat = "incoming" /\ f.id \in Ids
             /\ usedIds' = (usedIds \ {incomingId}) \cup {f.id}
             /\ AnyCall' = AnyCall \cup {AnnouncedCall(f.id)}
        /\ UNCHANGED <<detect, missed>>
     \/ /\ ~ok
        /\ AnyCall' = AnyCall \cup {AnnouncedCall(incomingId)}
        /\ UNCHANGED <<usedIds, detect, missed>>
     \/ /\ ok /\ \A f \in list : f.stat # "incoming"
        /\ \E e \in AnyCall \cup {AnnouncedCall(incomingId)} :
             /\ e.state = "Incoming"
             /\ AnyCall' = (AnyCall \cup {AnnouncedCall(incomingId)}) \ {e}
             /\ usedIds' = usedIds \ {e.id}
        /\ detect' = FALSE /\ missed' = FALSE

SlotCalled(c, ok, list) ==
  /\ Done(SlotCommands(Head(cmds).slot, c, ok))
  /\ FollowUp(SlotCommands(Head(cmds).slot, c, ok))
  /\ SlotCommands(Head(cmds).slot, c, ok) \in Seq(Commands)
  /\ Leave(SlotResult(Head(cmds).slot, c, ok, list), usedIds)
  /\ Kept(SlotResult(Head(cmds).slot, c, ok, list), Head(cmds).slot, Head(cmds).key, ok)
  /\ detect' = (detect /\ ~(Head(cmds).slot = "acceptDone" /\ ~ok))
  /\ UNCHANGED <<incomingId, typeKnown, missed>>

LEMMA AnswerEffect ==
  ASSUME ProviderTyped, cmds # <<>>, NEW ok \in BOOLEAN, NEW list \in SUBSET FarCalls, Answer(ok, list)
  PROVE  /\ CallsTyped' /\ QueueTyped' /\ Waiting' /\ usedIds' \subseteq Ids
         /\ incomingId' \in Ids \cup {0} /\ typeKnown' \in BOOLEAN /\ detect' \in BOOLEAN /\ missed' \in BOOLEAN
         /\ \/ Head(cmds).slot = "clccIncoming" /\ Done(<<>>) /\ ClccAnswered(ok, list)
            \/ /\ Head(cmds).slot # "clccIncoming" /\ Owner(Head(cmds)) = {}
               /\ Done(<<>>) /\ UNCHANGED <<calls, usedIds, ring>>
            \/ /\ Head(cmds).slot # "clccIncoming"
               /\ \E c \in Owner(Head(cmds)) : SlotCalled(c, ok, list)
  <1>0. /\ CallsTyped /\ QueueTyped /\ Waiting /\ usedIds \subseteq Ids /\ incomingId \in Ids \cup {0}
        /\ typeKnown \in BOOLEAN /\ detect \in BOOLEAN /\ missed \in BOOLEAN
    BY DEF ProviderTyped
  <1>1. CASE Head(cmds).slot = "clccIncoming" /\ Done(<<>>) /\ ClccIncoming(ok, list)
    <2>1. CallsTyped' /\ QueueTyped' /\ Waiting' /\ usedIds' \subseteq Ids /\ ClccAnswered(ok, list)
      BY <1>1, ClccEffect, Zenon DEF ClccAnswered
    <2>2. incomingId' = 0 /\ typeKnown' = FALSE /\ detect' \in BOOLEAN /\ missed' \in BOOLEAN
      <3>1. detect' \in {detect, FALSE} /\ missed' \in {missed, FALSE}
        BY <2>1 DEF ClccAnswered
      <3> QED
        BY <3>1, <2>1, <1>0 DEF ClccAnswered
    <2> QED
      BY <1>1, <2>1, <2>2
  <1>2. CASE Head(cmds).slot # "clccIncoming" /\ Owner(Head(cmds)) = {}
               /\ Done(<<>>) /\ UNCHANGED <<calls, usedIds, ring>>
    <2>1. AnyCall' = AnyCall /\ CallsKeptButHead /\ CallsTyped'
      BY <1>0, <1>2, SameKept
    <2>2. QueueTyped'
      BY <1>0, <1>2, DoneTyped DEF FollowUp
    <2>3. <<>> \in Seq(Commands) /\ FitFor(<<>>)
      BY NoneIs DEF FitFor
    <2>4. Waiting'
      BY <1>0, <1>2, <2>1, <2>3, DoneWaiting
    <2> QED
      BY <1>0, <1>2, <2>1, <2>2, <2>4 DEF ring
  <1>3. ASSUME Head(cmds).slot # "clccIncoming", NEW c \in Owner(Head(cmds)),
               Done(SlotCommands(Head(cmds).slot, c, ok)),
               detect' = (detect /\ ~(Head(cmds).slot = "acceptDone" /\ ~ok)),
               Finish(SlotResult(Head(cmds).slot, c, ok, list))
        PROVE  /\ CallsTyped' /\ QueueTyped' /\ Waiting' /\ usedIds' \subseteq Ids
               /\ incomingId' \in Ids \cup {0} /\ typeKnown' \in BOOLEAN /\ detect' \in BOOLEAN
               /\ missed' \in BOOLEAN /\ SlotCalled(c, ok, list)
    <2>1. Leave(SlotResult(Head(cmds).slot, c, ok, list), usedIds) /\ UNCHANGED <<incomingId, typeKnown, missed>>
      BY <1>3 DEF Finish
    <2>2. /\ CallsTyped' /\ QueueTyped' /\ Waiting' /\ usedIds' \subseteq Ids
          /\ FollowUp(SlotCommands(Head(cmds).slot, c, ok))
          /\ SlotCommands(Head(cmds).slot, c, ok) \in Seq(Commands)
          /\ Kept(SlotResult(Head(cmds).slot, c, ok, list), Head(cmds).slot, Head(cmds).key, ok)
      BY <1>3, <2>1, SlotEffect
    <2>3. SlotCalled(c, ok, list)
      BY <1>3, <2>1, <2>2 DEF SlotCalled
    <2>4. detect' \in BOOLEAN
      BY <1>0, <1>3
    <2> QED
      BY <1>0, <2>1, <2>2, <2>3, <2>4
  <1>4. \/ Head(cmds).slot = "clccIncoming" /\ Done(<<>>) /\ ClccIncoming(ok, list)
        \/ Head(cmds).slot # "clccIncoming" /\ Owner(Head(cmds)) = {}
               /\ Done(<<>>) /\ UNCHANGED <<calls, usedIds, ring>>
        \/ \E c \in Owner(Head(cmds)) :
             /\ Head(cmds).slot # "clccIncoming"
             /\ Done(SlotCommands(Head(cmds).slot, c, ok))
             /\ detect' = (detect /\ ~(Head(cmds).slot = "acceptDone" /\ ~ok))
             /\ Finish(SlotResult(Head(cmds).slot, c, ok, list))
    BY Zenon DEF Answer
  <1> QED
    BY <1>1, <1>2, <1>3, <1>4

\* NO CARRIER without a call command
LEMMA CarrierLost ==
  ASSUME ProviderTyped, Leave(ChangeGroup(calls, "Connected", "HangupRemote"), usedIds), UNCHANGED chat
  PROVE  /\ CallsTyped' /\ QueueTyped' /\ Waiting' /\ usedIds' \subseteq Ids
         /\ Handled(ChangeGroup(calls, "Connected", "HangupRemote"))
         /\ NoneTaken(ChangeGroup(calls, "Connected", "HangupRemote"))
         /\ \A i \in DOMAIN calls : ChangeGroup(calls, "Connected", "HangupRemote")[i].state
              = IF calls[i].state = "Connected" THEN "HangupRemote" ELSE calls[i].state
  <1>0. CallsTyped
    BY DEF ProviderTyped
  <1>1. "HangupRemote" \in Over
    BY OverIs
  <1>2. /\ Handled(ChangeGroup(calls, "Connected", "HangupRemote"))
        /\ NoneTaken(ChangeGroup(calls, "Connected", "HangupRemote"))
        /\ \A i \in DOMAIN calls : ChangeGroup(calls, "Connected", "HangupRemote")[i].state
              = IF calls[i].state = "Connected" THEN "HangupRemote" ELSE calls[i].state
    BY <1>0, <1>1, EndGroup
  <1>3. CallsTyped' /\ QueueTyped' /\ Waiting' /\ usedIds' \subseteq Ids
    BY <1>2, EndingEffect
  <1> QED
    BY <1>2, <1>3

-----------------------------------------------------------------------------
\* Every step keeps the types

Outer ==
  /\ line \in Seq(Lines)
  /\ far \subseteq FarCalls
  /\ requests \in 0 .. MaxRequests /\ callers \in 0 .. MaxCallers /\ troubles \in 0 .. MaxTroubles
  /\ adrift \in BOOLEAN /\ overtaken \in BOOLEAN

LEMMA TypedSplit ==
  /\ Typed <=> ProviderTyped /\ Outer
  /\ Typed' <=> ProviderTyped' /\ Outer'
  BY DEF Typed, ProviderTyped, Outer, TypeOK, CallsTyped, FarCalls

LEMMA FreeIdFresh ==
  ASSUME Room, far \subseteq FarCalls
  PROVE  FreeId \in Ids /\ \A f \in far : f.id # FreeId
  <1> DEFINE F == Ids \ {f.id : f \in far}
  <1>1. F # {} /\ F \in SUBSET Nat
    <2>1. \A f \in far : f.id \in Ids
      BY DEF FarCalls
    <2>2. F # {}
      BY <2>1 DEF Room
    <2>3. Ids \subseteq Nat
      BY DEF Ids
    <2> QED
      BY <2>2, <2>3
  <1>2. FreeId = CHOOSE x \in F : \A y \in F : x <= y
    BY DEF FreeId, Min
  <1>3. \E x \in F : \A y \in F : x <= y
    BY <1>1, Least
  <1> HIDE DEF F
  <1>4. FreeId \in F
    BY <1>2, <1>3
  <1> QED
    BY <1>4 DEF F

LEMMA LineIsAre ==
  ASSUME Outer
  PROVE  /\ line # <<>> => Head(line) \in Lines /\ Tail(line) \in Seq(Lines)
         /\ LineIs("ring") => Head(line).known \in BOOLEAN
         /\ LineIs("answer") => Head(line).ok \in BOOLEAN /\ Head(line).list \in SUBSET FarCalls
  <1>1. line # <<>> => Head(line) \in Lines /\ Tail(line) \in Seq(Lines)
    BY DEF Outer
  <1>2. \A l \in Lines : /\ l.kind = "ring" => l.known \in BOOLEAN
                         /\ l.kind = "answer" => l.ok \in BOOLEAN /\ l.list \in SUBSET FarCalls
    BY DEF Lines
  <1> QED
    BY <1>1, <1>2 DEF LineIs

LEMMA WithIs ==
  ASSUME NEW stat
  PROVE  With(stat) \subseteq far /\ \A f \in far : f \in With(stat) <=> f.stat = stat
  BY DEF With

LEMMA TurnIs ==
  ASSUME NEW F \in SUBSET FarCalls, NEW stat \in Stats
  PROVE  /\ Turn(F, stat) \in SUBSET FarCalls
         /\ \A g \in Turn(F, stat) : g.stat = stat /\ \E f \in F : g.id = f.id
         /\ \A f \in F : \E g \in Turn(F, stat) : g.id = f.id /\ g.stat = stat
  <1>1. ASSUME NEW f \in F
        PROVE  /\ [f EXCEPT !.stat = stat] \in FarCalls
               /\ [f EXCEPT !.stat = stat].id = f.id /\ [f EXCEPT !.stat = stat].stat = stat
    BY <1>1 DEF FarCalls
  <1> QED
    BY <1>1, Zenon DEF Turn

\* A request of the user
Asked ==
  /\ requests < MaxRequests /\ InStep
  /\ requests' = requests + 1
  /\ adrift' \in BOOLEAN /\ (~adrift' => Settled)
  /\ UNCHANGED <<far, callers, troubles, overtaken>>

LEMMA RequestForms ==
  /\ UserDials => Asked /\ Dial
  /\ UserHangsUp => \E c \in AnyCall : Asked /\ Hanging(c)
  /\ UserSwitches => \E c \in AnyCall : Asked /\ (Hanging(c) \/ Accept(c) \/ Asking(c))
  <1>0. ASSUME NEW agreed, adrift' = ~(Settled /\ agreed)
        PROVE  adrift' \in BOOLEAN /\ (~adrift' => Settled)
    BY <1>0
  <1>1. UserDials => Asked /\ Dial
    BY <1>0 DEF UserDials, Request, Asked
  <1>2. ASSUME NEW c \in AnyCall
        PROVE  /\ Request(HangupCall(c), TRUE) => Asked /\ Hanging(c)
               /\ Request(HangupActiveGroup(c), TRUE) => Asked /\ Hanging(c)
               /\ Request(HangupDialingBesideIncoming(c), FALSE) => Asked /\ Hanging(c)
               /\ Request(HangupHeldGroup(c), TRUE) => Asked /\ Hanging(c)
               /\ Request(HangupGroupBesideIncoming(c), TRUE) => Asked /\ Hanging(c)
               /\ Request(Reject(c), TRUE) => Asked /\ Hanging(c)
               /\ Request(Transfer(c), c.state = "Incoming") => Asked /\ Hanging(c)
    BY <1>0 DEF Request, Asked, Hanging
  <1>3. ASSUME NEW c \in AnyCall
        PROVE  /\ Request(Accept(c), TRUE) => Asked /\ Accept(c)
               /\ Request(Hold(c), TRUE) => Asked /\ Asking(c)
               /\ Request(ActivateCall(c), c.state = "Hold" \/ OtherActiveCalls(c.key)) => Asked /\ Asking(c)
               /\ Request(ActivateGroup(c), TRUE) => Asked /\ Asking(c)
               /\ Request(Join(c), TRUE) => Asked /\ Asking(c)
               /\ Request(Detach(c), TRUE) => Asked /\ Asking(c)
    BY <1>0 DEF Request, Asked, Asking
  <1>4. UserHangsUp => \E c \in AnyCall : Asked /\ Hanging(c)
    BY <1>2, Zenon DEF UserHangsUp
  <1>5. UserSwitches => \E c \in AnyCall : Asked /\ (Hanging(c) \/ Accept(c) \/ Asking(c))
    BY <1>2, <1>3, Zenon DEF UserSwitches
  <1> QED
    BY <1>1, <1>4, <1>5

LEMMA AskedOuter ==
  ASSUME Outer, Asked, UNCHANGED line
  PROVE  Outer'
  <1>1. MaxRequests \in Nat
    BY BoundsAssumption
  <1>2. requests' \in 0 .. MaxRequests
    BY <1>1 DEF Outer, Asked
  <1> QED
    BY <1>2 DEF Outer, Asked

LEMMA HangingTyped ==
  ASSUME Typed, NEW c \in AnyCall, Asked, Hanging(c)
  PROVE  Typed'
  <1>0. ProviderTyped /\ Outer /\ CallsTyped
    BY TypedSplit DEF ProviderTyped
  <1>1. PICK new, cs : PlainOnly(new) /\ Handled(cs) /\ HangupWith(new, cs)
    BY <1>0, HangingForm, Zenon
  <1>2. ProviderTyped'
    BY <1>0, <1>1, HangingEffect
  <1>3. UNCHANGED line
    BY <1>1 DEF HangupWith
  <1> QED
    BY <1>0, <1>2, <1>3, AskedOuter, TypedSplit

LEMMA SwitchTyped ==
  ASSUME Typed, NEW c \in AnyCall, Asked, Accept(c) \/ Asking(c)
  PROVE  Typed'
  <1>0. ProviderTyped /\ Outer /\ CallsTyped
    BY TypedSplit DEF ProviderTyped
  <1>1. CASE Accept(c)
    <2>1. ProviderTyped' /\ UNCHANGED line
      BY <1>0, <1>1, AcceptEffect
    <2> QED
      BY <1>0, <2>1, AskedOuter, TypedSplit
  <1>2. CASE Asking(c)
    <2>1. PICK command : /\ Question(command, c) /\ command.slot # "acceptDone"
                      /\ c.state \in {"Connected", "Hold"}
                      /\ Chat(<<command>>)
                      /\ UNCHANGED <<calls, usedIds, ring, hangup, line>>
      BY <1>0, <1>2, AskingForm, Zenon
    <2>2. ProviderTyped' /\ UNCHANGED line
      BY <1>0, <2>1, AskingEffect
    <2> QED
      BY <1>0, <2>2, AskedOuter, TypedSplit
  <1> QED
    BY <1>1, <1>2

LEMMA DialTyped ==
  ASSUME Typed, Asked, Dial
  PROVE  Typed'
  <1>0. ProviderTyped /\ Outer
    BY TypedSplit
  <1>1. ProviderTyped' /\ UNCHANGED line
    <2>1. CASE UNCHANGED provider
      <3>1. AnyCall' = AnyCall
        BY <2>1 DEF provider, AnyCall
      <3> QED
        BY <2>1, <1>0, <3>1 DEF ProviderTyped, provider, ring, chat, CallsTyped, QueueTyped, Waiting
    <2>2. CASE ~(UNCHANGED provider)
      BY <2>2, <1>0, DialEffect
    <2> QED
      BY <2>1, <2>2
  <1> QED
    BY <1>0, <1>1, AskedOuter, TypedSplit

\* What the network and the modem do leaves the provider alone
LEMMA SameProvider ==
  ASSUME ProviderTyped, UNCHANGED <<calls, usedIds, ring, hangup, chat>>
  PROVE  ProviderTyped' /\ AnyCall' = AnyCall
  <1>1. AnyCall' = AnyCall
    BY DEF AnyCall
  <1> QED
    BY <1>1 DEF ProviderTyped, ring, chat, CallsTyped, QueueTyped, Waiting

LEMMA NoCarrierIs == NoCarrier \in Lines
  BY DEF NoCarrier, Lines

LEMMA WorldTyped ==
  ASSUME Typed, World
  PROVE  Typed'
  <1>0. /\ ProviderTyped /\ Outer /\ far \subseteq FarCalls /\ line \in Seq(Lines)
        /\ \A stat : With(stat) \subseteq far
    BY TypedSplit, WithIs DEF Outer
  <1>1. UNCHANGED <<calls, usedIds, ring, hangup, chat, requests, troubles, overtaken>>
    BY Zenon DEF World, NewCaller, Ring, CallerGivesUp, FarAlerts, FarResolves, FarAnswers, DialFails,
       RemoteHangup, Network, counts
  <1>2. ProviderTyped'
    BY <1>0, <1>1, SameProvider
  <1>3. adrift' \in BOOLEAN
    <2>1. ASSUME NEW settled, Network(settled) PROVE adrift' \in BOOLEAN
      BY <2>1 DEF Network
    <2> QED
      BY <1>0, <2>1 DEF World, NewCaller, Ring, CallerGivesUp, FarAlerts, FarResolves, FarAnswers, DialFails,
         RemoteHangup, Outer
  <1>4. callers' \in 0 .. MaxCallers
    <2>1. MaxCallers \in Nat /\ callers \in 0 .. MaxCallers
      BY <1>0, BoundsAssumption DEF Outer
    <2>2. CASE NewCaller
      BY <2>1, <2>2 DEF NewCaller
    <2>3. CASE ~NewCaller
      <3>1. UNCHANGED callers
        BY <2>3 DEF World, Ring, CallerGivesUp, FarAlerts, FarResolves, FarAnswers, DialFails,
           RemoteHangup, counts
      <3> QED
        BY <2>1, <3>1
    <2> QED
      BY <2>2, <2>3
  <1>5. line' \in Seq(Lines)
    <2>1. CASE Ring
      <3>1. \A known \in BOOLEAN : [kind |-> "ring", known |-> known] \in Lines
        BY DEF Lines
      <3> QED
        BY <1>0, <2>1, <3>1 DEF Ring
    <2>2. CASE ~Ring
      <3>1. line' \in {line, Append(line, NoCarrier)}
        BY <2>2, Zenon DEF World, NewCaller, CallerGivesUp, FarAlerts, FarResolves, FarAnswers, DialFails,
           RemoteHangup
      <3> QED
        BY <1>0, <3>1, NoCarrierIs
    <2> QED
      BY <2>1, <2>2
  <1>6. far' \subseteq FarCalls
    <2>0. ASSUME NEW F \in SUBSET far, NEW stat \in Stats PROVE Moved(F, stat) \subseteq FarCalls
      BY <1>0, TurnIs DEF Moved
    <2>1. CASE NewCaller
      <3>1. FreeId \in Ids
        BY <1>0, <2>1, FreeIdFresh DEF NewCaller
      <3>2. [id |-> FreeId, stat |-> "incoming"] \in FarCalls
        BY <3>1 DEF FarCalls, Stats
      <3> QED
        BY <1>0, <2>1, <3>2 DEF NewCaller
    <2>2. CASE Ring
      BY <1>0, <2>2 DEF Ring
    <2>3. CASE CallerGivesUp
      BY <1>0, <2>3 DEF CallerGivesUp
    <2>4. CASE FarAlerts
      BY <1>0, <2>0, <2>4 DEF FarAlerts, Stats
    <2>5. CASE FarAnswers
      BY <1>0, <2>0, <2>5 DEF FarAnswers, Stats
    <2>6. CASE DialFails
      BY <1>0, <2>6 DEF DialFails
    <2>7. CASE RemoteHangup
      BY <1>0, <2>7 DEF RemoteHangup
    <2> QED
      BY <2>1, <2>2, <2>3, <2>4, <2>5, <2>6, <2>7 DEF World, FarResolves
  <1>7. Outer'
    BY <1>0, <1>1, <1>3, <1>4, <1>5, <1>6 DEF Outer
  <1> QED
    BY <1>2, <1>7, TypedSplit

LEMMA ObeyedIs ==
  ASSUME far \subseteq FarCalls, NEW command, Possible(command)
  PROVE  Obeyed(command) \subseteq FarCalls
  <1>0. \A stat : With(stat) \in SUBSET FarCalls
    BY WithIs
  <1>1. ASSUME NEW F \in SUBSET FarCalls, NEW stat \in Stats
        PROVE  Turn(F, stat) \in SUBSET FarCalls /\ Moved(F, stat) \in SUBSET FarCalls
    BY TurnIs DEF Moved
  <1>2. Retrieved \in SUBSET FarCalls
    BY <1>0 DEF Retrieved
  <1>3. {"active", "held", "dialing"} \subseteq Stats
    BY DEF Stats
  <1>4. CASE command.at = "ATD"
    <2>1. FreeId \in Ids
      BY <1>4, FreeIdFresh DEF Possible
    <2>2. [id |-> FreeId, stat |-> "dialing"] \in FarCalls
      BY <2>1, <1>3 DEF FarCalls
    <2> QED
      BY <1>0, <1>1, <1>3, <1>4, <2>2 DEF Obeyed
  <1>5. CASE command.at = "CHLD2x"
    <2>1. ASSUME NEW f \in far, NEW stat \in Stats PROVE [f EXCEPT !.stat = stat] \in FarCalls
      BY DEF FarCalls
    <2>2. \A f \in far : f.stat \in Stats
      BY DEF FarCalls
    <2>3. Obeyed(command) = {[f EXCEPT !.stat = IF f.id = command.id THEN "active"
                                 ELSE IF f.stat = "active" THEN "held" ELSE f.stat] : f \in far}
      BY <1>5 DEF Obeyed
    <2> QED
      BY <1>3, <2>1, <2>2, <2>3
  <1>6. CASE command.at \in {"ATA", "CHLD3"}
    BY <1>0, <1>1, <1>3, <1>6 DEF Obeyed
  <1>7. CASE command.at \in {"CHLD1", "CHLD2"}
    <2>1. Turn(Retrieved, "active") \subseteq FarCalls /\ Turn(With("active"), "held") \subseteq FarCalls
      BY <1>0, <1>1, <1>2, <1>3
    <2> QED
      BY <1>7, <2>1 DEF Obeyed
  <1>8. CASE command.at \notin {"ATD", "CHLD2x", "ATA", "CHLD3", "CHLD1", "CHLD2"}
    <2>1. Obeyed(command) \subseteq far
      BY <1>8 DEF Obeyed
    <2> QED
      BY <2>1
  <1> QED
    BY <1>4, <1>5, <1>6, <1>7, <1>8

LEMMA AppendIn ==
  ASSUME NEW S, NEW s \in Seq(S), NEW x \in S
  PROVE  Append(s, x) \in Seq(S)
  OBVIOUS

LEMMA ObeyTyped ==
  ASSUME Typed, Obey
  PROVE  Typed'
  <1>0. ProviderTyped /\ Outer
    BY TypedSplit
  <1>1. wire \in Seq(Sents) /\ wire # <<>> /\ wire' = Tail(wire)
    BY <1>0 DEF Obey, ProviderTyped, QueueTyped
  <1>2. wire' \in Seq(Sents)
    BY <1>1, TailIs
  <1>3. UNCHANGED <<calls, usedIds, ring, hangup, cmds, requests, callers, overtaken>>
    BY DEF Obey
  <1>4. AnyCall' = AnyCall
    BY <1>3 DEF AnyCall
  <1>5. ProviderTyped'
    BY <1>0, <1>2, <1>3, <1>4 DEF ProviderTyped, ring, CallsTyped, QueueTyped, Waiting
  <1>6. \A ok \in BOOLEAN, list \in SUBSET FarCalls : AnswerLine(ok, list) \in Lines
    BY DEF AnswerLine, Lines
  <1>7. /\ line' \in Seq(Lines) /\ far' \subseteq FarCalls
        /\ troubles' \in 0 .. MaxTroubles /\ adrift' \in BOOLEAN
    <2>1. line \in Seq(Lines) /\ far \subseteq FarCalls /\ adrift \in BOOLEAN
          /\ troubles \in 0 .. MaxTroubles /\ MaxTroubles \in Nat
      BY <1>0, BoundsAssumption DEF Outer
    <2>2. CASE /\ Possible(Head(wire))
               /\ far' = Obeyed(Head(wire))
               /\ line' = Append(line, AnswerLine(TRUE, IF Head(wire).at = "CLCC" THEN far ELSE {}))
               /\ UNCHANGED <<troubles, adrift>>
      <3>1. far' \subseteq FarCalls
        BY <2>1, <2>2, ObeyedIs
      <3>2. AnswerLine(TRUE, IF Head(wire).at = "CLCC" THEN far ELSE {}) \in Lines
        BY <1>6, <2>1
      <3>3. line' \in Seq(Lines)
        BY <2>1, <2>2, <3>2, AppendIn
      <3> QED
        BY <2>1, <2>2, <3>1, <3>3
    <2>3. CASE /\ ~Possible(Head(wire)) \/ troubles < MaxTroubles
               /\ troubles' = IF Possible(Head(wire)) THEN troubles + 1 ELSE troubles
               /\ line' = Append(line, AnswerLine(FALSE, {}))
               /\ adrift' = TRUE
               /\ UNCHANGED far
      <3>1. AnswerLine(FALSE, {}) \in Lines
        BY <1>6
      <3>2. troubles' \in 0 .. MaxTroubles
        BY <2>1, <2>3
      <3>3. line' \in Seq(Lines)
        BY <2>1, <2>3, <3>1, AppendIn
      <3>4. adrift' \in BOOLEAN /\ far' \subseteq FarCalls
        BY <2>1, <2>3
      <3> QED
        BY <3>2, <3>3, <3>4
    <2> QED
      BY <2>2, <2>3 DEF Obey
  <1>8. Outer'
    BY <1>0, <1>3, <1>7 DEF Outer
  <1> QED
    BY <1>5, <1>8, TypedSplit

LEMMA ReadTyped ==
  ASSUME Typed, Read
  PROVE  Typed'
  <1>0. ProviderTyped /\ Outer
    BY TypedSplit
  <1>00. /\ CallsTyped /\ QueueTyped /\ Waiting /\ usedIds \subseteq Ids /\ incomingId \in Ids \cup {0}
         /\ typeKnown \in BOOLEAN /\ detect \in BOOLEAN /\ missed \in BOOLEAN /\ hangup \in BOOLEAN
    BY <1>0 DEF ProviderTyped
  <1>1. /\ line # <<>> => Head(line) \in Lines /\ Tail(line) \in Seq(Lines)
        /\ LineIs("ring") => Head(line).known \in BOOLEAN
        /\ LineIs("answer") => Head(line).ok \in BOOLEAN /\ Head(line).list \in SUBSET FarCalls
    BY <1>0, LineIsAre
  <1>2. UNCHANGED <<far, counts, adrift>>
    BY DEF Read
  <1>3. line' \in Seq(Lines)
    BY <1>1 DEF Read, ReadRing, ReadAnswer, ReadNoCarrier, LineIs
  <1>4. overtaken' \in BOOLEAN
    <2>1. overtaken \in BOOLEAN
      BY <1>0 DEF Outer
    <2>2. overtaken' = (overtaken \/ (ClccOut /\ ~HasGroup(calls, "Incoming")))
          \/ overtaken' = (overtaken \/ (detect /\ ~detect'))
      BY DEF Read
    <2> QED
      BY <2>1, <2>2
  <1>5. Outer'
    BY <1>0, <1>2, <1>3, <1>4 DEF Outer, counts
  <1> SUFFICES ProviderTyped'
    BY <1>5, TypedSplit
  <1>6. ASSUME NEW ok \in BOOLEAN, NEW list \in SUBSET FarCalls, cmds # <<>>, Answer(ok, list), UNCHANGED hangup
        PROVE  ProviderTyped'
    <2>1. /\ CallsTyped' /\ QueueTyped' /\ Waiting' /\ usedIds' \subseteq Ids
          /\ incomingId' \in Ids \cup {0} /\ typeKnown' \in BOOLEAN /\ detect' \in BOOLEAN /\ missed' \in BOOLEAN
      BY <1>0, <1>6, AnswerEffect
    <2> QED
      BY <1>00, <1>6, <2>1 DEF ProviderTyped
  <1>7. CASE UNCHANGED <<calls, usedIds, ring, hangup, chat>>
    BY <1>0, <1>7, SameProvider
  <1>8. CASE ReadRing
    <2>1. Ringing(Head(line).known) /\ UNCHANGED <<hangup, chat>> /\ Head(line).known \in BOOLEAN
      BY <1>1, <1>8 DEF ReadRing
    <2> QED
      BY <1>0, <2>1, RingingEffect
  <1>9. CASE ReadAnswer /\ cmds # <<>>
    <2>1. /\ Head(line).ok \in BOOLEAN /\ Head(line).list \in SUBSET FarCalls
          /\ Answer(Head(line).ok, Head(line).list) /\ UNCHANGED hangup
      BY <1>1, <1>9 DEF ReadAnswer
    <2> QED
      BY <1>6, <1>9, <2>1
  <1>10. CASE ReadNoCarrier
    <2>1. CASE cmds # <<>> /\ Answer(FALSE, {}) /\ UNCHANGED hangup
      <3>1. FALSE \in BOOLEAN /\ {} \in SUBSET FarCalls
        OBVIOUS
      <3> QED
        BY <3>1, <2>1, <1>6
    <2>2. CASE Leave(ChangeGroup(calls, "Connected", "HangupRemote"), usedIds) /\ hangup' = TRUE
               /\ UNCHANGED <<ring, chat>>
      <3>1. CallsTyped' /\ QueueTyped' /\ Waiting' /\ usedIds' \subseteq Ids
        BY <1>0, <2>2, CarrierLost
      <3> QED
        BY <3>1, <2>2, <1>00 DEF ProviderTyped, ring
    <2> QED
      BY <1>7, <1>10, <2>1, <2>2 DEF ReadNoCarrier
  <1>11. CASE ReadAnswer /\ cmds = <<>>
    BY <1>7, <1>11 DEF ReadAnswer
  <1> QED
    BY <1>8, <1>9, <1>10, <1>11 DEF Read

LEMMA ClockTyped ==
  ASSUME Typed, Clock
  PROVE  Typed'
  <1>0. ProviderTyped /\ Outer
    BY TypedSplit
  <1>1. CASE DetectFires
    <2>1. ProviderTyped' /\ UNCHANGED line
      BY <1>0, <1>1, DetectEffect DEF DetectFires
    <2> QED
      BY <2>1, <1>0, <1>1, TypedSplit DEF DetectFires, Outer, counts
  <1>2. CASE MissedFires
    <2>1. ProviderTyped' /\ UNCHANGED line
      BY <1>0, <1>2, MissedEffect DEF MissedFires
    <2>2. overtaken' \in BOOLEAN /\ adrift' \in BOOLEAN
      BY <1>0, <1>2 DEF MissedFires, Outer
    <2> QED
      BY <2>1, <2>2, <1>0, <1>2, TypedSplit DEF MissedFires, Outer, counts
  <1>3. CASE HangupFires
    <2>1. UNCHANGED <<calls, usedIds, ring, chat, line>> /\ hangup' = FALSE
          /\ UNCHANGED <<far, counts, adrift, overtaken>>
      BY <1>3 DEF HangupFires, HangupTimeout
    <2>2. AnyCall' = AnyCall
      BY <2>1 DEF AnyCall
    <2>3. ProviderTyped'
      BY <1>0, <2>1, <2>2 DEF ProviderTyped, ring, chat, CallsTyped, QueueTyped, Waiting
    <2> QED
      BY <2>1, <2>3, <1>0, TypedSplit DEF Outer, counts
  <1>4. CASE DialChecks
    <2>1. PICK c \in AnyCall : DialCheck(c)
      BY <1>4 DEF DialChecks
    <2>2. ProviderTyped' /\ UNCHANGED line
      BY <1>0, <2>1, DialCheckEffect
    <2> QED
      BY <2>2, <1>0, <1>4, TypedSplit DEF DialChecks, Outer, counts
  <1> QED
    BY <1>1, <1>2, <1>3, <1>4 DEF Clock

LEMMA TypedInit == Init => Typed
  <1> SUFFICES ASSUME Init PROVE Typed
    OBVIOUS
  <1>1. calls = <<>> /\ cmds = <<>> /\ wire = <<>> /\ line = <<>>
    BY DEF Init, ProviderInit
  <1>2. CallsTyped /\ QueueTyped /\ Waiting
    BY <1>1 DEF CallsTyped, QueueTyped, Waiting
  <1>3. ProviderTyped
    <2>1. usedIds \subseteq Ids /\ incomingId \in Ids \cup {0}
      <3>1. usedIds = {} /\ incomingId = 0
        BY DEF Init, ProviderInit
      <3> QED
        BY <3>1
    <2>2. typeKnown \in BOOLEAN /\ detect \in BOOLEAN /\ missed \in BOOLEAN /\ hangup \in BOOLEAN
      <3>1. typeKnown = FALSE /\ detect = FALSE /\ missed = FALSE /\ hangup = FALSE
        BY DEF Init, ProviderInit
      <3> QED
        BY <3>1
    <2> QED
      BY <1>2, <2>1, <2>2 DEF ProviderTyped
  <1>4. Outer
    <2>1. far = {} /\ requests = 0 /\ callers = 0 /\ troubles = 0 /\ adrift = FALSE /\ overtaken = FALSE
      BY DEF Init
    <2>2. MaxRequests \in Nat /\ MaxCallers \in Nat /\ MaxTroubles \in Nat
      BY BoundsAssumption
    <2>3. adrift \in BOOLEAN /\ overtaken \in BOOLEAN
      BY <2>1
    <2>4. line \in Seq(Lines)
      BY <1>1
    <2> QED
      BY <2>1, <2>2, <2>3, <2>4 DEF Outer
  <1> QED
    BY <1>3, <1>4, TypedSplit

LEMMA TypedNext == Typed /\ [Next]_vars => Typed'
  <1> SUFFICES ASSUME Typed, [Next]_vars PROVE Typed'
    OBVIOUS
  <1>1. CASE UNCHANGED vars
    <2>1. ProviderTyped /\ Outer
      BY TypedSplit
    <2>2. UNCHANGED <<calls, usedIds, ring, hangup, chat, line>> /\ UNCHANGED <<far, counts, adrift, overtaken>>
      BY <1>1 DEF vars, provider
    <2>3. ProviderTyped'
      BY <2>1, <2>2, SameProvider
    <2> QED
      BY <2>1, <2>2, <2>3, TypedSplit DEF Outer, counts
  <1>2. CASE UserDials
    BY <1>2, RequestForms, DialTyped
  <1>3. CASE UserHangsUp
    BY <1>3, RequestForms, HangingTyped, Zenon
  <1>4. CASE UserSwitches
    BY <1>4, RequestForms, HangingTyped, SwitchTyped, Zenon
  <1>5. CASE World
    BY <1>5, WorldTyped
  <1>6. CASE Answering
    BY <1>6, ObeyTyped, ReadTyped DEF Answering
  <1>7. CASE Clock
    BY <1>7, ClockTyped
  <1> QED
    BY <1>1, <1>2, <1>3, <1>4, <1>5, <1>6, <1>7 DEF Next

-----------------------------------------------------------------------------
\* One call is announced at a time

RingKeys == {c.key : c \in {d \in AnyCall : d.state = "Incoming"}}
OneClcc ==
  \A i, j \in DOMAIN cmds : cmds[i].slot = "clccIncoming" /\ cmds[j].slot = "clccIncoming" => i = j

Gathers ==
  /\ \A k, l \in RingKeys : k = l
  /\ RingKeys # {} \/ detect \/ ClccOut => missed
  /\ detect => RingKeys = {} /\ ~ClccOut
  /\ ClccOut => RingKeys = {}
  /\ OneClcc
  /\ incomingId # 0 => detect \/ ClccOut

GatherInv == ~overtaken => Gathers

LEMMA RingKeysAre ==
  /\ HasGroup(calls, "Incoming") <=> RingKeys # {}
  /\ \A c \in AnyCall : c.state = "Incoming" => c.key \in RingKeys
  /\ \A k \in RingKeys : \E c \in AnyCall : c.state = "Incoming" /\ k = c.key
  BY DEF HasGroup, RingKeys, AnyCall

LEMMA RingKeysNext ==
  /\ \A c \in AnyCall' : c.state = "Incoming" => c.key \in RingKeys'
  /\ \A k \in RingKeys' : \E c \in AnyCall' : c.state = "Incoming" /\ k = c.key
  BY DEF RingKeys

LEMMA RingKeysFollow ==
  ASSUME CallsTyped, NEW cs, Follows(cs), \A d \in AnyCall' : \E i \in DOMAIN calls : d = cs[i]
  PROVE  RingKeys' \subseteq RingKeys
  <1>1. ASSUME NEW k \in RingKeys' PROVE k \in RingKeys
    <2>1. PICK d \in AnyCall' : d.state = "Incoming" /\ k = d.key
      BY <1>1, RingKeysNext
    <2>2. PICK i \in DOMAIN calls : d = cs[i]
      BY <2>1
    <2>3. calls[i].state = "Incoming" /\ calls[i].key = k /\ calls[i] \in AnyCall
      BY <2>1, <2>2 DEF Follows, AnyCall
    <2> QED
      BY <2>3, RingKeysAre
  <1> QED
    BY <1>1

LEMMA ClccAsked ==
  ASSUME QueueTyped, NEW new \in Seq(Commands), Chat(new),
         \A k \in DOMAIN new : new[k].slot # "clccIncoming"
  PROVE  /\ ClccOut' <=> ClccOut
         /\ OneClcc => OneClcc'
  <1>1. /\ \A j \in DOMAIN cmds' :
              \/ j \in DOMAIN cmds /\ cmds'[j] = cmds[j]
              \/ j \notin DOMAIN cmds /\ j - Len(cmds) \in DOMAIN new /\ cmds'[j] = new[j - Len(cmds)]
        /\ \A j \in DOMAIN cmds : j \in DOMAIN cmds' /\ cmds'[j] = cmds[j]
    BY ChatEffect
  <1> QED
    BY <1>1 DEF ClccOut, OneClcc

LEMMA ClccDone ==
  ASSUME QueueTyped, cmds # <<>>, NEW new \in Seq(Commands), Done(new),
         \A k \in DOMAIN new : new[k].slot # "clccIncoming"
  PROVE  /\ ClccOut' => ClccOut
         /\ OneClcc => OneClcc'
         /\ Head(cmds).slot # "clccIncoming" /\ ClccOut => ClccOut'
         /\ Head(cmds).slot = "clccIncoming" /\ OneClcc => ~ClccOut'
  <1>1. /\ Len(cmds) \in Nat /\ DOMAIN cmds = 1 .. Len(cmds)
        /\ cmds' \in Seq(Commands)
        /\ 1 \in DOMAIN cmds /\ cmds[1] = Head(cmds)
        /\ \A j \in DOMAIN cmds' :
              \/ j + 1 \in DOMAIN cmds /\ cmds'[j] = cmds[j + 1]
              \/ j + 1 \notin DOMAIN cmds /\ j + 1 - Len(cmds) \in DOMAIN new /\ cmds'[j] = new[j + 1 - Len(cmds)]
        /\ \A j \in DOMAIN cmds : j # 1 => j - 1 \in DOMAIN cmds' /\ cmds'[j - 1] = cmds[j]
    BY DoneEffect
  <1>2. \A j \in DOMAIN cmds' : j \in Nat /\ j >= 1
    BY <1>1
  <1>3. ASSUME NEW j \in DOMAIN cmds', cmds'[j].slot = "clccIncoming"
        PROVE  j + 1 \in DOMAIN cmds /\ cmds[j + 1].slot = "clccIncoming" /\ j + 1 # 1
    BY <1>1, <1>2, <1>3
  <1>4. ClccOut' => ClccOut
    BY <1>3 DEF ClccOut
  <1>5. OneClcc => OneClcc'
    <2>1. SUFFICES ASSUME OneClcc, NEW i \in DOMAIN cmds', NEW j \in DOMAIN cmds',
                          cmds'[i].slot = "clccIncoming", cmds'[j].slot = "clccIncoming"
                   PROVE  i = j
      BY DEF OneClcc
    <2>2. i + 1 = j + 1
      BY <2>1, <1>3 DEF OneClcc
    <2> QED
      BY <2>2, <1>2
  <1>6. Head(cmds).slot # "clccIncoming" /\ ClccOut => ClccOut'
    BY <1>1 DEF ClccOut
  <1>7. Head(cmds).slot = "clccIncoming" /\ OneClcc => ~ClccOut'
    BY <1>1, <1>3 DEF ClccOut, OneClcc
  <1> QED
    BY <1>4, <1>5, <1>6, <1>7

\* Fewer calls ring and nothing else changes
LEMMA GathersLess ==
  ASSUME Gathers, RingKeys' \subseteq RingKeys, ClccOut' <=> ClccOut, OneClcc',
         UNCHANGED <<detect, missed, incomingId>>
  PROVE  Gathers'
  BY DEF Gathers

LEMMA NothingQueued ==
  ASSUME UNCHANGED cmds
  PROVE  (ClccOut' <=> ClccOut) /\ (OneClcc' <=> OneClcc)
  BY DEF ClccOut, OneClcc

LEMMA NothingRings ==
  ASSUME AnyCall' = AnyCall
  PROVE  RingKeys' = RingKeys
  BY DEF RingKeys

LEMMA HangingGathers ==
  ASSUME ProviderTyped, Gathers, NEW c \in AnyCall, Hanging(c)
  PROVE  Gathers'
  <1>0. CallsTyped /\ QueueTyped
    BY DEF ProviderTyped
  <1>1. PICK new, cs : PlainOnly(new) /\ Handled(cs) /\ NoneTaken(cs) /\ HangupWith(new, cs)
    BY <1>0, HangingForm, Zenon
  <1>2. Chat(new) /\ Leave(cs, usedIds) /\ RingTimersStopped(cs) /\ UNCHANGED <<incomingId, typeKnown, hangup, line>>
    BY <1>1, Zenon DEF HangupWith
  <1>3. Follows(cs)
    BY <1>0, <1>1, HandledFollows
  <1>4. \A d \in AnyCall' : \E i \in DOMAIN calls : d = cs[i] /\ cs[i].state \in States
    BY <1>0, <1>2, <1>3, LeaveEffect
  <1>5. RingKeys' \subseteq RingKeys
    BY <1>0, <1>3, <1>4, RingKeysFollow
  <1>6. (ClccOut' <=> ClccOut) /\ OneClcc'
    <2>1. new \in Seq(Commands) /\ \A k \in DOMAIN new : new[k].slot # "clccIncoming"
      BY <1>1 DEF PlainOnly
    <2> QED
      BY <1>0, <1>2, <2>1, ClccAsked DEF Gathers
  <1>7. CASE \E i \in DOMAIN calls : calls[i].state = "Incoming" /\ cs[i].state \in Over
    <2>1. PICK i \in DOMAIN calls : calls[i].state = "Incoming" /\ cs[i].state \in Over
      BY <1>7
    <2>2. detect' = FALSE /\ missed' = FALSE
      BY <1>2, <1>7 DEF RingTimersStopped
    <2>3. calls[i] \in AnyCall /\ calls[i].key \in RingKeys
      BY <2>1, RingKeysAre DEF AnyCall
    <2>4. ASSUME NEW k \in RingKeys' PROVE FALSE
      <3>1. PICK d \in AnyCall' : d.state = "Incoming" /\ k = d.key
        BY <2>4, RingKeysNext
      <3>2. PICK j \in DOMAIN calls : d = cs[j]
        BY <3>1, <1>4
      <3>3. k = calls[i].key
        BY <2>3, <2>4, <1>5 DEF Gathers
      <3>4. calls[j].key = calls[i].key
        BY <3>1, <3>2, <3>3, <1>3 DEF Follows
      <3>5. j = i
        BY <3>4, <1>0 DEF CallsTyped
      <3> QED
        BY <3>1, <3>2, <3>5, <2>1, OverIs
    <2>5. ~ClccOut /\ ~detect /\ ~ClccOut'
      BY <2>3, <1>6 DEF Gathers
    <2>6. RingKeys' = {}
      BY <2>4
    <2>7. incomingId' = 0
      BY <1>2, <2>5 DEF Gathers
    <2> QED
      BY <1>6, <2>2, <2>5, <2>6, <2>7 DEF Gathers
  <1>8. CASE ~ \E i \in DOMAIN calls : calls[i].state = "Incoming" /\ cs[i].state \in Over
    <2>1. UNCHANGED <<detect, missed, incomingId>>
      BY <1>2, <1>8 DEF RingTimersStopped
    <2> QED
      BY <2>1, <1>5, <1>6, GathersLess
  <1> QED
    BY <1>7, <1>8

LEMMA AcceptGathers ==
  ASSUME ProviderTyped, Gathers, NEW c \in AnyCall, Accept(c)
  PROVE  Gathers'
  <1>0. CallsTyped /\ QueueTyped
    BY DEF ProviderTyped
  <1>1. /\ c.state = "Incoming" /\ detect' = FALSE /\ missed' = FALSE
        /\ \E command : /\ Question(command, c) /\ command.slot = "acceptDone"
                        /\ Chat(<<command>>)
        /\ Restates(calls', calls)
        /\ \A i \in DOMAIN calls :
              calls'[i].state = IF calls[i].key = c.key THEN "Connected"
                                ELSE IF calls[i].state = "Connected" THEN "Hold" ELSE calls[i].state
        /\ \A d \in AnyCall' : \E i \in DOMAIN calls : d = calls'[i]
        /\ UNCHANGED <<usedIds, incomingId, typeKnown, hangup, line>>
    BY AcceptEffect, Zenon
  <1>2. PICK command : Question(command, c) /\ command.slot = "acceptDone" /\ Chat(<<command>>)
    BY <1>1
  <1>3. (ClccOut' <=> ClccOut) /\ OneClcc'
    <2>1. <<command>> \in Seq(Commands) /\ \A k \in DOMAIN <<command>> : <<command>>[k].slot # "clccIncoming"
      <3>1. command \in Commands
        BY <1>2 DEF Question
      <3> QED
        BY <3>1, <1>2, OneIs
    <2> QED
      BY <1>0, <1>2, <2>1, ClccAsked DEF Gathers
  <1>4. c.key \in RingKeys
    BY <1>1, RingKeysAre
  <1>5. ~ClccOut /\ ~detect /\ incomingId = 0
    BY <1>4 DEF Gathers
  <1>6. RingKeys' = {}
    <2>1. SUFFICES ASSUME NEW k \in RingKeys' PROVE FALSE
      OBVIOUS
    <2>2. PICK d \in AnyCall' : d.state = "Incoming" /\ k = d.key
      BY RingKeysNext
    <2>3. PICK i \in DOMAIN calls : d = calls'[i]
      BY <2>2, <1>1
    <2>4. calls[i].key # c.key /\ calls[i].state = "Incoming" /\ calls[i] \in AnyCall
      BY <2>2, <2>3, <1>1 DEF AnyCall
    <2>5. calls[i].key \in RingKeys
      BY <2>4, RingKeysAre
    <2> QED
      BY <2>4, <2>5, <1>4 DEF Gathers
  <1>7. incomingId' = 0
    BY <1>1, <1>5
  <1> QED
    BY <1>1, <1>3, <1>5, <1>6, <1>7 DEF Gathers

LEMMA AskingGathers ==
  ASSUME ProviderTyped, Gathers, NEW c \in AnyCall, Asking(c)
  PROVE  Gathers'
  <1>0. CallsTyped /\ QueueTyped
    BY DEF ProviderTyped
  <1>1. PICK command : /\ Question(command, c)
                       /\ Chat(<<command>>)
                       /\ UNCHANGED <<calls, usedIds, ring, hangup, line>>
    BY <1>0, AskingForm, Zenon
  <1>2. command \in Commands /\ command.slot # "clccIncoming"
    BY <1>1 DEF Question
  <1>3. <<command>> \in Seq(Commands) /\ \A k \in DOMAIN <<command>> : <<command>>[k].slot # "clccIncoming"
    BY <1>2, OneIs
  <1>4. (ClccOut' <=> ClccOut) /\ OneClcc'
    BY <1>0, <1>1, <1>3, ClccAsked DEF Gathers
  <1>5. RingKeys' = RingKeys
    <2>1. AnyCall' = AnyCall
      BY <1>1 DEF AnyCall
    <2> QED
      BY <2>1, NothingRings
  <1> QED
    BY <1>1, <1>4, <1>5, GathersLess DEF ring

LEMMA DialGathers ==
  ASSUME ProviderTyped, Gathers, Dial
  PROVE  Gathers'
  <1>0. CallsTyped /\ QueueTyped
    BY DEF ProviderTyped
  <1>1. CASE UNCHANGED provider
    <2>1. AnyCall' = AnyCall /\ UNCHANGED <<cmds, detect, missed, incomingId>>
      BY <1>1 DEF provider, AnyCall, ring, chat
    <2> QED
      BY <2>1, NothingRings, NothingQueued, GathersLess DEF Gathers
  <1>2. CASE ~(UNCHANGED provider)
    <2> DEFINE cs == ChangeGroup(calls, "Connected", "Hold")
    <2>1. /\ Dialed.state = "Dialing"
          /\ DialCommand \in Commands /\ DialCommand.slot = "dialRequestDone"
          /\ Chat(<<DialCommand>>)
          /\ \A d \in AnyCall' : d = Dialed \/ \E i \in DOMAIN calls : d = cs[i]
          /\ UNCHANGED <<ring, hangup, line>>
      BY <1>2, DialEffect, Zenon
    <2>2. /\ Follows(cs)
      BY <1>0, HeldFollows, Zenon
    <2> HIDE DEF cs
    <2>3. RingKeys' \subseteq RingKeys
      <3>1. ASSUME NEW k \in RingKeys' PROVE k \in RingKeys
        <4>1. PICK d \in AnyCall' : d.state = "Incoming" /\ k = d.key
          BY <3>1, RingKeysNext
        <4>2. PICK i \in DOMAIN calls : d = cs[i]
          BY <4>1, <2>1
        <4>3. calls[i].state = "Incoming" /\ calls[i].key = k /\ calls[i] \in AnyCall
          BY <4>1, <4>2, <2>2 DEF Follows, AnyCall
        <4> QED
          BY <4>3, RingKeysAre
      <3> QED
        BY <3>1
    <2>4. (ClccOut' <=> ClccOut) /\ OneClcc'
      <3>1. <<DialCommand>> \in Seq(Commands) /\ \A k \in DOMAIN <<DialCommand>> : <<DialCommand>>[k].slot # "clccIncoming"
        BY <2>1, OneIs
      <3> QED
        BY <1>0, <2>1, <3>1, ClccAsked DEF Gathers
    <2> QED
      BY <2>1, <2>3, <2>4, GathersLess DEF ring
  <1> QED
    BY <1>1, <1>2

LEMMA RingGathers ==
  ASSUME ProviderTyped, Gathers, NEW known \in BOOLEAN, Ringing(known), UNCHANGED <<hangup, chat>>,
         ~(ClccOut /\ ~HasGroup(calls, "Incoming"))
  PROVE  Gathers'
  <1>1. /\ AnyCall' = AnyCall
        /\ HasGroup(calls, "Incoming") => UNCHANGED <<usedIds, incomingId, detect>>
        /\ ~HasGroup(calls, "Incoming") => detect' = TRUE
        /\ missed' = TRUE
    BY RingingEffect
  <1>2. RingKeys' = RingKeys /\ (ClccOut' <=> ClccOut) /\ (OneClcc' <=> OneClcc)
    BY <1>1, NothingRings, NothingQueued DEF chat
  <1>3. HasGroup(calls, "Incoming") <=> RingKeys # {}
    BY RingKeysAre
  <1> QED
    BY <1>1, <1>2, <1>3 DEF Gathers

LEMMA AnswerGathers ==
  ASSUME ProviderTyped, Gathers, cmds # <<>>, NEW ok \in BOOLEAN, NEW list \in SUBSET FarCalls,
         Answer(ok, list), ~(detect /\ ~detect')
  PROVE  Gathers'
  <1>0. CallsTyped /\ QueueTyped /\ incomingId \in Ids \cup {0} /\ detect \in BOOLEAN
    BY DEF ProviderTyped
  <1>1. \/ Head(cmds).slot = "clccIncoming" /\ Done(<<>>) /\ ClccAnswered(ok, list)
        \/ /\ Head(cmds).slot # "clccIncoming" /\ Owner(Head(cmds)) = {}
           /\ Done(<<>>) /\ UNCHANGED <<calls, usedIds, ring>>
        \/ /\ Head(cmds).slot # "clccIncoming"
           /\ \E c \in Owner(Head(cmds)) : SlotCalled(c, ok, list)
    BY AnswerEffect, Zenon
  <1>2. <<>> \in Seq(Commands) /\ \A k \in DOMAIN <<>> : <<>>[k].slot # "clccIncoming"
    BY NoneIs
  <1>3. CASE Head(cmds).slot = "clccIncoming" /\ Done(<<>>) /\ ClccAnswered(ok, list)
    <2>1. OneClcc' /\ ~ClccOut'
      BY <1>0, <1>2, <1>3, ClccDone DEF Gathers
    <2>2. ClccOut
      <3>1. Head(cmds) = cmds[1] /\ 1 \in DOMAIN cmds
        BY <1>0, TailIs DEF QueueTyped
      <3> QED
        BY <3>1, <1>3 DEF ClccOut
    <2>3. RingKeys = {} /\ missed /\ ~detect
      BY <2>2 DEF Gathers
    <2>4. \A c \in AnyCall : c.state # "Incoming"
      BY <2>3, RingKeysAre
    <2>5. ASSUME NEW id \in Ids \cup {0}, AnyCall' \subseteq AnyCall \cup {AnnouncedCall(id)}
          PROVE  RingKeys' \subseteq {AnnouncedCall(id).key}
      BY <2>4, <2>5, RingKeysNext
    <2>6. CASE UNCHANGED <<detect, missed>> /\ \E id \in Ids \cup {0} : AnyCall' = AnyCall \cup {AnnouncedCall(id)}
      BY <1>3, <2>1, <2>3, <2>5, <2>6 DEF Gathers, ClccAnswered
    <2>7. CASE /\ \E e \in AnyCall \cup {AnnouncedCall(incomingId)} :
                     /\ e.state = "Incoming"
                     /\ AnyCall' = (AnyCall \cup {AnnouncedCall(incomingId)}) \ {e}
               /\ detect' = FALSE /\ missed' = FALSE
      <3>1. AnyCall' \subseteq AnyCall
        BY <2>4, <2>7
      <3>2. RingKeys' = {}
        BY <3>1, <2>4, RingKeysNext
      <3> QED
        BY <1>3, <2>1, <2>7, <3>2 DEF Gathers, ClccAnswered
    <2> QED
      BY <1>0, <1>3, <2>6, <2>7 DEF ClccAnswered
  <1>4. CASE /\ Head(cmds).slot # "clccIncoming" /\ Owner(Head(cmds)) = {}
             /\ Done(<<>>) /\ UNCHANGED <<calls, usedIds, ring>>
    <2>1. AnyCall' = AnyCall
      BY <1>4 DEF AnyCall
    <2>2. RingKeys' = RingKeys
      BY <2>1, NothingRings
    <2>3. (ClccOut' <=> ClccOut) /\ OneClcc'
      BY <1>0, <1>2, <1>4, ClccDone DEF Gathers
    <2> QED
      BY <2>2, <2>3, <1>4, GathersLess DEF ring
  <1>5. ASSUME Head(cmds).slot # "clccIncoming", NEW c \in Owner(Head(cmds)), SlotCalled(c, ok, list)
        PROVE  Gathers'
    <2> DEFINE new == SlotCommands(Head(cmds).slot, c, ok)
               cs == SlotResult(Head(cmds).slot, c, ok, list)
    <2>1. /\ Done(new) /\ new \in Seq(Commands) /\ FollowUp(new)
          /\ Leave(cs, usedIds) /\ Follows(cs)
          /\ detect' = (detect /\ ~(Head(cmds).slot = "acceptDone" /\ ~ok))
          /\ UNCHANGED <<incomingId, typeKnown, missed>>
      BY <1>5 DEF SlotCalled, Kept
    <2> HIDE DEF new, cs
    <2>2. \A k \in DOMAIN new : new[k].slot # "clccIncoming"
      BY <2>1, OneIs, NoneIs DEF FollowUp, DialSlots
    <2>3. (ClccOut' <=> ClccOut) /\ OneClcc'
      BY <1>0, <1>5, <2>1, <2>2, ClccDone DEF Gathers
    <2>4. \A d \in AnyCall' : \E i \in DOMAIN calls : d = cs[i] /\ cs[i].state \in States
      BY <1>0, <2>1, LeaveEffect
    <2>5. RingKeys' \subseteq RingKeys
      BY <1>0, <2>1, <2>4, RingKeysFollow
    <2>6. UNCHANGED detect
      BY <2>1, <1>0
    <2> QED
      BY <2>1, <2>3, <2>5, <2>6, GathersLess
  <1> QED
    BY <1>1, <1>3, <1>4, <1>5

LEMMA EndingGathers ==
  ASSUME ProviderTyped, Gathers, NEW cs, Handled(cs), Leave(cs, usedIds), UNCHANGED chat
  PROVE  /\ RingKeys' \subseteq RingKeys /\ (ClccOut' <=> ClccOut) /\ OneClcc'
         /\ \A d \in AnyCall' : \E i \in DOMAIN calls : d = cs[i] /\ cs[i].state \in States
         /\ Follows(cs)
  <1>0. CallsTyped
    BY DEF ProviderTyped
  <1>1. Follows(cs)
    BY <1>0, HandledFollows
  <1>2. \A d \in AnyCall' : \E i \in DOMAIN calls : d = cs[i] /\ cs[i].state \in States
    BY <1>0, <1>1, LeaveEffect
  <1>3. RingKeys' \subseteq RingKeys
    BY <1>0, <1>1, <1>2, RingKeysFollow
  <1>4. (ClccOut' <=> ClccOut) /\ OneClcc'
    BY NothingQueued DEF chat, Gathers
  <1> QED
    BY <1>1, <1>2, <1>3, <1>4

LEMMA DetectGathers ==
  ASSUME ProviderTyped, Gathers, DetectTimeout
  PROVE  Gathers'
  <1>0. CallsTyped /\ QueueTyped
    BY DEF ProviderTyped
  <1>1. /\ detect = TRUE /\ detect' = FALSE /\ UNCHANGED <<usedIds, missed, hangup, line>>
        /\ \/ /\ AnyCall' = AnyCall \cup {AnnouncedCall(incomingId)}
              /\ incomingId' = 0 /\ UNCHANGED chat
           \/ /\ Chat(<<ClccQuestion>>)
              /\ AnyCall' = AnyCall /\ UNCHANGED <<calls, incomingId>>
    BY DetectEffect
  <1>2. RingKeys = {} /\ ~ClccOut /\ missed
    BY <1>1 DEF Gathers
  <1>3. \A c \in AnyCall : c.state # "Incoming"
    BY <1>2, RingKeysAre
  <1>4. CASE AnyCall' = AnyCall \cup {AnnouncedCall(incomingId)} /\ incomingId' = 0 /\ UNCHANGED chat
    <2>1. RingKeys' \subseteq {AnnouncedCall(incomingId).key}
      BY <1>3, <1>4, RingKeysNext
    <2>2. (ClccOut' <=> ClccOut) /\ OneClcc'
      BY <1>4, NothingQueued DEF chat, Gathers
    <2> QED
      BY <1>1, <1>2, <1>4, <2>1, <2>2 DEF Gathers
  <1>5. CASE Chat(<<ClccQuestion>>) /\ AnyCall' = AnyCall /\ UNCHANGED <<calls, incomingId>>
    <2>1. RingKeys' = {}
      BY <1>2, <1>5, NothingRings
    <2>2. /\ Len(cmds) \in Nat /\ DOMAIN cmds = 1 .. Len(cmds)
          /\ \A j \in DOMAIN cmds' :
              \/ j \in DOMAIN cmds /\ cmds'[j] = cmds[j]
              \/ j = Len(cmds) + 1 /\ cmds'[j] = ClccQuestion
          /\ Len(cmds) + 1 \in DOMAIN cmds' /\ cmds'[Len(cmds) + 1] = ClccQuestion
      BY <1>0, <1>5, ClccQuestionIs, ChatOne
    <2>3. ClccOut' /\ OneClcc'
      BY <1>2, <2>2, ClccQuestionIs DEF ClccOut, OneClcc
    <2> QED
      BY <1>1, <1>2, <2>1, <2>3 DEF Gathers
  <1> QED
    BY <1>1, <1>4, <1>5

LEMMA MissedGathers ==
  ASSUME ProviderTyped, Gathers, MissedTimeout, ~detect, ~ClccOut
  PROVE  Gathers'
  <1>0. CallsTyped
    BY DEF ProviderTyped
  <1>1. /\ missed' = FALSE /\ detect' = FALSE
        /\ Handled(Missed(calls)) /\ Leave(Missed(calls), usedIds)
        /\ UNCHANGED <<incomingId, hangup, chat, line>>
    BY MissedEffect
  <1>2. /\ RingKeys' \subseteq RingKeys /\ (ClccOut' <=> ClccOut) /\ OneClcc'
        /\ \A d \in AnyCall' : \E i \in DOMAIN calls : d = Missed(calls)[i] /\ Missed(calls)[i].state \in States
        /\ Follows(Missed(calls))
    BY <1>1, EndingGathers
  <1>3. RingKeys' = {}
    <2>1. SUFFICES ASSUME NEW k \in RingKeys' PROVE FALSE
      OBVIOUS
    <2>2. RingKeys # {}
      BY <1>2
    <2>3. PICK i \in DOMAIN calls : calls[i].state = "Incoming" /\ Missed(calls)[i].state = "Missed"
      BY <1>0, <2>2, MissedIs, RingKeysAre
    <2>4. PICK d \in AnyCall' : d.state = "Incoming" /\ k = d.key
      BY RingKeysNext
    <2>5. PICK j \in DOMAIN calls : d = Missed(calls)[j]
      BY <2>4, <1>2
    <2>6. calls[i].key \in RingKeys /\ calls[j].key = k
      BY <2>3, <2>4, <2>5, <1>2, RingKeysAre DEF AnyCall, Follows
    <2>7. calls[i].key = calls[j].key
      BY <2>6, <1>2 DEF Gathers
    <2>8. i = j
      BY <2>7, <1>0 DEF CallsTyped
    <2> QED
      BY <2>3, <2>4, <2>5, <2>8
  <1>4. incomingId' = 0
    BY <1>1 DEF Gathers
  <1> QED
    BY <1>1, <1>2, <1>3, <1>4 DEF Gathers

LEMMA DialCheckGathers ==
  ASSUME ProviderTyped, Gathers, NEW c \in AnyCall, DialCheck(c)
  PROVE  Gathers'
  <1>0. CallsTyped /\ QueueTyped /\ c \in Call
    BY CallsAre DEF ProviderTyped
  <1>1. /\ Follows(calls')
        /\ \A d \in AnyCall' : \E i \in DOMAIN calls : d = calls'[i]
        /\ Chat(<<DialQuestion(c)>>)
        /\ UNCHANGED <<usedIds, ring, hangup, line>>
    BY DialCheckEffect
  <1>2. RingKeys' \subseteq RingKeys
    <2>1. ASSUME NEW k \in RingKeys' PROVE k \in RingKeys
      <3>1. PICK d \in AnyCall' : d.state = "Incoming" /\ k = d.key
        BY <2>1, RingKeysNext
      <3>2. PICK i \in DOMAIN calls : d = calls'[i]
        BY <3>1, <1>1
      <3>3. calls[i].state = "Incoming" /\ calls[i].key = k /\ calls[i] \in AnyCall
        BY <3>1, <3>2, <1>1 DEF Follows, AnyCall
      <3> QED
        BY <3>3, RingKeysAre
    <2> QED
      BY <2>1
  <1>3. <<DialQuestion(c)>> \in Seq(Commands) /\ \A k \in DOMAIN <<DialQuestion(c)>> : <<DialQuestion(c)>>[k].slot # "clccIncoming"
    BY <1>0, DialQuestionIs
  <1>4. (ClccOut' <=> ClccOut) /\ OneClcc'
    BY <1>0, <1>1, <1>3, ClccAsked DEF Gathers
  <1> QED
    BY <1>1, <1>2, <1>4, GathersLess DEF ring

LEMMA GatherInit == Init => GatherInv
  <1> SUFFICES ASSUME Init PROVE Gathers
    BY DEF GatherInv
  <1>1. calls = <<>> /\ cmds = <<>> /\ incomingId = 0 /\ detect = FALSE
    BY DEF Init, ProviderInit
  <1>2. AnyCall = {} /\ ~ClccOut /\ OneClcc
    BY <1>1 DEF AnyCall, ClccOut, OneClcc
  <1>3. RingKeys = {}
    BY <1>2 DEF RingKeys
  <1> QED
    BY <1>1, <1>2, <1>3 DEF Gathers

LEMMA GatherRead ==
  ASSUME ProviderTyped, Outer, Gathers, Read, ~overtaken'
  PROVE  Gathers'
  <1>1. /\ LineIs("ring") => Head(line).known \in BOOLEAN
        /\ LineIs("answer") => Head(line).ok \in BOOLEAN /\ Head(line).list \in SUBSET FarCalls
    BY LineIsAre
  <1>2. CASE ReadRing /\ overtaken' = (overtaken \/ (ClccOut /\ ~HasGroup(calls, "Incoming")))
    <2>1. Ringing(Head(line).known) /\ UNCHANGED <<hangup, chat>> /\ Head(line).known \in BOOLEAN
      BY <1>1, <1>2 DEF ReadRing
    <2> QED
      BY <1>2, <2>1, RingGathers
  <1>3. CASE ReadAnswer /\ overtaken' = (overtaken \/ (detect /\ ~detect'))
    <2>1. CASE cmds # <<>>
      <3>1. Answer(Head(line).ok, Head(line).list)
            /\ Head(line).ok \in BOOLEAN /\ Head(line).list \in SUBSET FarCalls
        BY <1>1, <1>3, <2>1 DEF ReadAnswer
      <3> QED
        BY <1>3, <2>1, <3>1, AnswerGathers
    <2>2. CASE cmds = <<>>
      <3>1. UNCHANGED <<calls, usedIds, ring, chat>>
        BY <1>3, <2>2 DEF ReadAnswer
      <3>2. AnyCall' = AnyCall
        BY <3>1 DEF AnyCall
      <3> QED
        BY <3>1, <3>2, NothingRings, NothingQueued, GathersLess DEF ring, chat, Gathers
    <2> QED
      BY <2>1, <2>2
  <1>4. CASE ReadNoCarrier /\ overtaken' = (overtaken \/ (detect /\ ~detect'))
    <2>1. CASE cmds # <<>> /\ Answer(FALSE, {})
      <3>1. FALSE \in BOOLEAN /\ {} \in SUBSET FarCalls
        OBVIOUS
      <3> QED
        BY <1>4, <2>1, <3>1, AnswerGathers
    <2>2. CASE UNCHANGED <<calls, usedIds, ring, hangup, chat>>
      <3>1. AnyCall' = AnyCall
        BY <2>2 DEF AnyCall
      <3> QED
        BY <2>2, <3>1, NothingRings, NothingQueued, GathersLess DEF ring, chat, Gathers
    <2>3. CASE Leave(ChangeGroup(calls, "Connected", "HangupRemote"), usedIds) /\ UNCHANGED <<ring, chat>>
      <3>1. Handled(ChangeGroup(calls, "Connected", "HangupRemote"))
        BY <2>3, CarrierLost
      <3>2. RingKeys' \subseteq RingKeys /\ (ClccOut' <=> ClccOut) /\ OneClcc'
        BY <2>3, <3>1, EndingGathers
      <3> QED
        BY <2>3, <3>2, GathersLess DEF ring
    <2> QED
      BY <1>4, <2>1, <2>2, <2>3 DEF ReadNoCarrier
  <1> QED
    BY <1>2, <1>3, <1>4 DEF Read

LEMMA GatherNext == Typed /\ GatherInv /\ [Next]_vars => GatherInv'
  <1> SUFFICES ASSUME Typed, GatherInv, [Next]_vars, ~overtaken' PROVE Gathers'
    BY DEF GatherInv
  <1>0. ProviderTyped /\ Outer
    BY TypedSplit
  <1>1. overtaken \in BOOLEAN
    BY <1>0 DEF Outer
  <1>2. ASSUME Gathers, UNCHANGED <<calls, cmds, detect, missed, incomingId>>
        PROVE  Gathers'
    <2>1. AnyCall' = AnyCall
      BY <1>2 DEF AnyCall
    <2> QED
      BY <1>2, <2>1, NothingRings, NothingQueued, GathersLess DEF Gathers
  <1>3. CASE UNCHANGED vars
    BY <1>2, <1>3 DEF vars, provider, ring, chat, GatherInv
  <1>4. CASE UserDials
    BY <1>0, <1>4, RequestForms, DialGathers DEF GatherInv, Asked
  <1>5. CASE UserHangsUp
    <2>1. PICK c \in AnyCall : Asked /\ Hanging(c)
      BY <1>5, RequestForms, Zenon
    <2> QED
      BY <1>0, <2>1, HangingGathers DEF GatherInv, Asked
  <1>6. CASE UserSwitches
    <2>1. PICK c \in AnyCall : Asked /\ (Hanging(c) \/ Accept(c) \/ Asking(c))
      BY <1>6, RequestForms, Zenon
    <2> QED
      BY <1>0, <2>1, HangingGathers, AcceptGathers, AskingGathers DEF GatherInv, Asked
  <1>7. CASE World
    <2>1. UNCHANGED <<calls, usedIds, ring, hangup, chat, requests, troubles, overtaken>>
      BY <1>7, Zenon DEF World, NewCaller, Ring, CallerGivesUp, FarAlerts, FarResolves, FarAnswers, DialFails,
         RemoteHangup, Network, counts
    <2> QED
      BY <2>1, <1>2 DEF ring, chat, GatherInv
  <1>8. CASE Obey
    BY <1>2, <1>8 DEF Obey, ring, GatherInv
  <1>9. CASE Read
    <2>1. overtaken => overtaken'
      BY <1>9, <1>1 DEF Read
    <2> QED
      BY <1>0, <1>9, <2>1, GatherRead DEF GatherInv
  <1>10. CASE DetectFires
    BY <1>0, <1>10, DetectGathers DEF DetectFires, GatherInv
  <1>11. CASE MissedFires
    <2>1. MissedTimeout /\ ~detect /\ overtaken' = (overtaken \/ ClccOut)
      BY <1>11 DEF MissedFires
    <2> QED
      BY <1>0, <2>1, MissedGathers DEF GatherInv
  <1>12. CASE HangupFires
    BY <1>2, <1>12 DEF HangupFires, HangupTimeout, ring, chat, GatherInv
  <1>13. CASE DialChecks
    <2>1. PICK c \in AnyCall : DialCheck(c)
      BY <1>13 DEF DialChecks
    <2> QED
      BY <1>0, <1>13, <2>1, DialCheckGathers DEF DialChecks, GatherInv
  <1> QED
    BY <1>3, <1>4, <1>5, <1>6, <1>7, <1>8, <1>9, <1>10, <1>11, <1>12, <1>13 DEF Next, Answering, Clock

LEMMA WatchedFollows == Typed /\ GatherInv => IncomingWatched
  <1> SUFFICES ASSUME Typed, Gathers
               PROVE  Cardinality(CallsWith(TRUE)) <= 1 /\ (HasGroup(calls, "Incoming") => missed)
    BY DEF GatherInv, IncomingWatched
  <1>0. CallsTyped
    BY TypedSplit DEF ProviderTyped
  <1>1. HasGroup(calls, "Incoming") => missed
    BY RingKeysAre DEF Gathers
  <1>2. \A i, j \in CallsWith(TRUE) : i = j
    <2>1. SUFFICES ASSUME NEW i \in CallsWith(TRUE), NEW j \in CallsWith(TRUE) PROVE i = j
      OBVIOUS
    <2>2. /\ i \in DOMAIN calls /\ calls[i].state = "Incoming" /\ calls[i] \in AnyCall
          /\ j \in DOMAIN calls /\ calls[j].state = "Incoming" /\ calls[j] \in AnyCall
      BY DEF CallsWith, AnyCall
    <2>3. calls[i].key = calls[j].key
      BY <2>2, RingKeysAre DEF Gathers
    <2> QED
      BY <2>2, <2>3, <1>0 DEF CallsTyped
  <1> DEFINE n == Cardinality(CallsWith(TRUE))
  <1>3. n = 0 \/ n = 1
    <2>1. CASE CallsWith(TRUE) = {}
      <3>1. Cardinality({}) = 0
        BY FS_EmptySet
      <3> QED
        BY <2>1, <3>1, Zenon
    <2>2. CASE CallsWith(TRUE) # {}
      <3>1. PICK i : i \in CallsWith(TRUE)
        BY <2>2
      <3>2. CallsWith(TRUE) = {i}
        BY <3>1, <1>2
      <3>3. Cardinality({i}) = 1
        BY FS_Singleton
      <3> QED
        BY <3>2, <3>3, Zenon
    <2> QED
      BY <2>1, <2>2
  <1>4. n <= 1
    <2> HIDE DEF n
    <2> QED
      BY <1>3
  <1> QED
    BY <1>1, <1>4, Zenon

\* The types: the calls have different keys, a timer runs for dialing calls only,
\* and the modem's calls are records of an identifier and a stat
THEOREM CallsTypeCorrect == Spec => []TypeOK
  <1>1. Typed => TypeOK
    BY DEF Typed
  <1> QED
    BY <1>1, TypedInit, TypedNext, PTL DEF Spec

\* One call is announced at a time, and while it rings missedTimer runs, until a
\* ring overtakes the answer to AT+CLCC (ringing(), clccIncoming(), missedTimeout())
THEOREM OneIncomingWatched == Spec => []IncomingWatched
  <1>1. Init => Typed /\ GatherInv
    BY TypedInit, GatherInit
  <1>2. Typed /\ GatherInv /\ [Next]_vars => Typed' /\ GatherInv'
    BY TypedNext, GatherNext
  <1> QED
    BY <1>1, <1>2, WatchedFollows, PTL DEF Spec

-----------------------------------------------------------------------------
\* One command is out at a time, and it has at most one answer

NoAnswer == \A i \in DOMAIN line : line[i].kind # "answer"
Answered ==
  \E i \in DOMAIN line :
    /\ line[i].kind = "answer" /\ line[i].ok
    /\ Head(cmds).at = "CLCC" => line[i].list = far
    /\ \A j \in DOMAIN line : line[j].kind = "answer" => j = i
NoCarrierOut == \E i \in DOMAIN line : line[i].kind = "nocarrier"

Wired ==
  /\ cmds = <<>> => wire = <<>> /\ NoAnswer
  /\ cmds # <<>> => \/ wire = <<Sent(Head(cmds))>> /\ NoAnswer
                    \/ wire = <<>> /\ Answered
  /\ NoCarrierOut => \A j \in DOMAIN cmds : cmds[j].at = "CLCC"

LEMMA LineLonger ==
  ASSUME line \in Seq(Lines), NEW x \in Lines, line' = Append(line, x)
  PROVE  /\ Len(line) \in Nat /\ DOMAIN line = 1 .. Len(line)
         /\ \A i \in DOMAIN line' : \/ i \in DOMAIN line /\ line'[i] = line[i]
                                    \/ i = Len(line) + 1 /\ line'[i] = x
         /\ \A i \in DOMAIN line : i \in DOMAIN line' /\ line'[i] = line[i] /\ i # Len(line) + 1
         /\ Len(line) + 1 \in DOMAIN line' /\ line'[Len(line) + 1] = x
  OBVIOUS

LEMMA LineShorter ==
  ASSUME line \in Seq(Lines), line # <<>>, line' = Tail(line)
  PROVE  /\ Len(line) \in Nat /\ DOMAIN line = 1 .. Len(line)
         /\ Head(line) = line[1] /\ 1 \in DOMAIN line
         /\ \A i \in DOMAIN line' : i \in Nat /\ i + 1 \in DOMAIN line /\ line'[i] = line[i + 1]
         /\ \A i \in DOMAIN line : i \in Nat /\ (i # 1 => i - 1 \in DOMAIN line' /\ line'[i - 1] = line[i])
  OBVIOUS

\* A line that is no answer is added or read
LEMMA AnswersKept ==
  ASSUME line \in Seq(Lines), UNCHANGED <<cmds, wire, far>>, Wired,
         \/ \E x \in Lines : x.kind = "ring" /\ line' = Append(line, x)
         \/ line # <<>> /\ Head(line).kind # "answer" /\ line' = Tail(line)
  PROVE  Wired'
  <1>1. /\ NoAnswer => NoAnswer'
        /\ Answered => Answered'
        /\ NoCarrierOut' => NoCarrierOut
    <2>1. CASE \E x \in Lines : x.kind = "ring" /\ line' = Append(line, x)
      <3>1. PICK x \in Lines : x.kind = "ring" /\ line' = Append(line, x)
        BY <2>1
      <3>2. /\ \A i \in DOMAIN line' : \/ i \in DOMAIN line /\ line'[i] = line[i]
                                       \/ i = Len(line) + 1 /\ line'[i] = x
            /\ \A i \in DOMAIN line : i \in DOMAIN line' /\ line'[i] = line[i] /\ i # Len(line) + 1
        BY <3>1, LineLonger
      <3> QED
        BY <3>1, <3>2 DEF NoAnswer, Answered, NoCarrierOut
    <2>2. CASE line # <<>> /\ Head(line).kind # "answer" /\ line' = Tail(line)
      <3>1. /\ Head(line) = line[1] /\ 1 \in DOMAIN line
            /\ \A i \in DOMAIN line' : i \in Nat /\ i + 1 \in DOMAIN line /\ line'[i] = line[i + 1]
            /\ \A i \in DOMAIN line : i \in Nat /\ (i # 1 => i - 1 \in DOMAIN line' /\ line'[i - 1] = line[i])
        BY <2>2, LineShorter
      <3>2. (NoAnswer => NoAnswer') /\ (NoCarrierOut' => NoCarrierOut)
        BY <3>1 DEF NoAnswer, NoCarrierOut
      <3>3. ASSUME Answered PROVE Answered'
        <4>1. PICK i \in DOMAIN line :
                /\ line[i].kind = "answer" /\ line[i].ok
                /\ Head(cmds).at = "CLCC" => line[i].list = far
                /\ \A j \in DOMAIN line : line[j].kind = "answer" => j = i
          BY <3>3 DEF Answered
        <4>2. i # 1
          BY <4>1, <3>1, <2>2
        <4>3. i - 1 \in DOMAIN line' /\ line'[i - 1] = line[i] /\ i \in Nat
          BY <4>2, <3>1
        <4>4. ASSUME NEW j \in DOMAIN line', line'[j].kind = "answer" PROVE j = i - 1
          <5>1. j + 1 = i /\ j \in Nat
            BY <4>1, <4>4, <3>1
          <5> QED
            BY <5>1
        <4> QED
          BY <4>1, <4>3, <4>4 DEF Answered
      <3> QED
        BY <3>2, <3>3
    <2> QED
      BY <2>1, <2>2
  <1> QED
    BY <1>1 DEF Wired

\* The provider asks on its own
LEMMA ClccWired ==
  ASSUME QueueTyped, Wired, NEW command \in Commands, command.at = "CLCC", Chat(<<command>>),
         UNCHANGED <<line, far>>
  PROVE  Wired'
  <1>1. /\ \A j \in DOMAIN cmds' :
              \/ j \in DOMAIN cmds /\ cmds'[j] = cmds[j]
              \/ j = Len(cmds) + 1 /\ cmds'[j] = command
        /\ cmds' # <<>>
        /\ cmds # <<>> => wire' = wire /\ Head(cmds') = Head(cmds)
        /\ cmds = <<>> => wire' = Append(wire, Sent(command)) /\ cmds' = <<command>>
                          /\ Head(cmds') = command
    BY ChatOne
  <1>2. (NoAnswer' <=> NoAnswer) /\ (NoCarrierOut' <=> NoCarrierOut)
    BY DEF NoAnswer, NoCarrierOut
  <1>3. NoCarrierOut' => \A j \in DOMAIN cmds' : cmds'[j].at = "CLCC"
    BY <1>1, <1>2 DEF Wired
  <1>4. CASE cmds # <<>>
    <2>1. Answered => Answered'
      BY <1>1, <1>4 DEF Answered
    <2> QED
      BY <1>1, <1>2, <1>3, <1>4, <2>1 DEF Wired
  <1>5. CASE cmds = <<>>
    <2>1. wire = <<>> /\ NoAnswer'
      BY <1>2, <1>5 DEF Wired
    <2>2. wire' = <<Sent(Head(cmds'))>>
      BY <1>1, <1>5, <2>1
    <2> QED
      BY <1>1, <1>3, <2>1, <2>2 DEF Wired
  <1> QED
    BY <1>4, <1>5

\* A request is made when nothing is out
LEMMA RequestWired ==
  ASSUME QueueTyped, Quiet, NEW new \in Seq(Commands), new # <<>>, Chat(new), UNCHANGED line
  PROVE  Wired' /\ cmds' = new /\ wire' = <<Sent(Head(new))>>
  <1>1. cmds = <<>> /\ wire = <<>> /\ line = <<>>
    BY DEF Quiet
  <1>2. cmds' = new /\ wire' = Append(wire, Sent(Head(new)))
    BY <1>1, ChatEffect
  <1>3. wire' = <<Sent(Head(new))>>
    BY <1>1, <1>2
  <1>4. NoAnswer' /\ ~NoCarrierOut'
    BY <1>1 DEF NoAnswer, NoCarrierOut
  <1> QED
    BY <1>2, <1>3, <1>4 DEF Wired

\* Nothing is out and a line that is no answer is added
LEMMA QuietWired ==
  ASSUME Quiet, UNCHANGED <<cmds, wire>>, line' = line \/ line' = Append(line, NoCarrier)
  PROVE  Wired'
  <1>1. cmds' = <<>> /\ wire' = <<>> /\ line = <<>>
    BY DEF Quiet
  <1>2. NoAnswer'
    BY <1>1 DEF NoAnswer, NoCarrier
  <1>3. DOMAIN cmds' = {}
    BY <1>1
  <1> QED
    BY <1>1, <1>2, <1>3 DEF Wired

LEMMA ObeyWired ==
  ASSUME Typed, Wired, Obey, ~adrift'
  PROVE  /\ Wired' /\ cmds # <<>> /\ wire = <<Sent(Head(cmds))>> /\ wire' = <<>>
         /\ Possible(Sent(Head(cmds))) /\ far' = Obeyed(Sent(Head(cmds)))
  <1>1. /\ line \in Seq(Lines) /\ line' = Append(line, AnswerLine(TRUE, IF Head(wire).at = "CLCC" THEN far ELSE {}))
        /\ wire # <<>> /\ wire' = Tail(wire) /\ UNCHANGED cmds
        /\ Possible(Head(wire)) /\ far' = Obeyed(Head(wire)) /\ far \subseteq FarCalls
    <2>1. line \in Seq(Lines) /\ far \subseteq FarCalls
      BY TypedSplit DEF Outer
    <2> QED
      BY <2>1 DEF Obey
  <1>2. cmds # <<>> /\ wire = <<Sent(Head(cmds))>> /\ NoAnswer
    BY <1>1 DEF Wired
  <1>3. Head(wire) = Sent(Head(cmds)) /\ wire' = <<>> /\ Sent(Head(cmds)).at = Head(cmds).at
    BY <1>1, <1>2 DEF Sent
  <1> DEFINE list == IF Head(wire).at = "CLCC" THEN far ELSE {}
             a == AnswerLine(TRUE, list)
  <1>4. a \in Lines /\ a.kind = "answer" /\ a.ok /\ a.list = list
    BY <1>1 DEF AnswerLine, Lines
  <1>5. line' = Append(line, a)
    BY <1>1
  <1>6. Head(cmds).at = "CLCC" => list = far /\ far' = far
    BY <1>1, <1>3 DEF Obeyed
  <1> HIDE DEF a, list
  <1>7. /\ \A i \in DOMAIN line' : \/ i \in DOMAIN line /\ line'[i] = line[i]
                                   \/ i = Len(line) + 1 /\ line'[i] = a
        /\ Len(line) + 1 \in DOMAIN line' /\ line'[Len(line) + 1] = a
    BY <1>1, <1>4, <1>5, LineLonger
  <1>8. Answered'
    <2>1. Head(cmds') = Head(cmds)
      BY <1>1
    <2> DEFINE n == Len(line) + 1
    <2>2. n \in DOMAIN line' /\ line'[n] = a
      BY <1>7
    <2>3. \A j \in DOMAIN line' : line'[j].kind = "answer" => j = n
      BY <1>2, <1>7 DEF NoAnswer
    <2>4. line'[n].kind = "answer" /\ line'[n].ok
      BY <2>2, <1>4
    <2>5. Head(cmds').at = "CLCC" => line'[n].list = far'
      BY <2>1, <2>2, <1>4, <1>6
    <2> HIDE DEF n
    <2> QED
      BY <2>2, <2>3, <2>4, <2>5 DEF Answered
  <1>9. NoCarrierOut' => NoCarrierOut
    BY <1>4, <1>7 DEF NoCarrierOut
  <1> QED
    BY <1>1, <1>2, <1>3, <1>8, <1>9 DEF Wired

\* The answer that is read is the only one, and good
LEMMA AnswerRead ==
  ASSUME Typed, Wired, ReadAnswer
  PROVE  /\ cmds # <<>> /\ wire = <<>>
         /\ Head(line).ok /\ (Head(cmds).at = "CLCC" => Head(line).list = far)
         /\ Answer(Head(line).ok, Head(line).list)
         /\ NoAnswer' /\ (NoCarrierOut' => NoCarrierOut)
  <1>1. line \in Seq(Lines) /\ line # <<>> /\ Head(line).kind = "answer" /\ line' = Tail(line)
    BY TypedSplit DEF Outer, ReadAnswer, LineIs
  <1>2. /\ Head(line) = line[1] /\ 1 \in DOMAIN line
        /\ \A i \in DOMAIN line' : i \in Nat /\ i + 1 \in DOMAIN line /\ line'[i] = line[i + 1]
        /\ DOMAIN line = 1 .. Len(line) /\ Len(line) \in Nat
    BY <1>1, LineShorter
  <1>3. ~NoAnswer
    BY <1>1, <1>2 DEF NoAnswer
  <1>4. cmds # <<>> /\ wire = <<>> /\ Answered
    BY <1>3 DEF Wired
  <1>5. PICK i \in DOMAIN line :
          /\ line[i].kind = "answer" /\ line[i].ok
          /\ Head(cmds).at = "CLCC" => line[i].list = far
          /\ \A j \in DOMAIN line : line[j].kind = "answer" => j = i
    BY <1>4 DEF Answered
  <1>6. i = 1
    BY <1>1, <1>2, <1>5
  <1>7. NoAnswer'
    <2>1. ASSUME NEW j \in DOMAIN line', line'[j].kind = "answer" PROVE FALSE
      <3>1. j + 1 = 1 /\ j \in Nat /\ j + 1 \in DOMAIN line
        BY <2>1, <1>2, <1>5, <1>6
      <3>2. j = 0
        BY <3>1
      <3>3. j \in 1 .. Len(line')
        <4>1. line' \in Seq(Lines)
          BY <1>1
        <4> QED
          BY <4>1, <2>1
      <3> QED
        BY <3>2, <3>3
    <2> QED
      BY <2>1 DEF NoAnswer
  <1>8. NoCarrierOut' => NoCarrierOut
    BY <1>2 DEF NoCarrierOut
  <1>9. Answer(Head(line).ok, Head(line).list)
    BY <1>4 DEF ReadAnswer
  <1> QED
    BY <1>2, <1>4, <1>5, <1>6, <1>7, <1>8, <1>9

\* The next command goes out, if there is one
LEMMA DoneWired ==
  ASSUME QueueTyped, cmds # <<>>, wire = <<>>, NEW new \in Seq(Commands), Done(new),
         \A k \in DOMAIN new : new[k].at = "CLCC", NoAnswer', NoCarrierOut' => \A j \in DOMAIN cmds : cmds[j].at = "CLCC"
  PROVE  Wired' /\ (cmds' # <<>> => wire' # <<>>)
  <1>1. /\ cmds' \in Seq(Commands)
        /\ \A j \in DOMAIN cmds' :
              \/ j + 1 \in DOMAIN cmds /\ cmds'[j] = cmds[j + 1]
              \/ j + 1 \notin DOMAIN cmds /\ j + 1 - Len(cmds) \in DOMAIN new /\ cmds'[j] = new[j + 1 - Len(cmds)]
        /\ wire' = IF cmds' = <<>> THEN wire ELSE Append(wire, Sent(Head(cmds')))
    BY DoneEffect
  <1>2. \A k \in DOMAIN new : new[k].at = "CLCC"
    OBVIOUS
  <1>3. cmds' # <<>> => wire' = <<Sent(Head(cmds'))>>
    BY <1>1
  <1>4. NoCarrierOut' => \A j \in DOMAIN cmds' : cmds'[j].at = "CLCC"
    BY <1>1, <1>2
  <1> QED
    BY <1>1, <1>3, <1>4 DEF Wired

LEMMA ReadAnswerWired ==
  ASSUME Typed, Wired, ReadAnswer
  PROVE  Wired' /\ (cmds' # <<>> => wire' # <<>>)
  <1>0. ProviderTyped /\ Outer /\ QueueTyped /\ CallsTyped
    BY TypedSplit DEF ProviderTyped
  <1>1. /\ cmds # <<>> /\ wire = <<>>
        /\ Answer(Head(line).ok, Head(line).list)
        /\ NoAnswer' /\ (NoCarrierOut' => NoCarrierOut)
    BY AnswerRead
  <1>2. Head(line).ok \in BOOLEAN /\ Head(line).list \in SUBSET FarCalls
    BY <1>0, LineIsAre DEF ReadAnswer
  <1>3. NoCarrierOut' => \A j \in DOMAIN cmds : cmds[j].at = "CLCC"
    BY <1>1 DEF Wired
  <1>4. \/ Done(<<>>)
        \/ \E c \in Owner(Head(cmds)) : SlotCalled(c, Head(line).ok, Head(line).list)
    BY <1>0, <1>1, <1>2, AnswerEffect, Zenon
  <1>5. CASE Done(<<>>)
    <2>1. <<>> \in Seq(Commands) /\ \A k \in DOMAIN <<>> : <<>>[k].at = "CLCC"
      BY NoneIs
    <2> QED
      BY <1>0, <1>1, <1>3, <1>5, <2>1, DoneWired
  <1>6. CASE \E c \in Owner(Head(cmds)) : SlotCalled(c, Head(line).ok, Head(line).list)
    <2>1. PICK c \in Owner(Head(cmds)) : SlotCalled(c, Head(line).ok, Head(line).list)
      BY <1>6
    <2> DEFINE new == SlotCommands(Head(cmds).slot, c, Head(line).ok)
    <2>2. Done(new) /\ new \in Seq(Commands)
      BY <2>1 DEF SlotCalled
    <2>3. c \in Call
      BY <1>0, OwnerIs
    <2>4. new = <<>> \/ new = <<DialQuestion(c)>>
      BY <1>2, <2>3, SlotCommandsAre
    <2> HIDE DEF new
    <2>5. \A k \in DOMAIN new : new[k].at = "CLCC"
      BY <2>3, <2>4, DialQuestionIs, NoneIs
    <2> QED
      BY <1>0, <1>1, <1>3, <2>2, <2>5, DoneWired
  <1> QED
    BY <1>4, <1>5, <1>6

LEMMA ReadNoCarrierIs ==
  ASSUME Typed, Wired, ReadNoCarrier
  PROVE  /\ line # <<>> /\ Head(line).kind = "nocarrier" /\ line' = Tail(line) /\ UNCHANGED chat
         /\ \A j \in DOMAIN cmds : cmds[j].at = "CLCC"
         /\ \/ UNCHANGED <<calls, usedIds, ring, hangup>>
            \/ /\ ~hangup /\ Leave(ChangeGroup(calls, "Connected", "HangupRemote"), usedIds)
               /\ hangup' = TRUE /\ UNCHANGED ring
  <1>1. line \in Seq(Lines) /\ line # <<>> /\ Head(line).kind = "nocarrier" /\ line' = Tail(line)
        /\ cmds \in Seq(Commands)
    BY TypedSplit DEF Outer, ReadNoCarrier, LineIs, ProviderTyped, QueueTyped
  <1>2. NoCarrierOut
    BY <1>1, LineShorter DEF NoCarrierOut
  <1>3. \A j \in DOMAIN cmds : cmds[j].at = "CLCC"
    BY <1>2 DEF Wired
  <1>4. ~(cmds # <<>> /\ Head(cmds).at \notin {"CLCC", "CTFR"})
    BY <1>1, <1>3
  <1> QED
    BY <1>1, <1>3, <1>4 DEF ReadNoCarrier, chat

LEMMA NoOtherThing ==
  ASSUME Typed, [Next]_vars, InStep'
  PROVE  InStep
  <1>1. adrift \in BOOLEAN /\ overtaken \in BOOLEAN
    BY TypedSplit DEF Outer
  <1>2. overtaken => overtaken'
    <2>1. CASE UNCHANGED vars
      BY <2>1 DEF vars
    <2>2. CASE UserDials \/ UserHangsUp \/ UserSwitches
      BY <2>2, RequestForms DEF Asked
    <2>3. CASE World
      BY <2>3, Zenon DEF World, NewCaller, Ring, CallerGivesUp, FarAlerts, FarResolves, FarAnswers, DialFails,
         RemoteHangup, Network, counts
    <2>4. CASE Answering
      BY <2>4, <1>1 DEF Answering, Obey, Read
    <2>5. CASE Clock
      BY <2>5, <1>1 DEF Clock, DetectFires, MissedFires, HangupFires, DialChecks
    <2> QED
      BY <2>1, <2>2, <2>3, <2>4, <2>5 DEF Next
  <1>3. adrift => adrift'
    <2>1. CASE UNCHANGED vars
      BY <2>1 DEF vars
    <2>2. CASE UserDials \/ UserHangsUp \/ UserSwitches
      BY <2>2, RequestForms DEF Asked, InStep
    <2>3. CASE World
      <3>1. ASSUME NEW settled, Network(settled) PROVE adrift => adrift'
        BY <3>1, <1>1 DEF Network
      <3> QED
        BY <2>3, <3>1, <1>1 DEF World, NewCaller, Ring, CallerGivesUp, FarAlerts, FarResolves, FarAnswers,
           DialFails, RemoteHangup
    <2>4. CASE Answering
      BY <2>4, <1>1 DEF Answering, Obey, Read
    <2>5. CASE Clock
      BY <2>5, <1>1 DEF Clock, DetectFires, MissedFires, HangupFires, DialChecks
    <2> QED
      BY <2>1, <2>2, <2>3, <2>4, <2>5 DEF Next
  <1> QED
    BY <1>1, <1>2, <1>3 DEF InStep

\* While nothing has gone amiss the network acts when all is settled
LEMMA WorldSettled ==
  ASSUME Typed, World, ~adrift'
  PROVE  /\ UNCHANGED <<calls, usedIds, ring, hangup, chat>>
         /\ \/ /\ UNCHANGED far
               /\ \E x \in Lines : x.kind = "ring" /\ line' = Append(line, x)
            \/ /\ Settled
               /\ line' = line \/ line' = Append(line, NoCarrier)
               /\ \A f \in With("incoming")' : f \in With("incoming")
                    \/ (NewCaller /\ f = [id |-> FreeId, stat |-> "incoming"])
  <1>1. UNCHANGED <<calls, usedIds, ring, hangup, chat>>
    BY Zenon DEF World, NewCaller, Ring, CallerGivesUp, FarAlerts, FarResolves, FarAnswers, DialFails,
       RemoteHangup, Network, counts
  <1>2. ASSUME NEW settled, Network(settled) PROVE settled
    BY <1>2 DEF Network
  <1>3. CASE Ring
    <2>1. PICK known \in BOOLEAN : line' = Append(line, [kind |-> "ring", known |-> known])
      BY <1>3 DEF Ring
    <2>2. [kind |-> "ring", known |-> known] \in Lines /\ [kind |-> "ring", known |-> known].kind = "ring"
      BY DEF Lines
    <2> QED
      BY <1>1, <1>3, <2>1, <2>2 DEF Ring
  <1>4. CASE NewCaller
    BY <1>1, <1>2, <1>4 DEF NewCaller, With
  <1>5. CASE CallerGivesUp
    BY <1>1, <1>2, <1>5 DEF CallerGivesUp, With
  <1>6. ASSUME NEW F, NEW stat \in {"active", "alerting"}, far' = Moved(F, stat), F \subseteq far, far \subseteq FarCalls
        PROVE  \A f \in With("incoming")' : f \in With("incoming")
    <2>1. stat \in Stats /\ F \in SUBSET FarCalls /\ stat # "incoming"
      BY <1>6 DEF Stats
    <2>2. \A g \in Turn(F, stat) : g.stat = stat
      BY <2>1, TurnIs
    <2> QED
      BY <1>6, <2>1, <2>2 DEF With, Moved
  <1>7. far \subseteq FarCalls /\ \A stat : With(stat) \subseteq far
    BY TypedSplit, WithIs DEF Outer
  <1>8. CASE FarAlerts
    <2>1. far' = Moved(With("dialing"), "alerting")
      BY <1>8 DEF FarAlerts
    <2>2. \A f \in With("incoming")' : f \in With("incoming")
      BY <1>6, <1>7, <2>1
    <2> QED
      BY <1>1, <1>2, <1>8, <2>2 DEF FarAlerts
  <1>9. CASE FarAnswers
    <2>1. far' = Moved(With("dialing") \cup With("alerting"), "active")
      BY <1>9 DEF FarAnswers
    <2>2. \A f \in With("incoming")' : f \in With("incoming")
      BY <1>6, <1>7, <2>1
    <2> QED
      BY <1>1, <1>2, <1>9, <2>2 DEF FarAnswers
  <1>10. CASE DialFails
    BY <1>2, <1>10 DEF DialFails
  <1>11. CASE RemoteHangup
    <2>1. Settled /\ line' \in {line, Append(line, NoCarrier)} /\ far' \subseteq far
      BY <1>2, <1>11 DEF RemoteHangup
    <2> QED
      BY <1>1, <2>1 DEF With
  <1> QED
    BY <1>3, <1>4, <1>5, <1>8, <1>9, <1>10, <1>11 DEF World, FarResolves

LEMMA WiredNext ==
  ASSUME Typed, [Next]_vars, InStep, InStep', Wired
  PROVE  Wired'
  <1>0. ProviderTyped /\ Outer /\ QueueTyped /\ CallsTyped /\ line \in Seq(Lines)
    BY TypedSplit DEF ProviderTyped, Outer
  <1>1. ~adrift'
    BY DEF InStep
  <1>2. Asked => Quiet /\ UNCHANGED far
    BY <1>1 DEF Asked, Settled
  <1>3. ASSUME UNCHANGED <<cmds, wire, line, far>> PROVE Wired'
    BY <1>3 DEF Wired, NoAnswer, Answered, NoCarrierOut
  <1>4. CASE UNCHANGED vars
    BY <1>3, <1>4 DEF vars, provider, chat
  <1>5. CASE UserDials
    <2>1. Asked /\ Dial
      BY <1>5, RequestForms
    <2>2. CASE UNCHANGED provider
      BY <1>2, <1>3, <2>1, <2>2 DEF provider, chat
    <2>3. CASE ~(UNCHANGED provider)
      <3>1. DialCommand \in Commands /\ Chat(<<DialCommand>>) /\ UNCHANGED line
        BY <1>0, <2>1, <2>3, DialEffect
      <3>2. <<DialCommand>> \in Seq(Commands) /\ <<DialCommand>> # <<>>
        BY <3>1, OneIs
      <3> QED
        BY <1>0, <1>2, <2>1, <3>1, <3>2, RequestWired
    <2> QED
      BY <2>2, <2>3
  <1>6. ASSUME NEW c \in AnyCall, Asked, Hanging(c)
        PROVE  Wired'
    <2>1. PICK new, cs : PlainOnly(new) /\ new # <<>> /\ HangupWith(new, cs)
      BY <1>0, <1>6, HangingForm, Zenon
    <2>2. new \in Seq(Commands) /\ Chat(new) /\ UNCHANGED line
      BY <2>1 DEF PlainOnly, HangupWith
    <2> QED
      BY <1>0, <1>2, <1>6, <2>1, <2>2, RequestWired
  <1>7. ASSUME NEW c \in AnyCall, Asked, Accept(c) \/ Asking(c)
        PROVE  Wired'
    <2>1. PICK command : Question(command, c) /\ Chat(<<command>>) /\ UNCHANGED line
      <3>1. CASE Accept(c)
        BY <1>0, <3>1, AcceptEffect
      <3>2. CASE Asking(c)
        BY <1>0, <3>2, AskingForm, Zenon
      <3> QED
        BY <1>7, <3>1, <3>2
    <2>2. <<command>> \in Seq(Commands) /\ <<command>> # <<>>
      <3>1. command \in Commands
        BY <2>1 DEF Question
      <3> QED
        BY <3>1, OneIs
    <2> QED
      BY <1>0, <1>2, <1>7, <2>1, <2>2, RequestWired
  <1>8. CASE UserHangsUp
    BY <1>6, <1>8, RequestForms, Zenon
  <1>9. CASE UserSwitches
    BY <1>6, <1>7, <1>9, RequestForms, Zenon
  <1>10. CASE World
    <2>1. CASE UNCHANGED far /\ \E x \in Lines : x.kind = "ring" /\ line' = Append(line, x)
      <3>1. UNCHANGED <<cmds, wire>>
        BY <1>1, <1>10, WorldSettled DEF chat
      <3> QED
        BY <1>0, <2>1, <3>1, AnswersKept
    <2>2. CASE Settled /\ (line' = line \/ line' = Append(line, NoCarrier))
      <3>1. UNCHANGED <<cmds, wire>>
        BY <1>1, <1>10, WorldSettled DEF chat
      <3> QED
        BY <2>2, <3>1, QuietWired DEF Settled
    <2> QED
      BY <1>1, <1>10, <2>1, <2>2, WorldSettled
  <1>11. CASE Obey
    BY <1>1, <1>11, ObeyWired
  <1>12. CASE Read
    <2>1. UNCHANGED far
      BY <1>12 DEF Read
    <2>2. CASE ReadRing
      <3>1. line # <<>> /\ Head(line).kind = "ring" /\ line' = Tail(line) /\ UNCHANGED <<cmds, wire>>
        BY <2>2 DEF ReadRing, LineIs, chat
      <3> QED
        BY <1>0, <2>1, <3>1, AnswersKept
    <2>3. CASE ReadAnswer
      BY <2>3, ReadAnswerWired
    <2>4. CASE ReadNoCarrier
      <3>1. line # <<>> /\ Head(line).kind = "nocarrier" /\ line' = Tail(line) /\ UNCHANGED <<cmds, wire>>
        BY <2>4, ReadNoCarrierIs DEF chat
      <3> QED
        BY <1>0, <2>1, <3>1, AnswersKept
    <2> QED
      BY <1>12, <2>2, <2>3, <2>4 DEF Read
  <1>13. CASE DetectFires
    <2>1. UNCHANGED <<line, far>> /\ (UNCHANGED chat \/ Chat(<<ClccQuestion>>))
      BY <1>0, <1>13, DetectEffect DEF DetectFires
    <2> QED
      BY <1>0, <1>3, <2>1, ClccWired, ClccQuestionIs DEF chat
  <1>14. CASE MissedFires
    BY <1>0, <1>3, <1>14, MissedEffect DEF MissedFires, chat
  <1>15. CASE HangupFires
    BY <1>3, <1>15 DEF HangupFires, HangupTimeout, chat
  <1>16. CASE DialChecks
    <2>1. PICK c \in AnyCall : DialCheck(c)
      BY <1>16 DEF DialChecks
    <2>2. c \in Call /\ Chat(<<DialQuestion(c)>>) /\ UNCHANGED <<line, far>>
      BY <1>0, <1>16, <2>1, CallsAre, DialCheckEffect DEF DialChecks
    <2> QED
      BY <1>0, <2>2, ClccWired, DialQuestionIs
  <1> QED
    BY <1>4, <1>5, <1>8, <1>9, <1>10, <1>11, <1>12, <1>13, <1>14, <1>15, <1>16 DEF Next, Answering, Clock

-----------------------------------------------------------------------------
\* Who has the identifiers

IdsKept == \A x \in usedIds : x = incomingId \/ \E c \in AnyCall : c.id = x

Owned ==
  /\ \A c \in AnyCall : c.id # 0 => c.id \in usedIds
  /\ incomingId # 0 => incomingId \in usedIds
  /\ \A c, d \in AnyCall : c.id = d.id => c = d \/ c.id = 0
  /\ \A c \in AnyCall : c.id = incomingId => incomingId = 0

LEMMA SameIds ==
  ASSUME AnyCall' = AnyCall, UNCHANGED <<usedIds, incomingId>>
  PROVE  (IdsKept => IdsKept') /\ (Owned => Owned')
  BY DEF IdsKept, Owned

LEMMA LeaveIds ==
  ASSUME CallsTyped, NEW cs, Follows(cs), Leave(cs, usedIds), UNCHANGED incomingId
  PROVE  (IdsKept => IdsKept') /\ (Owned => Owned')
  <1>1. /\ \A d \in AnyCall' : \E i \in DOMAIN calls : d = cs[i] /\ cs[i].state \in States
        /\ \A i \in DOMAIN calls : cs[i].state \in States => cs[i] \in AnyCall'
        /\ usedIds' = usedIds \ Released(cs)
        /\ \A x \in Released(cs) : \E i \in DOMAIN calls : x = calls[i].id /\ cs[i].state \in Over
        /\ \A i \in DOMAIN calls : cs[i].state \in Over => calls[i].id \in Released(cs)
    BY LeaveEffect
  <1>2. \A i \in DOMAIN calls : /\ cs[i].id = calls[i].id /\ calls[i] \in AnyCall
                                /\ cs[i].state \in States \cup Over
    <2>1. \A i \in DOMAIN calls : cs[i] \in RawCalls /\ cs[i].state # "Swapping" /\ cs[i].id = calls[i].id
      BY ListedCall DEF Follows
    <2> QED
      BY <2>1 DEF RawCalls, RawStates, AnyCall
  <1>3. \A i, j \in DOMAIN calls : calls[i] = calls[j] => i = j
    BY DEF CallsTyped
  <1>4. States \cap Over = {}
    BY StatesDiffer
  <1>5. ASSUME IdsKept PROVE IdsKept'
    <2>1. SUFFICES ASSUME NEW x \in usedIds', x # incomingId PROVE \E c \in AnyCall' : c.id = x
      BY DEF IdsKept
    <2>2. PICK c \in AnyCall : c.id = x
      BY <2>1, <1>1, <1>5 DEF IdsKept
    <2>3. PICK i \in DOMAIN calls : c = calls[i]
      BY DEF AnyCall
    <2>4. cs[i].state \in States
      BY <2>1, <2>2, <2>3, <1>1, <1>2
    <2> QED
      BY <2>2, <2>3, <2>4, <1>1, <1>2
  <1>6. ASSUME Owned PROVE Owned'
    <2>1. ASSUME NEW d \in AnyCall', d.id # 0 PROVE d.id \in usedIds'
      <3>1. PICK i \in DOMAIN calls : d = cs[i] /\ cs[i].state \in States
        BY <1>1
      <3>2. d.id = calls[i].id /\ d.id \in usedIds
        BY <3>1, <2>1, <1>2, <1>6 DEF Owned
      <3>3. ASSUME d.id \in Released(cs) PROVE FALSE
        <4>1. PICK j \in DOMAIN calls : d.id = calls[j].id /\ cs[j].state \in Over
          BY <3>3, <1>1
        <4>2. calls[i] = calls[j]
          BY <4>1, <3>2, <2>1, <1>2, <1>6 DEF Owned
        <4> QED
          BY <4>1, <4>2, <3>1, <1>3, <1>4
      <3> QED
        BY <3>2, <3>3, <1>1
    <2>2. incomingId' # 0 => incomingId' \in usedIds'
      <3>1. SUFFICES ASSUME incomingId # 0 PROVE incomingId \in usedIds'
        OBVIOUS
      <3>2. incomingId \notin Released(cs)
        BY <3>1, <1>1, <1>2, <1>6 DEF Owned
      <3> QED
        BY <3>1, <3>2, <1>1, <1>6 DEF Owned
    <2>3. ASSUME NEW d \in AnyCall', NEW e \in AnyCall', d.id = e.id, d.id # 0 PROVE d = e
      <3>1. PICK i \in DOMAIN calls : d = cs[i] /\ cs[i].state \in States
        BY <1>1
      <3>2. PICK j \in DOMAIN calls : e = cs[j] /\ cs[j].state \in States
        BY <1>1
      <3>3. calls[i] = calls[j]
        BY <3>1, <3>2, <2>3, <1>2, <1>6 DEF Owned
      <3> QED
        BY <3>1, <3>2, <3>3, <1>3
    <2>4. ASSUME NEW d \in AnyCall', d.id = incomingId PROVE incomingId = 0
      <3>1. PICK i \in DOMAIN calls : d = cs[i] /\ cs[i].state \in States
        BY <1>1
      <3> QED
        BY <3>1, <2>4, <1>2, <1>6 DEF Owned
    <2> QED
      BY <2>1, <2>2, <2>3, <2>4 DEF Owned
  <1> QED
    BY <1>5, <1>6

\* No call goes and a new one has a new identifier, or none
LEMMA AddedIds ==
  ASSUME CallsTyped, NEW cs, Follows(cs), NEW Added,
         \A d \in AnyCall' : d \in Added \/ \E i \in DOMAIN calls : d = cs[i],
         \A i \in DOMAIN calls : cs[i] \in AnyCall',
         Added \subseteq AnyCall',
         \A d, e \in Added : d = e,
         \A d \in Added : d.id \notin usedIds /\ (d.id # 0 => d.id \in usedIds'),
         UNCHANGED incomingId, usedIds \subseteq usedIds',
         \A x \in usedIds' : x \in usedIds \/ \E d \in Added : x = d.id
  PROVE  (IdsKept => IdsKept') /\ (Owned => Owned')
  <1>1. \A i \in DOMAIN calls : cs[i].id = calls[i].id /\ calls[i] \in AnyCall
    BY DEF Follows, AnyCall
  <1>2. \A i, j \in DOMAIN calls : calls[i] = calls[j] => i = j
    BY DEF CallsTyped
  <1>3. ASSUME IdsKept PROVE IdsKept'
    <2>1. SUFFICES ASSUME NEW x \in usedIds', x # incomingId PROVE \E c \in AnyCall' : c.id = x
      BY DEF IdsKept
    <2>2. CASE x \in usedIds
      <3>1. PICK c \in AnyCall : c.id = x
        BY <2>1, <2>2, <1>3 DEF IdsKept
      <3>2. PICK i \in DOMAIN calls : c = calls[i]
        BY DEF AnyCall
      <3> QED
        BY <3>1, <3>2, <1>1
    <2>3. CASE \E d \in Added : x = d.id
      BY <2>3
    <2> QED
      BY <2>2, <2>3
  <1>4. ASSUME Owned PROVE Owned'
    <2>1. ASSUME NEW i \in DOMAIN calls, NEW d \in Added, cs[i].id = d.id PROVE d.id = 0
      BY <2>1, <1>1, <1>4 DEF Owned
    <2>2. \A d \in AnyCall' : d.id # 0 => d.id \in usedIds'
      BY <1>1, <1>4 DEF Owned
    <2>3. incomingId' # 0 => incomingId' \in usedIds'
      BY <1>4 DEF Owned
    <2>4. ASSUME NEW d \in AnyCall', NEW e \in AnyCall', d.id = e.id, d.id # 0 PROVE d = e
      <3>1. CASE d \in Added \/ e \in Added
        BY <2>1, <2>4, <3>1
      <3>2. CASE d \notin Added /\ e \notin Added
        <4>1. PICK i \in DOMAIN calls : d = cs[i]
          BY <3>2
        <4>2. PICK j \in DOMAIN calls : e = cs[j]
          BY <3>2
        <4>3. calls[i] = calls[j]
          BY <4>1, <4>2, <2>4, <1>1, <1>4 DEF Owned
        <4> QED
          BY <4>1, <4>2, <4>3, <1>2
      <3> QED
        BY <3>1, <3>2
    <2>5. ASSUME NEW d \in AnyCall', d.id = incomingId PROVE incomingId = 0
      <3>1. CASE d \in Added
        BY <3>1, <2>5, <1>4 DEF Owned
      <3>2. CASE d \notin Added
        <4>1. PICK i \in DOMAIN calls : d = cs[i]
          BY <3>2
        <4> QED
          BY <4>1, <2>5, <1>1, <1>4 DEF Owned
      <3> QED
        BY <3>1, <3>2
    <2> QED
      BY <2>2, <2>3, <2>4, <2>5 DEF Owned
  <1> QED
    BY <1>3, <1>4

\* The identifier kept for the incoming call goes to a call
LEMMA AnnouncedIds ==
  ASSUME incomingId \in Ids \cup {0}, AnyCall' = AnyCall \cup {AnnouncedCall(incomingId)}, incomingId' = 0,
         UNCHANGED usedIds
  PROVE  (IdsKept => IdsKept') /\ (Owned => Owned')
  <1>1. AnnouncedCall(incomingId).id = incomingId
    BY DEF AnnouncedCall
  <1> DEFINE new == AnnouncedCall(incomingId)
  <1>2. AnyCall' = AnyCall \cup {new} /\ new.id = incomingId
    BY <1>1
  <1> HIDE DEF new
  <1>3. IdsKept => IdsKept'
    BY <1>2 DEF IdsKept
  <1>4. ASSUME Owned PROVE Owned'
    <2>1. \A d \in AnyCall' : d.id # 0 => d.id \in usedIds'
      BY <1>2, <1>4 DEF Owned
    <2>2. \A c, d \in AnyCall' : c.id = d.id => c = d \/ c.id = 0
      BY <1>2, <1>4 DEF Owned
    <2> QED
      BY <2>1, <2>2 DEF Owned
  <1> QED
    BY <1>3, <1>4

LEMMA HangingIds ==
  ASSUME ProviderTyped, NEW c \in AnyCall, Hanging(c)
  PROVE  (IdsKept => IdsKept') /\ (Owned => Owned')
  <1>0. CallsTyped
    BY DEF ProviderTyped
  <1>1. PICK new, cs : Handled(cs) /\ HangupWith(new, cs)
    BY <1>0, HangingForm, Zenon
  <1>2. Leave(cs, usedIds) /\ UNCHANGED incomingId
    BY <1>1 DEF HangupWith
  <1>3. Follows(cs)
    BY <1>0, <1>1, HandledFollows
  <1> QED
    BY <1>0, <1>2, <1>3, LeaveIds

\* The calls are the same but for their states
LEMMA RestatedIds ==
  ASSUME CallsTyped, NEW cs, Follows(cs), \A d \in AnyCall' : \E i \in DOMAIN calls : d = cs[i],
         \A i \in DOMAIN calls : cs[i] \in AnyCall', UNCHANGED <<usedIds, incomingId>>
  PROVE  (IdsKept => IdsKept') /\ (Owned => Owned')
  <1> DEFINE Added == {}
  <1>1. /\ \A d \in AnyCall' : d \in Added \/ \E i \in DOMAIN calls : d = cs[i]
        /\ Added \subseteq AnyCall'
        /\ \A d, e \in Added : d = e
        /\ \A d \in Added : d.id \notin usedIds /\ (d.id # 0 => d.id \in usedIds')
        /\ usedIds \subseteq usedIds'
        /\ \A x \in usedIds' : x \in usedIds \/ \E d \in Added : x = d.id
    OBVIOUS
  <1> HIDE DEF Added
  <1> QED
    BY <1>1, AddedIds

LEMMA AcceptIds ==
  ASSUME ProviderTyped, NEW c \in AnyCall, Accept(c)
  PROVE  (IdsKept => IdsKept') /\ (Owned => Owned')
  <1>0. CallsTyped
    BY DEF ProviderTyped
  <1>1. /\ ProviderTyped' /\ c.state = "Incoming"
        /\ Restates(calls', calls)
        /\ \A i \in DOMAIN calls :
              calls'[i].state = IF calls[i].key = c.key THEN "Connected"
                                ELSE IF calls[i].state = "Connected" THEN "Hold" ELSE calls[i].state
        /\ \A d \in AnyCall' : \E i \in DOMAIN calls : d = calls'[i]
        /\ \A i \in DOMAIN calls : calls'[i] \in AnyCall'
        /\ UNCHANGED <<usedIds, incomingId, typeKnown, hangup, line>>
    BY AcceptEffect, Zenon
  <1> DEFINE cs == calls'
  <1>2. Follows(cs)
    <2>1. \A i \in DOMAIN calls : calls[i].state \in States
      BY <1>0, CallsAre DEF Call
    <2>2. \A i \in DOMAIN calls : calls[i].key = c.key => calls[i].state = "Incoming"
      BY <1>0, <1>1, CallsAre
    <2>3. \A i \in DOMAIN calls : calls[i].poll => calls[i].state = "Dialing"
      BY <1>0 DEF CallsTyped
    <2> QED
      BY <1>1, <2>1, <2>2, <2>3 DEF Follows, Restates, States
  <1> QED
    BY <1>0, <1>1, <1>2, RestatedIds

LEMMA DialCheckIds ==
  ASSUME ProviderTyped, NEW c \in AnyCall, DialCheck(c)
  PROVE  (IdsKept => IdsKept') /\ (Owned => Owned')
  <1>0. CallsTyped
    BY DEF ProviderTyped
  <1>1. /\ Follows(calls')
        /\ \A d \in AnyCall' : \E i \in DOMAIN calls : d = calls'[i]
        /\ \A i \in DOMAIN calls : calls'[i] \in AnyCall'
        /\ UNCHANGED <<usedIds, incomingId>>
    BY DialCheckEffect DEF ring
  <1> QED
    BY <1>0, <1>1, RestatedIds

LEMMA AskingIds ==
  ASSUME ProviderTyped, NEW c \in AnyCall, Asking(c)
  PROVE  (IdsKept => IdsKept') /\ (Owned => Owned')
  <1>1. UNCHANGED <<calls, usedIds, incomingId>>
    BY AskingForm, Zenon DEF ProviderTyped, ring
  <1>2. AnyCall' = AnyCall
    BY <1>1 DEF AnyCall
  <1> QED
    BY <1>1, <1>2, SameIds

LEMMA DialIds ==
  ASSUME ProviderTyped, Dial
  PROVE  (IdsKept => IdsKept') /\ (Owned => Owned')
  <1>0. CallsTyped /\ usedIds \in SUBSET Ids
    BY DEF ProviderTyped
  <1>1. CASE UNCHANGED provider
    <2>1. AnyCall' = AnyCall /\ UNCHANGED <<usedIds, incomingId>>
      BY <1>1 DEF provider, AnyCall, ring
    <2> QED
      BY <2>1, SameIds
  <1>2. CASE ~(UNCHANGED provider)
    <2> DEFINE cs == ChangeGroup(calls, "Connected", "Hold")
               Added == {Dialed}
    <2>1. /\ Dialed.id = NextId(usedIds)
          /\ \A d \in AnyCall' : d = Dialed \/ \E i \in DOMAIN calls : d = cs[i]
          /\ \A i \in DOMAIN calls : cs[i] \in AnyCall'
          /\ Dialed \in AnyCall'
          /\ usedIds' = usedIds \cup ({Dialed.id} \ {0})
          /\ UNCHANGED <<ring, hangup, line>>
      BY <1>2, DialEffect, Zenon
    <2>2. Follows(cs)
      BY <1>0, HeldFollows, Zenon
    <2>3. NextId(usedIds) \notin usedIds
      BY <1>0, NextIdFresh
    <2>4. /\ \A d \in AnyCall' : d \in Added \/ \E i \in DOMAIN calls : d = cs[i]
          /\ Added \subseteq AnyCall'
          /\ \A d, e \in Added : d = e
          /\ \A d \in Added : d.id \notin usedIds /\ (d.id # 0 => d.id \in usedIds')
          /\ usedIds \subseteq usedIds' /\ UNCHANGED incomingId
          /\ \A x \in usedIds' : x \in usedIds \/ \E d \in Added : x = d.id
      <3> HIDE DEF cs
      <3> QED
        BY <2>1, <2>3 DEF ring
    <2>5. \A i \in DOMAIN calls : cs[i] \in AnyCall'
      BY <2>1
    <2> HIDE DEF cs, Added
    <2> QED
      BY <1>0, <2>2, <2>4, <2>5, AddedIds
  <1> QED
    BY <1>1, <1>2

LEMMA RingIds ==
  ASSUME ProviderTyped, NEW known \in BOOLEAN, Ringing(known), UNCHANGED <<hangup, chat>>
  PROVE  (IdsKept => IdsKept') /\ (Owned => Owned')
  <1>0. usedIds \in SUBSET Ids /\ incomingId \in Ids \cup {0}
    BY DEF ProviderTyped
  <1>1. /\ AnyCall' = AnyCall
        /\ HasGroup(calls, "Incoming") => UNCHANGED <<usedIds, incomingId, detect>>
        /\ ~HasGroup(calls, "Incoming") =>
              /\ incomingId' = IF incomingId = 0 THEN NextId(usedIds) ELSE incomingId
              /\ usedIds' = usedIds \cup ({incomingId'} \ {0})
    BY RingingEffect
  <1>2. NextId(usedIds) \notin usedIds
    BY <1>0, NextIdFresh
  <1>3. CASE HasGroup(calls, "Incoming")
    BY <1>1, <1>3, SameIds
  <1>4. CASE ~HasGroup(calls, "Incoming")
    <2>1. CASE incomingId = 0
      <3> DEFINE new == NextId(usedIds)
      <3>1. AnyCall' = AnyCall /\ incomingId' = new /\ usedIds' = usedIds \cup ({new} \ {0}) /\ new \notin usedIds
        BY <1>1, <1>2, <1>4, <2>1
      <3> HIDE DEF new
      <3>2. ASSUME IdsKept PROVE IdsKept'
        <4>1. ASSUME NEW x \in usedIds', x # new PROVE \E c \in AnyCall : c.id = x
          <5>1. x \in usedIds /\ x # 0
            BY <1>0, <3>1, <4>1 DEF Ids
          <5> QED
            BY <5>1, <3>2, <2>1 DEF IdsKept
        <4> QED
          BY <3>1, <4>1 DEF IdsKept
      <3>3. ASSUME Owned PROVE Owned'
        <4>1. \A c \in AnyCall' : c.id # 0 => c.id \in usedIds'
          BY <3>1, <3>3 DEF Owned
        <4>2. \A c, d \in AnyCall' : c.id = d.id => c = d \/ c.id = 0
          BY <3>1, <3>3 DEF Owned
        <4>3. \A c \in AnyCall' : c.id = new => new = 0
          BY <3>1, <3>3 DEF Owned
        <4>4. new # 0 => new \in usedIds'
          BY <3>1
        <4> QED
          BY <3>1, <4>1, <4>2, <4>3, <4>4 DEF Owned
      <3> QED
        BY <3>2, <3>3
    <2>2. CASE incomingId # 0
      BY <1>1, <1>4, <2>2 DEF IdsKept, Owned
    <2> QED
      BY <2>1, <2>2
  <1> QED
    BY <1>3, <1>4

LEMMA DetectIds ==
  ASSUME ProviderTyped, DetectTimeout
  PROVE  (IdsKept => IdsKept') /\ (Owned => Owned')
  <1>0. incomingId \in Ids \cup {0}
    BY DEF ProviderTyped
  <1>1. /\ UNCHANGED usedIds
        /\ \/ AnyCall' = AnyCall \cup {AnnouncedCall(incomingId)} /\ incomingId' = 0
           \/ AnyCall' = AnyCall /\ UNCHANGED <<calls, incomingId>>
    BY DetectEffect
  <1> QED
    BY <1>0, <1>1, AnnouncedIds, SameIds

LEMMA EndingIds ==
  ASSUME ProviderTyped, NEW cs, Handled(cs), Leave(cs, usedIds), UNCHANGED incomingId
  PROVE  (IdsKept => IdsKept') /\ (Owned => Owned')
  <1>1. CallsTyped /\ Follows(cs)
    BY HandledFollows DEF ProviderTyped
  <1> QED
    BY <1>1, LeaveIds

-----------------------------------------------------------------------------
\* Answers and the identifiers

LEMMA ClccKeepsIds ==
  ASSUME ProviderTyped, NEW ok \in BOOLEAN, NEW list \in SUBSET FarCalls, ClccAnswered(ok, list), IdsKept
  PROVE  IdsKept'
  <1>0. incomingId \in Ids \cup {0}
    BY DEF ProviderTyped
  <1> DEFINE new == AnnouncedCall(incomingId)
  <1>1. new.id = incomingId /\ incomingId' = 0
    BY DEF AnnouncedCall, ClccAnswered
  <1>2. CASE \E f \in list : /\ f.stat = "incoming" /\ f.id \in Ids
                             /\ usedIds' = (usedIds \ {incomingId}) \cup {f.id}
                             /\ AnyCall' = AnyCall \cup {AnnouncedCall(f.id)}
    <2>1. PICK f \in list : /\ usedIds' = (usedIds \ {incomingId}) \cup {f.id}
                            /\ AnyCall' = AnyCall \cup {AnnouncedCall(f.id)}
      BY <1>2
    <2> DEFINE d == AnnouncedCall(f.id)
    <2>2. d.id = f.id /\ d \in AnyCall' /\ AnyCall \subseteq AnyCall'
      BY <2>1 DEF AnnouncedCall
    <2> HIDE DEF d
    <2> QED
      BY <2>1, <2>2 DEF IdsKept
  <1>3. CASE AnyCall' = AnyCall \cup {AnnouncedCall(incomingId)} /\ UNCHANGED usedIds
    BY <1>0, <1>1, <1>3, AnnouncedIds
  <1>4. CASE \E e \in AnyCall \cup {new} : /\ e.state = "Incoming"
                                           /\ AnyCall' = (AnyCall \cup {new}) \ {e}
                                           /\ usedIds' = usedIds \ {e.id}
    <2> HIDE DEF new
    <2> QED
      BY <1>1, <1>4 DEF IdsKept
  <1> QED
    BY <1>2, <1>3, <1>4 DEF ClccAnswered

LEMMA AnswerKeepsIds ==
  ASSUME ProviderTyped, cmds # <<>>, NEW ok \in BOOLEAN, NEW list \in SUBSET FarCalls, Answer(ok, list), IdsKept
  PROVE  IdsKept'
  <1>0. CallsTyped
    BY DEF ProviderTyped
  <1>1. \/ ClccAnswered(ok, list)
        \/ UNCHANGED <<calls, usedIds, ring>>
        \/ \E c \in Owner(Head(cmds)) : SlotCalled(c, ok, list)
    BY AnswerEffect, Zenon
  <1>2. CASE UNCHANGED <<calls, usedIds, ring>>
    BY <1>2, SameIds DEF AnyCall, ring
  <1>3. ASSUME NEW c \in Owner(Head(cmds)), SlotCalled(c, ok, list) PROVE IdsKept'
    <2> DEFINE cs == SlotResult(Head(cmds).slot, c, ok, list)
    <2>1. Leave(cs, usedIds) /\ Follows(cs) /\ UNCHANGED incomingId
      BY <1>3 DEF SlotCalled, Kept
    <2> HIDE DEF cs
    <2> QED
      BY <1>0, <2>1, LeaveIds
  <1> QED
    BY <1>1, <1>2, <1>3, ClccKeepsIds

-----------------------------------------------------------------------------
\* A call of the modem that comes in has not the identifier of another call

AcceptOut == wire # <<>> /\ cmds # <<>> /\ Head(cmds).slot = "acceptDone"
Apart == \A f \in With("incoming"), c \in AnyCall : c.id = f.id => c.state = "Incoming"
Foreign ==
  /\ Apart \/ AcceptOut
  /\ cmds # <<>> /\ Head(cmds).slot \in Swaps /\ wire = <<>> => With("incoming") = {}

NoneLost == \A d \in AnyCall' : d.state = "Incoming" \/ \E c \in AnyCall : c.id = d.id /\ c.state # "Incoming"

LEMMA ApartKept ==
  ASSUME Apart, With("incoming")' \subseteq With("incoming"), NoneLost
  PROVE  Apart'
  BY DEF Apart, NoneLost

LEMMA SameLost ==
  ASSUME AnyCall' = AnyCall
  PROVE  NoneLost
  BY DEF NoneLost

LEMMA LeaveLost ==
  ASSUME CallsTyped, NEW cs, Follows(cs), Leave(cs, usedIds),
         \A i \in DOMAIN calls : calls[i].state = "Incoming" => cs[i].state \in {"Incoming"} \cup Over
  PROVE  NoneLost
  <1>1. \A d \in AnyCall' : \E i \in DOMAIN calls : d = cs[i] /\ cs[i].state \in States
    BY LeaveEffect
  <1>2. \A i \in DOMAIN calls : cs[i].id = calls[i].id /\ calls[i] \in AnyCall
    BY DEF Follows, AnyCall
  <1>3. States \cap Over = {}
    BY StatesDiffer
  <1> QED
    BY <1>1, <1>2, <1>3 DEF NoneLost

LEMMA AnnouncedLost ==
  ASSUME NEW id, AnyCall' \subseteq AnyCall \cup {AnnouncedCall(id)}
  PROVE  NoneLost
  BY DEF NoneLost, AnnouncedCall

\* The answer to AT+CLCC and what the modem has agree while nothing has gone amiss
LEMMA AnswerOwned ==
  ASSUME ProviderTyped, far \subseteq FarCalls, Gathers, Apart, Owned, cmds # <<>>, Answer(TRUE, far)
  PROVE  Owned'
  <1>0. CallsTyped /\ incomingId \in Ids \cup {0} /\ QueueTyped
    BY DEF ProviderTyped
  <1>1. \/ Head(cmds).slot = "clccIncoming" /\ ClccAnswered(TRUE, far)
        \/ UNCHANGED <<calls, usedIds, ring>>
        \/ \E c \in Owner(Head(cmds)) : SlotCalled(c, TRUE, far)
    BY AnswerEffect
  <1>2. CASE UNCHANGED <<calls, usedIds, ring>>
    BY <1>2, SameIds DEF AnyCall, ring
  <1>3. ASSUME NEW c \in Owner(Head(cmds)), SlotCalled(c, TRUE, far) PROVE Owned'
    <2> DEFINE cs == SlotResult(Head(cmds).slot, c, TRUE, far)
    <2>1. Leave(cs, usedIds) /\ Follows(cs) /\ UNCHANGED incomingId
      BY <1>3 DEF SlotCalled, Kept
    <2> HIDE DEF cs
    <2> QED
      BY <1>0, <2>1, LeaveIds
  <1>4. CASE Head(cmds).slot = "clccIncoming" /\ ClccAnswered(TRUE, far)
    <2>1. ClccOut
      <3>1. Head(cmds) = cmds[1] /\ 1 \in DOMAIN cmds
        BY <1>0, TailIs DEF QueueTyped
      <3> QED
        BY <3>1, <1>4 DEF ClccOut
    <2>2. \A c \in AnyCall : c.state # "Incoming"
      BY <2>1, RingKeysAre DEF Gathers
    <2>3. incomingId' = 0
      BY <1>4 DEF ClccAnswered
    <2>4. \A c \in AnyCall : c.id # 0 => c.id \in usedIds /\ c.id # incomingId
      BY DEF Owned
    <2>5. CASE \E f \in far : /\ f.stat = "incoming" /\ f.id \in Ids
                              /\ usedIds' = (usedIds \ {incomingId}) \cup {f.id}
                              /\ AnyCall' = AnyCall \cup {AnnouncedCall(f.id)}
      <3>1. PICK f \in far : /\ f.stat = "incoming" /\ f.id \in Ids
                             /\ usedIds' = (usedIds \ {incomingId}) \cup {f.id}
                             /\ AnyCall' = AnyCall \cup {AnnouncedCall(f.id)}
        BY <2>5
      <3> DEFINE d == AnnouncedCall(f.id)
      <3>2. d.id = f.id /\ AnyCall' = AnyCall \cup {d}
        BY <3>1 DEF AnnouncedCall
      <3> HIDE DEF d
      <3>3. \A c \in AnyCall : c.id # f.id
        BY <3>1, <2>2 DEF Apart, With
      <3>4. \A c \in AnyCall' : c.id # 0 => c.id \in usedIds'
        BY <3>1, <3>2, <2>4
      <3>5. \A c, e \in AnyCall' : c.id = e.id => c = e \/ c.id = 0
        BY <3>2, <3>3 DEF Owned
      <3> QED
        BY <2>3, <3>4, <3>5 DEF Owned
    <2>6. CASE \E e \in AnyCall \cup {AnnouncedCall(incomingId)} :
                  /\ e.state = "Incoming"
                  /\ AnyCall' = (AnyCall \cup {AnnouncedCall(incomingId)}) \ {e}
                  /\ usedIds' = usedIds \ {e.id}
      <3>1. AnyCall' \subseteq AnyCall /\ usedIds' = usedIds \ {incomingId}
        <4> DEFINE d == AnnouncedCall(incomingId)
        <4>1. d.id = incomingId
          BY DEF AnnouncedCall
        <4>2. PICK e \in AnyCall \cup {d} : /\ e.state = "Incoming"
                                           /\ AnyCall' = (AnyCall \cup {d}) \ {e}
                                           /\ usedIds' = usedIds \ {e.id}
          BY <2>6
        <4> HIDE DEF d
        <4>3. e = d
          BY <4>2, <2>2
        <4> QED
          BY <4>1, <4>2, <4>3
      <3>2. \A c \in AnyCall' : c.id # 0 => c.id \in usedIds'
        BY <3>1, <2>4
      <3>3. \A c, e \in AnyCall' : c.id = e.id => c = e \/ c.id = 0
        BY <3>1 DEF Owned
      <3> QED
        BY <2>3, <3>2, <3>3 DEF Owned
    <2> QED
      BY <1>4, <2>5, <2>6 DEF ClccAnswered
  <1> QED
    BY <1>1, <1>2, <1>3, <1>4

LEMMA AnswerLost ==
  ASSUME ProviderTyped, cmds # <<>>, NEW list \in SUBSET FarCalls, Answer(TRUE, list), Head(cmds).slot \notin Swaps
  PROVE  NoneLost
  <1>0. CallsTyped
    BY DEF ProviderTyped
  <1>1. \/ ClccAnswered(TRUE, list)
        \/ UNCHANGED <<calls, usedIds, ring>>
        \/ \E c \in Owner(Head(cmds)) : SlotCalled(c, TRUE, list)
    BY AnswerEffect
  <1>2. CASE UNCHANGED <<calls, usedIds, ring>>
    BY <1>2, SameLost DEF AnyCall
  <1>3. ASSUME NEW c \in Owner(Head(cmds)), SlotCalled(c, TRUE, list) PROVE NoneLost
    <2> DEFINE cs == SlotResult(Head(cmds).slot, c, TRUE, list)
    <2>1. Leave(cs, usedIds) /\ Follows(cs) /\ IncomingKept(cs, Head(cmds).slot, TRUE)
      BY <1>3 DEF SlotCalled, Kept
    <2> HIDE DEF cs
    <2> QED
      BY <1>0, <2>1, LeaveLost DEF IncomingKept
  <1>4. CASE ClccAnswered(TRUE, list)
    <2>1. \E id : AnyCall' \subseteq AnyCall \cup {AnnouncedCall(id)}
      BY <1>4 DEF ClccAnswered
    <2> QED
      BY <2>1, AnnouncedLost
  <1> QED
    BY <1>1, <1>2, <1>3, <1>4

LEMMA ClccHead ==
  ASSUME QueueTyped, Wired, NEW command \in Commands, CmdOk(command), command.at = "CLCC", Chat(<<command>>)
  PROVE  /\ AcceptOut => AcceptOut'
         /\ cmds' # <<>> /\ Head(cmds').slot \in Swaps /\ wire' = <<>>
              => cmds # <<>> /\ Head(cmds).slot \in Swaps /\ wire = <<>>
  <1>1. /\ cmds # <<>> => cmds' # <<>> /\ wire' = wire /\ Head(cmds') = Head(cmds)
        /\ cmds = <<>> => Head(cmds') = command
    BY ChatOne
  <1>2. command.slot \notin Swaps
    BY DEF CmdOk
  <1> QED
    BY <1>1, <1>2 DEF AcceptOut

\* What comes in after a command came in before
LEMMA ObeyedIncoming ==
  ASSUME far \subseteq FarCalls, NEW command
  PROVE  /\ \A f \in Obeyed(command) : f.stat = "incoming" => f \in far
         /\ command.at \in {"ATA", "CHLD2"} => \A f \in Obeyed(command) : f.stat # "incoming"
  <1>1. \A F \in SUBSET FarCalls, stat \in Stats : \A g \in Turn(F, stat) : g.stat = stat
    BY TurnIs
  <1>2. \A stat \in Stats : With(stat) \in SUBSET FarCalls
    BY DEF With
  <1>3. Retrieved \in SUBSET FarCalls /\ Retrieved \cup With("incoming") \subseteq Retrieved
    BY <1>2 DEF Retrieved, Stats
  <1>4. \A stat \in Stats : \A f \in far : f \in With(stat) <=> f.stat = stat
    BY WithIs
  <1>5. {"active", "held", "incoming", "dialing", "alerting"} = Stats
    BY DEF Stats
  <1>6. \A stat \in {"active", "held"}, F \in SUBSET FarCalls : \A g \in Moved(F, stat) : g.stat = "incoming" => g \in far \ F
    BY <1>1, <1>5 DEF Moved
  <1>7. CASE command.at = "ATD"
    BY <1>2, <1>5, <1>6, <1>7 DEF Obeyed
  <1>8. CASE command.at = "ATA"
    BY <1>2, <1>4, <1>5, <1>6, <1>8 DEF Obeyed
  <1>9. CASE command.at = "CHLD1"
    BY <1>1, <1>3, <1>5, <1>9 DEF Obeyed
  <1>10. CASE command.at = "CHLD2"
    BY <1>1, <1>2, <1>3, <1>4, <1>5, <1>10 DEF Obeyed
  <1>11. CASE command.at = "CHLD2x"
    <2>1. ASSUME NEW f \in far, NEW s, NEW g, g = [f EXCEPT !.stat = s], g.stat = "incoming", s = "incoming" => s = f.stat
          PROVE  g \in far
      <3>1. f \in FarCalls /\ f.stat \in Stats /\ f = [id |-> f.id, stat |-> f.stat]
        BY DEF FarCalls
      <3>2. g = [id |-> f.id, stat |-> s]
        BY <3>1, <2>1
      <3>3. s = "incoming"
        BY <2>1, <3>2
      <3> QED
        BY <3>1, <3>2, <3>3, <2>1
    <2>2. ASSUME NEW g \in Obeyed(command), g.stat = "incoming" PROVE g \in far
      <3>1. PICK f \in far : g = [f EXCEPT !.stat = IF f.id = command.id THEN "active"
                                 ELSE IF f.stat = "active" THEN "held" ELSE f.stat]
        BY <1>11, <2>2 DEF Obeyed
      <3> DEFINE s == IF f.id = command.id THEN "active" ELSE IF f.stat = "active" THEN "held" ELSE f.stat
      <3>2. g = [f EXCEPT !.stat = s]
        BY <3>1
      <3>3. s = "incoming" => s = f.stat
        OBVIOUS
      <3> HIDE DEF s
      <3> QED
        BY <3>2, <3>3, <2>1, <2>2
    <2> QED
      BY <1>11, <2>2
  <1>12. CASE command.at = "CHLD3"
    BY <1>2, <1>5, <1>6, <1>12 DEF Obeyed
  <1>13. CASE command.at \notin {"ATD", "ATA", "CHLD1", "CHLD2", "CHLD2x", "CHLD3"}
    BY <1>13 DEF Obeyed
  <1> QED
    BY <1>7, <1>8, <1>9, <1>10, <1>11, <1>12, <1>13

LEMMA StepIds ==
  ASSUME Typed, [Next]_vars, ~ReadAnswer, ~ReadNoCarrier
  PROVE  (IdsKept => IdsKept') /\ (Owned => Owned')
  <1> DEFINE Both == (IdsKept => IdsKept') /\ (Owned => Owned')
  <1> SUFFICES Both
    OBVIOUS
  <1>0. ProviderTyped /\ Outer
    BY TypedSplit
  <1>1. ASSUME UNCHANGED <<calls, usedIds, ring>> PROVE Both
    <2>1. AnyCall' = AnyCall /\ UNCHANGED <<usedIds, incomingId>>
      BY <1>1 DEF AnyCall, ring
    <2> QED
      BY <2>1, SameIds
  <1>2. ASSUME NEW c \in AnyCall, Hanging(c) \/ Accept(c) \/ Asking(c) PROVE Both
    BY <1>0, <1>2, HangingIds, AcceptIds, AskingIds
  <1>3. Dial => Both
    BY <1>0, DialIds
  <1>4. DetectTimeout => Both
    BY <1>0, DetectIds
  <1>5. ASSUME MissedTimeout PROVE Both
    <2>1. Handled(Missed(calls)) /\ Leave(Missed(calls), usedIds) /\ UNCHANGED incomingId
      BY <1>0, <1>5, MissedEffect
    <2> DEFINE cs == Missed(calls)
    <2> HIDE DEF cs
    <2>2. Handled(cs) /\ Leave(cs, usedIds)
      BY <2>1 DEF cs
    <2> QED
      BY <1>0, <2>1, <2>2, EndingIds
  <1>6. ASSUME NEW c \in AnyCall, DialCheck(c) PROVE Both
    BY <1>0, <1>6, DialCheckIds
  <1>7. ASSUME ReadRing PROVE Both
    <2>1. Head(line).known \in BOOLEAN /\ Ringing(Head(line).known) /\ UNCHANGED <<hangup, chat>>
      BY <1>0, <1>7, LineIsAre DEF ReadRing
    <2> QED
      BY <1>0, <2>1, RingIds
  <1> HIDE DEF Both
  <1>8. CASE UNCHANGED vars
    BY <1>1, <1>8 DEF vars, provider
  <1>9. CASE UserDials \/ UserHangsUp \/ UserSwitches
    BY <1>2, <1>3, <1>9, RequestForms, Zenon
  <1>10. CASE World
    <2>1. UNCHANGED <<calls, usedIds, ring>>
      BY <1>10, Zenon DEF World, NewCaller, Ring, CallerGivesUp, FarAlerts, FarResolves, FarAnswers, DialFails,
         RemoteHangup, Network
    <2> QED
      BY <1>1, <2>1
  <1>11. CASE Obey
    BY <1>1, <1>11 DEF Obey
  <1>12. CASE Read
    BY <1>7, <1>12 DEF Read
  <1>13. CASE Clock
    <2>1. HangupFires => UNCHANGED <<calls, usedIds, ring>>
      BY DEF HangupFires, HangupTimeout
    <2> QED
      BY <1>1, <1>4, <1>5, <1>6, <1>13, <2>1 DEF Clock, DetectFires, MissedFires, DialChecks
  <1> QED
    BY <1>8, <1>9, <1>10, <1>11, <1>12, <1>13 DEF Next, Answering

LEMMA CarrierIds ==
  ASSUME Typed, ReadNoCarrier, ~(cmds # <<>> /\ Head(cmds).at \notin {"CLCC", "CTFR"})
  PROVE  (IdsKept => IdsKept') /\ (Owned => Owned')
  <1>0. ProviderTyped
    BY TypedSplit
  <1>1. CASE UNCHANGED <<calls, usedIds, ring, hangup, chat>>
    <2>1. AnyCall' = AnyCall /\ UNCHANGED <<usedIds, incomingId>>
      BY <1>1 DEF AnyCall, ring
    <2> QED
      BY <2>1, SameIds
  <1>2. CASE Leave(ChangeGroup(calls, "Connected", "HangupRemote"), usedIds) /\ UNCHANGED <<ring, chat>>
    <2> DEFINE cs == ChangeGroup(calls, "Connected", "HangupRemote")
    <2>1. Handled(cs) /\ Leave(cs, usedIds) /\ UNCHANGED incomingId
      BY <1>0, <1>2, CarrierLost DEF ring
    <2> HIDE DEF cs
    <2> QED
      BY <1>0, <2>1, EndingIds
  <1> QED
    BY <1>1, <1>2 DEF ReadNoCarrier

LEMMA IdsKeptNext ==
  ASSUME Typed, [Next]_vars, IdsKept
  PROVE  IdsKept'
  <1>0. ProviderTyped /\ Outer
    BY TypedSplit
  <1>1. CASE ReadAnswer
    <2>1. Head(line).ok \in BOOLEAN /\ Head(line).list \in SUBSET FarCalls
      BY <1>0, <1>1, LineIsAre DEF ReadAnswer
    <2>2. CASE cmds # <<>> /\ Answer(Head(line).ok, Head(line).list)
      BY <1>0, <2>1, <2>2, AnswerKeepsIds
    <2>3. CASE UNCHANGED <<calls, usedIds, ring, chat>>
      BY <2>3, SameIds DEF AnyCall, ring
    <2> QED
      BY <1>1, <2>2, <2>3 DEF ReadAnswer
  <1>2. CASE ReadNoCarrier
    <2>1. CASE cmds # <<>> /\ Head(cmds).at \notin {"CLCC", "CTFR"}
      <3>1. Answer(FALSE, {})
        BY <1>2, <2>1 DEF ReadNoCarrier
      <3>2. FALSE \in BOOLEAN /\ {} \in SUBSET FarCalls
        OBVIOUS
      <3> QED
        BY <1>0, <2>1, <3>1, <3>2, AnswerKeepsIds
    <2> QED
      BY <1>2, <2>1, CarrierIds
  <1> QED
    BY <1>1, <1>2, StepIds

LEMMA OwnedNext ==
  ASSUME Typed, [Next]_vars, InStep', Gathers, Wired, Foreign, Owned
  PROVE  Owned'
  <1>0. ProviderTyped /\ Outer /\ far \subseteq FarCalls
    BY TypedSplit DEF Outer
  <1>1. CASE ReadAnswer
    <2>1. cmds # <<>> /\ wire = <<>> /\ Head(line).ok /\ Answer(Head(line).ok, Head(line).list)
          /\ (Head(cmds).at = "CLCC" => Head(line).list = far)
      BY <1>1, AnswerRead
    <2>2. Head(line).ok \in BOOLEAN /\ Head(line).list \in SUBSET FarCalls
      BY <1>0, <1>1, LineIsAre DEF ReadAnswer
    <2>3. Answer(TRUE, Head(line).list)
      <3>1. Head(line).ok = TRUE
        BY <2>1, <2>2
      <3> QED
        BY <2>1, <3>1
    <2>4. Apart
      BY <2>1 DEF Foreign, AcceptOut
    <2>5. CASE Head(cmds).at = "CLCC"
      <3>1. Answer(TRUE, far)
        BY <2>1, <2>3, <2>5
      <3> QED
        BY <1>0, <2>1, <2>4, <3>1, AnswerOwned
    <2>6. CASE Head(cmds).at # "CLCC"
      <3>1. Head(cmds).slot # "clccIncoming"
        <4>1. Head(cmds) = cmds[1] /\ 1 \in DOMAIN cmds /\ CmdOk(cmds[1])
          BY <1>0, <2>1, TailIs DEF ProviderTyped, QueueTyped
        <4> QED
          BY <4>1, <2>6 DEF CmdOk
      <3> DEFINE list == Head(line).list
      <3>2. TRUE \in BOOLEAN /\ list \in SUBSET FarCalls /\ Answer(TRUE, list)
        BY <2>2, <2>3
      <3> HIDE DEF list
      <3>3. \/ UNCHANGED <<calls, usedIds, ring>>
            \/ \E c \in Owner(Head(cmds)) : SlotCalled(c, TRUE, list)
        BY <1>0, <2>1, <3>1, <3>2, AnswerEffect, Zenon
      <3>4. CASE UNCHANGED <<calls, usedIds, ring>>
        BY <3>4, SameIds DEF AnyCall, ring
      <3>5. ASSUME NEW c \in Owner(Head(cmds)), SlotCalled(c, TRUE, list) PROVE Owned'
        <4> DEFINE cs == SlotResult(Head(cmds).slot, c, TRUE, list)
        <4>1. Leave(cs, usedIds) /\ Follows(cs) /\ UNCHANGED incomingId
          BY <3>5 DEF SlotCalled, Kept
        <4>2. CallsTyped
          BY <1>0 DEF ProviderTyped
        <4> HIDE DEF cs
        <4> QED
          BY <4>1, <4>2, LeaveIds
      <3> QED
        BY <3>3, <3>4, <3>5
    <2> QED
      BY <2>5, <2>6
  <1>2. CASE ReadNoCarrier
    <2>1. ~(cmds # <<>> /\ Head(cmds).at \notin {"CLCC", "CTFR"})
      <3>1. \A j \in DOMAIN cmds : cmds[j].at = "CLCC"
        BY <1>2, ReadNoCarrierIs
      <3>2. cmds # <<>> => Head(cmds) = cmds[1] /\ 1 \in DOMAIN cmds
        BY <1>0, TailIs DEF ProviderTyped, QueueTyped
      <3> QED
        BY <3>1, <3>2
    <2> QED
      BY <1>2, <2>1, CarrierIds
  <1> QED
    BY <1>1, <1>2, StepIds

-----------------------------------------------------------------------------

\* Settled: the calls that do not come in have other identifiers
LEMMA SettledIds ==
  ASSUME Settled, Typed
  PROVE  /\ \A c \in AnyCall : c.state # "Incoming" => \E f \in far : f.id = c.id
         /\ \A f \in With("incoming") : \E c \in AnyCall : c.state = "Incoming" /\ c.id = f.id
  <1>1. ASSUME NEW c \in AnyCall, c.state # "Incoming" PROVE \E f \in far : f.id = c.id
    <2>1. PICK i \in DOMAIN calls : c = calls[i]
      BY DEF AnyCall
    <2>2. i \in CallsWith(FALSE)
      BY <1>1, <2>1 DEF CallsWith
    <2>3. [id |-> calls[i].id, stat |-> Stat(calls[i].state)] \in far
      BY <2>2 DEF Settled, Agree
    <2> DEFINE f == [id |-> calls[i].id, stat |-> Stat(calls[i].state)]
    <2>4. f.id = calls[i].id /\ f \in far
      BY <2>3
    <2> HIDE DEF f
    <2> QED
      BY <2>1, <2>4
  <1>2. ASSUME NEW f \in With("incoming") PROVE \E c \in AnyCall : c.state = "Incoming" /\ c.id = f.id
    <2>1. f.id \in IdsRinging
      BY <1>2 DEF Settled, AgreeOnRinging
    <2>2. PICK i \in CallsWith(TRUE) : f.id = calls[i].id
      BY <2>1 DEF IdsRinging
    <2>3. i \in DOMAIN calls /\ calls[i].state = "Incoming"
      BY <2>2 DEF CallsWith
    <2> QED
      BY <2>2, <2>3 DEF AnyCall
  <1> QED
    BY <1>1, <1>2

LEMMA RequestForeign ==
  ASSUME Typed, Asked, Settled, Foreign, Owned,
         Dial \/ \E c \in AnyCall : Hanging(c) \/ Accept(c) \/ Asking(c)
  PROVE  Foreign'
  <1>0. ProviderTyped /\ CallsTyped /\ QueueTyped
    BY TypedSplit DEF ProviderTyped
  <1>1. Quiet /\ cmds = <<>> /\ wire = <<>> /\ Apart /\ UNCHANGED far
    BY DEF Settled, Quiet, Foreign, AcceptOut, Asked
  <1>2. With("incoming")' = With("incoming")
    BY <1>1 DEF With
  <1>3. ASSUME NEW new \in Seq(Commands), new # <<>>, Chat(new)
        PROVE  wire' # <<>> /\ cmds' = new
    <2>1. wire' = Append(wire, Sent(Head(new))) /\ cmds' = new
      BY <1>0, <1>1, <1>3, ChatEffect
    <2> QED
      BY <1>1, <2>1
  <1>4. CASE Dial
    <2>1. CASE UNCHANGED provider
      BY <1>1, <1>2, <2>1 DEF provider, chat, Foreign, Apart, AnyCall
    <2>2. CASE ~(UNCHANGED provider)
      <3>1. wire' # <<>>
        <4>1. DialCommand \in Commands /\ Chat(<<DialCommand>>)
          BY <1>0, <1>4, <2>2, DialEffect
        <4>2. <<DialCommand>> \in Seq(Commands) /\ <<DialCommand>> # <<>>
          BY <4>1, OneIs
        <4> QED
          BY <1>3, <4>1, <4>2
      <3> DEFINE cs == ChangeGroup(calls, "Connected", "Hold")
      <3>2. /\ Dialed.id = NextId(usedIds)
            /\ \A d \in AnyCall' : d = Dialed \/ \E i \in DOMAIN calls : d = cs[i]
            /\ \A i \in DOMAIN calls :
                 cs[i].state = IF calls[i].state = "Connected" THEN "Hold" ELSE calls[i].state
        BY <1>0, <1>4, <2>2, DialEffect, Zenon
      <3>3. Follows(cs)
        BY <1>0, HeldFollows, Zenon
      <3>4. usedIds \in SUBSET Ids
        BY <1>0 DEF ProviderTyped
      <3> HIDE DEF cs
      <3>5. ASSUME NEW f \in With("incoming"), NEW d \in AnyCall', d.id = f.id PROVE d.state = "Incoming"
        <4>1. CASE d = Dialed
          <5>1. PICK c \in AnyCall : c.state = "Incoming" /\ c.id = f.id
            BY SettledIds
          <5>2. f.id # 0
            <6>1. f \in FarCalls
              BY TypedSplit DEF Outer, With
            <6>2. f.id \in Ids
              BY <6>1 DEF FarCalls
            <6> QED
              BY <6>2 DEF Ids
          <5>3. f.id \in usedIds
            BY <5>1, <5>2 DEF Owned
          <5> QED
            BY <3>2, <3>4, <3>5, <4>1, <5>3, NextIdFresh
        <4>2. CASE d # Dialed
          <5>1. PICK i \in DOMAIN calls : d = cs[i]
            BY <3>2, <4>2
          <5>2. calls[i] \in AnyCall /\ calls[i].id = f.id
            BY <5>1, <3>3, <3>5 DEF Follows, AnyCall
          <5>3. calls[i].state = "Incoming"
            BY <1>1, <5>2 DEF Apart
          <5> QED
            BY <3>2, <5>1, <5>3
        <4> QED
          BY <4>1, <4>2
      <3> QED
        BY <1>2, <3>1, <3>5 DEF Foreign, Apart
    <2> QED
      BY <2>1, <2>2
  <1>5. ASSUME NEW c \in AnyCall, Hanging(c)
        PROVE  Foreign'
    <2>1. PICK new, cs : PlainOnly(new) /\ new # <<>> /\ Handled(cs) /\ NoneTaken(cs) /\ HangupWith(new, cs)
      BY <1>0, <1>5, HangingForm, Zenon
    <2>2. new \in Seq(Commands) /\ Chat(new) /\ Leave(cs, usedIds)
      BY <2>1 DEF PlainOnly, HangupWith
    <2>3. wire' # <<>>
      BY <1>3, <2>1, <2>2
    <2>4. NoneLost
      BY <1>0, <2>1, <2>2, HandledFollows, LeaveLost DEF NoneTaken
    <2>5. Apart'
      BY <1>1, <1>2, <2>4, ApartKept
    <2> QED
      BY <2>3, <2>5 DEF Foreign
  <1>6. ASSUME NEW c \in AnyCall, NEW command \in Commands, Chat(<<command>>)
        PROVE  wire' # <<>> /\ cmds' # <<>> /\ Head(cmds') = command
    <2>1. <<command>> \in Seq(Commands) /\ <<command>> # <<>> /\ Head(<<command>>) = command
      BY <1>6, OneIs
    <2> QED
      BY <1>3, <1>6, <2>1
  <1>7. ASSUME NEW c \in AnyCall, Accept(c)
        PROVE  Foreign'
    <2>1. PICK command : Question(command, c) /\ command.slot = "acceptDone" /\ Chat(<<command>>)
      BY <1>0, <1>7, AcceptEffect
    <2>2. wire' # <<>> /\ cmds' # <<>> /\ Head(cmds') = command
      BY <1>6, <2>1 DEF Question
    <2> QED
      BY <2>1, <2>2 DEF Foreign, AcceptOut
  <1>8. ASSUME NEW c \in AnyCall, Asking(c)
        PROVE  Foreign'
    <2>1. PICK command : Question(command, c) /\ Chat(<<command>>) /\ UNCHANGED calls
      BY <1>0, <1>8, AskingForm, Zenon
    <2>2. wire' # <<>>
      BY <1>6, <2>1 DEF Question
    <2>3. AnyCall' = AnyCall
      BY <2>1 DEF AnyCall
    <2> QED
      BY <1>1, <1>2, <2>2, <2>3 DEF Foreign, Apart
  <1> QED
    BY <1>4, <1>5, <1>7, <1>8

LEMMA WorldForeign ==
  ASSUME Typed, World, ~adrift', Foreign
  PROVE  Foreign'
  <1>0. far \subseteq FarCalls
    BY TypedSplit DEF Outer
  <1>1. AnyCall' = AnyCall /\ UNCHANGED <<cmds, wire>>
    BY WorldSettled DEF AnyCall, chat
  <1>2. CASE UNCHANGED far
    BY <1>1, <1>2 DEF Foreign, Apart, AcceptOut, With
  <1>3. CASE /\ Settled
             /\ \A f \in With("incoming")' : f \in With("incoming")
                    \/ (NewCaller /\ f = [id |-> FreeId, stat |-> "incoming"])
    <2>1. cmds = <<>> /\ wire = <<>> /\ Apart
      BY <1>3 DEF Settled, Quiet, Foreign, AcceptOut
    <2>2. ASSUME NEW f \in With("incoming")', NEW c \in AnyCall, c.id = f.id PROVE c.state = "Incoming"
      <3>1. CASE f \in With("incoming")
        BY <2>1, <2>2, <3>1 DEF Apart
      <3>2. CASE NewCaller /\ f = [id |-> FreeId, stat |-> "incoming"]
        <4>1. f.id = FreeId /\ \A g \in far : g.id # FreeId
          BY <1>0, <3>2, FreeIdFresh DEF NewCaller
        <4> QED
          BY <1>3, <2>2, <4>1, SettledIds
      <3> QED
        BY <1>3, <3>1, <3>2
    <2> QED
      BY <1>1, <2>1, <2>2 DEF Foreign, Apart
  <1> QED
    BY <1>2, <1>3, WorldSettled

LEMMA ObeyForeign ==
  ASSUME Typed, Obey, ~adrift', Wired, Foreign
  PROVE  Foreign'
  <1>0. far \subseteq FarCalls /\ QueueTyped
    BY TypedSplit DEF Outer, ProviderTyped
  <1>1. /\ cmds # <<>> /\ wire # <<>>
        /\ far' = Obeyed(Sent(Head(cmds)))
        /\ AnyCall' = AnyCall /\ UNCHANGED cmds
    BY ObeyWired DEF Obey, AnyCall
  <1>2. CmdOk(Head(cmds)) /\ Sent(Head(cmds)).at = Head(cmds).at
    <2>1. Head(cmds) = cmds[1] /\ 1 \in DOMAIN cmds
      BY <1>0, <1>1, TailIs DEF QueueTyped
    <2> QED
      BY <1>0, <2>1 DEF QueueTyped, Sent
  <1> DEFINE at == Head(cmds).at
  <1>3. /\ \A f \in far' : f.stat = "incoming" => f \in far
        /\ at \in {"ATA", "CHLD2"} => \A f \in far' : f.stat # "incoming"
    BY <1>0, <1>1, <1>2, ObeyedIncoming
  <1>4. With("incoming")' \subseteq With("incoming") /\ (at \in {"ATA", "CHLD2"} => With("incoming")' = {})
    BY <1>3 DEF With
  <1> HIDE DEF at
  <1>5. Head(cmds).slot \in Swaps \cup {"acceptDone"} => With("incoming")' = {}
    BY <1>2, <1>4 DEF CmdOk, at
  <1>6. Apart => Apart'
    BY <1>1, <1>4, SameLost, ApartKept
  <1>7. ~Apart => With("incoming")' = {}
    BY <1>5 DEF Foreign, AcceptOut
  <1>8. With("incoming")' = {} => Apart'
    BY DEF Apart
  <1> QED
    BY <1>1, <1>5, <1>6, <1>7, <1>8 DEF Foreign

LEMMA ReadForeign ==
  ASSUME Typed, Read, Wired, Foreign
  PROVE  Foreign'
  <1>0. ProviderTyped /\ Outer /\ CallsTyped
    BY TypedSplit DEF ProviderTyped
  <1>1. With("incoming")' = With("incoming")
    BY DEF Read, With
  <1>2. CASE ReadRing
    <2>1. Head(line).known \in BOOLEAN /\ Ringing(Head(line).known) /\ UNCHANGED <<hangup, chat>>
      BY <1>0, <1>2, LineIsAre DEF ReadRing
    <2>2. AnyCall' = AnyCall /\ UNCHANGED <<cmds, wire>>
      BY <1>0, <2>1, RingingEffect DEF chat
    <2> QED
      BY <1>1, <2>2 DEF Foreign, Apart, AcceptOut
  <1>3. CASE ReadAnswer
    <2>1. cmds # <<>> /\ wire = <<>> /\ Head(line).ok /\ Answer(Head(line).ok, Head(line).list)
      BY <1>3, AnswerRead
    <2>2. Head(line).ok \in BOOLEAN /\ Head(line).list \in SUBSET FarCalls
      BY <1>0, <1>3, LineIsAre DEF ReadAnswer
    <2>3. Answer(TRUE, Head(line).list)
      <3>1. Head(line).ok = TRUE
        BY <2>1, <2>2
      <3> QED
        BY <2>1, <3>1
    <2>4. cmds' # <<>> => wire' # <<>>
      BY <1>3, ReadAnswerWired
    <2>5. Apart
      BY <2>1 DEF Foreign, AcceptOut
    <2>6. CASE Head(cmds).slot \in Swaps
      <3>1. With("incoming")' = {}
        BY <1>1, <2>1, <2>6 DEF Foreign
      <3> QED
        BY <3>1 DEF Foreign, Apart
    <2>7. CASE Head(cmds).slot \notin Swaps
      <3>1. NoneLost
        BY <1>0, <2>1, <2>2, <2>3, <2>7, AnswerLost
      <3>2. Apart'
        BY <1>1, <2>5, <3>1, ApartKept
      <3> QED
        BY <2>4, <3>2 DEF Foreign
    <2> QED
      BY <2>6, <2>7
  <1>4. CASE ReadNoCarrier
    <2>1. UNCHANGED <<cmds, wire>>
      BY <1>4, ReadNoCarrierIs DEF chat
    <2>2. CASE UNCHANGED calls
      BY <1>1, <2>1, <2>2 DEF Foreign, Apart, AnyCall, AcceptOut
    <2>3. CASE Leave(ChangeGroup(calls, "Connected", "HangupRemote"), usedIds)
      <3> DEFINE cs == ChangeGroup(calls, "Connected", "HangupRemote")
      <3>1. Handled(cs) /\ NoneTaken(cs) /\ Leave(cs, usedIds)
        <4>1. UNCHANGED chat
          BY <2>1 DEF chat
        <4> QED
          BY <1>0, <2>3, <4>1, CarrierLost
      <3> HIDE DEF cs
      <3>2. NoneLost
        BY <1>0, <3>1, HandledFollows, LeaveLost DEF NoneTaken
      <3>3. Apart => Apart'
        BY <1>1, <3>2, ApartKept
      <3> QED
        BY <1>1, <2>1, <3>3 DEF Foreign, AcceptOut
    <2> QED
      BY <1>4, <2>2, <2>3, ReadNoCarrierIs
  <1> QED
    BY <1>2, <1>3, <1>4 DEF Read

LEMMA ClockForeign ==
  ASSUME Typed, Clock, Wired, Foreign
  PROVE  Foreign'
  <1>0. ProviderTyped /\ CallsTyped /\ QueueTyped
    BY TypedSplit DEF ProviderTyped
  <1>1. With("incoming")' = With("incoming")
    BY DEF Clock, DetectFires, MissedFires, HangupFires, DialChecks, With
  <1>2. ASSUME NoneLost, UNCHANGED chat PROVE Foreign'
    <2>1. Apart => Apart'
      BY <1>1, <1>2, ApartKept
    <2> QED
      BY <1>1, <1>2, <2>1 DEF Foreign, AcceptOut, chat
  <1>3. ASSUME NoneLost, NEW command \in Commands, CmdOk(command), command.at = "CLCC", Chat(<<command>>)
        PROVE  Foreign'
    <2>1. Apart => Apart'
      BY <1>1, <1>3, ApartKept
    <2>2. /\ AcceptOut => AcceptOut'
          /\ cmds' # <<>> /\ Head(cmds').slot \in Swaps /\ wire' = <<>>
              => cmds # <<>> /\ Head(cmds).slot \in Swaps /\ wire = <<>>
      BY <1>0, <1>3, ClccHead
    <2> QED
      BY <1>1, <2>1, <2>2 DEF Foreign
  <1>4. CASE DetectFires
    <2>1. DetectTimeout
      BY <1>4 DEF DetectFires
    <2>2. CASE AnyCall' = AnyCall \cup {AnnouncedCall(incomingId)} /\ UNCHANGED chat
      BY <1>2, <2>2, AnnouncedLost
    <2>3. CASE Chat(<<ClccQuestion>>) /\ AnyCall' = AnyCall
      BY <1>3, <2>3, SameLost, ClccQuestionIs
    <2> QED
      BY <1>0, <2>1, <2>2, <2>3, DetectEffect
  <1>5. CASE MissedFires
    <2>1. MissedTimeout
      BY <1>5 DEF MissedFires
    <2> DEFINE cs == Missed(calls)
    <2>2. Handled(cs) /\ NoneTaken(cs) /\ Leave(cs, usedIds) /\ UNCHANGED chat
      BY <1>0, <2>1, MissedEffect
    <2> HIDE DEF cs
    <2>3. NoneLost
      BY <1>0, <2>2, HandledFollows, LeaveLost DEF NoneTaken
    <2> QED
      BY <1>2, <2>2, <2>3
  <1>6. CASE HangupFires
    <2>1. UNCHANGED <<calls, chat>>
      BY <1>6 DEF HangupFires, HangupTimeout
    <2> QED
      BY <1>2, <2>1, SameLost DEF AnyCall
  <1>7. CASE DialChecks
    <2>1. PICK c \in AnyCall : DialCheck(c)
      BY <1>7 DEF DialChecks
    <2>2. /\ Follows(calls')
          /\ \A i \in DOMAIN calls : calls'[i].state = calls[i].state
          /\ \A d \in AnyCall' : \E i \in DOMAIN calls : d = calls'[i]
          /\ Chat(<<DialQuestion(c)>>)
      BY <1>0, <2>1, DialCheckEffect
    <2>3. NoneLost
      BY <2>2 DEF NoneLost, Follows, AnyCall
    <2>4. c \in Call
      BY <1>0, CallsAre
    <2> QED
      BY <1>3, <2>2, <2>3, <2>4, DialQuestionIs
  <1> QED
    BY <1>4, <1>5, <1>6, <1>7 DEF Clock

LEMMA ForeignNext ==
  ASSUME Typed, [Next]_vars, InStep', Wired, Foreign, Owned
  PROVE  Foreign'
  <1>1. ~adrift'
    BY DEF InStep
  <1>2. CASE UNCHANGED vars
    BY <1>2 DEF vars, provider, chat, Foreign, Apart, AcceptOut, With, AnyCall
  <1>3. CASE UserDials \/ UserHangsUp \/ UserSwitches
    <2>1. Asked /\ (Dial \/ \E c \in AnyCall : Hanging(c) \/ Accept(c) \/ Asking(c))
      BY <1>3, RequestForms, Zenon
    <2>2. Settled
      BY <1>1, <2>1 DEF Asked
    <2> QED
      BY <2>1, <2>2, RequestForeign
  <1> QED
    BY <1>1, <1>2, <1>3, WorldForeign, ObeyForeign, ReadForeign, ClockForeign DEF Next, Answering

-----------------------------------------------------------------------------

IdsInv == IdsKept /\ (InStep => Wired /\ Foreign /\ Owned)

LEMMA IdsInit == Init => IdsInv
  <1> SUFFICES ASSUME Init PROVE IdsInv
    OBVIOUS
  <1>1. AnyCall = {} /\ usedIds = {} /\ incomingId = 0
    BY DEF Init, ProviderInit, AnyCall
  <1>2. IdsKept /\ Owned
    BY <1>1 DEF IdsKept, Owned
  <1>3. Wired /\ Foreign
    BY <1>1 DEF Init, ProviderInit, Wired, NoAnswer, NoCarrierOut, Foreign, Apart
  <1> QED
    BY <1>2, <1>3 DEF IdsInv

LEMMA IdsNext == Typed /\ GatherInv /\ IdsInv /\ [Next]_vars => IdsInv'
  <1> SUFFICES ASSUME Typed, GatherInv, IdsInv, [Next]_vars PROVE IdsInv'
    OBVIOUS
  <1>1. IdsKept'
    BY IdsKeptNext DEF IdsInv
  <1>2. ASSUME InStep' PROVE Wired' /\ Foreign' /\ Owned'
    <2>1. InStep
      BY <1>2, NoOtherThing
    <2>2. Wired /\ Foreign /\ Owned /\ Gathers
      BY <2>1 DEF IdsInv, GatherInv, InStep
    <2> QED
      BY <1>2, <2>1, <2>2, WiredNext, ForeignNext, OwnedNext
  <1> QED
    BY <1>1, <1>2 DEF IdsInv

LEMMA AccountedFollows == Typed /\ IdsInv => IdsAccounted
  <1> SUFFICES ASSUME Typed, IdsInv PROVE IdsAccounted
    OBVIOUS
  <1>1. TypeOK /\ CallsTyped
    BY TypedSplit DEF Typed, ProviderTyped
  <1> DEFINE owned == {calls[i].id : i \in DOMAIN calls} \cup {incomingId}
  <1>2. usedIds \subseteq Ids
    BY TypedSplit DEF ProviderTyped
  <1>3. 0 \notin usedIds
    BY <1>2 DEF Ids
  <1>4. usedIds \subseteq owned
    BY DEF IdsInv, IdsKept, AnyCall
  <1>5. ASSUME InStep
        PROVE  /\ owned \ {0} = usedIds
               /\ \A i, j \in DOMAIN calls : calls[i].id = calls[j].id => i = j \/ calls[i].id = 0
               /\ \A i \in DOMAIN calls : calls[i].id = incomingId => incomingId = 0
    <2>1. Owned
      BY <1>5 DEF IdsInv
    <2>2. \A x \in owned \ {0} : x \in usedIds
      BY <2>1 DEF Owned, AnyCall
    <2>3. \A i, j \in DOMAIN calls : calls[i].id = calls[j].id => i = j \/ calls[i].id = 0
      BY <1>1, <2>1 DEF Owned, AnyCall, CallsTyped
    <2>4. \A i \in DOMAIN calls : calls[i].id = incomingId => incomingId = 0
      BY <2>1 DEF Owned, AnyCall
    <2>5. owned \ {0} = usedIds
      BY <1>3, <1>4, <2>2
    <2> QED
      BY <2>3, <2>4, <2>5
  <1> QED
    BY <1>1, <1>4, <1>5, Zenon DEF IdsAccounted

\* No modem identifier leaks, and until the modem and the provider drift apart every
\* call has one of its own (nextModemIdentifier(), releaseModemIdentifier())
THEOREM IdentifiersAccounted == Spec => []IdsAccounted
  <1>1. Init => Typed /\ GatherInv /\ IdsInv
    BY TypedInit, GatherInit, IdsInit
  <1>2. Typed /\ GatherInv /\ IdsInv /\ [Next]_vars => (Typed /\ GatherInv /\ IdsInv)'
    BY TypedNext, GatherNext, IdsNext
  <1>3. Typed /\ IdsInv => IdsAccounted
    BY AccountedFollows
  <1> QED
    BY <1>1, <1>2, <1>3, PTL DEF Spec

=============================================================================
