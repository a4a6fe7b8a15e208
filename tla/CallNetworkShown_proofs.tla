---------------------- MODULE CallNetworkShown_proofs ----------------------
(***************************************************************************)
(* The calls that are shown are the modem's, for every number of requests, *)
(* callers and refused commands.  What the calls become when all that is   *)
(* under way has been dealt with is compared with what the modem's will    *)
(* be: first what a command makes of both, then every kind of step.        *)
(***************************************************************************)
EXTENDS CallNetwork_proofs

-----------------------------------------------------------------------------
\* The calls of the modem

FarCall(id, stat) == [id |-> id, stat |-> stat]

\* No two calls have one identifier, and one at most comes in
FarInv ==
  /\ \A f, g \in far : f.id = g.id => f = g
  /\ \A f, g \in far : f.stat = "incoming" /\ g.stat = "incoming" => f = g

\* What comes of a call of the modem when a command is obeyed
Taken == IF With("incoming") # {} THEN "incoming" ELSE "held"
Outcome(command, f) ==
  CASE command.at = "ATA" -> IF f.stat = "incoming" THEN "active" ELSE f.stat
    [] command.at = "CHLD0" -> IF f.stat = Taken THEN "gone" ELSE f.stat
    [] command.at = "CHLD1" -> IF f.stat \in {"active", "dialing", "alerting"} THEN "gone"
                               ELSE IF f.stat = Taken THEN "active" ELSE f.stat
    [] command.at = "CHLD1x" -> IF f.id = command.id THEN "gone" ELSE f.stat
    [] command.at = "CHLD2" -> IF f.stat = "active" THEN "held"
                               ELSE IF f.stat = Taken THEN "active" ELSE f.stat
    [] command.at = "CHLD2x" -> IF f.id = command.id THEN "active"
                                ELSE IF f.stat = "active" THEN "held" ELSE f.stat
    [] command.at = "CHLD3" -> IF f.stat = "held" THEN "active" ELSE f.stat
    [] command.at = "CHLD4" -> IF f.stat \in {"active", "held"} THEN "gone" ELSE f.stat
    [] command.at = "CTFR" -> IF f.stat = "incoming" THEN "gone" ELSE f.stat
    [] OTHER -> f.stat

LEMMA FarCallIs ==
  /\ \A id, stat : FarCall(id, stat).id = id /\ FarCall(id, stat).stat = stat
  /\ \A f \in FarCalls : f = FarCall(f.id, f.stat) /\ f.id \in Ids /\ f.stat \in Stats
  /\ \A f \in FarCalls : \A stat : [f EXCEPT !.stat = stat] = FarCall(f.id, stat)
  BY DEF FarCall, FarCalls

LEMMA TurnAs ==
  ASSUME NEW F \in SUBSET FarCalls, NEW stat
  PROVE  \A g : g \in Turn(F, stat) <=> \E f \in F : g = FarCall(f.id, stat)
  <1>1. \A f \in F : [f EXCEPT !.stat = stat] = FarCall(f.id, stat)
    BY FarCallIs
  <1>2. Turn(F, stat) = {FarCall(f.id, stat) : f \in F}
    BY <1>1 DEF Turn
  <1> QED
    BY <1>2

LEMMA ObeyedAs ==
  ASSUME far \subseteq FarCalls, NEW command, command.at # "ATD"
  PROVE  \A g : g \in Obeyed(command) <=>
           \E f \in far : Outcome(command, f) # "gone" /\ g = FarCall(f.id, Outcome(command, f))
  <1> DEFINE Goal == \A g : g \in Obeyed(command) <=>
                       \E f \in far : Outcome(command, f) # "gone" /\ g = FarCall(f.id, Outcome(command, f))
  <1> SUFFICES Goal
    OBVIOUS
  <1>1. \A f \in far : f = FarCall(f.id, f.stat) /\ f.stat # "gone"
    BY FarCallIs DEF Stats
  <1>2. \A stat : With(stat) \in SUBSET FarCalls /\ \A f : f \in With(stat) <=> f \in far /\ f.stat = stat
    BY DEF With
  <1>3. Retrieved \in SUBSET FarCalls /\ \A f : f \in Retrieved <=> f \in far /\ f.stat = Taken
    BY <1>2 DEF Retrieved, Taken
  <1>4. Taken \in {"incoming", "held"}
    BY DEF Taken
  <1>5. CASE command.at = "ATA"
    <2>1. \A f \in far : Outcome(command, f) = IF f.stat = "incoming" THEN "active" ELSE f.stat
      BY <1>5 DEF Outcome
    <2>2. Obeyed(command) = (far \ With("incoming")) \cup Turn(With("incoming"), "active")
      BY <1>5 DEF Obeyed, Moved
    <2>3. \A g : g \in Turn(With("incoming"), "active") <=> \E f \in With("incoming") : g = FarCall(f.id, "active")
      BY <1>2, TurnAs
    <2> QED
      BY <1>1, <1>2, <2>1, <2>2, <2>3
  <1>6. CASE command.at = "CHLD0"
    <2>1. \A f \in far : Outcome(command, f) = IF f.stat = Taken THEN "gone" ELSE f.stat
      BY <1>6 DEF Outcome
    <2>2. Obeyed(command) = far \ Retrieved
      BY <1>6 DEF Obeyed, Retrieved
    <2> QED
      BY <1>1, <1>3, <2>1, <2>2
  <1>7. CASE command.at = "CHLD1"
    <2>1. \A f \in far : Outcome(command, f) =
            IF f.stat \in {"active", "dialing", "alerting"} THEN "gone"
            ELSE IF f.stat = Taken THEN "active" ELSE f.stat
      BY <1>7 DEF Outcome
    <2>2. Obeyed(command) = (far \ (With("active") \cup With("dialing") \cup With("alerting") \cup Retrieved))
                              \cup Turn(Retrieved, "active")
      BY <1>7 DEF Obeyed
    <2>3. \A g : g \in Turn(Retrieved, "active") <=> \E f \in Retrieved : g = FarCall(f.id, "active")
      BY <1>3, TurnAs
    <2> QED
      BY <1>1, <1>2, <1>3, <1>4, <2>1, <2>2, <2>3
  <1>8. CASE command.at = "CHLD1x"
    <2>1. \A f \in far : Outcome(command, f) = IF f.id = command.id THEN "gone" ELSE f.stat
      BY <1>8 DEF Outcome
    <2>2. Obeyed(command) = {f \in far : f.id # command.id}
      BY <1>8 DEF Obeyed
    <2> QED
      BY <1>1, <2>1, <2>2
  <1>9. CASE command.at = "CHLD2"
    <2>1. \A f \in far : Outcome(command, f) =
            IF f.stat = "active" THEN "held" ELSE IF f.stat = Taken THEN "active" ELSE f.stat
      BY <1>9 DEF Outcome
    <2>2. Obeyed(command) = (far \ (With("active") \cup Retrieved))
                              \cup Turn(With("active"), "held") \cup Turn(Retrieved, "active")
      BY <1>9 DEF Obeyed
    <2>3. /\ \A g : g \in Turn(Retrieved, "active") <=> \E f \in Retrieved : g = FarCall(f.id, "active")
          /\ \A g : g \in Turn(With("active"), "held") <=> \E f \in With("active") : g = FarCall(f.id, "held")
      BY <1>2, <1>3, TurnAs
    <2> QED
      BY <1>1, <1>2, <1>3, <1>4, <2>1, <2>2, <2>3
  <1>10. CASE command.at = "CHLD2x"
    <2>1. \A f \in far : Outcome(command, f) =
            IF f.id = command.id THEN "active" ELSE IF f.stat = "active" THEN "held" ELSE f.stat
      BY <1>10 DEF Outcome
    <2> DEFINE G(f) == [f EXCEPT !.stat = IF f.id = command.id THEN "active"
                                          ELSE IF f.stat = "active" THEN "held" ELSE f.stat]
               H(f) == FarCall(f.id, Outcome(command, f))
    <2>2. \A f \in far : G(f) = H(f)
      BY <2>1, FarCallIs
    <2>3. Obeyed(command) = {G(f) : f \in far}
      BY <1>10 DEF Obeyed
    <2> HIDE DEF G
    <2>5. \A g : g \in Obeyed(command) <=> \E f \in far : g = H(f)
      BY <2>2, <2>3
    <2>4. \A f \in far : Outcome(command, f) # "gone"
      BY <1>1, <2>1
    <2> QED
      BY <2>4, <2>5
  <1>11. CASE command.at = "CHLD3"
    <2>1. \A f \in far : Outcome(command, f) = IF f.stat = "held" THEN "active" ELSE f.stat
      BY <1>11 DEF Outcome
    <2>2. Obeyed(command) = (far \ With("held")) \cup Turn(With("held"), "active")
      BY <1>11 DEF Obeyed, Moved
    <2>3. \A g : g \in Turn(With("held"), "active") <=> \E f \in With("held") : g = FarCall(f.id, "active")
      BY <1>2, TurnAs
    <2> QED
      BY <1>1, <1>2, <2>1, <2>2, <2>3
  <1>12. CASE command.at = "CHLD4"
    <2>1. \A f \in far : Outcome(command, f) = IF f.stat \in {"active", "held"} THEN "gone" ELSE f.stat
      BY <1>12 DEF Outcome
    <2>2. Obeyed(command) = far \ (With("active") \cup With("held"))
      BY <1>12 DEF Obeyed
    <2> QED
      BY <1>1, <1>2, <2>1, <2>2
  <1>13. CASE command.at = "CTFR"
    <2>1. \A f \in far : Outcome(command, f) = IF f.stat = "incoming" THEN "gone" ELSE f.stat
      BY <1>13 DEF Outcome
    <2>2. Obeyed(command) = far \ With("incoming")
      BY <1>13 DEF Obeyed
    <2> QED
      BY <1>1, <1>2, <2>1, <2>2
  <1>14. CASE command.at \notin {"ATA", "CHLD0", "CHLD1", "CHLD1x", "CHLD2", "CHLD2x", "CHLD3", "CHLD4", "CTFR"}
    <2>1. \A f \in far : Outcome(command, f) = f.stat
      BY <1>14 DEF Outcome
    <2>2. Obeyed(command) = far
      BY <1>14 DEF Obeyed
    <2> QED
      BY <1>1, <2>1, <2>2
  <1> QED
    BY <1>5, <1>6, <1>7, <1>8, <1>9, <1>10, <1>11, <1>12, <1>13, <1>14

LEMMA FarLess ==
  ASSUME FarInv, far' \subseteq far
  PROVE  FarInv'
  BY DEF FarInv

LEMMA FarTurned ==
  ASSUME FarInv, NEW o, \A g \in far' : \E f \in far : g = FarCall(f.id, o[f]),
         \A f \in far : o[f] = "incoming" => f.stat = "incoming"
  PROVE  FarInv'
  <1>1. ASSUME NEW g \in far', NEW h \in far', g.id = h.id PROVE g = h
    <2>1. PICK f \in far : g = FarCall(f.id, o[f])
      OBVIOUS
    <2>2. PICK e \in far : h = FarCall(e.id, o[e])
      OBVIOUS
    <2>3. f = e
      BY <1>1, <2>1, <2>2, FarCallIs DEF FarInv
    <2> QED
      BY <2>1, <2>2, <2>3
  <1>2. ASSUME NEW g \in far', NEW h \in far', g.stat = "incoming", h.stat = "incoming" PROVE g = h
    <2>1. PICK f \in far : g = FarCall(f.id, o[f])
      OBVIOUS
    <2>2. PICK e \in far : h = FarCall(e.id, o[e])
      OBVIOUS
    <2>3. f = e
      BY <1>2, <2>1, <2>2, FarCallIs DEF FarInv
    <2> QED
      BY <2>1, <2>2, <2>3
  <1> QED
    BY <1>1, <1>2 DEF FarInv

\* The calls in some states get another one
LEMMA FarMoved ==
  ASSUME FarInv, far \subseteq FarCalls, NEW F \in SUBSET far, NEW stat, stat # "incoming", far' = Moved(F, stat)
  PROVE  FarInv'
  <1> DEFINE o == [f \in far |-> IF f \in F THEN stat ELSE f.stat]
  <1>1. \A g \in far' : \E f \in far : g = FarCall(f.id, o[f])
    <2>1. \A g : g \in Turn(F, stat) <=> \E f \in F : g = FarCall(f.id, stat)
      BY TurnAs
    <2>2. \A f \in far : f = FarCall(f.id, f.stat)
      BY FarCallIs
    <2> QED
      BY <2>1, <2>2 DEF Moved
  <1>2. \A f \in far : o[f] = "incoming" => f.stat = "incoming"
    OBVIOUS
  <1> HIDE DEF o
  <1> QED
    BY <1>1, <1>2, FarTurned

\* A call with an identifier of its own is added
LEMMA FarAdded ==
  ASSUME NEW F, \A f, g \in F : f.id = g.id => f = g,
         \A f, g \in F : f.stat = "incoming" /\ g.stat = "incoming" => f = g,
         NEW id, NEW stat, \A f \in F : f.id # id, stat = "incoming" => \A f \in F : f.stat # "incoming",
         far' = F \cup {FarCall(id, stat)}
  PROVE  FarInv'
  BY FarCallIs DEF FarInv

LEMMA DialObeyed ==
  ASSUME far \subseteq FarCalls, NEW command, command.at = "ATD"
  PROVE  \A g : g \in Obeyed(command) <=>
           \/ g = FarCall(FreeId, "dialing")
           \/ \E f \in far : g = FarCall(f.id, IF f.stat = "active" THEN "held" ELSE f.stat)
  <1>1. \A f \in far : f = FarCall(f.id, f.stat)
    BY FarCallIs
  <1>2. With("active") \in SUBSET FarCalls /\ \A f : f \in With("active") <=> f \in far /\ f.stat = "active"
    BY DEF With
  <1>3. Obeyed(command) = (far \ With("active")) \cup Turn(With("active"), "held") \cup {FarCall(FreeId, "dialing")}
    BY DEF Obeyed, Moved, FarCall
  <1>4. \A g : g \in Turn(With("active"), "held") <=> \E f \in With("active") : g = FarCall(f.id, "held")
    BY <1>2, TurnAs
  <1> QED
    BY <1>1, <1>2, <1>3, <1>4

LEMMA ObeyFar ==
  ASSUME far \subseteq FarCalls, FarInv, NEW command, Possible(command), far' = Obeyed(command)
  PROVE  FarInv'
  <1>1. CASE command.at = "ATD"
    <2> DEFINE o == [f \in far |-> IF f.stat = "active" THEN "held" ELSE f.stat]
               F == {FarCall(f.id, o[f]) : f \in far}
    <2>1. far' = F \cup {FarCall(FreeId, "dialing")}
      BY <1>1, DialObeyed
    <2>2. Room
      BY <1>1 DEF Possible
    <2>3. \A f \in far : f.id # FreeId
      BY <2>2, FreeIdFresh
    <2>4. \A g \in F : \E f \in far : g = FarCall(f.id, o[f])
      OBVIOUS
    <2>5. \A f \in far : o[f] = "incoming" => f.stat = "incoming"
      OBVIOUS
    <2> HIDE DEF F, o
    <2>6. ASSUME NEW g \in F, NEW h \in F PROVE /\ g.id = h.id => g = h
                                                /\ g.stat = "incoming" /\ h.stat = "incoming" => g = h
      <3>1. PICK f \in far : g = FarCall(f.id, o[f])
        BY <2>4
      <3>2. PICK e \in far : h = FarCall(e.id, o[e])
        BY <2>4
      <3>3. g.id = h.id => f = e
        BY <3>1, <3>2, FarCallIs DEF FarInv
      <3>4. g.stat = "incoming" /\ h.stat = "incoming" => f = e
        BY <2>5, <3>1, <3>2, FarCallIs DEF FarInv
      <3> QED
        BY <3>1, <3>2, <3>3, <3>4
    <2>7. \A g \in F : g.id # FreeId
      BY <2>3, <2>4, FarCallIs
    <2> QED
      BY <2>1, <2>6, <2>7, FarAdded
  <1>2. CASE command.at # "ATD"
    <2> DEFINE o == [f \in far |-> Outcome(command, f)]
    <2>1. \A g \in far' : \E f \in far : g = FarCall(f.id, o[f])
      BY <1>2, ObeyedAs
    <2>2. \A f \in far : o[f] = "incoming" => f.stat = "incoming"
      <3>1. ASSUME NEW f \in far, Outcome(command, f) = "incoming" PROVE f.stat = "incoming"
        BY <3>1 DEF Outcome
      <3> QED
        BY <3>1
    <2> HIDE DEF o
    <2> QED
      BY <2>1, <2>2, FarTurned
  <1> QED
    BY <1>1, <1>2

LEMMA FarInit == Init => FarInv
  BY DEF Init, FarInv

LEMMA FarNext == Typed /\ FarInv /\ [Next]_vars => FarInv'
  <1> SUFFICES ASSUME Typed, FarInv, [Next]_vars PROVE FarInv'
    OBVIOUS
  <1>0. far \subseteq FarCalls
    BY TypedSplit DEF Outer
  <1>1. UNCHANGED far => FarInv'
    BY FarLess
  <1>2. CASE UNCHANGED vars
    BY <1>1, <1>2 DEF vars
  <1>3. CASE UserDials \/ UserHangsUp \/ UserSwitches
    BY <1>1, <1>3, RequestForms DEF Asked
  <1>4. CASE Obey
    <2>1. CASE UNCHANGED far
      BY <1>1, <2>1
    <2>2. CASE Possible(Head(wire)) /\ far' = Obeyed(Head(wire))
      BY <1>0, <2>2, ObeyFar
    <2> QED
      BY <1>4, <2>1, <2>2 DEF Obey
  <1>5. CASE Read \/ Clock
    BY <1>1, <1>5 DEF Read, Clock, DetectFires, MissedFires, HangupFires, DialChecks
  <1>6. CASE NewCaller
    <2>1. far' = far \cup {FarCall(FreeId, "incoming")} /\ With("incoming") = {} /\ Room
      BY <1>6 DEF NewCaller, FarCall
    <2>2. \A f \in far : f.id # FreeId /\ f.stat # "incoming"
      BY <1>0, <2>1, FreeIdFresh DEF With
    <2> QED
      BY <2>1, <2>2, FarAdded DEF FarInv
  <1>7. CASE Ring
    BY <1>1, <1>7 DEF Ring
  <1>8. CASE CallerGivesUp \/ DialFails \/ RemoteHangup
    BY <1>8, FarLess DEF CallerGivesUp, DialFails, RemoteHangup
  <1>9. \A stat : With(stat) \in SUBSET far
    BY DEF With
  <1>10. CASE FarAlerts
    <2>1. far' = Moved(With("dialing"), "alerting")
      BY <1>10 DEF FarAlerts
    <2> QED
      BY <1>0, <1>9, <2>1, FarMoved
  <1>11. CASE FarAnswers
    <2> DEFINE asked == With("dialing") \cup With("alerting")
    <2>1. far' = Moved(asked, "active") /\ asked \in SUBSET far
      BY <1>9, <1>11 DEF FarAnswers
    <2> HIDE DEF asked
    <2> QED
      BY <1>0, <2>1, FarMoved
  <1> QED
    BY <1>2, <1>3, <1>4, <1>5, <1>6, <1>7, <1>8, <1>10, <1>11 DEF Next, World, FarResolves, Answering

-----------------------------------------------------------------------------
\* What an answer makes of the calls

Proper == {"Dialing", "Connected", "Hold"}
Asks == Swaps \cup {"activateSingleRequestDone", "joinRequestDone", "detachRequestDone"}
OneRings == \A c, d \in AnyCall : c.state = "Incoming" /\ d.state = "Incoming" => c = d

\* The state of a call after OK
Result(command, c) ==
  CASE command.slot \in Swaps ->
         IF c.state = "Connected" THEN "Hold"
         ELSE IF c.state = (IF HasGroup(calls, "Incoming") THEN "Incoming" ELSE "Hold") THEN "Connected"
         ELSE c.state
    [] command.slot = "activateSingleRequestDone" ->
         IF c.key = command.key THEN "Connected" ELSE IF c.state = "Connected" THEN "Hold" ELSE c.state
    [] command.slot = "joinRequestDone" -> IF c.state = "Hold" THEN "Connected" ELSE c.state
    [] command.slot = "detachRequestDone" ->
         IF c.state \in {"Connected", "Hold"} THEN "HangupLocal" ELSE c.state
    [] OTHER -> c.state
\* The state of a dialing call after AT+CLCC
Seen(c, list) ==
  LET mine == {f \in list : f.id = c.id} IN
  IF mine = {} THEN "Connected" ELSE Checked((CHOOSE f \in mine : TRUE).stat)
Looked(command, c) == command.slot = "clccDialCheck" /\ c.key = command.key /\ c.state = "Dialing"
After(command, c, list) == IF Looked(command, c) THEN Seen(c, list) ELSE Result(command, c)

\* The calls get the states s
Becoming(s) ==
  /\ \A d \in AnyCall' : \E c \in AnyCall : d.key = c.key /\ d.id = c.id /\ d.state = s[c]
  /\ \A c \in AnyCall : s[c] \in States =>
       \E d \in AnyCall' : d.key = c.key /\ d.id = c.id /\ d.state = s[c]

LEMMA OneRingsFollows ==
  ASSUME CallsTyped, Gathers
  PROVE  OneRings
  <1>1. ASSUME NEW c \in AnyCall, NEW d \in AnyCall, c.state = "Incoming", d.state = "Incoming"
        PROVE  c = d
    <2>1. c.key \in RingKeys /\ d.key \in RingKeys
      BY <1>1, RingKeysAre
    <2>2. c.key = d.key
      BY <2>1 DEF Gathers
    <2> QED
      BY <2>2, <1>1, CallsAre
  <1> QED
    BY <1>1 DEF OneRings

LEMMA LeaveBecomes ==
  ASSUME CallsTyped, NEW cs, Follows(cs), NEW used, Leave(cs, used),
         NEW s, \A i \in DOMAIN calls : s[calls[i]] = cs[i].state
  PROVE  Becoming(s)
  <1>1. /\ \A d \in AnyCall' : \E i \in DOMAIN calls : d = cs[i] /\ cs[i].state \in States
        /\ \A i \in DOMAIN calls : cs[i].state \in States => cs[i] \in AnyCall'
    BY LeaveEffect
  <1>2. \A i \in DOMAIN calls : cs[i].key = calls[i].key /\ cs[i].id = calls[i].id
    BY DEF Follows
  <1>3. \A i \in DOMAIN calls : calls[i] \in AnyCall
    BY CallsAre
  <1>4. \A c \in AnyCall : \E i \in DOMAIN calls : c = calls[i]
    BY DEF AnyCall
  <1> QED
    BY <1>1, <1>2, <1>3, <1>4 DEF Becoming

\* All stay
LEMMA DirectBecomes ==
  ASSUME CallsTyped, NEW cs, Follows(cs),
         \A d \in AnyCall' : \E i \in DOMAIN calls : d = cs[i],
         \A i \in DOMAIN calls : cs[i] \in AnyCall',
         NEW s, \A i \in DOMAIN calls : s[calls[i]] = cs[i].state
  PROVE  Becoming(s)
  <1>2. \A i \in DOMAIN calls : cs[i].key = calls[i].key /\ cs[i].id = calls[i].id
    BY DEF Follows
  <1>3. \A i \in DOMAIN calls : calls[i] \in AnyCall
    BY CallsAre
  <1>4. \A c \in AnyCall : \E i \in DOMAIN calls : c = calls[i]
    BY DEF AnyCall
  <1> QED
    BY <1>2, <1>3, <1>4 DEF Becoming

LEMMA SameBecomes ==
  ASSUME AnyCall' = AnyCall, NEW s, \A c \in AnyCall : s[c] = c.state
  PROVE  Becoming(s)
  BY DEF Becoming

\* The swap takes the only incoming call
LEMMA SwapExact ==
  ASSUME CallsTyped, OneRings
  PROVE  \A i \in DOMAIN calls : Swap(calls)[i].state =
           IF calls[i].state = "Connected" THEN "Hold"
           ELSE IF calls[i].state = (IF HasGroup(calls, "Incoming") THEN "Incoming" ELSE "Hold") THEN "Connected"
           ELSE calls[i].state
  <1> DEFINE cs == Swap(calls)
  <1>1. Listed(calls) /\ \A i \in DOMAIN calls : calls[i].state # "Swapping"
    BY CallsAre, StatesDiffer DEF Call
  <1>2. /\ \A i \in DOMAIN calls :
             \/ cs[i].state = "Hold" /\ calls[i].state = "Connected"
             \/ cs[i].state = calls[i].state /\ calls[i].state # "Connected"
             \/ cs[i].state = "Connected" /\ calls[i].state = "Incoming"
             \/ cs[i].state = "Connected" /\ calls[i].state = "Hold" /\ ~HasGroup(calls, "Incoming")
        /\ HasGroup(calls, "Incoming") =>
             \E i \in DOMAIN calls : calls[i].state = "Incoming" /\ cs[i].state = "Connected"
        /\ ~HasGroup(calls, "Incoming") =>
             \A i \in DOMAIN calls : calls[i].state = "Hold" => cs[i].state = "Connected"
    BY <1>1, SwapIs
  <1>3. \A i, j \in DOMAIN calls : calls[i].state = "Incoming" /\ calls[j].state = "Incoming" => i = j
    BY DEF OneRings, AnyCall, CallsTyped
  <1>4. \A i \in DOMAIN calls : calls[i].state = "Incoming" => HasGroup(calls, "Incoming")
    BY DEF HasGroup
  <1> HIDE DEF cs
  <1> QED
    BY <1>2, <1>3, <1>4 DEF cs

LEMMA SlotOk ==
  ASSUME ProviderTyped, cmds # <<>>, NEW c \in Owner(Head(cmds)), NEW list, OneRings,
         Head(cmds).slot # "clccIncoming"
  PROVE  LET cs == SlotResult(Head(cmds).slot, c, TRUE, list) IN
         \A i \in DOMAIN calls :
           /\ cs[i].state = After(Head(cmds), calls[i], list)
           /\ cs[i].poll = (calls[i].poll \/ (Looked(Head(cmds), calls[i]) /\ cs[i].state = "Dialing"))
  <1>0. CallsTyped /\ QueueTyped /\ Waiting
    BY DEF ProviderTyped
  <1>1. c \in AnyCall /\ c \in Call /\ c.key = Head(cmds).key
        /\ \A i \in DOMAIN calls : calls[i].key = Head(cmds).key => calls[i] = c
    BY <1>0, OwnerIs
  <1>2. Head(cmds) \in Commands /\ Head(cmds) = cmds[1] /\ 1 \in DOMAIN cmds
    BY <1>0, TailIs DEF QueueTyped
  <1> DEFINE slot == Head(cmds).slot
             key == Head(cmds).key
             cs == SlotResult(slot, c, TRUE, list)
  <1>3. slot \in Slots
    BY <1>2, SlotsAre
  <1>4. slot \in DialSlots => ~c.poll
    BY <1>0, <1>1, <1>2 DEF Waiting
  <1>5. /\ slot = "dialRequestDone" => cs = calls
        /\ slot = "clccDialCheck" =>
             cs = IF c.state = "Dialing" THEN ClccDialCheck(c, list) ELSE calls
        /\ slot = "acceptDone" => cs = calls
        /\ slot \in Swaps => cs = Swap(calls)
        /\ slot = "activateSingleRequestDone" => cs = Accepted(calls, c.key)
        /\ slot = "joinRequestDone" => cs = ChangeGroup(calls, "Hold", "Connected")
        /\ slot = "detachRequestDone" => cs = Detached
        /\ slot \in {"none", "clccIncoming"} => cs = calls
    <2>1. TRUE \in BOOLEAN
      OBVIOUS
    <2> QED
      BY <1>3, <2>1, SlotResultCases, Zenon
  <1> DEFINE Goal == \A i \in DOMAIN calls :
           /\ cs[i].state = After(Head(cmds), calls[i], list)
           /\ cs[i].poll = (calls[i].poll \/ (Looked(Head(cmds), calls[i]) /\ cs[i].state = "Dialing"))
  <1> SUFFICES Goal
    OBVIOUS
  <1> HIDE DEF cs
  <1>6. \A i \in DOMAIN calls : calls[i].poll \in BOOLEAN
    BY <1>0, CallsAre DEF Call
  <1>7. ASSUME NEW ds, Restates(ds, calls), cs = ds, \A i \in DOMAIN calls : ~Looked(Head(cmds), calls[i]),
               \A i \in DOMAIN calls : ds[i].state = Result(Head(cmds), calls[i])
        PROVE  Goal
    BY <1>6, <1>7 DEF Restates, After
  <1>8. slot # "clccDialCheck" => \A i \in DOMAIN calls : ~Looked(Head(cmds), calls[i])
    BY DEF Looked
  <1>9. Restates(calls, calls)
    BY <1>0, SameHandled DEF Handled
  <1>10. CASE slot \in {"dialRequestDone", "acceptDone", "none"}
    <2>1. \A i \in DOMAIN calls : Result(Head(cmds), calls[i]) = calls[i].state
      BY <1>10 DEF Result, Swaps
    <2>2. cs = calls /\ slot # "clccDialCheck"
      BY <1>5, <1>10
    <2> QED
      BY <1>7, <1>8, <1>9, <2>1, <2>2, Zenon
  <1>11. CASE slot = "clccDialCheck" /\ c.state = "Dialing"
    <2> DEFINE state == Seen(c, list)
               ds == ClccDialCheck(c, list)
    <2>1. /\ \A i \in DOMAIN calls :
              /\ ds[i].state = IF calls[i].key = c.key THEN state ELSE calls[i].state
              /\ ds[i].poll = (calls[i].poll \/ (calls[i].key = c.key /\ state = "Dialing"))
      BY <1>0, <1>1, <1>4, <1>11, DialCheckedIs DEF Seen, DialSlots
    <2>2. cs = ds
      BY <1>5, <1>11
    <2> HIDE DEF ds, state
    <2>3. \A i \in DOMAIN calls : Result(Head(cmds), calls[i]) = calls[i].state
      BY <1>11 DEF Result, Swaps
    <2>4. \A i \in DOMAIN calls : calls[i].key = c.key => calls[i] = c /\ Looked(Head(cmds), calls[i])
      BY <1>1, <1>11 DEF Looked
    <2>5. \A i \in DOMAIN calls : calls[i].key # c.key => ~Looked(Head(cmds), calls[i])
      BY <1>1 DEF Looked
    <2> QED
      BY <1>6, <2>1, <2>2, <2>3, <2>4, <2>5 DEF After, state
  <1>12. CASE slot = "clccDialCheck" /\ c.state # "Dialing"
    <2>1. \A i \in DOMAIN calls : Result(Head(cmds), calls[i]) = calls[i].state
      BY <1>12 DEF Result, Swaps
    <2>2. cs = calls
      BY <1>5, <1>12
    <2>3. \A i \in DOMAIN calls : ~Looked(Head(cmds), calls[i])
      BY <1>1, <1>12 DEF Looked
    <2> QED
      BY <1>7, <1>9, <2>1, <2>2, <2>3, Zenon
  <1>13. CASE slot \in Swaps
    <2>1. cs = Swap(calls) /\ slot # "clccDialCheck"
      BY <1>5, <1>13 DEF Swaps
    <2>2. Restates(Swap(calls), calls)
      BY <1>0, SwapHandled DEF Handled
    <2>3. \A i \in DOMAIN calls : Swap(calls)[i].state = Result(Head(cmds), calls[i])
      <3>1. \A i \in DOMAIN calls : Result(Head(cmds), calls[i]) =
              IF calls[i].state = "Connected" THEN "Hold"
              ELSE IF calls[i].state = (IF HasGroup(calls, "Incoming") THEN "Incoming" ELSE "Hold") THEN "Connected"
              ELSE calls[i].state
        BY <1>13 DEF Result, Swaps
      <3> QED
        BY <1>0, <3>1, SwapExact, Zenon
    <2> QED
      BY <1>7, <1>8, <2>1, <2>2, <2>3, Zenon
  <1>14. CASE slot = "activateSingleRequestDone"
    <2>1. cs = Accepted(calls, c.key) /\ slot # "clccDialCheck"
      BY <1>5, <1>14
    <2>2. /\ Restates(Accepted(calls, c.key), calls)
          /\ \A i \in DOMAIN calls :
               Accepted(calls, c.key)[i].state = IF calls[i].key = c.key THEN "Connected"
                               ELSE IF calls[i].state = "Connected" THEN "Hold" ELSE calls[i].state
      BY <1>0, AcceptedIs
    <2>3. \A i \in DOMAIN calls : Accepted(calls, c.key)[i].state = Result(Head(cmds), calls[i])
      BY <1>1, <1>14, <2>2 DEF Result, Swaps
    <2> QED
      BY <1>7, <1>8, <2>1, <2>2, <2>3, Zenon
  <1>15. CASE slot = "joinRequestDone"
    <2> DEFINE ds == ChangeGroup(calls, "Hold", "Connected")
    <2>1. cs = ds /\ slot # "clccDialCheck"
      BY <1>5, <1>15
    <2>2. /\ Restates(ds, calls)
          /\ \A i \in DOMAIN calls : ds[i].state = IF calls[i].state = "Hold" THEN "Connected" ELSE calls[i].state
      BY <1>0, ToConnectedIs DEF Handled
    <2> HIDE DEF ds
    <2>3. \A i \in DOMAIN calls : ds[i].state = Result(Head(cmds), calls[i])
      BY <1>15, <2>2 DEF Result, Swaps
    <2> QED
      BY <1>7, <1>8, <2>1, <2>2, <2>3, Zenon
  <1>16. CASE slot = "detachRequestDone"
    <2>1. cs = Detached /\ slot # "clccDialCheck"
      BY <1>5, <1>16
    <2>2. /\ Restates(Detached, calls)
          /\ \A i \in DOMAIN calls :
              Detached[i].state = IF calls[i].state \in {"Connected", "Hold"} THEN "HangupLocal"
                                  ELSE calls[i].state
      BY <1>0, DetachedIs DEF Handled
    <2>3. \A i \in DOMAIN calls : Detached[i].state = Result(Head(cmds), calls[i])
      BY <1>16, <2>2 DEF Result, Swaps
    <2> QED
      BY <1>7, <1>8, <2>1, <2>2, <2>3, Zenon
  <1> QED
    BY <1>3, <1>10, <1>11, <1>12, <1>13, <1>14, <1>15, <1>16, Zenon DEF Slots, Swaps

\* The command that is out has its call, and what waits behind it is plain
Behind ==
  /\ cmds # <<>> /\ Head(cmds).slot \in Asks => Owner(Head(cmds)) # {}
  /\ \A j \in DOMAIN cmds : j # 1 => cmds[j].at \in {"CLCC", "CHLD1x"}
  /\ \A j \in DOMAIN cmds : cmds[j].at = "CHLD1x" => cmds[j].slot = "none"

States1(c) == After(Head(cmds), c, far)
Acts == [c \in AnyCall |-> States1(c)]

LEMMA AfterList ==
  ASSUME NEW command, NEW c, NEW list, NEW other, command.slot = "clccDialCheck" => list = other
  PROVE  After(command, c, list) = After(command, c, other)
  BY DEF After, Looked

\* An answer to anything but the question for an incoming call
LEMMA AnswerActs ==
  ASSUME Typed, Wired, Behind, OneRings, ReadAnswer, Head(cmds).slot # "clccIncoming"
  PROVE  /\ Becoming(Acts)
         /\ \A c \in AnyCall, d \in AnyCall' : d.key = c.key =>
              d.poll = (c.poll \/ (Looked(Head(cmds), c) /\ d.state = "Dialing"))
         /\ (\A c \in AnyCall : Acts[c] \in States) => usedIds' = usedIds
         /\ UNCHANGED <<incomingId, typeKnown, missed, detect>>
         /\ \E new \in Seq(Commands) :
              /\ Done(new)
              /\ \A k \in DOMAIN new : new[k].at = "CLCC" /\ new[k].slot = "clccDialCheck"
              /\ \A c \in AnyCall : Head(cmds).slot = "dialRequestDone" /\ c.key = Head(cmds).key /\ c.state = "Dialing"
                   => new = <<DialQuestion(c)>>
  <1>0. ProviderTyped /\ CallsTyped /\ QueueTyped
    BY TypedSplit DEF ProviderTyped
  <1> DEFINE ok == Head(line).ok
             list == Head(line).list
             command == Head(cmds)
  <1>1. cmds # <<>> /\ ok /\ (command.at = "CLCC" => list = far) /\ Answer(ok, list)
    BY AnswerRead
  <1>2. ok \in BOOLEAN /\ list \in SUBSET FarCalls
    BY LineIsAre, TypedSplit DEF ReadAnswer
  <1>3. ok = TRUE
    BY <1>1, <1>2
  <1>4. /\ command \in Commands /\ CmdOk(command)
    <2>1. command = cmds[1] /\ 1 \in DOMAIN cmds
      BY <1>0, <1>1, TailIs DEF QueueTyped
    <2> QED
      BY <1>0, <2>1, SlotsAre DEF QueueTyped
  <1>5. command.slot = "clccDialCheck" => list = far
    BY <1>1, <1>4 DEF CmdOk
  <1>6. \/ /\ Owner(command) = {}
           /\ Done(<<>>) /\ UNCHANGED <<calls, usedIds, ring>>
        \/ \E c \in Owner(command) : SlotCalled(c, TRUE, list)
    BY <1>0, <1>1, <1>2, <1>3, AnswerEffect, Zenon
  <1>7. \A c \in AnyCall : Acts[c] = After(command, c, list)
    BY <1>5, AfterList DEF Acts, States1
  <1> HIDE DEF ok, list
  <1>8. CASE Owner(command) = {} /\ Done(<<>>) /\ UNCHANGED <<calls, usedIds, ring>>
    <2>1. \A c \in AnyCall : c.key # command.key
      BY <1>8 DEF Owner, AnyCall
    <2>2. command.slot \notin Asks
      BY <1>1, <1>8 DEF Behind
    <2>3. \A c \in AnyCall : ~Looked(command, c) /\ Acts[c] = c.state
      BY <1>7, <2>1, <2>2 DEF Looked, After, Result, Asks
    <2>4. AnyCall' = AnyCall /\ UNCHANGED <<incomingId, typeKnown, missed, detect, usedIds>>
      BY <1>8 DEF AnyCall, ring
    <2>5. Becoming(Acts)
      BY <2>3, <2>4, SameBecomes
    <2>6. \A c \in AnyCall, d \in AnyCall' : d.key = c.key => d = c /\ d.poll \in BOOLEAN
      BY <1>0, <2>4, CallsAre DEF Call
    <2>7. /\ <<>> \in Seq(Commands) /\ Done(<<>>)
          /\ \A k \in DOMAIN <<>> : <<>>[k].at = "CLCC" /\ <<>>[k].slot = "clccDialCheck"
          /\ \A c \in AnyCall : c.key # command.key
      BY <1>8, <2>1, NoneIs
    <2> QED
      BY <2>3, <2>4, <2>5, <2>6, <2>7
  <1>9. CASE \E c \in Owner(command) : SlotCalled(c, TRUE, list)
    <2> PICK c \in Owner(command) : SlotCalled(c, TRUE, list)
      BY <1>9
    <2> DEFINE cs == SlotResult(command.slot, c, TRUE, list)
               new == SlotCommands(command.slot, c, TRUE)
    <2>1. /\ Done(new) /\ new \in Seq(Commands) /\ Leave(cs, usedIds) /\ Follows(cs)
          /\ UNCHANGED <<incomingId, typeKnown, missed>>
          /\ detect' = (detect /\ ~(command.slot = "acceptDone" /\ ~TRUE))
      BY DEF SlotCalled, Kept
    <2>2. UNCHANGED detect
      BY <1>0, <2>1 DEF ProviderTyped
    <2>3. \A i \in DOMAIN calls :
           /\ cs[i].state = After(command, calls[i], list)
           /\ cs[i].poll = (calls[i].poll \/ (Looked(command, calls[i]) /\ cs[i].state = "Dialing"))
      BY <1>0, <1>1, SlotOk
    <2>4. new = IF command.slot = "dialRequestDone" /\ c.state = "Dialing" THEN <<DialQuestion(c)>> ELSE <<>>
      BY DEF SlotCommands, DialQuestion
    <2>5. c \in AnyCall /\ c \in Call /\ c.key = command.key
      BY <1>0, OwnerIs
    <2> HIDE DEF cs, new
    <2>6. \A i \in DOMAIN calls : calls[i] \in AnyCall /\ Acts[calls[i]] = cs[i].state
      BY <1>0, <1>7, <2>3, CallsAre
    <2>7. Becoming(Acts)
      BY <1>0, <2>1, <2>6, LeaveBecomes
    <2>8. \A e \in AnyCall, d \in AnyCall' : d.key = e.key =>
              d.poll = (e.poll \/ (Looked(command, e) /\ d.state = "Dialing"))
      <3>1. \A d \in AnyCall' : \E i \in DOMAIN calls : d = cs[i]
        BY <1>0, <2>1, LeaveEffect
      <3>2. \A e \in AnyCall : \E i \in DOMAIN calls : e = calls[i]
        BY DEF AnyCall
      <3>3. \A i, j \in DOMAIN calls : calls[i].key = calls[j].key => i = j
        BY <1>0 DEF CallsTyped
      <3>4. \A i \in DOMAIN calls : cs[i].key = calls[i].key
        BY <2>1 DEF Follows
      <3> QED
        BY <2>3, <3>1, <3>2, <3>3, <3>4
    <2>9. (\A e \in AnyCall : Acts[e] \in States) => usedIds' = usedIds
      <3>1. SUFFICES ASSUME \A e \in AnyCall : Acts[e] \in States PROVE usedIds' = usedIds
        OBVIOUS
      <3>2. usedIds' = usedIds \ Released(cs)
        BY <1>0, <2>1, LeaveEffect
      <3>3. \A x \in Released(cs) : \E i \in DOMAIN calls : cs[i].state \in Over
        BY <1>0, <2>1, LeaveEffect
      <3>4. Released(cs) = {}
        BY <2>6, <3>1, <3>3, StatesDiffer
      <3> QED
        BY <3>2, <3>4
    <2>10. \A k \in DOMAIN new : new[k].at = "CLCC" /\ new[k].slot = "clccDialCheck"
      BY <2>4, <2>5, DialQuestionIs, NoneIs
    <2>11. \A e \in AnyCall : command.slot = "dialRequestDone" /\ e.key = command.key /\ e.state = "Dialing"
                   => new = <<DialQuestion(e)>>
      <3>1. \A e \in AnyCall : e.key = command.key => e = c
        BY <1>0, <2>5, CallsAre
      <3> QED
        BY <2>4, <3>1
    <2> QED
      BY <2>1, <2>2, <2>7, <2>8, <2>9, <2>10, <2>11
  <1> QED
    BY <1>6, <1>8, <1>9

-----------------------------------------------------------------------------
\* A dialing call waits for its timer or for an answer

Dialled ==
  \A c \in AnyCall : c.state = "Dialing" =>
     c.poll \/ \E j \in DOMAIN cmds : cmds[j].slot \in DialSlots /\ cmds[j].key = c.key

LEMMA DialledKept ==
  ASSUME Dialled,
         \A d \in AnyCall' : d.state = "Dialing" =>
           \E c \in AnyCall : c.key = d.key /\ c.state = "Dialing" /\ (c.poll => d.poll),
         \A j \in DOMAIN cmds : cmds[j].slot \in DialSlots =>
           \E k \in DOMAIN cmds' : cmds'[k].slot \in DialSlots /\ cmds'[k].key = cmds[j].key
  PROVE  Dialled'
  <1>1. ASSUME NEW d \in AnyCall', d.state = "Dialing", ~d.poll
        PROVE  \E k \in DOMAIN cmds' : cmds'[k].slot \in DialSlots /\ cmds'[k].key = d.key
    <2>1. PICK c \in AnyCall : c.key = d.key /\ c.state = "Dialing" /\ ~c.poll
      BY <1>1
    <2>2. PICK j \in DOMAIN cmds : cmds[j].slot \in DialSlots /\ cmds[j].key = c.key
      BY <2>1 DEF Dialled
    <2> QED
      BY <2>1, <2>2
  <1> QED
    BY <1>1 DEF Dialled

\* Commands are added, calls only change their states
LEMMA FollowsDialled ==
  ASSUME CallsTyped, Dialled, NEW cs, Follows(cs), \A d \in AnyCall' : \E i \in DOMAIN calls : d = cs[i],
         \A i \in DOMAIN calls : calls[i].poll => cs[i].poll,
         \A j \in DOMAIN cmds : \E k \in DOMAIN cmds' : cmds'[k] = cmds[j]
  PROVE  Dialled'
  <1>1. ASSUME NEW d \in AnyCall', d.state = "Dialing"
        PROVE  \E c \in AnyCall : c.key = d.key /\ c.state = "Dialing" /\ (c.poll => d.poll)
    <2>1. PICK i \in DOMAIN calls : d = cs[i]
      OBVIOUS
    <2>2. calls[i] \in AnyCall /\ calls[i].key = d.key /\ calls[i].state = "Dialing"
      BY <1>1, <2>1, CallsAre DEF Follows
    <2> QED
      BY <2>1, <2>2
  <1>2. \A j \in DOMAIN cmds : cmds[j].slot \in DialSlots =>
           \E k \in DOMAIN cmds' : cmds'[k].slot \in DialSlots /\ cmds'[k].key = cmds[j].key
    OBVIOUS
  <1> QED
    BY <1>1, <1>2, DialledKept

LEMMA SameDialled ==
  ASSUME Dialled, AnyCall' = AnyCall, \A j \in DOMAIN cmds : \E k \in DOMAIN cmds' : cmds'[k] = cmds[j]
  PROVE  Dialled'
  BY DialledKept

LEMMA ChatKeeps ==
  ASSUME QueueTyped, NEW new \in Seq(Commands), Chat(new)
  PROVE  \A j \in DOMAIN cmds : \E k \in DOMAIN cmds' : cmds'[k] = cmds[j]
  BY ChatEffect

LEMMA RequestDialled ==
  ASSUME Typed, Dialled, Dial \/ \E c \in AnyCall : Hanging(c) \/ Accept(c) \/ Asking(c)
  PROVE  Dialled'
  <1>0. ProviderTyped /\ CallsTyped /\ QueueTyped
    BY TypedSplit DEF ProviderTyped
  <1>1. CASE Dial
    <2>1. CASE UNCHANGED provider
      BY <2>1, SameDialled DEF provider, chat, AnyCall
    <2>2. CASE ~(UNCHANGED provider)
      <3> DEFINE cs == ChangeGroup(calls, "Connected", "Hold")
      <3>1. /\ Chat(<<DialCommand>>) /\ DialCommand \in Commands
            /\ DialCommand.slot = "dialRequestDone" /\ DialCommand.key = NewKey /\ Dialed.key = NewKey
            /\ Restates(cs, calls)
            /\ \A i \in DOMAIN calls :
                 cs[i].state = IF calls[i].state = "Connected" THEN "Hold" ELSE calls[i].state
            /\ \A d \in AnyCall' : d = Dialed \/ \E i \in DOMAIN calls : d = cs[i]
        BY <1>0, <1>1, <2>2, DialEffect, Zenon
      <3> HIDE DEF cs
      <3>2. /\ \A j \in DOMAIN cmds : \E k \in DOMAIN cmds' : cmds'[k] = cmds[j]
            /\ \E k \in DOMAIN cmds' : cmds'[k] = DialCommand
        BY <1>0, <3>1, ChatOne, Zenon
      <3>3. ASSUME NEW d \in AnyCall', d.state = "Dialing", ~d.poll
            PROVE  \E k \in DOMAIN cmds' : cmds'[k].slot \in DialSlots /\ cmds'[k].key = d.key
        <4>1. CASE d = Dialed
          BY <3>1, <3>2, <4>1 DEF DialSlots
        <4>2. ASSUME NEW i \in DOMAIN calls, d = cs[i]
              PROVE  \E k \in DOMAIN cmds' : cmds'[k].slot \in DialSlots /\ cmds'[k].key = d.key
          <5>1. calls[i] \in AnyCall /\ calls[i].key = d.key /\ calls[i].state = "Dialing" /\ ~calls[i].poll
            BY <1>0, <3>1, <3>3, <4>2, CallsAre DEF Restates
          <5>2. PICK j \in DOMAIN cmds : cmds[j].slot \in DialSlots /\ cmds[j].key = d.key
            BY <5>1 DEF Dialled
          <5> QED
            BY <3>2, <5>2
        <4> QED
          BY <3>1, <4>1, <4>2
      <3> QED
        BY <3>3 DEF Dialled
    <2> QED
      BY <2>1, <2>2
  <1>2. ASSUME NEW c \in AnyCall, Hanging(c)
        PROVE  Dialled'
    <2>1. PICK new, cs : PlainOnly(new) /\ Handled(cs) /\ HangupWith(new, cs)
      BY <1>0, <1>2, HangingForm, Zenon
    <2>2. new \in Seq(Commands) /\ Chat(new) /\ Leave(cs, usedIds)
      BY <2>1 DEF PlainOnly, HangupWith
    <2>3. Follows(cs) /\ \A i \in DOMAIN calls : cs[i].poll = calls[i].poll
      BY <1>0, <2>1, HandledFollows
    <2>4. \A d \in AnyCall' : \E i \in DOMAIN calls : d = cs[i]
      BY <1>0, <2>2, <2>3, LeaveEffect
    <2> QED
      BY <1>0, <2>2, <2>3, <2>4, ChatKeeps, FollowsDialled
  <1>3. ASSUME NEW c \in AnyCall, Accept(c)
        PROVE  Dialled'
    <2>1. /\ \E command : Question(command, c) /\ Chat(<<command>>)
          /\ Restates(calls', calls) /\ c.state = "Incoming"
          /\ \A i \in DOMAIN calls :
              calls'[i].state = IF calls[i].key = c.key THEN "Connected"
                                ELSE IF calls[i].state = "Connected" THEN "Hold" ELSE calls[i].state
          /\ \A d \in AnyCall' : \E i \in DOMAIN calls : d = calls'[i]
      BY <1>0, <1>3, AcceptEffect
    <2>2. PICK command : Question(command, c) /\ Chat(<<command>>)
      BY <2>1
    <2>3. <<command>> \in Seq(Commands)
      BY <2>2, OneIs DEF Question
    <2>4. \A j \in DOMAIN cmds : \E k \in DOMAIN cmds' : cmds'[k] = cmds[j]
      BY <1>0, <2>2, <2>3, ChatKeeps
    <2>5. ASSUME NEW d \in AnyCall', d.state = "Dialing"
          PROVE  \E e \in AnyCall : e.key = d.key /\ e.state = "Dialing" /\ (e.poll => d.poll)
      <3>1. PICK i \in DOMAIN calls : d = calls'[i]
        BY <2>1
      <3>2. calls[i] \in AnyCall /\ calls[i].key = d.key /\ calls[i].state = "Dialing" /\ calls[i].poll = d.poll
        BY <1>0, <2>1, <2>5, <3>1, CallsAre DEF Restates
      <3> QED
        BY <3>2
    <2>6. \A j \in DOMAIN cmds : cmds[j].slot \in DialSlots =>
           \E k \in DOMAIN cmds' : cmds'[k].slot \in DialSlots /\ cmds'[k].key = cmds[j].key
      BY <2>4
    <2> QED
      BY <2>5, <2>6, DialledKept
  <1>4. ASSUME NEW c \in AnyCall, Asking(c)
        PROVE  Dialled'
    <2>1. PICK command : Question(command, c) /\ Chat(<<command>>) /\ UNCHANGED calls
      BY <1>0, <1>4, AskingForm, Zenon
    <2>2. AnyCall' = AnyCall /\ <<command>> \in Seq(Commands)
      BY <2>1, OneIs DEF AnyCall, Question
    <2> QED
      BY <1>0, <2>1, <2>2, ChatKeeps, SameDialled
  <1> QED
    BY <1>1, <1>2, <1>3, <1>4

LEMMA ResultDials ==
  ASSUME NEW command, NEW c, NEW list, After(command, c, list) = "Dialing"
  PROVE  c.state = "Dialing"
  BY DEF After, Result, Looked

LEMMA AnswerDialled ==
  ASSUME Typed, Wired, Behind, OneRings, Dialled, ReadAnswer
  PROVE  Dialled'
  <1>0. ProviderTyped /\ CallsTyped /\ QueueTyped /\ cmds # <<>>
    BY TypedSplit, AnswerRead DEF ProviderTyped
  <1>1. CASE Head(cmds).slot = "clccIncoming"
    <2> DEFINE ok == Head(line).ok
               list == Head(line).list
    <2>1. Answer(ok, list) /\ ok \in BOOLEAN /\ list \in SUBSET FarCalls
      BY AnswerRead, LineIsAre, TypedSplit DEF ReadAnswer
    <2> HIDE DEF ok, list
    <2>2. Done(<<>>) /\ ClccAnswered(ok, list)
      BY <1>0, <1>1, <2>1, AnswerEffect, Zenon
    <2>3. \A d \in AnyCall' : d \in AnyCall \/ d.state = "Incoming"
      <3>1. \E id : AnyCall' \subseteq AnyCall \cup {AnnouncedCall(id)}
        BY <2>2 DEF ClccAnswered
      <3>2. \A id : AnnouncedCall(id).state = "Incoming"
        BY DEF AnnouncedCall
      <3> QED
        BY <3>1, <3>2
    <2>4. ASSUME NEW j \in DOMAIN cmds, cmds[j].slot \in DialSlots
          PROVE  \E k \in DOMAIN cmds' : cmds'[k].slot \in DialSlots /\ cmds'[k].key = cmds[j].key
      <3>1. j # 1
        BY <1>0, <1>1, <2>4, TailIs DEF DialSlots, QueueTyped
      <3>2. j - 1 \in DOMAIN cmds' /\ cmds'[j - 1] = cmds[j]
        BY <1>0, <2>2, <3>1, NoneIs, DoneEffect
      <3> QED
        BY <2>4, <3>2
    <2> QED
      BY <2>3, <2>4, DialledKept
  <1>2. CASE Head(cmds).slot # "clccIncoming"
    <2>1. /\ Becoming(Acts)
          /\ \A c \in AnyCall, d \in AnyCall' : d.key = c.key =>
               d.poll = (c.poll \/ (Looked(Head(cmds), c) /\ d.state = "Dialing"))
      BY <1>2, AnswerActs
    <2>2. PICK new \in Seq(Commands) :
              /\ Done(new)
              /\ \A c \in AnyCall : Head(cmds).slot = "dialRequestDone" /\ c.key = Head(cmds).key /\ c.state = "Dialing"
                   => new = <<DialQuestion(c)>>
      BY <1>2, AnswerActs
    <2>3. ASSUME NEW d \in AnyCall', d.state = "Dialing", ~d.poll
          PROVE  \E k \in DOMAIN cmds' : cmds'[k].slot \in DialSlots /\ cmds'[k].key = d.key
      <3>1. PICK c \in AnyCall : d.key = c.key /\ d.state = Acts[c]
        BY <2>1 DEF Becoming
      <3>2. c.state = "Dialing"
        BY <2>3, <3>1, ResultDials DEF Acts, States1
      <3>3. ~c.poll /\ ~Looked(Head(cmds), c)
        <4>1. c \in Call
          BY <1>0, CallsAre
        <4>2. c.poll \in BOOLEAN
          BY <4>1 DEF Call
        <4> QED
          BY <2>1, <2>3, <3>1, <4>2
      <3>4. PICK j \in DOMAIN cmds : cmds[j].slot \in DialSlots /\ cmds[j].key = c.key
        BY <3>2, <3>3 DEF Dialled
      <3>5. CASE j = 1
        <4>1. cmds[1] = Head(cmds) /\ Len(cmds) \in Nat
          BY <1>0, TailIs DEF QueueTyped
        <4>2. new = <<DialQuestion(c)>>
          BY <2>2, <3>2, <3>3, <3>4, <3>5, <4>1 DEF Looked, DialSlots
        <4>3. c \in Call
          BY <1>0, CallsAre
        <4>4. /\ DialQuestion(c).slot \in DialSlots /\ DialQuestion(c).key = c.key
              /\ DOMAIN new = {1} /\ new[1] = DialQuestion(c)
          BY <4>2, <4>3, DialQuestionIs
        <4>5. \A k \in DOMAIN new : Len(cmds) - 1 + k \in DOMAIN cmds' /\ cmds'[Len(cmds) - 1 + k] = new[k]
          BY <1>0, <2>2, DoneEffect
        <4>6. Len(cmds) - 1 + 1 \in DOMAIN cmds' /\ cmds'[Len(cmds) - 1 + 1] = DialQuestion(c)
          BY <4>4, <4>5
        <4> QED
          BY <3>1, <4>4, <4>6
      <3>6. CASE j # 1
        <4>1. j - 1 \in DOMAIN cmds' /\ cmds'[j - 1] = cmds[j]
          BY <1>0, <2>2, <3>6, DoneEffect
        <4> QED
          BY <3>1, <3>4, <4>1
      <3> QED
        BY <3>5, <3>6
    <2> QED
      BY <2>3 DEF Dialled
  <1> QED
    BY <1>1, <1>2

LEMMA DialledNext ==
  ASSUME Typed, [Next]_vars, Wired, Behind, OneRings, Dialled
  PROVE  Dialled'
  <1>0. ProviderTyped /\ CallsTyped /\ QueueTyped /\ Outer
    BY TypedSplit DEF ProviderTyped
  <1>1. CASE UNCHANGED <<calls, cmds>>
    BY <1>1, SameDialled DEF AnyCall
  <1>2. CASE UserDials \/ UserHangsUp \/ UserSwitches
    BY <1>2, RequestForms, RequestDialled
  <1>3. CASE World \/ Obey \/ HangupFires \/ UNCHANGED vars
    <2>1. UNCHANGED <<calls, cmds>>
      BY <1>3 DEF World, NewCaller, Ring, CallerGivesUp, FarAlerts, FarResolves, FarAnswers, DialFails, RemoteHangup,
                  Network, Obey, HangupFires, HangupTimeout, vars, provider, chat
    <2> QED
      BY <1>1, <2>1
  <1>4. CASE Read
    <2>1. CASE ReadRing
      <3>1. UNCHANGED cmds /\ Ringing(Head(line).known)
        BY <2>1 DEF ReadRing, chat
      <3>2. UNCHANGED calls
        BY <3>1 DEF Ringing
      <3> QED
        BY <1>1, <3>1, <3>2
    <2>2. CASE ReadNoCarrier
      <3> DEFINE cs == ChangeGroup(calls, "Connected", "HangupRemote")
      <3>1. UNCHANGED chat /\ UNCHANGED cmds
        BY <2>2, ReadNoCarrierIs DEF chat
      <3>2. CASE Leave(cs, usedIds)
        <4>1. Handled(cs)
          BY <1>0, <3>1, <3>2, CarrierLost
        <4> HIDE DEF cs
        <4>2. Follows(cs) /\ \A i \in DOMAIN calls : cs[i].poll = calls[i].poll
          BY <1>0, <4>1, HandledFollows
        <4>3. \A d \in AnyCall' : \E i \in DOMAIN calls : d = cs[i]
          BY <1>0, <3>2, <4>2, LeaveEffect
        <4> QED
          BY <1>0, <3>1, <4>2, <4>3, FollowsDialled
      <3> QED
        BY <1>1, <2>2, <3>1, <3>2, ReadNoCarrierIs
    <2> QED
      BY <1>4, <2>1, <2>2, AnswerDialled DEF Read
  <1>5. CASE DetectFires
    <2>1. DetectTimeout
      BY <1>5 DEF DetectFires
    <2>2. CASE AnyCall' = AnyCall \cup {AnnouncedCall(incomingId)} /\ UNCHANGED chat
      <3>1. AnnouncedCall(incomingId).state = "Incoming" /\ UNCHANGED cmds
        BY <2>2 DEF AnnouncedCall, chat
      <3>2. \A d \in AnyCall' : d.state = "Dialing" =>
           \E c \in AnyCall : c.key = d.key /\ c.state = "Dialing" /\ (c.poll => d.poll)
        BY <2>2, <3>1
      <3>3. \A j \in DOMAIN cmds : cmds[j].slot \in DialSlots =>
           \E k \in DOMAIN cmds' : cmds'[k].slot \in DialSlots /\ cmds'[k].key = cmds[j].key
        BY <3>1
      <3> QED
        BY <3>2, <3>3, DialledKept
    <2>3. CASE Chat(<<ClccQuestion>>) /\ AnyCall' = AnyCall
      BY <1>0, <2>3, ClccQuestionIs, ChatKeeps, SameDialled
    <2> QED
      BY <1>0, <2>1, <2>2, <2>3, DetectEffect
  <1>6. CASE MissedFires
    <2> DEFINE cs == Missed(calls)
    <2>1. Handled(cs) /\ Leave(cs, usedIds) /\ UNCHANGED chat
      BY <1>0, <1>6, MissedEffect DEF MissedFires
    <2> HIDE DEF cs
    <2>2. Follows(cs) /\ \A i \in DOMAIN calls : cs[i].poll = calls[i].poll
      BY <1>0, <2>1, HandledFollows
    <2>3. \A d \in AnyCall' : \E i \in DOMAIN calls : d = cs[i]
      BY <1>0, <2>1, <2>2, LeaveEffect
    <2> QED
      BY <1>0, <2>1, <2>2, <2>3, FollowsDialled DEF chat
  <1>7. CASE DialChecks
    <2>1. PICK c \in AnyCall : DialCheck(c)
      BY <1>7 DEF DialChecks
    <2>2. /\ Follows(calls')
          /\ \A i \in DOMAIN calls : calls'[i].poll = IF calls[i].key = c.key THEN FALSE ELSE calls[i].poll
          /\ \A d \in AnyCall' : \E i \in DOMAIN calls : d = calls'[i]
          /\ Chat(<<DialQuestion(c)>>)
      BY <1>0, <2>1, DialCheckEffect
    <2>3. c \in Call
      BY <1>0, CallsAre
    <2>4. /\ DialQuestion(c) \in Commands /\ DialQuestion(c).slot \in DialSlots /\ DialQuestion(c).key = c.key
      BY <2>3, DialQuestionIs
    <2>5. /\ \A j \in DOMAIN cmds : \E k \in DOMAIN cmds' : cmds'[k] = cmds[j]
          /\ \E k \in DOMAIN cmds' : cmds'[k] = DialQuestion(c)
      BY <1>0, <2>2, <2>4, ChatOne, Zenon
    <2>6. ASSUME NEW d \in AnyCall', d.state = "Dialing", ~d.poll
          PROVE  \E k \in DOMAIN cmds' : cmds'[k].slot \in DialSlots /\ cmds'[k].key = d.key
      <3>1. PICK i \in DOMAIN calls : d = calls'[i]
        BY <2>2
      <3>2. d.key = calls[i].key /\ calls[i].state = "Dialing" /\ calls[i] \in AnyCall
        BY <1>0, <2>2, <2>6, <3>1, CallsAre DEF Follows
      <3>3. CASE calls[i].key = c.key
        BY <2>4, <2>5, <3>2, <3>3
      <3>4. CASE calls[i].key # c.key
        <4>1. ~calls[i].poll
          BY <2>2, <2>6, <3>1, <3>4
        <4>2. PICK j \in DOMAIN cmds : cmds[j].slot \in DialSlots /\ cmds[j].key = d.key
          BY <3>2, <4>1 DEF Dialled
        <4> QED
          BY <2>5, <4>2
      <3> QED
        BY <3>3, <3>4
    <2> QED
      BY <2>6 DEF Dialled
  <1> QED
    BY <1>2, <1>3, <1>4, <1>5, <1>6, <1>7 DEF Next, Answering, Clock

-----------------------------------------------------------------------------
\* What a step is while nothing has gone amiss

ProviderRests == UNCHANGED <<calls, usedIds, ring, hangup, chat>>

Idle == UNCHANGED <<calls, usedIds, incomingId, detect, cmds, wire, line, far>> /\ (hangup' => hangup)

Dials == Settled /\ Asked /\ Dial /\ ~(UNCHANGED provider)
\* The requests that change no group, or one the modem changes, too
HangsUp(c) ==
  \/ HangupCall(c) \/ HangupActiveGroup(c) \/ HangupHeldGroup(c) \/ HangupGroupBesideIncoming(c)
  \/ Reject(c) \/ (Transfer(c) /\ c.state = "Incoming")
Switches(c) ==
  \/ Hold(c) \/ ActivateGroup(c) \/ Join(c) \/ Detach(c)
  \/ (ActivateCall(c) /\ (c.state = "Hold" \/ OtherActiveCalls(c.key)))
Requests == Settled /\ Asked /\ \E c \in AnyCall : HangsUp(c) \/ Accept(c) \/ Switches(c)

Rings ==
  /\ ProviderRests /\ UNCHANGED far /\ With("incoming") # {}
  /\ \E x \in Lines : x.kind = "ring" /\ line' = Append(line, x)
Comes ==
  /\ Settled /\ ProviderRests /\ UNCHANGED line /\ With("incoming") = {} /\ Room
  /\ far' = far \cup {FarCall(FreeId, "incoming")}
Goes == Settled /\ ProviderRests /\ UNCHANGED line /\ far' = far \ With("incoming")
Connects ==
  /\ Settled /\ ProviderRests /\ UNCHANGED line
  /\ far' = Moved(With("dialing") \cup With("alerting"), "active")
Drops ==
  /\ Settled /\ ProviderRests /\ ~hangup
  /\ line' = Append(line, NoCarrier)
  /\ \E f \in far : With("active") = {f} /\ far' = far \ {f}

Obeys == Obey /\ ~adrift'
Reads(A) == A /\ UNCHANGED far
DetectStep == DetectTimeout /\ UNCHANGED far
MissedStep == MissedTimeout /\ UNCHANGED far /\ Quiet /\ With("incoming") = {} /\ ~detect
DialStep == UNCHANGED far /\ \E c \in AnyCall : DialCheck(c)

Step ==
  \/ Idle \/ Dials \/ Requests
  \/ Rings \/ Comes \/ Goes \/ Connects \/ Drops
  \/ Obeys \/ Reads(ReadRing) \/ Reads(ReadAnswer) \/ Reads(ReadNoCarrier)
  \/ DetectStep \/ MissedStep \/ DialStep

LEMMA RequestKinds ==
  ASSUME ~adrift'
  PROVE  /\ UserDials => Dials \/ Idle
         /\ UserHangsUp => Requests
         /\ UserSwitches => Requests
  <1>2. ASSUME UserDials PROVE Dials \/ Idle
    <2>1. Settled /\ Asked /\ Dial
      BY <1>2 DEF UserDials, Request, Asked
    <2>2. UNCHANGED provider => Idle
      BY <2>1 DEF provider, ring, chat, Idle, Asked
    <2> QED
      BY <2>1, <2>2 DEF Dials
  <1>3. ASSUME UserHangsUp PROVE Requests
    <2> PICK c \in AnyCall :
          \/ Request(HangupCall(c), TRUE)
          \/ Request(HangupActiveGroup(c), TRUE)
          \/ Request(HangupDialingBesideIncoming(c), FALSE)
          \/ Request(HangupHeldGroup(c), TRUE)
          \/ Request(HangupGroupBesideIncoming(c), TRUE)
          \/ Request(Reject(c), TRUE)
      BY <1>3 DEF UserHangsUp
    <2>1. /\ Settled /\ Asked
          /\ \/ HangupCall(c) \/ HangupActiveGroup(c) \/ HangupHeldGroup(c)
             \/ HangupGroupBesideIncoming(c) \/ Reject(c)
      <3>1. ~Request(HangupDialingBesideIncoming(c), FALSE)
        BY DEF Request
      <3> QED
        BY <3>1 DEF Request, Asked
    <2>2. HangsUp(c)
      BY <2>1 DEF HangsUp
    <2> QED
      BY <2>1, <2>2 DEF Requests
  <1>4. ASSUME UserSwitches PROVE Requests
    <2> PICK c \in AnyCall :
          \/ Request(Accept(c), TRUE)
          \/ Request(Hold(c), TRUE)
          \/ Request(ActivateCall(c), c.state = "Hold" \/ OtherActiveCalls(c.key))
          \/ Request(ActivateGroup(c), TRUE)
          \/ Request(Join(c), TRUE)
          \/ Request(Detach(c), TRUE)
          \/ Request(Transfer(c), c.state = "Incoming")
      BY <1>4 DEF UserSwitches
    <2>1. /\ Settled /\ Asked
          /\ \/ Accept(c) \/ Hold(c) \/ ActivateGroup(c) \/ Join(c) \/ Detach(c)
             \/ ActivateCall(c) /\ (c.state = "Hold" \/ OtherActiveCalls(c.key))
             \/ Transfer(c) /\ c.state = "Incoming"
      BY DEF Request, Asked
    <2>2. HangsUp(c) \/ Accept(c) \/ Switches(c)
      BY <2>1 DEF HangsUp, Switches
    <2> QED
      BY <2>1, <2>2 DEF Requests
  <1> QED
    BY <1>2, <1>3, <1>4

LEMMA StepKinds ==
  ASSUME Typed, [Next]_vars, InStep', Alerting = FALSE
  PROVE  Step
  <1>0. ~adrift' /\ ~overtaken' /\ detect \in BOOLEAN /\ missed \in BOOLEAN /\ hangup \in BOOLEAN
    BY TypedSplit DEF InStep, ProviderTyped
  <1>1. CASE UNCHANGED vars
    BY <1>1 DEF vars, provider, ring, chat, Idle, Step
  <1>2. CASE UserDials \/ UserHangsUp \/ UserSwitches
    BY <1>0, <1>2, RequestKinds DEF Step
  <1>3. CASE World
    <2>1. CASE NewCaller
      BY <1>0, <2>1 DEF NewCaller, Network, Comes, ProviderRests, FarCall, Step
    <2>2. CASE Ring
      <3>1. PICK known \in BOOLEAN : line' = Append(line, [kind |-> "ring", known |-> known])
        BY <2>2 DEF Ring
      <3>2. [kind |-> "ring", known |-> known] \in Lines
        BY DEF Lines
      <3> QED
        BY <2>2, <3>1, <3>2 DEF Ring, Rings, ProviderRests, Step
    <2>3. CASE CallerGivesUp
      BY <1>0, <2>3 DEF CallerGivesUp, Network, Goes, ProviderRests, Step
    <2>4. ~FarAlerts
      BY DEF FarAlerts
    <2>5. CASE FarAnswers
      BY <1>0, <2>5 DEF FarAnswers, Network, Connects, ProviderRests, Step
    <2>6. ~DialFails
      BY <1>0 DEF DialFails, Network
    <2>7. CASE RemoteHangup
      <3>1. PICK f \in With("active") \cup With("held") :
               /\ far' = far \ {f}
               /\ line' = IF With("active") = {f} THEN Append(line, NoCarrier) ELSE line
               /\ Network(Settled /\ ~hangup /\ With("active") = {f})
        BY <2>7 DEF RemoteHangup
      <3>2. Settled /\ ~hangup /\ With("active") = {f} /\ ProviderRests
        BY <1>0, <3>1 DEF Network, ProviderRests
      <3>3. f \in far
        BY DEF With
      <3> QED
        BY <3>1, <3>2, <3>3 DEF Drops, Step
    <2> QED
      BY <1>3, <2>1, <2>2, <2>3, <2>4, <2>5, <2>6, <2>7 DEF World, FarResolves
  <1>4. CASE Obey
    BY <1>0, <1>4 DEF Obeys, Step
  <1>5. CASE Read
    BY <1>5 DEF Read, Reads, Step
  <1>6. CASE Clock
    <2>1. CASE DetectFires
      BY <2>1 DEF DetectFires, DetectStep, Step
    <2>2. CASE MissedFires
      BY <1>0, <2>2 DEF MissedFires, MissedStep, Step
    <2>3. CASE HangupFires
      BY <2>3 DEF HangupFires, HangupTimeout, ring, chat, Idle, Step
    <2>4. CASE DialChecks
      BY <2>4 DEF DialChecks, DialStep, Step
    <2> QED
      BY <1>6, <2>1, <2>2, <2>3, <2>4 DEF Clock
  <1> QED
    BY <1>1, <1>2, <1>3, <1>4, <1>5, <1>6 DEF Next, Answering

-----------------------------------------------------------------------------
\* When all is settled every call is paired with one of the modem

Paired(c, f) == f.id = c.id /\ f.stat = IF c.state = "Incoming" THEN "incoming" ELSE Stat(c.state)

\* What becomes of a call suits what becomes of its pair
Suits(state, stat) == IF state \in Proper THEN stat = Stat(state) ELSE stat \in {"gone", "incoming"}

LEMMA StatIs ==
  /\ Stat("Dialing") = "dialing" /\ Stat("Connected") = "active" /\ Stat("Hold") = "held"
  /\ \A state : Stat(state) \in {"dialing", "active", "held"}
  BY DEF Stat

LEMMA SettledPairs ==
  ASSUME Settled, Typed
  PROVE  /\ \A c \in AnyCall : \E f \in far : Paired(c, f)
         /\ \A f \in far : \E c \in AnyCall : Paired(c, f)
         /\ HasGroup(calls, "Incoming") <=> With("incoming") # {}
  <1> DEFINE R(i) == [id |-> calls[i].id, stat |-> Stat(calls[i].state)]
  <1>1. {R(i) : i \in CallsWith(FALSE)} = far \ With("incoming")
    BY DEF Settled, Agree
  <1>2. \A i : R(i).id = calls[i].id /\ R(i).stat = Stat(calls[i].state)
    OBVIOUS
  <1> HIDE DEF R
  <1>3. /\ \A i \in DOMAIN calls : calls[i].state = "Incoming" => i \in CallsWith(TRUE)
        /\ \A i \in DOMAIN calls : calls[i].state # "Incoming" => i \in CallsWith(FALSE)
        /\ \A i \in CallsWith(TRUE) : i \in DOMAIN calls /\ calls[i].state = "Incoming"
        /\ \A i \in CallsWith(FALSE) : i \in DOMAIN calls /\ calls[i].state # "Incoming"
    BY DEF CallsWith
  <1>4. {calls[i].id : i \in CallsWith(TRUE)} = {f.id : f \in With("incoming")}
    BY DEF Settled, AgreeOnRinging, IdsRinging
  <1>5. \A f : f \in With("incoming") <=> f \in far /\ f.stat = "incoming"
    BY DEF With
  <1>6. ASSUME NEW c \in AnyCall PROVE \E f \in far : Paired(c, f)
    <2>1. PICK i \in DOMAIN calls : c = calls[i]
      BY DEF AnyCall
    <2>2. CASE c.state = "Incoming"
      <3>1. calls[i].id \in {f.id : f \in With("incoming")}
        BY <1>3, <1>4, <2>1, <2>2
      <3>2. PICK f \in With("incoming") : f.id = calls[i].id
        BY <3>1
      <3> QED
        BY <1>5, <2>1, <2>2, <3>2 DEF Paired
    <2>3. CASE c.state # "Incoming"
      <3>1. R(i) \in far
        BY <1>1, <1>3, <2>1, <2>3
      <3> QED
        BY <1>2, <2>1, <2>3, <3>1 DEF Paired
    <2> QED
      BY <2>2, <2>3
  <1>7. ASSUME NEW f \in far PROVE \E c \in AnyCall : Paired(c, f)
    <2>1. CASE f.stat = "incoming"
      <3>1. f.id \in {calls[i].id : i \in CallsWith(TRUE)}
        BY <1>4, <1>5, <2>1
      <3>2. PICK i \in CallsWith(TRUE) : f.id = calls[i].id
        BY <3>1
      <3> QED
        BY <1>3, <2>1, <3>2 DEF Paired, AnyCall
    <2>2. CASE f.stat # "incoming"
      <3>1. PICK i \in CallsWith(FALSE) : f = R(i)
        BY <1>1, <1>5, <2>2
      <3> QED
        BY <1>2, <1>3, <3>1 DEF Paired, AnyCall
    <2> QED
      BY <2>1, <2>2
  <1>8. HasGroup(calls, "Incoming") => With("incoming") # {}
    BY <1>3, <1>4 DEF HasGroup
  <1>9. With("incoming") # {} => HasGroup(calls, "Incoming")
    BY <1>3, <1>4 DEF HasGroup
  <1> QED
    BY <1>6, <1>7, <1>8, <1>9

-----------------------------------------------------------------------------
\* What a request does to the calls and asks of the modem

Wish(new, s) ==
  /\ new \in Seq(Commands) /\ new # <<>> /\ Chat(new)
  /\ Becoming(s)
  /\ (detect' => detect) /\ UNCHANGED <<incomingId, hangup, line>>
  /\ \A k \in DOMAIN new :
       /\ new[k].at # "CLCC"
       /\ new[k].slot # "clccIncoming"
       /\ k # 1 => new[k].at = "CHLD1x"
       /\ new[k].at = "CHLD1x" => new[k].slot = "none"

\* The calls that commands behind the first will release
RestOf(new) == {new[k].id : k \in {j \in DOMAIN new : j # 1 /\ new[j].at = "CHLD1x"}}

\* The calls get the states s, and b with OK; those of the modem the stats o
Wished(new, s, b, o) ==
  /\ Wish(new, s)
  /\ Head(new).slot \in Asks => \E d \in AnyCall' : d.key = Head(new).key
  /\ \/ Head(new).at \in {"ATA", "CHLD0", "CTFR"}
     \/ Head(new).slot = "acceptDone"
     \/ \A c \in AnyCall : c.state = "Incoming" => s[c] = "Incoming"
  /\ \A c \in AnyCall : s[c] = "Incoming" => c.state = "Incoming"
  /\ Head(new).slot \in Swaps => AnyCall' = AnyCall
  /\ \A c \in AnyCall, d \in AnyCall' : d.key = c.key => Result(Head(new), d)' = b[c]
  /\ \A c \in AnyCall : b[c] \in Proper => s[c] \in States
  /\ \A c \in AnyCall, f \in far : Paired(c, f) => Suits(b[c], o[f])
  /\ \A g : g \in Obeyed(Sent(Head(new))) /\ g.id \notin RestOf(new)
              <=> \E f \in far : o[f] # "gone" /\ g = FarCall(f.id, o[f])

LEMMA NoRest ==
  ASSUME NEW command
  PROVE  RestOf(<<command>>) = {}
  BY DEF RestOf

LEMMA ResultPlain ==
  ASSUME NEW command, command.slot \in {"none", "acceptDone", "clccIncoming", "clccDialCheck", "dialRequestDone"}
  PROVE  /\ \A c : Result(command, c) = c.state
         /\ \A c : Result(command, c)' = c.state
  BY DEF Result, Swaps

LEMMA SentIs ==
  /\ \A at, id : Sent(Plain(at, id)).at = at /\ Sent(Plain(at, id)).id = id
  /\ \A at, id : Plain(at, id).at = at /\ Plain(at, id).id = id /\ Plain(at, id).slot = "none"
  /\ \A command : Sent(command).at = command.at /\ Sent(command).id = command.id
  BY DEF Sent, Plain, Command

\* One command that ends calls
LEMMA EndWished ==
  ASSUME ProviderTyped, far \subseteq FarCalls, NEW at \in {"CHLD0", "CHLD1", "CHLD1x", "CTFR"}, NEW id \in Ids \cup {0},
         NEW cs, Handled(cs), HangupWith(<<Plain(at, id)>>, cs),
         NEW s, \A i \in DOMAIN calls : s[calls[i]] = cs[i].state,
         NEW o, \A f \in far : o[f] = Outcome(Sent(Plain(at, id)), f),
         \/ at \in {"CHLD0", "CTFR"}
         \/ \A c \in AnyCall : c.state = "Incoming" => s[c] = "Incoming",
         \A c \in AnyCall, f \in far : Paired(c, f) => Suits(s[c], o[f])
  PROVE  Wished(<<Plain(at, id)>>, s, s, o)
  <1> DEFINE command == Plain(at, id)
             new == <<command>>
  <1>0. CallsTyped /\ QueueTyped /\ detect \in BOOLEAN
    BY DEF ProviderTyped
  <1>1. PlainOnly(new) /\ new # <<>>
    BY OnePlain
  <1>2. /\ command.at = at /\ command.slot = "none"
        /\ Sent(command).at = at
    BY SentIs
  <1>3. Head(new) = command /\ DOMAIN new = {1} /\ new[1] = command
    OBVIOUS
  <1>4. /\ Chat(new) /\ Leave(cs, usedIds) /\ UNCHANGED <<incomingId, hangup, line>>
        /\ (detect' = FALSE \/ UNCHANGED detect)
    BY DEF HangupWith, RingTimersStopped
  <1>5. Becoming(s)
    BY <1>0, <1>4, HandledFollows, LeaveBecomes
  <1>6. \A c \in AnyCall : \E i \in DOMAIN calls : c = calls[i]
    BY DEF AnyCall
  <1>7. \A c \in AnyCall : s[c] = "Incoming" => c.state = "Incoming"
    BY <1>6 DEF Handled
  <1>8. \A c \in AnyCall, d \in AnyCall' : d.key = c.key => Result(command, d)' = s[c]
    <2>1. \A d : Result(command, d)' = d.state
      BY <1>2, ResultPlain
    <2>2. ASSUME NEW c \in AnyCall, NEW d \in AnyCall', d.key = c.key PROVE d.state = s[c]
      <3>1. PICK e \in AnyCall : d.key = e.key /\ d.state = s[e]
        BY <1>5 DEF Becoming
      <3>2. e = c
        BY <1>0, <2>2, <3>1, CallsAre
      <3> QED
        BY <3>1, <3>2
    <2> QED
      BY <2>1, <2>2
  <1>9. \A c \in AnyCall : s[c] \in Proper => s[c] \in States
    BY DEF Proper, States
  <1>10. \A g : g \in Obeyed(Sent(command)) <=> \E f \in far : o[f] # "gone" /\ g = FarCall(f.id, o[f])
    <2>1. \A g : g \in Obeyed(Sent(command)) <=>
           \E f \in far : Outcome(Sent(command), f) # "gone" /\ g = FarCall(f.id, Outcome(Sent(command), f))
      BY <1>2, ObeyedAs
    <2> QED
      BY <2>1
  <1>11. RestOf(new) = {}
    BY NoRest
  <1>12. Wish(new, s)
    <2>1. \A k \in DOMAIN new : k = 1 /\ new[k].at # "CLCC" /\ new[k].slot = "none"
      BY <1>2, <1>3
    <2>2. new \in Seq(Commands)
      BY <1>1 DEF PlainOnly
    <2>3. detect' => detect
      BY <1>4
    <2> HIDE DEF new
    <2> QED
      BY <1>1, <1>4, <1>5, <2>1, <2>2, <2>3 DEF Wish
  <1>13. command.slot \notin Asks /\ command.slot \notin Swaps
    BY <1>2 DEF Asks, Swaps
  <1> HIDE DEF command
  <1>14. Head(new) = command
    OBVIOUS
  <1> HIDE DEF new
  <1> QED
    BY <1>2, <1>7, <1>8, <1>9, <1>10, <1>11, <1>12, <1>13, <1>14 DEF Wished, new, command

\* One command that leaves the calls alone until OK
LEMMA AskWished ==
  ASSUME ProviderTyped, far \subseteq FarCalls, NEW c0 \in AnyCall, NEW command, Question(command, c0), command.slot \in Asks,
         command.at \notin {"CHLD1x", "CLCC", "ATD"},
         Chat(<<command>>), UNCHANGED <<calls, usedIds, ring, hangup, line>>,
         NEW s, \A c \in AnyCall : s[c] = c.state,
         NEW b, \A c \in AnyCall : b[c] = Result(command, c),
         NEW o, \A f \in far : o[f] = Outcome(Sent(command), f),
         \A c \in AnyCall, f \in far : Paired(c, f) => Suits(b[c], o[f])
  PROVE  Wished(<<command>>, s, b, o)
  <1> DEFINE new == <<command>>
  <1>0. CallsTyped /\ QueueTyped
    BY DEF ProviderTyped
  <1>1. command \in Commands /\ command.key = c0.key
    BY DEF Question
  <1>2. new \in Seq(Commands) /\ Head(new) = command /\ DOMAIN new = {1} /\ new[1] = command /\ new # <<>>
    BY <1>1, OneIs
  <1> HIDE DEF new
  <1>3. AnyCall' = AnyCall /\ calls' = calls /\ Chat(new)
    BY DEF AnyCall, new
  <1>4. Becoming(s)
    BY <1>3, SameBecomes
  <1>5. Wish(new, s)
    <2>1. UNCHANGED <<incomingId, hangup, line>> /\ detect' = detect
      BY DEF ring
    <2>2. command.slot # "clccIncoming"
      BY DEF Asks, Swaps
    <2> QED
      BY <1>2, <1>3, <1>4, <2>1, <2>2 DEF Wish
  <1>6. \A c \in AnyCall, d \in AnyCall' : d.key = c.key => Result(command, d)' = b[c]
    <2>1. \A d : Result(command, d)' = Result(command, d)
      BY <1>3 DEF Result, HasGroup
    <2>2. \A c, d \in AnyCall : d.key = c.key => c = d
      BY <1>0, CallsAre
    <2> QED
      BY <1>3, <2>1, <2>2
  <1>7. RestOf(new) = {}
    BY NoRest DEF new
  <1>8. \A g : g \in Obeyed(Sent(command)) <=> \E f \in far : o[f] # "gone" /\ g = FarCall(f.id, o[f])
    <2>1. Sent(command).at = command.at
      BY SentIs
    <2>2. \A g : g \in Obeyed(Sent(command)) <=>
           \E f \in far : Outcome(Sent(command), f) # "gone" /\ g = FarCall(f.id, Outcome(Sent(command), f))
      BY <2>1, ObeyedAs
    <2> QED
      BY <2>2
  <1>9. \A c \in AnyCall : s[c] \in States
    BY <1>0, CallsAre DEF Call
  <1>10. \E d \in AnyCall' : d.key = command.key
    BY <1>1, <1>3
  <1> QED
    BY <1>2, <1>3, <1>5, <1>6, <1>7, <1>8, <1>9, <1>10 DEF Wished, new

LEMMA SettledDistinct ==
  ASSUME Settled, Typed, Owned
  PROVE  \A c, d \in AnyCall : c.id = d.id => c = d
  <1>1. ASSUME NEW c \in AnyCall PROVE c.id # 0
    <2>1. PICK f \in far : Paired(c, f)
      BY SettledPairs
    <2>2. f.id \in Ids
      BY TypedSplit, FarCallIs DEF Outer
    <2>3. 0 \notin Ids
      BY DEF Ids
    <2> QED
      BY <2>1, <2>2, <2>3 DEF Paired
  <1> QED
    BY <1>1 DEF Owned

\* A function of the calls, from what a handler has made of the list
LEMMA StatesOf ==
  ASSUME CallsTyped, NEW cs
  PROVE  \E s : \A i \in DOMAIN calls : s[calls[i]] = cs[i].state
  <1> DEFINE At(c) == CHOOSE i \in DOMAIN calls : calls[i] = c
             s == [c \in AnyCall |-> cs[At(c)].state]
  <1>1. \A i \in DOMAIN calls : At(calls[i]) = i
    <2>1. ASSUME NEW i \in DOMAIN calls PROVE At(calls[i]) = i
      <3>1. At(calls[i]) \in DOMAIN calls /\ calls[At(calls[i])] = calls[i]
        OBVIOUS
      <3> HIDE DEF At
      <3> QED
        BY <3>1 DEF CallsTyped
    <2> QED
      BY <2>1
  <1> HIDE DEF At
  <1>2. \A i \in DOMAIN calls : calls[i] \in AnyCall
    BY CallsAre
  <1>3. \A i \in DOMAIN calls : s[calls[i]] = cs[i].state
    BY <1>1, <1>2
  <1> HIDE DEF s
  <1> QED
    BY <1>3

LEMMA OutcomesOf ==
  ASSUME NEW command
  PROVE  \E o : \A f \in far : o[f] = Outcome(command, f)
  <1> DEFINE o == [f \in far |-> Outcome(command, f)]
  <1>1. \A f \in far : o[f] = Outcome(command, f)
    OBVIOUS
  <1> HIDE DEF o
  <1> QED
    BY <1>1

\* One call goes
LEMMA HangupCallWished ==
  ASSUME Typed, Settled, Owned, NEW c0 \in AnyCall, HangupCall(c0)
  PROVE  \E new, s, b, o : Wished(new, s, b, o)
  <1> DEFINE cs == SetState(calls, c0.key, "HangupLocal")
  <1>0. ProviderTyped /\ CallsTyped /\ far \subseteq FarCalls
    BY TypedSplit DEF ProviderTyped, Outer
  <1>1. HangupWith(<<Plain("CHLD1x", c0.id)>>, cs) /\ c0.state \in {"Connected", "Dialing", "Hold"}
    BY Zenon DEF HangupCall
  <1>2. /\ Handled(cs)
        /\ \A i \in DOMAIN calls : cs[i].state = IF calls[i].key = c0.key THEN "HangupLocal" ELSE calls[i].state
    BY <1>0, EndOne, OverIs
  <1>3. c0.id \in Ids \cup {0} /\ \A c \in AnyCall : c.state \in States
    BY <1>0, CallsAre DEF Call
  <1> HIDE DEF cs
  <1>4. PICK s : \A i \in DOMAIN calls : s[calls[i]] = cs[i].state
    BY <1>0, StatesOf
  <1>5. PICK o : \A f \in far : o[f] = Outcome(Sent(Plain("CHLD1x", c0.id)), f)
    BY OutcomesOf
  <1>6. \A c \in AnyCall : s[c] = IF c = c0 THEN "HangupLocal" ELSE c.state
    <2>1. \A c \in AnyCall : s[c] = IF c.key = c0.key THEN "HangupLocal" ELSE c.state
      BY <1>2, <1>4 DEF AnyCall
    <2>2. \A c \in AnyCall : c.key = c0.key <=> c = c0
      BY <1>0, CallsAre
    <2> QED
      BY <2>1, <2>2
  <1>7. \A f \in far : o[f] = IF f.id = c0.id THEN "gone" ELSE f.stat
    BY <1>5, SentIs DEF Outcome
  <1>8. \A c \in AnyCall, f \in far : Paired(c, f) => Suits(s[c], o[f])
    <2> SUFFICES ASSUME NEW c \in AnyCall, NEW f \in far, Paired(c, f) PROVE Suits(s[c], o[f])
      OBVIOUS
    <2>1. f.id = c0.id <=> c = c0
      BY SettledDistinct DEF Paired
    <2>2. CASE c = c0
      BY <1>6, <1>7, <2>1, <2>2 DEF Suits, Proper
    <2>3. CASE c # c0
      BY <1>3, <1>6, <1>7, <2>1, <2>3 DEF Suits, Proper, Paired, States
    <2> QED
      BY <2>2, <2>3
  <1>9. \A c \in AnyCall : c.state = "Incoming" => s[c] = "Incoming"
    BY <1>1, <1>6
  <1> QED
    BY <1>0, <1>1, <1>2, <1>3, <1>4, <1>5, <1>8, <1>9, EndWished

\* A group goes, or the call that comes in: what it makes of the states of the calls is given
LEMMA GroupWished ==
  ASSUME Typed, Settled, NEW at \in {"CHLD0", "CHLD1", "CTFR"}, NEW cs, Handled(cs),
         HangupWith(<<Plain(at, 0)>>, cs),
         at = "CHLD1" => ~HasGroup(calls, "Incoming"),
         \A i \in DOMAIN calls : calls[i].state \in {"Incoming", "Dialing", "Connected", "Hold"} =>
           cs[i].state = IF at = "CHLD1" THEN IF calls[i].state = "Hold" THEN "Connected" ELSE "HangupLocal"
                         ELSE IF at = "CTFR" \/ HasGroup(calls, "Incoming")
                         THEN IF calls[i].state = "Incoming" THEN "HangupLocal" ELSE calls[i].state
                         ELSE IF calls[i].state = "Hold" THEN "HangupLocal" ELSE calls[i].state
  PROVE  \E new, s, b, o : Wished(new, s, b, o)
  <1>0. ProviderTyped /\ CallsTyped /\ far \subseteq FarCalls /\ 0 \in Ids \cup {0}
    BY TypedSplit DEF ProviderTyped, Outer
  <1>1. \A c \in AnyCall : c.state \in {"Incoming", "Dialing", "Connected", "Hold"}
    BY <1>0, CallsAre DEF Call, States
  <1>2. PICK s : \A i \in DOMAIN calls : s[calls[i]] = cs[i].state
    BY <1>0, StatesOf
  <1>3. PICK o : \A f \in far : o[f] = Outcome(Sent(Plain(at, 0)), f)
    BY OutcomesOf
  <1>4. \A c \in AnyCall :
           s[c] = IF at = "CHLD1" THEN IF c.state = "Hold" THEN "Connected" ELSE "HangupLocal"
                  ELSE IF at = "CTFR" \/ HasGroup(calls, "Incoming")
                  THEN IF c.state = "Incoming" THEN "HangupLocal" ELSE c.state
                  ELSE IF c.state = "Hold" THEN "HangupLocal" ELSE c.state
    <2>1. \A i \in DOMAIN calls : calls[i] \in AnyCall
      BY <1>0, CallsAre
    <2> QED
      BY <1>1, <1>2, <2>1 DEF AnyCall
  <1>5. Taken = IF HasGroup(calls, "Incoming") THEN "incoming" ELSE "held"
    BY SettledPairs DEF Taken
  <1>6. \A f \in far :
           o[f] = IF at = "CHLD1" THEN IF f.stat \in {"active", "dialing", "alerting"} THEN "gone"
                                       ELSE IF f.stat = Taken THEN "active" ELSE f.stat
                  ELSE IF at = "CTFR" THEN IF f.stat = "incoming" THEN "gone" ELSE f.stat
                  ELSE IF f.stat = Taken THEN "gone" ELSE f.stat
    <2>1. Sent(Plain(at, 0)).at = at
      BY SentIs
    <2>2. CASE at = "CHLD1"
      BY <1>3, <2>1, <2>2 DEF Outcome
    <2>3. CASE at = "CTFR"
      BY <1>3, <2>1, <2>3 DEF Outcome
    <2>4. CASE at = "CHLD0"
      BY <1>3, <2>1, <2>4 DEF Outcome
    <2> QED
      BY <2>2, <2>3, <2>4
  <1>7. ASSUME NEW c \in AnyCall, NEW f \in far, Paired(c, f) PROVE Suits(s[c], o[f])
    <2>1. c.state = "Incoming" => HasGroup(calls, "Incoming")
      BY DEF AnyCall, HasGroup
    <2>2. CASE c.state = "Incoming"
      <3>1. f.stat = "incoming"
        BY <1>7, <2>2 DEF Paired
      <3> QED
        BY <1>4, <1>5, <1>6, <2>1, <2>2, <3>1 DEF Suits, Proper
    <2>3. CASE c.state = "Dialing"
      <3>1. f.stat = "dialing"
        BY <1>7, <2>3, StatIs DEF Paired
      <3> QED
        BY <1>4, <1>5, <1>6, <2>3, <3>1, StatIs DEF Suits, Proper
    <2>4. CASE c.state = "Connected"
      <3>1. f.stat = "active"
        BY <1>7, <2>4, StatIs DEF Paired
      <3> QED
        BY <1>4, <1>5, <1>6, <2>4, <3>1, StatIs DEF Suits, Proper
    <2>5. CASE c.state = "Hold"
      <3>1. f.stat = "held"
        BY <1>7, <2>5, StatIs DEF Paired
      <3> QED
        BY <1>4, <1>5, <1>6, <2>5, <3>1, StatIs DEF Suits, Proper
    <2> QED
      BY <1>1, <2>2, <2>3, <2>4, <2>5
  <1>8. at \in {"CHLD0", "CTFR"} \/ \A c \in AnyCall : c.state = "Incoming" => s[c] = "Incoming"
    BY DEF AnyCall, HasGroup
  <1> QED
    BY <1>0, <1>2, <1>3, <1>7, <1>8, EndWished

LEMMA GroupsWished ==
  ASSUME Typed, Settled, OneRings, NEW c0 \in AnyCall,
         \/ HangupActiveGroup(c0) \/ HangupHeldGroup(c0) \/ Reject(c0)
         \/ (Transfer(c0) /\ c0.state = "Incoming")
  PROVE  \E new, s, b, o : Wished(new, s, b, o)
  <1>0. CallsTyped
    BY TypedSplit DEF ProviderTyped
  <1>1. CASE HangupActiveGroup(c0)
    <2>1. HangupWith(<<Plain("CHLD1", 0)>>, ActiveReleased) /\ ~HasGroup(calls, "Incoming")
      BY <1>1, Zenon DEF HangupActiveGroup, ActiveReleased
    <2>2. /\ Handled(ActiveReleased)
          /\ \A i \in DOMAIN calls :
              ActiveReleased[i].state = IF calls[i].state = "Hold" THEN "Connected" ELSE "HangupLocal"
      BY <1>0, <2>1, ActiveReleasedIs
    <2> QED
      BY <2>1, <2>2, GroupWished
  <1>2. CASE HangupHeldGroup(c0)
    <2> DEFINE cs == ChangeGroup(calls, "Hold", "HangupLocal")
    <2>1. HangupWith(<<Plain("CHLD0", 0)>>, cs) /\ ~HasGroup(calls, "Incoming")
      BY <1>2, Zenon DEF HangupHeldGroup
    <2>2. /\ Handled(cs)
          /\ \A i \in DOMAIN calls : cs[i].state = IF calls[i].state = "Hold" THEN "HangupLocal" ELSE calls[i].state
      BY <1>0, EndGroup, OverIs
    <2> HIDE DEF cs
    <2> QED
      BY <2>1, <2>2, GroupWished
  <1>3. ASSUME NEW at \in {"CHLD0", "CTFR"}, HangupWith(<<Plain(at, 0)>>, SetState(calls, c0.key, "HangupLocal")),
               c0.state = "Incoming"
        PROVE  \E new, s, b, o : Wished(new, s, b, o)
    <2> DEFINE cs == SetState(calls, c0.key, "HangupLocal")
    <2>1. /\ Handled(cs)
          /\ \A i \in DOMAIN calls : cs[i].state = IF calls[i].key = c0.key THEN "HangupLocal" ELSE calls[i].state
      BY <1>0, EndOne, OverIs
    <2>2. HangupWith(<<Plain(at, 0)>>, cs)
      BY <1>3
    <2> HIDE DEF cs
    <2>3. HasGroup(calls, "Incoming")
      BY <1>3 DEF HasGroup, AnyCall
    <2>4. \A i \in DOMAIN calls : calls[i].key = c0.key <=> calls[i].state = "Incoming"
      <3>1. \A i \in DOMAIN calls : calls[i] \in AnyCall
        BY <1>0, CallsAre
      <3> QED
        BY <1>0, <1>3, <3>1, CallsAre DEF OneRings
    <2> QED
      BY <2>1, <2>2, <2>3, <2>4, GroupWished
  <1>4. CASE Reject(c0)
    <2>1. HangupWith(<<Plain("CHLD0", 0)>>, SetState(calls, c0.key, "HangupLocal")) /\ c0.state = "Incoming"
      BY <1>4, Zenon DEF Reject
    <2> QED
      BY <1>3, <2>1
  <1>5. CASE Transfer(c0) /\ c0.state = "Incoming"
    <2>1. HangupWith(<<Plain("CTFR", 0)>>, SetState(calls, c0.key, "HangupLocal"))
      BY <1>5, Zenon DEF Transfer
    <2> QED
      BY <1>3, <1>5, <2>1
  <1> QED
    BY <1>1, <1>2, <1>4, <1>5

\* The calls of a group are released one by one
LEMMA ReleaseEachIs ==
  ASSUME CallsTyped, NEW state, HasGroup(calls, state)
  PROVE  LET new == ReleaseEach(state) IN
         /\ PlainOnly(new) /\ new # <<>> /\ Head(new) = new[1] /\ 1 \in DOMAIN new
         /\ \A k \in DOMAIN new : new[k].at = "CHLD1x" /\ \E c \in AnyCall : c.state = state /\ new[k].id = c.id
         /\ \A c \in AnyCall : c.state = state => \E k \in DOMAIN new : new[k].id = c.id
  <1> DEFINE group == Group(calls, state)
             new == ReleaseEach(state)
  <1>1. /\ group \in Seq(Call) /\ ToSet(group) = {c \in ToSet(calls) : c.state = state}
    <2>1. calls \in Seq(Call)
      BY DEF CallsTyped
    <2>2. group \in Seq(Call) /\ ToSet(group) = {c \in ToSet(calls) : c.state \in {state}}
      BY <2>1, ThoseProperties DEF Group
    <2> QED
      BY <2>2
  <1>2. PlainOnly(new) /\ new # <<>>
    BY ReleaseEachPlain
  <1>3. AnyCall = ToSet(calls)
    BY CallsAre
  <1>4. DOMAIN new = DOMAIN group /\ \A k \in DOMAIN group : new[k] = Plain("CHLD1x", group[k].id)
    BY DEF ReleaseEach
  <1>5. /\ \A k \in DOMAIN group : group[k] \in AnyCall /\ group[k].state = state
        /\ \A c \in AnyCall : c.state = state => \E k \in DOMAIN group : group[k] = c
    BY <1>1, <1>3 DEF ToSet
  <1>6. Head(new) = new[1] /\ 1 \in DOMAIN new
    <2>1. new \in Seq(Commands) /\ new # <<>>
      BY <1>2 DEF PlainOnly
    <2> HIDE DEF new
    <2> QED
      BY <2>1, TailIs
  <1> HIDE DEF group, new
  <1>7. \A k \in DOMAIN group : new[k].at = "CHLD1x" /\ new[k].id = group[k].id
    BY <1>4, SentIs
  <1>8. \A k \in DOMAIN new : new[k].at = "CHLD1x" /\ \E c \in AnyCall : c.state = state /\ new[k].id = c.id
    BY <1>4, <1>5, <1>7
  <1>9. \A c \in AnyCall : c.state = state => \E k \in DOMAIN new : new[k].id = c.id
    BY <1>4, <1>5, <1>7
  <1> QED
    BY <1>2, <1>6, <1>8, <1>9 DEF new

LEMMA BesideWished ==
  ASSUME Typed, Settled, Owned, NEW c0 \in AnyCall, HangupGroupBesideIncoming(c0)
  PROVE  \E new, s, b, o : Wished(new, s, b, o)
  <1> DEFINE cs == ChangeGroup(calls, c0.state, "HangupLocal")
             o == [f \in far |-> IF \E c \in AnyCall : c.state = c0.state /\ c.id = f.id THEN "gone" ELSE f.stat]
  <1>0. ProviderTyped /\ CallsTyped /\ QueueTyped /\ far \subseteq FarCalls
    BY TypedSplit DEF ProviderTyped, Outer
  <1> PICK new : new = ReleaseEach(c0.state)
    OBVIOUS
  <1>1. HangupWith(new, cs) /\ c0.state \in {"Connected", "Hold"}
    BY Zenon DEF HangupGroupBesideIncoming
  <1>2. /\ Handled(cs)
        /\ \A i \in DOMAIN calls : cs[i].state = IF calls[i].state = c0.state THEN "HangupLocal" ELSE calls[i].state
    BY <1>0, EndGroup, OverIs
  <1>3. /\ PlainOnly(new) /\ new # <<>> /\ Head(new) = new[1] /\ 1 \in DOMAIN new
        /\ \A k \in DOMAIN new : new[k].at = "CHLD1x" /\ \E c \in AnyCall : c.state = c0.state /\ new[k].id = c.id
        /\ \A c \in AnyCall : c.state = c0.state => \E k \in DOMAIN new : new[k].id = c.id
    <2>1. HasGroup(calls, c0.state)
      BY DEF HasGroup, AnyCall
    <2> DEFINE each == ReleaseEach(c0.state)
    <2>2. /\ PlainOnly(each) /\ each # <<>> /\ Head(each) = each[1] /\ 1 \in DOMAIN each
          /\ \A k \in DOMAIN each : each[k].at = "CHLD1x" /\ \E c \in AnyCall : c.state = c0.state /\ each[k].id = c.id
          /\ \A c \in AnyCall : c.state = c0.state => \E k \in DOMAIN each : each[k].id = c.id
      BY <1>0, <2>1, ReleaseEachIs, Zenon
    <2>3. new = each
      OBVIOUS
    <2> HIDE DEF each
    <2> QED
      BY <2>2, <2>3
  <1>4. \A f \in far : o[f] = IF \E c \in AnyCall : c.state = c0.state /\ c.id = f.id THEN "gone" ELSE f.stat
    OBVIOUS
  <1> HIDE DEF cs, o
  <1>5. PICK s : \A i \in DOMAIN calls : s[calls[i]] = cs[i].state
    BY <1>0, StatesOf
  <1>6. \A c \in AnyCall : s[c] = IF c.state = c0.state THEN "HangupLocal" ELSE c.state
    BY <1>2, <1>5 DEF AnyCall
  <1>7. Chat(new) /\ Leave(cs, usedIds) /\ UNCHANGED <<incomingId, hangup, line>> /\ (detect' => detect)
    <2>1. Chat(new) /\ Leave(cs, usedIds) /\ UNCHANGED <<incomingId, hangup, line>>
      BY <1>1 DEF HangupWith
    <2>2. detect' = FALSE \/ UNCHANGED detect
      BY <1>1 DEF HangupWith, RingTimersStopped
    <2> QED
      BY <2>1, <2>2
  <1>8. Becoming(s)
    BY <1>0, <1>2, <1>5, <1>7, HandledFollows, LeaveBecomes
  <1>9. /\ new \in Seq(Commands) /\ \A k \in DOMAIN new : new[k].slot = "none"
    BY <1>3 DEF PlainOnly
  <1>10. Wish(new, s)
    BY <1>3, <1>7, <1>8, <1>9 DEF Wish
  <1>11. \A c \in AnyCall, d \in AnyCall' : d.key = c.key => Result(Head(new), d)' = s[c]
    <2>1. \A d : Result(Head(new), d)' = d.state
      BY <1>3, <1>9, ResultPlain
    <2>2. ASSUME NEW c \in AnyCall, NEW d \in AnyCall', d.key = c.key PROVE d.state = s[c]
      <3>1. PICK e \in AnyCall : d.key = e.key /\ d.state = s[e]
        BY <1>8 DEF Becoming
      <3>2. e = c
        BY <1>0, <2>2, <3>1, CallsAre
      <3> QED
        BY <3>1, <3>2
    <2> QED
      BY <2>1, <2>2
  <1>12. \A c \in AnyCall : c.state \in {"Incoming", "Dialing", "Connected", "Hold"}
    BY <1>0, CallsAre DEF Call, States
  <1>13. ASSUME NEW c \in AnyCall, NEW f \in far, Paired(c, f) PROVE Suits(s[c], o[f])
    <2>1. \A d \in AnyCall : d.id = f.id => d = c
      BY <1>13, SettledDistinct DEF Paired
    <2>2. CASE c.state = c0.state
      BY <1>4, <1>6, <1>13, <2>2 DEF Suits, Proper, Paired
    <2>3. CASE c.state # c0.state
      BY <1>4, <1>6, <1>12, <1>13, <2>1, <2>3 DEF Suits, Proper, Paired
    <2> QED
      BY <2>2, <2>3
  <1>14. ASSUME NEW g
         PROVE  g \in Obeyed(Sent(Head(new))) /\ g.id \notin RestOf(new)
                  <=> \E f \in far : o[f] # "gone" /\ g = FarCall(f.id, o[f])
    <2>1. Obeyed(Sent(Head(new))) = {f \in far : f.id # new[1].id}
      <3>1. Sent(Head(new)).at = "CHLD1x" /\ Sent(Head(new)).id = new[1].id
        BY <1>3, SentIs
      <3> QED
        BY <3>1 DEF Obeyed
    <2>2. \A x : (x # new[1].id /\ x \notin RestOf(new)) <=> \A k \in DOMAIN new : new[k].id # x
      BY <1>3 DEF RestOf
    <2>3. \A f \in far : (\A k \in DOMAIN new : new[k].id # f.id) <=> o[f] # "gone"
      <3>1. \A f \in far : f.stat # "gone"
        BY <1>0, FarCallIs DEF Stats
      <3> QED
        BY <1>3, <1>4, <3>1
    <2>4. \A f \in far : o[f] # "gone" => FarCall(f.id, o[f]) = f
      BY <1>0, <1>4, FarCallIs
    <2> QED
      BY <2>1, <2>2, <2>3, <2>4
  <1>15. Head(new).slot = "none"
    BY <1>3, <1>9
  <1>16. "none" \notin Asks /\ "none" \notin Swaps
    BY DEF Asks, Swaps
  <1>17. \A c \in AnyCall : /\ s[c] = "Incoming" <=> c.state = "Incoming"
                            /\ s[c] \in Proper => s[c] \in States
    BY <1>1, <1>6 DEF Proper, States
  <1>18. Wished(new, s, s, o)
    BY <1>10, <1>11, <1>13, <1>14, <1>15, <1>16, <1>17 DEF Wished
  <1> QED
    BY <1>18

LEMMA AcceptWished ==
  ASSUME Typed, Settled, OneRings, NEW c0 \in AnyCall, Accept(c0)
  PROVE  \E new, s, b, o : Wished(new, s, b, o)
  <1> DEFINE cs == Accepted(calls, c0.key)
             others == HasGroup(calls, "Connected") \/ HasGroup(calls, "Hold")
  <1>0. ProviderTyped /\ CallsTyped /\ QueueTyped /\ far \subseteq FarCalls /\ c0 \in Call /\ c0.key \in Nat
    BY TypedSplit, CallsAre DEF ProviderTyped, Outer, Call
  <1> PICK at : at = IF others THEN "CHLD2" ELSE "ATA"
    OBVIOUS
  <1> DEFINE command == Command(at, 0, "acceptDone", c0.key)
             new == <<command>>
  <1>1. /\ c0.state = "Incoming" /\ detect' = FALSE /\ calls' = cs /\ Chat(new)
        /\ UNCHANGED <<incomingId, hangup, line>>
    BY Zenon DEF Accept, Accepted
  <1>2. command \in Commands /\ command.at = (IF others THEN "CHLD2" ELSE "ATA") /\ command.slot = "acceptDone"
    <2>1. at \in Ats /\ 0 \in Ids \cup {0} /\ "acceptDone" \in Slots
      BY DEF Ats, Slots
    <2> DEFINE key == c0.key
    <2>2. key \in Nat
      BY <1>0
    <2> HIDE DEF key
    <2>3. /\ Command(at, 0, "acceptDone", key) \in Commands
          /\ Command(at, 0, "acceptDone", key).at = at
          /\ Command(at, 0, "acceptDone", key).slot = "acceptDone"
      BY <2>1, <2>2, CommandIs
    <2>4. command = Command(at, 0, "acceptDone", key)
      BY DEF key
    <2> QED
      BY <2>3, <2>4
  <1>3. /\ Follows(cs)
        /\ \A i \in DOMAIN calls :
              cs[i].state = IF calls[i].key = c0.key THEN "Connected"
                               ELSE IF calls[i].state = "Connected" THEN "Hold" ELSE calls[i].state
    <2>1. \A i \in DOMAIN calls : calls[i].key = c0.key => calls[i].state # "Dialing"
      <3>1. \A i \in DOMAIN calls : calls[i].key = c0.key => calls[i] = c0
        BY <1>0, CallsAre
      <3> QED
        BY <1>1, <3>1
    <2> QED
      BY <1>0, <2>1, AcceptedIs
  <1>4. /\ \A d \in AnyCall' : \E i \in DOMAIN calls : d = cs[i]
        /\ \A i \in DOMAIN calls : cs[i] \in AnyCall'
    BY <1>1, <1>3 DEF AnyCall, Follows
  <1> HIDE DEF cs, command, others
  <1>5. PICK s : \A i \in DOMAIN calls : s[calls[i]] = cs[i].state
    BY <1>0, StatesOf
  <1>6. PICK o : \A f \in far : o[f] = Outcome(Sent(command), f)
    BY OutcomesOf
  <1>7. \A c \in AnyCall : s[c] = IF c.state = "Incoming" THEN "Connected"
                                  ELSE IF c.state = "Connected" THEN "Hold" ELSE c.state
    <2>1. \A c \in AnyCall : s[c] = IF c.key = c0.key THEN "Connected"
                                    ELSE IF c.state = "Connected" THEN "Hold" ELSE c.state
      BY <1>3, <1>5 DEF AnyCall
    <2>2. \A c \in AnyCall : c.key = c0.key <=> c.state = "Incoming"
      BY <1>0, <1>1, CallsAre DEF OneRings
    <2> QED
      BY <2>1, <2>2
  <1>8. Becoming(s)
    BY <1>0, <1>3, <1>4, <1>5, DirectBecomes
  <1>9. new \in Seq(Commands) /\ Head(new) = command /\ DOMAIN new = {1} /\ new[1] = command /\ new # <<>>
    BY <1>2, OneIs
  <1>10. Taken = "incoming"
    BY <1>1, SettledPairs DEF Taken, HasGroup, AnyCall
  <1>11. Sent(command).at = command.at
    BY SentIs
  <1>12. \A c \in AnyCall : c.state \in {"Incoming", "Dialing", "Connected", "Hold"}
    BY <1>0, CallsAre DEF Call, States
  <1>13. ASSUME NEW c \in AnyCall, NEW f \in far, Paired(c, f) PROVE Suits(s[c], o[f])
    <2>1. f.stat = IF c.state = "Incoming" THEN "incoming" ELSE Stat(c.state)
      BY <1>13 DEF Paired
    <2>2. CASE others
      <3>1. o[f] = IF f.stat = "active" THEN "held" ELSE IF f.stat = "incoming" THEN "active" ELSE f.stat
        BY <1>2, <1>6, <1>10, <1>11, <2>2 DEF Outcome
      <3> QED
        BY <1>7, <1>12, <2>1, <3>1, StatIs DEF Suits, Proper
    <2>3. CASE ~others
      <3>1. o[f] = IF f.stat = "incoming" THEN "active" ELSE f.stat
        BY <1>2, <1>6, <1>11, <2>3 DEF Outcome
      <3>2. c.state # "Connected"
        BY <2>3 DEF others, HasGroup, AnyCall
      <3> QED
        BY <1>7, <1>12, <2>1, <3>1, <3>2, StatIs DEF Suits, Proper
    <2> QED
      BY <2>2, <2>3
  <1>14. \A g : g \in Obeyed(Sent(command)) <=> \E f \in far : o[f] # "gone" /\ g = FarCall(f.id, o[f])
    <2>1. \A g : g \in Obeyed(Sent(command)) <=>
           \E f \in far : Outcome(Sent(command), f) # "gone" /\ g = FarCall(f.id, Outcome(Sent(command), f))
      BY <1>0, <1>2, <1>11, ObeyedAs
    <2> QED
      BY <1>6, <2>1
  <1>15. RestOf(new) = {}
    BY NoRest
  <1> HIDE DEF new
  <1>16. Wish(new, s)
    BY <1>1, <1>2, <1>8, <1>9 DEF Wish
  <1>17. \A c \in AnyCall, d \in AnyCall' : d.key = c.key => Result(command, d)' = s[c]
    <2>1. \A d : Result(command, d)' = d.state
      BY <1>2, ResultPlain
    <2>2. ASSUME NEW c \in AnyCall, NEW d \in AnyCall', d.key = c.key PROVE d.state = s[c]
      <3>1. PICK e \in AnyCall : d.key = e.key /\ d.state = s[e]
        BY <1>8 DEF Becoming
      <3>2. e = c
        BY <1>0, <2>2, <3>1, CallsAre
      <3> QED
        BY <3>1, <3>2
    <2> QED
      BY <2>1, <2>2
  <1>18. "acceptDone" \notin Asks /\ "acceptDone" \notin Swaps
    BY DEF Asks, Swaps
  <1>19. \A c \in AnyCall : /\ s[c] = "Incoming" => c.state = "Incoming"
                            /\ s[c] \in Proper => s[c] \in States
    BY <1>7 DEF Proper, States
  <1> QED
    BY <1>2, <1>9, <1>13, <1>14, <1>15, <1>16, <1>17, <1>18, <1>19 DEF Wished

\* A request that OK carries out
LEMMA AskingWished ==
  ASSUME Typed, NEW c0 \in AnyCall,
         NEW at \in {"CHLD2", "CHLD2x", "CHLD3", "CHLD4"}, NEW id \in Ids \cup {0}, NEW slot \in Asks,
         slot \in Swaps => at = "CHLD2",
         Ask(at, id, slot, c0),
         \A command : command.at = at /\ command.id = id /\ command.slot = slot /\ command.key = c0.key =>
           \A c \in AnyCall, f \in far : Paired(c, f) => Suits(Result(command, c), Outcome(Sent(command), f))
  PROVE  \E new, s, b, o : Wished(new, s, b, o)
  <1>0. ProviderTyped /\ CallsTyped /\ far \subseteq FarCalls /\ c0 \in Call /\ c0.key \in Nat
    BY TypedSplit, CallsAre DEF ProviderTyped, Outer, Call
  <1> PICK key : key = c0.key
    OBVIOUS
  <1> DEFINE command == Command(at, id, slot, key)
  <1>1. at \in Ats /\ slot \in Slots /\ slot \in {"acceptDone", "holdRequestDone", "activateSingleRequestDone",
                       "activateMultipleRequestDone", "joinRequestDone", "detachRequestDone"}
    BY DEF Ats, Slots, Asks, Swaps
  <1>2. Question(Command(at, id, slot, c0.key), c0)
    <2>1. slot # "acceptDone" /\ at \notin {"CLCC", "ATD"}
      BY DEF Asks, Swaps
    <2> QED
      BY <1>0, <1>1, <2>1, QuestionIs
  <1>3. Question(command, c0)
    BY <1>2
  <1>4. command.at = at /\ command.id = id /\ command.slot = slot /\ command.key = c0.key
    <2>1. /\ Command(at, id, slot, key).at = at /\ Command(at, id, slot, key).id = id
          /\ Command(at, id, slot, key).slot = slot /\ Command(at, id, slot, key).key = key
      BY DEF Command
    <2> QED
      BY <2>1
  <1>5. Chat(<<command>>) /\ UNCHANGED <<calls, usedIds, ring, hangup, line>>
    <2>1. Chat(<<Command(at, id, slot, c0.key)>>) /\ UNCHANGED <<calls, usedIds, ring, hangup, line>>
      BY Zenon DEF Ask
    <2>2. command = Command(at, id, slot, c0.key)
      OBVIOUS
    <2> HIDE DEF command
    <2> QED
      BY <2>1, <2>2
  <1> HIDE DEF command
  <1>6. \A c \in AnyCall, f \in far : Paired(c, f) => Suits(Result(command, c), Outcome(Sent(command), f))
    BY <1>4
  <1>7. \E s : \A c \in AnyCall : s[c] = c.state
    <2> DEFINE s == [c \in AnyCall |-> c.state]
    <2>1. \A c \in AnyCall : s[c] = c.state
      OBVIOUS
    <2> HIDE DEF s
    <2> QED
      BY <2>1
  <1>8. \E b : \A c \in AnyCall : b[c] = Result(command, c)
    <2> DEFINE b == [c \in AnyCall |-> Result(command, c)]
    <2>1. \A c \in AnyCall : b[c] = Result(command, c)
      OBVIOUS
    <2> HIDE DEF b
    <2> QED
      BY <2>1
  <1>9. PICK s : \A c \in AnyCall : s[c] = c.state
    BY <1>7
  <1>10. PICK b : \A c \in AnyCall : b[c] = Result(command, c)
    BY <1>8
  <1>11. PICK o : \A f \in far : o[f] = Outcome(Sent(command), f)
    BY OutcomesOf
  <1>12. \A c \in AnyCall, f \in far : Paired(c, f) => Suits(b[c], o[f])
    BY <1>6, <1>10, <1>11
  <1>13. command.slot \in Asks /\ command.at \notin {"CHLD1x", "CLCC", "ATD"}
    BY <1>4
  <1>14. Wished(<<command>>, s, b, o)
    BY <1>0, <1>3, <1>5, <1>9, <1>10, <1>11, <1>12, <1>13, AskWished
  <1> QED
    BY <1>14

LEMMA SwitchWished ==
  ASSUME Typed, Settled, Owned, NEW c0 \in AnyCall, Switches(c0)
  PROVE  \E new, s, b, o : Wished(new, s, b, o)
  <1>0. CallsTyped /\ c0 \in Call /\ c0.id \in Ids \cup {0} /\ 0 \in Ids \cup {0}
    BY TypedSplit, CallsAre DEF ProviderTyped, Call
  <1>1. \A c \in AnyCall : c.state \in {"Incoming", "Dialing", "Connected", "Hold"}
    BY <1>0, CallsAre DEF Call, States
  <1>2. Taken = IF HasGroup(calls, "Incoming") THEN "incoming" ELSE "held"
    BY SettledPairs DEF Taken
  <1>3. \A c \in AnyCall : HasGroup(calls, c.state)
    BY DEF HasGroup, AnyCall
  <1>4. \A c \in AnyCall : c.key = c0.key <=> c = c0
    BY <1>0, CallsAre
  <1>5. ASSUME NEW slot \in Swaps, Ask("CHLD2", 0, slot, c0)
        PROVE  \E new, s, b, o : Wished(new, s, b, o)
    <2>1. ASSUME NEW command, command.at = "CHLD2", command.slot = slot,
                 NEW c \in AnyCall, NEW f \in far, Paired(c, f)
          PROVE  Suits(Result(command, c), Outcome(Sent(command), f))
      <3>1. Result(command, c) =
              IF c.state = "Connected" THEN "Hold"
              ELSE IF c.state = (IF HasGroup(calls, "Incoming") THEN "Incoming" ELSE "Hold") THEN "Connected"
              ELSE c.state
        BY <1>5, <2>1 DEF Result, Swaps
      <3>2. Outcome(Sent(command), f) = IF f.stat = "active" THEN "held" ELSE IF f.stat = Taken THEN "active" ELSE f.stat
        BY <2>1, SentIs DEF Outcome
      <3>3. f.stat = IF c.state = "Incoming" THEN "incoming" ELSE Stat(c.state)
        BY <2>1 DEF Paired
      <3> QED
        BY <1>1, <1>2, <1>3, <3>1, <3>2, <3>3, StatIs DEF Suits, Proper
    <2>2. slot \in Asks
      BY DEF Asks
    <2> QED
      BY <1>0, <1>5, <2>1, <2>2, AskingWished
  <1>6. CASE Hold(c0)
    <2>1. Ask("CHLD2", 0, "holdRequestDone", c0)
      BY <1>6, Zenon DEF Hold
    <2> QED
      BY <1>5, <2>1 DEF Swaps
  <1>7. CASE ActivateGroup(c0)
    <2>1. Ask("CHLD2", 0, "activateMultipleRequestDone", c0)
      BY <1>7, Zenon DEF ActivateGroup
    <2> QED
      BY <1>5, <2>1 DEF Swaps
  <1>8. CASE Join(c0)
    <2>1. Ask("CHLD3", 0, "joinRequestDone", c0)
      BY <1>8, Zenon DEF Join
    <2>2. ASSUME NEW command, command.at = "CHLD3", command.slot = "joinRequestDone",
                 NEW c \in AnyCall, NEW f \in far, Paired(c, f)
          PROVE  Suits(Result(command, c), Outcome(Sent(command), f))
      <3>1. Result(command, c) = IF c.state = "Hold" THEN "Connected" ELSE c.state
        BY <2>2 DEF Result, Swaps
      <3>2. Outcome(Sent(command), f) = IF f.stat = "held" THEN "active" ELSE f.stat
        BY <2>2, SentIs DEF Outcome
      <3>3. f.stat = IF c.state = "Incoming" THEN "incoming" ELSE Stat(c.state)
        BY <2>2 DEF Paired
      <3> QED
        BY <1>1, <3>1, <3>2, <3>3, StatIs DEF Suits, Proper
    <2>3. "joinRequestDone" \in Asks /\ "joinRequestDone" \notin Swaps
      BY DEF Asks, Swaps
    <2> QED
      BY <1>0, <2>1, <2>2, <2>3, AskingWished
  <1>9. CASE Detach(c0)
    <2>1. Ask("CHLD4", 0, "detachRequestDone", c0)
      BY <1>9, Zenon DEF Detach
    <2>2. ASSUME NEW command, command.at = "CHLD4", command.slot = "detachRequestDone",
                 NEW c \in AnyCall, NEW f \in far, Paired(c, f)
          PROVE  Suits(Result(command, c), Outcome(Sent(command), f))
      <3>1. Result(command, c) = IF c.state \in {"Connected", "Hold"} THEN "HangupLocal" ELSE c.state
        BY <2>2 DEF Result, Swaps
      <3>2. Outcome(Sent(command), f) = IF f.stat \in {"active", "held"} THEN "gone" ELSE f.stat
        BY <2>2, SentIs DEF Outcome
      <3>3. f.stat = IF c.state = "Incoming" THEN "incoming" ELSE Stat(c.state)
        BY <2>2 DEF Paired
      <3> QED
        BY <1>1, <3>1, <3>2, <3>3, StatIs DEF Suits, Proper
    <2>3. "detachRequestDone" \in Asks /\ "detachRequestDone" \notin Swaps
      BY DEF Asks, Swaps
    <2> QED
      BY <1>0, <2>1, <2>2, <2>3, AskingWished
  <1>10. CASE ActivateCall(c0) /\ (c0.state = "Hold" \/ OtherActiveCalls(c0.key))
    <2>0. c0.state \in {"Hold", "Connected"} /\ ~HasGroup(calls, "Incoming")
      BY <1>10 DEF ActivateCall
    <2>1. ASSUME NEW command, command.slot = "activateSingleRequestDone", command.key = c0.key, NEW c \in AnyCall
          PROVE  Result(command, c) = IF c = c0 THEN "Connected" ELSE IF c.state = "Connected" THEN "Hold" ELSE c.state
      <3>1. Result(command, c) = IF c.key = command.key THEN "Connected" ELSE IF c.state = "Connected" THEN "Hold" ELSE c.state
        BY <2>1 DEF Result, Swaps
      <3> QED
        BY <1>4, <2>1, <3>1
    <2>2. "activateSingleRequestDone" \in Asks /\ "activateSingleRequestDone" \notin Swaps
      BY DEF Asks, Swaps
    <2>3. \A c \in AnyCall : c.state # "Incoming"
      BY <1>3, <2>0
    <2>4. CASE OtherActiveCalls(c0.key)
      <3>1. Ask("CHLD2x", c0.id, "activateSingleRequestDone", c0)
        BY <1>10, <2>4, Zenon DEF ActivateCall
      <3>2. ASSUME NEW command, command.at = "CHLD2x", command.id = c0.id, command.slot = "activateSingleRequestDone",
                   command.key = c0.key, NEW c \in AnyCall, NEW f \in far, Paired(c, f)
            PROVE  Suits(Result(command, c), Outcome(Sent(command), f))
        <4>1. Outcome(Sent(command), f) = IF f.id = c0.id THEN "active" ELSE IF f.stat = "active" THEN "held" ELSE f.stat
          BY <3>2, SentIs DEF Outcome
        <4>2. f.stat = Stat(c.state)
          BY <2>3, <3>2 DEF Paired
        <4>3. f.id = c0.id <=> c = c0
          BY <3>2, SettledDistinct DEF Paired
        <4>4. Result(command, c) = IF c = c0 THEN "Connected" ELSE IF c.state = "Connected" THEN "Hold" ELSE c.state
          BY <2>1, <3>2
        <4> QED
          BY <1>1, <2>3, <4>1, <4>2, <4>3, <4>4, StatIs DEF Suits, Proper
      <3> QED
        BY <1>0, <2>2, <3>1, <3>2, AskingWished
    <2>5. CASE ~OtherActiveCalls(c0.key)
      <3>1. Ask("CHLD2", 0, "activateSingleRequestDone", c0)
        BY <1>10, <2>5, Zenon DEF ActivateCall
      <3>2. \A c \in AnyCall : c # c0 => c.state \notin {"Connected", "Hold"}
        BY <1>4, <2>5 DEF OtherActiveCalls, AnyCall
      <3>3. c0.state = "Hold"
        BY <1>10, <2>5
      <3>4. ASSUME NEW command, command.at = "CHLD2", command.slot = "activateSingleRequestDone",
                   command.key = c0.key, NEW c \in AnyCall, NEW f \in far, Paired(c, f)
            PROVE  Suits(Result(command, c), Outcome(Sent(command), f))
        <4>1. Outcome(Sent(command), f) = IF f.stat = "active" THEN "held" ELSE IF f.stat = "held" THEN "active" ELSE f.stat
          BY <1>2, <2>0, <3>4, SentIs DEF Outcome
        <4>2. f.stat = Stat(c.state)
          BY <2>3, <3>4 DEF Paired
        <4>3. Result(command, c) = IF c = c0 THEN "Connected" ELSE IF c.state = "Connected" THEN "Hold" ELSE c.state
          BY <2>1, <3>4
        <4> QED
          BY <1>1, <2>3, <3>2, <3>3, <4>1, <4>2, <4>3, StatIs DEF Suits, Proper
      <3> QED
        BY <1>0, <2>2, <3>1, <3>4, AskingWished
    <2> QED
      BY <2>4, <2>5
  <1> QED
    BY <1>6, <1>7, <1>8, <1>9, <1>10 DEF Switches

LEMMA RequestWished ==
  ASSUME Typed, Owned, OneRings, Requests
  PROVE  \E new, s, b, o : Wished(new, s, b, o)
  <1>1. PICK c \in AnyCall : HangsUp(c) \/ Accept(c) \/ Switches(c)
    BY DEF Requests
  <1>2. Settled
    BY DEF Requests
  <1>3. CASE HangsUp(c)
    <2>1. CASE HangupCall(c)
      BY <1>2, <2>1, HangupCallWished
    <2>2. CASE HangupGroupBesideIncoming(c)
      BY <1>2, <2>2, BesideWished
    <2>3. CASE \/ HangupActiveGroup(c) \/ HangupHeldGroup(c) \/ Reject(c)
               \/ (Transfer(c) /\ c.state = "Incoming")
      BY <1>2, <2>3, GroupsWished
    <2> QED
      BY <1>3, <2>1, <2>2, <2>3 DEF HangsUp
  <1>4. CASE Accept(c)
    BY <1>2, <1>4, AcceptWished
  <1>5. CASE Switches(c)
    BY <1>2, <1>5, SwitchWished
  <1> QED
    BY <1>1, <1>3, <1>4, <1>5

-----------------------------------------------------------------------------
\* Lines and commands that are out

Carrier ==
  /\ \A i \in DOMAIN line : line[i].kind = "nocarrier" => i = 1
  /\ NoCarrierOut => ~hangup

LEMMA WishedEffect ==
  ASSUME Typed, Settled, Asked, NEW new, NEW s, Wish(new, s)
  PROVE  /\ cmds = <<>> /\ wire = <<>> /\ line = <<>> /\ line' = <<>>
         /\ cmds' = new /\ wire' = <<Sent(Head(new))>> /\ cmds' # <<>> /\ wire' # <<>>
         /\ Head(wire') = Sent(Head(new))
         /\ Head(cmds') = new[1] /\ Head(new) = new[1] /\ 1 \in DOMAIN new /\ Head(new) \in Commands
         /\ ~detect /\ ~detect' /\ far' = far
         /\ UNCHANGED <<incomingId, hangup>>
         /\ ~ClccOut /\ ~ClccOut' /\ ~NoCarrierOut /\ ~NoCarrierOut'
  <1>0. QueueTyped
    BY TypedSplit DEF ProviderTyped
  <1>1. cmds = <<>> /\ wire = <<>> /\ line = <<>> /\ Quiet /\ ~detect /\ far' = far
    BY DEF Settled, Quiet, Asked
  <1>2. /\ new \in Seq(Commands) /\ new # <<>> /\ Chat(new) /\ UNCHANGED <<incomingId, hangup, line>>
        /\ (detect' => detect) /\ \A k \in DOMAIN new : new[k].slot # "clccIncoming"
    BY DEF Wish
  <1>3. cmds' = new /\ wire' = <<Sent(Head(new))>>
    BY <1>0, <1>1, <1>2, RequestWired
  <1>4. Head(new) \in Commands /\ Head(new) = new[1] /\ 1 \in DOMAIN new
    BY <1>2, TailIs
  <1>5. ~ClccOut /\ ~ClccOut' /\ ~NoCarrierOut /\ ~NoCarrierOut'
    BY <1>1, <1>2, <1>3 DEF ClccOut, NoCarrierOut
  <1> QED
    BY <1>1, <1>2, <1>3, <1>4, <1>5

LEMMA DialsEffect ==
  ASSUME Typed, Dials
  PROVE  /\ cmds = <<>> /\ wire = <<>> /\ line = <<>> /\ line' = <<>>
         /\ cmds' = <<DialCommand>> /\ wire' = <<Sent(DialCommand)>>
         /\ DOMAIN cmds' = {1} /\ Head(cmds') = DialCommand /\ cmds'[1] = DialCommand /\ Head(wire') = Sent(DialCommand)
         /\ DialCommand \in Commands /\ DialCommand.at = "ATD" /\ DialCommand.slot = "dialRequestDone"
         /\ cmds' # <<>> /\ wire' # <<>>
         /\ ~detect /\ ~detect' /\ far' = far
         /\ UNCHANGED <<incomingId, hangup>>
         /\ ~ClccOut /\ ~ClccOut' /\ ~NoCarrierOut /\ ~NoCarrierOut'
  <1>0. ProviderTyped /\ QueueTyped
    BY TypedSplit DEF ProviderTyped
  <1>1. cmds = <<>> /\ wire = <<>> /\ line = <<>> /\ Quiet /\ ~detect /\ far' = far
    BY DEF Settled, Quiet, Asked, Dials
  <1>2. /\ DialCommand \in Commands /\ DialCommand.at = "ATD" /\ DialCommand.slot = "dialRequestDone"
        /\ Chat(<<DialCommand>>) /\ UNCHANGED <<ring, hangup, line>>
    BY <1>0, DialEffect DEF Dials
  <1>3. DOMAIN <<DialCommand>> = {1} /\ <<DialCommand>>[1] = DialCommand /\ Head(<<DialCommand>>) = DialCommand
        /\ <<DialCommand>> \in Seq(Commands) /\ <<DialCommand>> # <<>>
    BY <1>2, OneIs
  <1>4. cmds' = <<DialCommand>> /\ wire' = <<Sent(DialCommand)>>
    BY <1>0, <1>1, <1>2, <1>3, RequestWired
  <1>5. ~ClccOut /\ ~ClccOut' /\ ~NoCarrierOut /\ ~NoCarrierOut'
    BY <1>1, <1>2, <1>3, <1>4 DEF ClccOut, NoCarrierOut
  <1>6. UNCHANGED incomingId /\ ~detect'
    BY <1>1, <1>2 DEF ring
  <1> QED
    BY <1>1, <1>2, <1>3, <1>4, <1>5, <1>6

LEMMA CarrierSame ==
  ASSUME Carrier, line' = line, hangup' => hangup
  PROVE  Carrier'
  BY DEF Carrier, NoCarrierOut

LEMMA CarrierLonger ==
  ASSUME Carrier, line \in Seq(Lines), NEW x \in Lines, x.kind # "nocarrier", line' = Append(line, x), hangup' => hangup
  PROVE  Carrier'
  <1>1. \A i \in DOMAIN line' : line'[i].kind = "nocarrier" => i \in DOMAIN line /\ line'[i] = line[i]
    BY LineLonger
  <1> QED
    BY <1>1 DEF Carrier, NoCarrierOut

\* NO CARRIER is the first line or none
LEMMA CarrierShorter ==
  ASSUME Carrier, line \in Seq(Lines), line # <<>>, line' = Tail(line)
  PROVE  Carrier' /\ ~NoCarrierOut'
  <1>1. \A i \in DOMAIN line' : i \in Nat /\ i + 1 \in DOMAIN line /\ line'[i] = line[i + 1]
    BY LineShorter
  <1>2. DOMAIN line' \subseteq Nat \ {0}
    <2>1. line' \in Seq(Lines)
      BY TailIs
    <2> QED
      BY <2>1
  <1>3. \A i \in DOMAIN line' : line'[i].kind # "nocarrier"
    <2>1. ASSUME NEW i \in DOMAIN line', line'[i].kind = "nocarrier" PROVE FALSE
      <3>1. i + 1 \in DOMAIN line /\ line[i + 1].kind = "nocarrier" /\ i \in Nat /\ i # 0
        BY <1>1, <1>2, <2>1
      <3>2. i + 1 = 1
        BY <3>1 DEF Carrier
      <3> QED
        BY <3>1, <3>2
    <2> QED
      BY <2>1
  <1> QED
    BY <1>3 DEF Carrier, NoCarrierOut

LEMMA NoCarrierLast ==
  ASSUME line = <<>>, line' = Append(line, NoCarrier), UNCHANGED hangup, ~hangup
  PROVE  Carrier' /\ NoCarrierOut'
  <1>1. line' = <<NoCarrier>>
    OBVIOUS
  <1>2. DOMAIN line' = {1} /\ line'[1] = NoCarrier
    BY <1>1
  <1>3. NoCarrier.kind = "nocarrier"
    BY DEF NoCarrier
  <1> QED
    BY <1>2, <1>3 DEF Carrier, NoCarrierOut

LEMMA ObeysEffect ==
  ASSUME Typed, Wired, Obeys
  PROVE  /\ cmds # <<>> /\ wire = <<Sent(Head(cmds))>> /\ wire' = <<>> /\ Head(wire) = Sent(Head(cmds))
         /\ Possible(Head(wire)) /\ far' = Obeyed(Head(wire))
         /\ UNCHANGED <<calls, usedIds, ring, hangup, cmds>>
         /\ \E x \in Lines : x.kind = "answer" /\ line' = Append(line, x)
  <1>1. cmds # <<>> /\ wire = <<Sent(Head(cmds))>> /\ wire' = <<>>
        /\ Possible(Sent(Head(cmds))) /\ far' = Obeyed(Sent(Head(cmds)))
    BY ObeyWired DEF Obeys
  <1>2. Head(wire) = Sent(Head(cmds))
    BY <1>1
  <1>3. \E ok \in BOOLEAN, list \in SUBSET FarCalls : line' = Append(line, AnswerLine(ok, list))
    <2>1. far \in SUBSET FarCalls
      BY TypedSplit DEF Outer
    <2>2. line' = Append(line, AnswerLine(TRUE, IF Head(wire).at = "CLCC" THEN far ELSE {}))
          \/ line' = Append(line, AnswerLine(FALSE, {}))
      BY DEF Obeys, Obey
    <2>3. (IF Head(wire).at = "CLCC" THEN far ELSE {}) \in SUBSET FarCalls
      BY <2>1
    <2> QED
      BY <2>2, <2>3
  <1>4. \A ok \in BOOLEAN, list \in SUBSET FarCalls :
           AnswerLine(ok, list) \in Lines /\ AnswerLine(ok, list).kind = "answer"
    BY DEF AnswerLine, Lines
  <1>5. \E x \in Lines : x.kind = "answer" /\ line' = Append(line, x)
    BY <1>3, <1>4
  <1> QED
    BY <1>1, <1>2, <1>5 DEF Obeys, Obey

LEMMA CarrierNext ==
  ASSUME Typed, Wired, Owned, OneRings, Step, Carrier
  PROVE  Carrier'
  <1>0. line \in Seq(Lines) /\ ProviderTyped /\ hangup \in BOOLEAN
    BY TypedSplit DEF Outer, ProviderTyped
  <1>1. CASE Idle
    BY <1>1, CarrierSame DEF Idle
  <1>2. CASE Dials
    BY <1>2, DialsEffect, CarrierSame
  <1>3. CASE Requests
    <2>1. PICK new, s, b, o : Wished(new, s, b, o)
      BY <1>3, RequestWished
    <2>2. UNCHANGED <<hangup, line>>
      BY <2>1 DEF Wished, Wish
    <2> QED
      BY <2>2, CarrierSame
  <1>4. CASE Rings
    <2>1. PICK x \in Lines : x.kind = "ring" /\ line' = Append(line, x)
      BY <1>4 DEF Rings
    <2>2. UNCHANGED hangup
      BY <1>4 DEF Rings, ProviderRests
    <2> QED
      BY <1>0, <2>1, <2>2, CarrierLonger
  <1>5. CASE Comes \/ Goes \/ Connects
    BY <1>5, CarrierSame DEF Comes, Goes, Connects, ProviderRests
  <1>6. CASE Drops
    <2>1. line = <<>> /\ line' = Append(line, NoCarrier) /\ UNCHANGED hangup /\ ~hangup
      BY <1>6 DEF Drops, ProviderRests, Settled, Quiet
    <2> QED
      BY <2>1, NoCarrierLast
  <1>7. CASE Obeys
    <2>1. PICK x \in Lines : x.kind = "answer" /\ line' = Append(line, x)
      BY <1>7, ObeysEffect
    <2>2. UNCHANGED hangup
      BY <1>7, ObeysEffect
    <2> QED
      BY <1>0, <2>1, <2>2, CarrierLonger
  <1>8. CASE Reads(ReadRing) \/ Reads(ReadAnswer) \/ Reads(ReadNoCarrier)
    <2>1. line # <<>> /\ line' = Tail(line)
      BY <1>8 DEF Reads, ReadRing, ReadAnswer, ReadNoCarrier, LineIs
    <2> QED
      BY <1>0, <2>1, CarrierShorter
  <1>9. CASE DetectStep
    BY <1>0, <1>9, DetectEffect, CarrierSame DEF DetectStep
  <1>10. CASE MissedStep
    BY <1>0, <1>10, MissedEffect, CarrierSame DEF MissedStep
  <1>11. CASE DialStep
    <2>1. UNCHANGED <<hangup, line>>
      BY <1>0, <1>11, DialCheckEffect DEF DialStep
    <2> QED
      BY <2>1, CarrierSame
  <1> QED
    BY <1>1, <1>2, <1>3, <1>4, <1>5, <1>6, <1>7, <1>8, <1>9, <1>10, <1>11 DEF Step

LEMMA OwnerAre ==
  /\ \A command : Owner(command) # {} <=> \E c \in AnyCall : c.key = command.key
  /\ \A command : Owner(command)' # {} <=> \E c \in AnyCall' : c.key = command.key
  <1>1. \A command : Owner(command) # {} <=> \E c \in AnyCall : c.key = command.key
    BY DEF Owner, AnyCall
  <1>2. \A command : Owner(command)' # {} <=> \E c \in AnyCall' : c.key = command.key
    BY DEF Owner, AnyCall
  <1> QED
    BY <1>1, <1>2

\* The first of the new queue, as an operator of no primed argument
LEMMA BehindNew ==
  ASSUME NEW q, cmds' = q, q # <<>> /\ Head(q).slot \in Asks => \E c \in AnyCall' : c.key = Head(q).key,
         \A j \in DOMAIN q : j # 1 => q[j].at \in {"CLCC", "CHLD1x"},
         \A j \in DOMAIN q : q[j].at = "CHLD1x" => q[j].slot = "none"
  PROVE  Behind'
  <1>1. cmds' # <<>> /\ Head(cmds').slot \in Asks => Owner(Head(q))' # {}
    BY OwnerAre
  <1>2. Owner(Head(q))' = Owner(Head(cmds))'
    BY DEF Owner
  <1> QED
    BY <1>1, <1>2 DEF Behind

LEMMA BehindSame ==
  ASSUME Behind, UNCHANGED cmds, \A c \in AnyCall : \E d \in AnyCall' : d.key = c.key
  PROVE  Behind'
  <1>1. cmds # <<>> /\ Head(cmds).slot \in Asks => \E c \in AnyCall' : c.key = Head(cmds).key
    BY OwnerAre DEF Behind
  <1> QED
    BY <1>1, BehindNew DEF Behind

\* No command of the queue has a slot that counts on its call
LEMMA BehindPlain ==
  ASSUME cmds' = <<>> \/ (Head(cmds') = cmds'[1] /\ 1 \in DOMAIN cmds'),
         \A j \in DOMAIN cmds' : cmds'[j].at \in {"CLCC", "CHLD1x"} /\ cmds'[j].slot \notin Asks,
         \A j \in DOMAIN cmds' : cmds'[j].at = "CHLD1x" => cmds'[j].slot = "none"
  PROVE  Behind'
  BY DEF Behind

\* The provider asks on its own
LEMMA BehindAsked ==
  ASSUME QueueTyped, Behind, NEW command \in Commands, command.at = "CLCC",
         command.slot \in {"clccIncoming", "clccDialCheck"}, Chat(<<command>>),
         \A c \in AnyCall : \E d \in AnyCall' : d.key = c.key
  PROVE  Behind'
  <1>1. /\ cmds' \in Seq(Commands)
        /\ Len(cmds) \in Nat /\ DOMAIN cmds = 1 .. Len(cmds)
        /\ \A j \in DOMAIN cmds' :
              \/ j \in DOMAIN cmds /\ cmds'[j] = cmds[j]
              \/ j = Len(cmds) + 1 /\ cmds'[j] = command
        /\ cmds # <<>> => Head(cmds') = Head(cmds)
        /\ cmds = <<>> => Head(cmds') = command
    BY ChatOne
  <1>2. \A j \in DOMAIN cmds' : j # 1 => cmds'[j].at \in {"CLCC", "CHLD1x"}
    BY <1>1 DEF Behind
  <1>3. \A j \in DOMAIN cmds' : cmds'[j].at = "CHLD1x" => cmds'[j].slot = "none"
    BY <1>1 DEF Behind
  <1>4. PICK q : q = cmds'
    OBVIOUS
  <1>5. ASSUME Head(q).slot \in Asks PROVE \E c \in AnyCall' : c.key = Head(q).key
    <2>1. cmds # <<>> /\ Head(q) = Head(cmds)
      BY <1>1, <1>4, <1>5 DEF Asks, Swaps
    <2>2. \E c \in AnyCall : c.key = Head(cmds).key
      BY <1>5, <2>1, OwnerAre DEF Behind
    <2> QED
      BY <2>1, <2>2
  <1> QED
    BY <1>2, <1>3, <1>4, <1>5, BehindNew

\* After an answer the command that is out waits for nothing but its answer
LEMMA AnswerPops ==
  ASSUME Typed, Wired, Behind, ReadAnswer
  PROVE  /\ cmds # <<>> /\ wire = <<>> /\ Head(line).kind = "answer"
         /\ \E new \in Seq(Commands) :
              /\ Done(new)
              /\ \A k \in DOMAIN new : new[k].at = "CLCC" /\ new[k].slot = "clccDialCheck"
         /\ \A j \in DOMAIN cmds' : /\ cmds'[j].at \in {"CLCC", "CHLD1x"}
                                    /\ cmds'[j].slot \in {"none", "clccIncoming", "clccDialCheck"}
                                    /\ cmds'[j].at = "CHLD1x" => cmds'[j].slot = "none"
         /\ cmds' = <<>> \/ (Head(cmds') = cmds'[1] /\ 1 \in DOMAIN cmds')
         /\ cmds' \in Seq(Commands)
  <1>0. ProviderTyped /\ QueueTyped /\ cmds # <<>> /\ wire = <<>> /\ Head(line).kind = "answer"
    BY TypedSplit, AnswerRead DEF ProviderTyped, ReadAnswer, LineIs
  <1>1. \E new \in Seq(Commands) :
              /\ Done(new)
              /\ \A k \in DOMAIN new : new[k].at = "CLCC" /\ new[k].slot = "clccDialCheck"
    <2> DEFINE ok == Head(line).ok
               list == Head(line).list
    <2>1. Answer(ok, list) /\ ok \in BOOLEAN /\ list \in SUBSET FarCalls
      BY AnswerRead, LineIsAre, TypedSplit DEF ReadAnswer
    <2> HIDE DEF ok, list
    <2>2. \/ Done(<<>>)
          \/ \E c \in Owner(Head(cmds)) : SlotCalled(c, ok, list)
      BY <1>0, <2>1, AnswerEffect
    <2>3. <<>> \in Seq(Commands) /\ DOMAIN <<>> = {}
      BY NoneIs
    <2>4. ASSUME NEW c \in Owner(Head(cmds)), SlotCalled(c, ok, list)
          PROVE  \E new \in Seq(Commands) :
              /\ Done(new)
              /\ \A k \in DOMAIN new : new[k].at = "CLCC" /\ new[k].slot = "clccDialCheck"
      <3>1. c \in Call
        BY <1>0, OwnerIs DEF ProviderTyped
      <3> DEFINE new == SlotCommands(Head(cmds).slot, c, ok)
      <3>2. Done(new) /\ new \in Seq(Commands)
        BY <2>4 DEF SlotCalled
      <3>3. new = <<>> \/ new = <<DialQuestion(c)>>
        BY <2>1, <3>1, SlotCommandsAre
      <3> HIDE DEF new
      <3>4. \A k \in DOMAIN new : new[k].at = "CLCC" /\ new[k].slot = "clccDialCheck"
        BY <2>3, <3>1, <3>3, DialQuestionIs
      <3> QED
        BY <3>2, <3>4
    <2> QED
      BY <2>2, <2>3, <2>4
  <1>2. PICK more \in Seq(Commands) :
              /\ Done(more)
              /\ \A k \in DOMAIN more : more[k].at = "CLCC" /\ more[k].slot = "clccDialCheck"
    BY <1>1
  <1>3. /\ cmds' \in Seq(Commands)
        /\ Len(cmds) \in Nat /\ DOMAIN cmds = 1 .. Len(cmds)
        /\ \A j \in DOMAIN cmds' :
              \/ j + 1 \in DOMAIN cmds /\ cmds'[j] = cmds[j + 1]
              \/ j + 1 \notin DOMAIN cmds /\ j + 1 - Len(cmds) \in DOMAIN more /\ cmds'[j] = more[j + 1 - Len(cmds)]
    BY <1>0, <1>2, DoneEffect
  <1>4. DOMAIN cmds' \subseteq Nat \ {0}
    BY <1>3
  <1>5. \A j \in DOMAIN cmds : j # 1 =>
           /\ cmds[j].at \in {"CLCC", "CHLD1x"} /\ cmds[j].slot \in {"none", "clccIncoming", "clccDialCheck"}
           /\ cmds[j].at = "CHLD1x" => cmds[j].slot = "none"
    BY <1>0 DEF Behind, QueueTyped, CmdOk
  <1>6. \A j \in DOMAIN cmds' : /\ cmds'[j].at \in {"CLCC", "CHLD1x"}
                                /\ cmds'[j].slot \in {"none", "clccIncoming", "clccDialCheck"}
                                /\ cmds'[j].at = "CHLD1x" => cmds'[j].slot = "none"
    <2> TAKE j \in DOMAIN cmds'
    <2>1. CASE j + 1 \in DOMAIN cmds /\ cmds'[j] = cmds[j + 1]
      <3>1. j + 1 # 1
        BY <1>4
      <3> QED
        BY <1>5, <2>1, <3>1
    <2>2. CASE j + 1 - Len(cmds) \in DOMAIN more /\ cmds'[j] = more[j + 1 - Len(cmds)]
      BY <1>2, <2>2
    <2> QED
      BY <1>3, <2>1, <2>2
  <1>7. cmds' = <<>> \/ (Head(cmds') = cmds'[1] /\ 1 \in DOMAIN cmds')
    BY <1>3, TailIs
  <1>8. cmds' \in Seq(Commands)
    BY <1>3
  <1> QED
    <2>1. /\ cmds # <<>> /\ wire = <<>> /\ Head(line).kind = "answer"
      BY <1>0
    <2> QED
      BY <2>1, <1>1, <1>6, <1>7, <1>8

LEMMA BehindNext ==
  ASSUME Typed, Wired, Owned, OneRings, Step, Behind
  PROVE  Behind'
  <1>0. ProviderTyped /\ QueueTyped /\ CallsTyped
    BY TypedSplit DEF ProviderTyped
  <1>1. UNCHANGED <<calls, cmds>> => Behind'
    BY BehindSame DEF AnyCall
  <1>2. CASE Dials
    <2>1. PICK q : q = <<DialCommand>>
      OBVIOUS
    <2>2. cmds' = q /\ Head(q).slot = "dialRequestDone" /\ DOMAIN q = {1} /\ q[1].at = "ATD"
      BY <1>2, <2>1, DialsEffect
    <2>3. "dialRequestDone" \notin Asks
      BY DEF Asks, Swaps
    <2> QED
      BY <2>2, <2>3, BehindNew
  <1>3. CASE Requests
    <2>1. PICK new, s, b, o : Wished(new, s, b, o)
      BY <1>3, RequestWished
    <2>2. Wish(new, s) /\ (Head(new).slot \in Asks => \E d \in AnyCall' : d.key = Head(new).key)
      BY <2>1 DEF Wished
    <2>3. cmds' = new
      BY <1>3, <2>2, WishedEffect DEF Requests
    <2> QED
      BY <2>2, <2>3, BehindNew DEF Wish
  <1>4. CASE Idle \/ Rings \/ Comes \/ Goes \/ Connects \/ Drops
    BY <1>1, <1>4 DEF Idle, Rings, Comes, Goes, Connects, Drops, ProviderRests, chat
  <1>5. CASE Obeys
    BY <1>1, <1>5, ObeysEffect
  <1>6. CASE Reads(ReadRing)
    <2>1. UNCHANGED <<calls, cmds>>
      BY <1>6 DEF Reads, ReadRing, Ringing, chat
    <2> QED
      BY <1>1, <2>1
  <1>7. CASE Reads(ReadAnswer)
    <2>1. /\ \A j \in DOMAIN cmds' : /\ cmds'[j].at \in {"CLCC", "CHLD1x"}
                                     /\ cmds'[j].slot \in {"none", "clccIncoming", "clccDialCheck"}
                                     /\ cmds'[j].at = "CHLD1x" => cmds'[j].slot = "none"
          /\ cmds' = <<>> \/ (Head(cmds') = cmds'[1] /\ 1 \in DOMAIN cmds')
      BY <1>7, AnswerPops DEF Reads
    <2>2. \A x \in {"none", "clccIncoming", "clccDialCheck"} : x \notin Asks
      BY DEF Asks, Swaps
    <2>3. /\ \A j \in DOMAIN cmds' : cmds'[j].at \in {"CLCC", "CHLD1x"} /\ cmds'[j].slot \notin Asks
          /\ \A j \in DOMAIN cmds' : cmds'[j].at = "CHLD1x" => cmds'[j].slot = "none"
      BY <2>1, <2>2
    <2> QED
      BY <2>1, <2>3, BehindPlain, Zenon
  <1>8. CASE Reads(ReadNoCarrier)
    <2>1. UNCHANGED cmds /\ \A j \in DOMAIN cmds : cmds[j].at = "CLCC"
      BY <1>8, ReadNoCarrierIs DEF Reads, chat
    <2>2. \A j \in DOMAIN cmds : cmds[j].slot \notin Asks
      BY <1>0, <2>1 DEF QueueTyped, CmdOk, Asks, Swaps
    <2>3. cmds' = <<>> \/ (Head(cmds') = cmds'[1] /\ 1 \in DOMAIN cmds')
      BY <1>0, <2>1, TailIs DEF QueueTyped
    <2>4. /\ \A j \in DOMAIN cmds' : cmds'[j].at \in {"CLCC", "CHLD1x"} /\ cmds'[j].slot \notin Asks
          /\ \A j \in DOMAIN cmds' : cmds'[j].at = "CHLD1x" => cmds'[j].slot = "none"
      BY <2>1, <2>2
    <2> QED
      BY <2>3, <2>4, BehindPlain, Zenon
  <1>9. CASE DetectStep
    <2>1. \/ AnyCall' = AnyCall \cup {AnnouncedCall(incomingId)} /\ UNCHANGED chat
          \/ Chat(<<ClccQuestion>>) /\ AnyCall' = AnyCall
      BY <1>0, <1>9, DetectEffect DEF DetectStep
    <2>2. CASE AnyCall' = AnyCall \cup {AnnouncedCall(incomingId)} /\ UNCHANGED chat
      BY <2>2, BehindSame DEF chat
    <2>3. CASE Chat(<<ClccQuestion>>) /\ AnyCall' = AnyCall
      BY <1>0, <2>3, ClccQuestionIs, BehindAsked
    <2> QED
      BY <2>1, <2>2, <2>3
  <1>10. CASE MissedStep
    <2>1. cmds = <<>> /\ UNCHANGED cmds
      BY <1>0, <1>10, MissedEffect DEF MissedStep, Quiet, chat
    <2> QED
      BY <2>1 DEF Behind
  <1>11. CASE DialStep
    <2>1. PICK c \in AnyCall : DialCheck(c)
      BY <1>11 DEF DialStep
    <2>2. /\ Chat(<<DialQuestion(c)>>)
          /\ Follows(calls') /\ \A i \in DOMAIN calls : calls'[i] \in AnyCall'
      BY <1>0, <2>1, DialCheckEffect
    <2>3. \A d \in AnyCall : \E e \in AnyCall' : e.key = d.key
      BY <2>2 DEF Follows, AnyCall
    <2>4. c \in Call
      BY <1>0, CallsAre
    <2> QED
      BY <1>0, <2>2, <2>3, <2>4, DialQuestionIs, BehindAsked
  <1> QED
    BY <1>2, <1>3, <1>4, <1>5, <1>6, <1>7, <1>8, <1>9, <1>10, <1>11 DEF Step

RingOut == \E i \in DOMAIN line : line[i].kind = "ring"

\* While a swap is out no incoming call is found that the provider has not announced
NoSwap ==
  cmds # <<>> /\ Head(cmds).slot \in Swaps =>
    /\ ~detect
    /\ With("incoming") # {} \/ RingOut => HasGroup(calls, "Incoming")

LEMMA GroupIs ==
  /\ \A state : HasGroup(calls, state) <=> \E c \in AnyCall : c.state = state
  /\ \A state : HasGroup(calls, state)' <=> \E c \in AnyCall' : c.state = state
  <1>1. \A state : HasGroup(calls, state) <=> \E c \in AnyCall : c.state = state
    BY DEF HasGroup, AnyCall
  <1>2. \A state : HasGroup(calls, state)' <=> \E c \in AnyCall' : c.state = state
    BY DEF HasGroup, AnyCall
  <1> QED
    BY <1>1, <1>2

LEMMA WithNext ==
  ASSUME UNCHANGED far
  PROVE  \A stat : With(stat)' = With(stat)
  BY DEF With

LEMMA NoSwapSame ==
  ASSUME NoSwap, cmds' # <<>> => cmds # <<>> /\ Head(cmds') = Head(cmds),
         detect' => detect,
         With("incoming")' # {} \/ RingOut' => With("incoming") # {} \/ RingOut,
         HasGroup(calls, "Incoming") => HasGroup(calls, "Incoming")'
  PROVE  NoSwap'
  BY DEF NoSwap

LEMMA NoSwapPlain ==
  ASSUME cmds' = <<>> \/ Head(cmds').slot \notin Swaps
  PROVE  NoSwap'
  BY DEF NoSwap

LEMMA RingLonger ==
  ASSUME line \in Seq(Lines), NEW x \in Lines, x.kind # "ring", line' = Append(line, x)
  PROVE  RingOut' => RingOut
  <1>1. \A i \in DOMAIN line' : \/ i \in DOMAIN line /\ line'[i] = line[i]
                                \/ i = Len(line) + 1 /\ line'[i] = x
    BY LineLonger
  <1> QED
    BY <1>1 DEF RingOut

LEMMA RingShorter ==
  ASSUME line \in Seq(Lines), line # <<>>, line' = Tail(line)
  PROVE  /\ RingOut' => RingOut
         /\ Head(line).kind = "ring" => RingOut
  <1>1. /\ Head(line) = line[1] /\ 1 \in DOMAIN line
        /\ \A i \in DOMAIN line' : i \in Nat /\ i + 1 \in DOMAIN line /\ line'[i] = line[i + 1]
    BY LineShorter
  <1> QED
    BY <1>1 DEF RingOut

LEMMA NoSwapNext ==
  ASSUME Typed, Wired, Owned, OneRings, Behind, Step, NoSwap
  PROVE  NoSwap'
  <1>0. ProviderTyped /\ QueueTyped /\ CallsTyped /\ Outer /\ line \in Seq(Lines) /\ far \subseteq FarCalls
    BY TypedSplit DEF ProviderTyped, Outer
  <1>1. CASE Idle
    <2>1. UNCHANGED <<calls, cmds, detect, line, far>>
      BY <1>1 DEF Idle
    <2> QED
      BY <2>1 DEF NoSwap, RingOut, With, HasGroup
  <1>2. CASE Dials
    <2>1. Head(cmds').slot = "dialRequestDone"
      BY <1>2, DialsEffect
    <2> QED
      BY <2>1, NoSwapPlain DEF Swaps
  <1>3. CASE Requests
    <2>1. PICK new, s, b, o : Wished(new, s, b, o)
      BY <1>3, RequestWished
    <2>2. Settled /\ Asked /\ Wish(new, s) /\ (Head(new).slot \in Swaps => AnyCall' = AnyCall)
      BY <1>3, <2>1 DEF Wished, Requests
    <2>3. cmds' = new /\ ~detect' /\ far' = far /\ line' = <<>>
      BY <2>2, WishedEffect
    <2>4. CASE Head(new).slot \in Swaps
      <3>1. With("incoming")' # {} => HasGroup(calls, "Incoming")
        BY <2>2, <2>3, SettledPairs, WithNext
      <3>2. HasGroup(calls, "Incoming") => HasGroup(calls, "Incoming")'
        BY <2>2, <2>4, GroupIs
      <3>3. ~RingOut'
        BY <2>3 DEF RingOut
      <3> QED
        BY <2>3, <3>1, <3>2, <3>3 DEF NoSwap
    <2> QED
      BY <2>3, <2>4, NoSwapPlain
  <1>4. CASE Rings
    <2>1. UNCHANGED <<calls, cmds, detect, far>> /\ With("incoming") # {}
      BY <1>4 DEF Rings, ProviderRests, chat, ring
    <2>2. HasGroup(calls, "Incoming") => HasGroup(calls, "Incoming")'
      BY <2>1 DEF HasGroup
    <2> QED
      BY <2>1, <2>2, NoSwapSame
  <1>5. CASE Comes \/ Goes \/ Connects \/ Drops
    <2>1. cmds = <<>> /\ UNCHANGED cmds
      BY <1>5 DEF Comes, Goes, Connects, Drops, Settled, Quiet, ProviderRests, chat
    <2> QED
      BY <2>1, NoSwapPlain
  <1>6. CASE Obeys
    <2>1. /\ far' = Obeyed(Head(wire)) /\ UNCHANGED <<calls, ring, cmds>>
          /\ \E x \in Lines : x.kind = "answer" /\ line' = Append(line, x)
      BY <1>6, ObeysEffect
    <2>2. RingOut' => RingOut
      BY <1>0, <2>1, RingLonger
    <2>3. With("incoming")' # {} => With("incoming") # {}
      BY <1>0, <2>1, ObeyedIncoming DEF With
    <2>4. HasGroup(calls, "Incoming") => HasGroup(calls, "Incoming")'
      BY <2>1 DEF HasGroup
    <2> QED
      BY <2>1, <2>2, <2>3, <2>4, NoSwapSame DEF ring
  <1>7. CASE Reads(ReadRing)
    <2>1. /\ line # <<>> /\ Head(line).kind = "ring" /\ line' = Tail(line) /\ UNCHANGED <<calls, cmds, far>>
          /\ HasGroup(calls, "Incoming") => UNCHANGED detect
      BY <1>7 DEF Reads, ReadRing, LineIs, Ringing, chat
    <2>2. RingOut
      BY <1>0, <2>1, RingShorter
    <2>3. CASE cmds # <<>> /\ Head(cmds).slot \in Swaps
      <3>1. HasGroup(calls, "Incoming") /\ ~detect
        BY <2>2, <2>3 DEF NoSwap
      <3>2. ~detect' /\ HasGroup(calls, "Incoming")'
        BY <2>1, <3>1 DEF HasGroup
      <3> QED
        BY <3>2 DEF NoSwap
    <2> QED
      BY <2>1, <2>3, NoSwapPlain
  <1>8. CASE Reads(ReadAnswer)
    <2>1. /\ \A j \in DOMAIN cmds' : /\ cmds'[j].at \in {"CLCC", "CHLD1x"}
                                     /\ cmds'[j].slot \in {"none", "clccIncoming", "clccDialCheck"}
                                     /\ cmds'[j].at = "CHLD1x" => cmds'[j].slot = "none"
          /\ cmds' = <<>> \/ (Head(cmds') = cmds'[1] /\ 1 \in DOMAIN cmds')
      BY <1>8, AnswerPops DEF Reads
    <2>2. cmds' = <<>> \/ Head(cmds').slot \in {"none", "clccIncoming", "clccDialCheck"}
      BY <2>1
    <2> QED
      BY <2>2, NoSwapPlain DEF Swaps
  <1>9. CASE Reads(ReadNoCarrier)
    <2>1. UNCHANGED cmds /\ \A j \in DOMAIN cmds : cmds[j].at = "CLCC"
      BY <1>9, ReadNoCarrierIs DEF Reads, chat
    <2>2. cmds' = <<>> \/ (Head(cmds) = cmds[1] /\ 1 \in DOMAIN cmds)
      BY <1>0, <2>1, TailIs DEF QueueTyped
    <2>3. cmds' = <<>> \/ Head(cmds').slot \notin Swaps
      BY <1>0, <2>1, <2>2 DEF QueueTyped, CmdOk
    <2> QED
      BY <2>3, NoSwapPlain
  <1>10. CASE DetectStep
    <2>1. /\ detect
          /\ \/ UNCHANGED cmds
             \/ Chat(<<ClccQuestion>>)
      BY <1>0, <1>10, DetectEffect DEF DetectStep, chat
    <2>2. cmds # <<>> => Head(cmds).slot \notin Swaps
      BY <2>1 DEF NoSwap
    <2>3. CASE Chat(<<ClccQuestion>>)
      <3>1. (cmds # <<>> => Head(cmds') = Head(cmds)) /\ (cmds = <<>> => Head(cmds') = ClccQuestion)
        BY <1>0, <2>3, ChatOne, ClccQuestionIs
      <3>2. Head(cmds').slot \notin Swaps
        BY <2>2, <3>1, ClccQuestionIs DEF Swaps
      <3> QED
        BY <3>2, NoSwapPlain
    <2> QED
      BY <2>1, <2>2, <2>3, NoSwapPlain
  <1>11. CASE MissedStep
    <2>1. cmds' = <<>>
      BY <1>0, <1>11, MissedEffect DEF MissedStep, Quiet, chat
    <2> QED
      BY <2>1, NoSwapPlain
  <1>12. CASE DialStep
    <2>1. PICK c \in AnyCall : DialCheck(c)
      BY <1>12 DEF DialStep
    <2>2. c \in Call
      BY <1>0, CallsAre
    <2>3. /\ Chat(<<DialQuestion(c)>>) /\ UNCHANGED <<ring, line>>
          /\ \A i \in DOMAIN calls : calls'[i].state = calls[i].state /\ calls'[i] \in AnyCall'
      BY <1>0, <2>1, DialCheckEffect
    <2>4. (cmds # <<>> => Head(cmds') = Head(cmds)) /\ (cmds = <<>> => Head(cmds') = DialQuestion(c))
      BY <1>0, <2>2, <2>3, ChatOne, DialQuestionIs
    <2>5. UNCHANGED far /\ detect' = detect
      BY <1>12, <2>3 DEF DialStep, ring
    <2>6. HasGroup(calls, "Incoming") => HasGroup(calls, "Incoming")'
      BY <2>3, GroupIs DEF AnyCall
    <2>7. CASE cmds = <<>>
      BY <2>2, <2>4, <2>7, DialQuestionIs, NoSwapPlain DEF Swaps
    <2>8. CASE cmds # <<>>
      <3>1. RingOut' => RingOut
        BY <2>3 DEF RingOut
      <3> QED
        BY <2>4, <2>5, <2>6, <2>8, <3>1, WithNext, NoSwapSame
    <2> QED
      BY <2>7, <2>8
  <1> QED
    BY <1>1, <1>2, <1>3, <1>4, <1>5, <1>6, <1>7, <1>8, <1>9, <1>10, <1>11, <1>12 DEF Step

\* A command is out that ends the ringing
Taking == (wire # <<>> /\ Head(wire).at \in {"ATA", "CHLD0", "CTFR"}) \/ AcceptOut

BusyOut == NoCarrierOut \/ \E j \in DOMAIN cmds : cmds[j].at # "CLCC"

\* What the provider takes for the identifier of the incoming call f is right
Guessed(f) ==
  /\ \A c \in AnyCall : c.state = "Incoming" => c.id = f.id
  /\ incomingId # 0 => incomingId = f.id
  /\ ~HasGroup(calls, "Incoming") /\ incomingId = 0 => f.id = NextId(usedIds)
  /\ BusyOut => HasGroup(calls, "Incoming")
  /\ detect \/ ClccOut => incomingId # 0

Guess == ~Taking => \A f \in With("incoming") : Guessed(f)

LEMMA GuessedNext ==
  ASSUME NEW f, \A c \in AnyCall' : c.state = "Incoming" => c.id = f.id,
         incomingId' # 0 => incomingId' = f.id,
         ~HasGroup(calls, "Incoming")' /\ incomingId' = 0 => f.id = NextId(usedIds)',
         BusyOut' => HasGroup(calls, "Incoming")',
         detect' \/ ClccOut' => incomingId' # 0
  PROVE  Guessed(f)'
  <1>1. (HasGroup(calls, "Incoming"))' = HasGroup(calls', "Incoming") /\ NextId(usedIds)' = NextId(usedIds')
    BY DEF HasGroup, NextId
  <1> QED
    BY <1>1 DEF Guessed

LEMMA GuessSame ==
  ASSUME Guess,
         \A d \in AnyCall' : d.state = "Incoming" => \E c \in AnyCall : c.state = "Incoming" /\ c.id = d.id,
         HasGroup(calls, "Incoming") => HasGroup(calls, "Incoming")',
         ~HasGroup(calls, "Incoming") => usedIds' = usedIds,
         incomingId' = incomingId, detect' => detect, ClccOut' => ClccOut,
         BusyOut' => BusyOut,
         With("incoming")' \subseteq With("incoming"),
         Taking => Taking'
  PROVE  Guess'
  <1> SUFFICES ASSUME ~Taking', NEW f \in With("incoming")'
               PROVE  Guessed(f)'
    BY DEF Guess
  <1>1. Guessed(f)
    BY DEF Guess
  <1>2. \A d \in AnyCall' : d.state = "Incoming" => d.id = f.id
    BY <1>1 DEF Guessed
  <1>3. incomingId' # 0 => incomingId' = f.id
    BY <1>1 DEF Guessed
  <1>4. ASSUME ~HasGroup(calls, "Incoming")', incomingId' = 0 PROVE f.id = NextId(usedIds)'
    <2>1. usedIds' = usedIds /\ f.id = NextId(usedIds)
      BY <1>1, <1>4 DEF Guessed
    <2> QED
      BY <2>1 DEF NextId
  <1>5. BusyOut' => HasGroup(calls, "Incoming")'
    BY <1>1 DEF Guessed
  <1>6. detect' \/ ClccOut' => incomingId' # 0
    BY <1>1 DEF Guessed
  <1> QED
    BY <1>2, <1>3, <1>4, <1>5, <1>6, GuessedNext

\* An incoming call that is shown
LEMMA GuessShown ==
  ASSUME NEW f, HasGroup(calls, "Incoming")', \A d \in AnyCall' : d.state = "Incoming" => d.id = f.id,
         incomingId' = 0, ~detect', ~ClccOut'
  PROVE  Guessed(f)'
  BY GuessedNext

LEMMA SettledGathers ==
  ASSUME Settled, Gathers
  PROVE  incomingId = 0 /\ ~Taking /\ ~BusyOut
  <1>1. cmds = <<>> /\ wire = <<>> /\ line = <<>> /\ ~detect
    BY DEF Settled, Quiet
  <1>2. DOMAIN <<>> = {}
    OBVIOUS
  <1> QED
    BY <1>1, <1>2 DEF Gathers, ClccOut, Taking, AcceptOut, BusyOut, NoCarrierOut

\* The call of the modem that comes in is shown
LEMMA SettledRings ==
  ASSUME Settled, Typed, FarInv, NEW f \in With("incoming")
  PROVE  /\ \E c \in AnyCall : c.state = "Incoming"
         /\ \A c \in AnyCall : c.state = "Incoming" => c.id = f.id
  <1>1. f \in far /\ f.stat = "incoming"
    BY DEF With
  <1>2. PICK c \in AnyCall : Paired(c, f)
    BY <1>1, SettledPairs
  <1>3. c.state = "Incoming"
    BY <1>1, <1>2, StatIs DEF Paired
  <1>4. ASSUME NEW d \in AnyCall, d.state = "Incoming" PROVE d.id = f.id
    <2>1. PICK g \in far : Paired(d, g)
      BY SettledPairs
    <2>2. g.stat = "incoming" /\ g.id = d.id
      BY <1>4, <2>1 DEF Paired
    <2> QED
      BY <1>1, <2>2 DEF FarInv
  <1> QED
    BY <1>3, <1>4

LEMMA RequestGuess ==
  ASSUME Typed, Owned, OneRings, Gathers, FarInv, Requests
  PROVE  Guess'
  <1>1. PICK new, s, b, o : Wished(new, s, b, o)
    BY RequestWished
  <1>2. Settled /\ Asked /\ Wish(new, s)
    BY <1>1 DEF Wished, Requests
  <1>3. /\ wire' # <<>> /\ cmds' = new /\ Head(wire') = Sent(Head(new)) /\ cmds' # <<>>
        /\ ~detect' /\ ~ClccOut' /\ far' = far /\ incomingId' = incomingId
    BY <1>2, WishedEffect
  <1>4. incomingId' = 0
    BY <1>2, <1>3, SettledGathers
  <1>5. ASSUME Head(new).at \in {"ATA", "CHLD0", "CTFR"} \/ Head(new).slot = "acceptDone" PROVE Taking'
    <2>1. Head(wire').at = Head(new).at
      BY <1>3, SentIs
    <2> QED
      BY <1>3, <1>5, <2>1 DEF Taking, AcceptOut
  <1>6. ASSUME ~Taking', NEW f \in With("incoming")'
        PROVE  Guessed(f)'
    <2>0. f \in With("incoming")
      BY <1>3, <1>6, WithNext
    <2>1. /\ \A c \in AnyCall : c.state = "Incoming" => s[c] = "Incoming"
          /\ \A c \in AnyCall : s[c] = "Incoming" => c.state = "Incoming"
      BY <1>1, <1>5, <1>6 DEF Wished
    <2>2. Becoming(s)
      BY <1>2 DEF Wish
    <2>3. PICK c \in AnyCall : c.state = "Incoming"
      BY <1>2, <2>0, SettledRings
    <2>4. \E d \in AnyCall' : d.state = "Incoming"
      BY <2>1, <2>2, <2>3 DEF Becoming, States
    <2>5. \A d \in AnyCall' : d.state = "Incoming" => d.id = f.id
      BY <1>2, <2>0, <2>1, <2>2, SettledRings DEF Becoming
    <2> QED
      BY <1>3, <1>4, <2>4, <2>5, GuessShown, GroupIs
  <1> QED
    BY <1>6 DEF Guess

LEMMA DialsGuess ==
  ASSUME Typed, Gathers, FarInv, Dials
  PROVE  Guess'
  <1>0. ProviderTyped /\ CallsTyped
    BY TypedSplit DEF ProviderTyped
  <1>1. Settled /\ Dial /\ ~(UNCHANGED provider)
    BY DEF Dials
  <1>2. ~detect' /\ ~ClccOut' /\ far' = far /\ incomingId' = incomingId /\ incomingId = 0
    BY <1>1, DialsEffect, SettledGathers
  <1> DEFINE cs == ChangeGroup(calls, "Connected", "Hold")
  <1>3. /\ \A i \in DOMAIN calls :
             /\ cs[i].state = IF calls[i].state = "Connected" THEN "Hold" ELSE calls[i].state
             /\ cs[i].id = calls[i].id
        /\ \A d \in AnyCall' : d = Dialed \/ \E i \in DOMAIN calls : d = cs[i]
        /\ \A i \in DOMAIN calls : cs[i] \in AnyCall'
        /\ Dialed.state = "Dialing"
    BY <1>0, <1>1, DialEffect DEF Restates
  <1> HIDE DEF cs
  <1>4. ASSUME NEW f \in With("incoming")' PROVE Guessed(f)'
    <2>0. f \in With("incoming")
      BY <1>2, <1>4, WithNext
    <2>1. PICK i \in DOMAIN calls : calls[i].state = "Incoming"
      BY <1>1, <2>0, SettledRings DEF AnyCall
    <2>2. \E d \in AnyCall' : d.state = "Incoming"
      BY <1>3, <2>1
    <2>3. \A j \in DOMAIN calls : calls[j].state = "Incoming" => calls[j].id = f.id
      BY <1>1, <2>0, SettledRings DEF AnyCall
    <2>4. ASSUME NEW d \in AnyCall', d.state = "Incoming" PROVE d.id = f.id
      <3>1. d # Dialed
        BY <1>3, <2>4
      <3>2. PICK j \in DOMAIN calls : d = cs[j]
        BY <1>3, <3>1
      <3>3. calls[j].state = "Incoming"
        BY <1>3, <2>4, <3>2
      <3> QED
        BY <1>3, <2>3, <3>2, <3>3
    <2> QED
      BY <1>2, <2>2, <2>4, GuessShown, GroupIs
  <1> QED
    BY <1>4 DEF Guess

\* The provider and the modem agree on who has which identifier
LEMMA SettledFree ==
  ASSUME Settled, Typed, Owned, IdsKept, Gathers, Room
  PROVE  FreeId = NextId(usedIds) /\ FreeId \in Ids
  <1>0. far \subseteq FarCalls /\ usedIds \subseteq Ids
    BY TypedSplit DEF ProviderTyped, Outer
  <1>1. incomingId = 0
    BY SettledGathers
  <1>2. ASSUME NEW x \in usedIds PROVE \E f \in far : f.id = x
    <2>1. x # 0
      <3>1. x \in 1 .. 32
        BY <1>0 DEF Ids
      <3> QED
        BY <3>1
    <2>2. PICK c \in AnyCall : c.id = x
      BY <1>1, <2>1 DEF IdsKept
    <2> QED
      BY <2>2, SettledPairs DEF Paired
  <1>3. ASSUME NEW f \in far PROVE f.id \in usedIds
    <2>1. f.id \in 1 .. 32
      BY <1>0, FarCallIs DEF Ids
    <2>2. f.id # 0
      BY <2>1
    <2>3. PICK c \in AnyCall : Paired(c, f)
      BY SettledPairs
    <2> QED
      BY <2>2, <2>3 DEF Paired, Owned
  <1>4. {f.id : f \in far} = usedIds
    BY <1>2, <1>3
  <1>5. ~(Ids \subseteq usedIds)
    BY <1>0, <1>4 DEF Room
  <1>6. FreeId = NextId(usedIds)
    BY <1>4, <1>5 DEF FreeId, NextId
  <1> QED
    BY <1>0, <1>6, FreeIdFresh

LEMMA ComesGuess ==
  ASSUME Typed, Owned, IdsKept, Gathers, Comes
  PROVE  Guess'
  <1>1. /\ Settled /\ With("incoming") = {} /\ Room /\ UNCHANGED <<calls, usedIds, incomingId, detect, cmds, line>>
        /\ far' = far \cup {FarCall(FreeId, "incoming")}
    BY DEF Comes, ProviderRests, ring, chat
  <1>2. incomingId = 0 /\ ~BusyOut /\ ~detect /\ cmds = <<>> /\ FreeId = NextId(usedIds) /\ FreeId \in Ids
    BY <1>1, SettledGathers, SettledFree DEF Settled, Quiet
  <1>3. ~BusyOut'
    BY <1>1, <1>2 DEF BusyOut, NoCarrierOut
  <1>4. ~ClccOut'
    BY <1>1, <1>2 DEF ClccOut
  <1>5. \A c \in AnyCall' : c.state # "Incoming"
    <2>1. ~HasGroup(calls, "Incoming")
      BY <1>1, SettledPairs
    <2> QED
      BY <1>1, <2>1 DEF HasGroup, AnyCall
  <1>6. ASSUME NEW f \in With("incoming")' PROVE Guessed(f)'
    <2>1. f \in far' /\ f.stat = "incoming" /\ f \notin far
      BY <1>1, <1>6 DEF With
    <2>2. f.id = FreeId
      BY <1>1, <2>1, FarCallIs
    <2>3. f.id = NextId(usedIds)'
      BY <1>1, <1>2, <2>2 DEF NextId
    <2> QED
      BY <1>1, <1>2, <1>3, <1>4, <1>5, <2>3, GuessedNext
  <1> QED
    BY <1>6 DEF Guess

\* The provider's side of it has not changed
LEMMA GuessRests ==
  ASSUME Guess, UNCHANGED <<calls, usedIds, incomingId, detect, cmds, wire>>,
         NoCarrierOut' => NoCarrierOut, With("incoming")' \subseteq With("incoming")
  PROVE  Guess'
  <1>1. AnyCall' = AnyCall /\ (HasGroup(calls, "Incoming") => HasGroup(calls, "Incoming")')
    BY DEF AnyCall, HasGroup
  <1>2. (ClccOut' => ClccOut) /\ (BusyOut' => BusyOut)
    BY DEF ClccOut, BusyOut
  <1>3. Taking => Taking'
    BY DEF Taking, AcceptOut
  <1> QED
    BY <1>1, <1>2, <1>3, GuessSame

LEMMA NoCarrierLonger ==
  ASSUME line \in Seq(Lines), NEW x \in Lines, x.kind # "nocarrier", line' = Append(line, x)
  PROVE  NoCarrierOut' => NoCarrierOut
  <1>1. \A i \in DOMAIN line' : \/ i \in DOMAIN line /\ line'[i] = line[i]
                                \/ i = Len(line) + 1 /\ line'[i] = x
    BY LineLonger
  <1> QED
    BY <1>1 DEF NoCarrierOut

LEMMA NoCarrierFewer ==
  ASSUME line \in Seq(Lines), line # <<>>, line' = Tail(line)
  PROVE  /\ NoCarrierOut' => NoCarrierOut
         /\ Head(line).kind = "nocarrier" => NoCarrierOut
  <1>1. /\ Head(line) = line[1] /\ 1 \in DOMAIN line
        /\ \A i \in DOMAIN line' : i \in Nat /\ i + 1 \in DOMAIN line /\ line'[i] = line[i + 1]
    BY LineShorter
  <1> QED
    BY <1>1 DEF NoCarrierOut

LEMMA NoneGuess ==
  ASSUME With("incoming")' = {}
  PROVE  Guess'
  BY DEF Guess

LEMMA DropsGuess ==
  ASSUME Typed, Gathers, Guess, Drops
  PROVE  Guess'
  <1>1. Settled /\ UNCHANGED <<calls, usedIds, incomingId, detect, cmds, wire>> /\ far' \subseteq far
    BY DEF Drops, ProviderRests, ring, chat
  <1>2. ~Taking /\ With("incoming")' \subseteq With("incoming")
    BY <1>1, SettledGathers DEF With
  <1>3. ASSUME NEW f \in With("incoming")' PROVE Guessed(f)'
    <2>1. Guessed(f)
      BY <1>2, <1>3 DEF Guess
    <2>2. HasGroup(calls, "Incoming")
      BY <1>1, <1>2, <1>3, SettledPairs
    <2>3. HasGroup(calls, "Incoming")'
      BY <1>1, <2>2 DEF HasGroup
    <2>4. (detect' => detect) /\ (ClccOut' => ClccOut)
      BY <1>1 DEF ClccOut
    <2>5. \A c \in AnyCall' : c.state = "Incoming" => c.id = f.id
      BY <1>1, <2>1 DEF Guessed, AnyCall
    <2>6. (incomingId' # 0 => incomingId' = f.id) /\ (detect' \/ ClccOut' => incomingId' # 0)
      BY <1>1, <2>1, <2>4 DEF Guessed
    <2> QED
      BY <2>3, <2>5, <2>6, GuessedNext
  <1> QED
    BY <1>3 DEF Guess

LEMMA ObeysGuess ==
  ASSUME Typed, Wired, Guess, Obeys
  PROVE  Guess'
  <1>0. line \in Seq(Lines) /\ far \subseteq FarCalls /\ QueueTyped
    BY TypedSplit DEF Outer, ProviderTyped
  <1>1. /\ cmds # <<>> /\ wire # <<>> /\ wire' = <<>> /\ Head(wire) = Sent(Head(cmds))
        /\ far' = Obeyed(Head(wire)) /\ UNCHANGED <<calls, usedIds, ring, cmds>>
        /\ \E x \in Lines : x.kind = "answer" /\ line' = Append(line, x)
    <2>1. <<Sent(Head(cmds))>> # <<>>
      OBVIOUS
    <2> QED
      BY <2>1, ObeysEffect
  <1>2. With("incoming")' \subseteq With("incoming")
    BY <1>0, <1>1, ObeyedIncoming DEF With
  <1>3. CASE Taking
    <2>1. Head(wire).at = Head(cmds).at
      BY <1>1, SentIs
    <2>2. AcceptOut => Head(cmds).at \in {"ATA", "CHLD2"}
      BY <1>0, <1>1, TailIs DEF AcceptOut, QueueTyped, CmdOk
    <2>3. Head(wire).at \in {"ATA", "CHLD2", "CHLD0", "CTFR"}
      BY <1>3, <2>1, <2>2 DEF Taking
    <2>4. CASE Head(wire).at \in {"ATA", "CHLD2"}
      <3>1. \A f \in far' : f.stat # "incoming"
        BY <1>0, <1>1, <2>4, ObeyedIncoming
      <3> QED
        BY <3>1, NoneGuess DEF With
    <2>5. CASE Head(wire).at = "CHLD0"
      <3>1. far' = far \ (IF With("incoming") # {} THEN With("incoming") ELSE With("held"))
        BY <1>1, <2>5 DEF Obeyed
      <3>2. With("incoming")' = {}
        BY <3>1 DEF With
      <3> QED
        BY <3>2, NoneGuess
    <2>6. CASE Head(wire).at = "CTFR"
      <3>1. far' = far \ With("incoming")
        BY <1>1, <2>6 DEF Obeyed
      <3>2. With("incoming")' = {}
        BY <3>1 DEF With
      <3> QED
        BY <3>2, NoneGuess
    <2> QED
      BY <2>3, <2>4, <2>5, <2>6
  <1>4. CASE ~Taking
    <2>1. NoCarrierOut' => NoCarrierOut
      BY <1>0, <1>1, NoCarrierLonger
    <2>2. AnyCall' = AnyCall /\ (HasGroup(calls, "Incoming") => HasGroup(calls, "Incoming")')
      BY <1>1 DEF AnyCall, HasGroup
    <2>3. (ClccOut' => ClccOut) /\ (BusyOut' => BusyOut)
      BY <1>1, <2>1 DEF ClccOut, BusyOut
    <2>4. usedIds' = usedIds /\ incomingId' = incomingId /\ detect' = detect
      BY <1>1 DEF ring
    <2> QED
      BY <1>2, <1>4, <2>2, <2>3, <2>4, GuessSame
  <1> QED
    BY <1>3, <1>4

LEMMA RingGuess ==
  ASSUME Typed, Guess, Reads(ReadRing)
  PROVE  Guess'
  <1>0. ProviderTyped /\ line \in Seq(Lines) /\ far \subseteq FarCalls /\ Outer
    BY TypedSplit DEF Outer
  <1>1. /\ line # <<>> /\ line' = Tail(line) /\ UNCHANGED <<hangup, chat>> /\ far' = far
        /\ \E known \in BOOLEAN : Ringing(known)
    BY <1>0, LineIsAre DEF Reads, ReadRing, LineIs
  <1>2. /\ UNCHANGED calls /\ AnyCall' = AnyCall
        /\ HasGroup(calls, "Incoming") => UNCHANGED <<usedIds, incomingId, detect>>
        /\ ~HasGroup(calls, "Incoming") =>
             /\ incomingId' = IF incomingId = 0 THEN NextId(usedIds) ELSE incomingId
             /\ detect' = TRUE
    BY <1>0, <1>1, RingingEffect
  <1>3. NoCarrierOut' => NoCarrierOut
    BY <1>0, <1>1, NoCarrierFewer
  <1>4. With("incoming")' = With("incoming")
    BY <1>1, WithNext
  <1>5. CASE HasGroup(calls, "Incoming")
    BY <1>1, <1>2, <1>3, <1>4, <1>5, GuessRests DEF chat
  <1>6. CASE ~HasGroup(calls, "Incoming")
    <2>1. ASSUME ~Taking', NEW f \in With("incoming")' PROVE Guessed(f)'
      <3>1. ~Taking /\ f \in With("incoming")
        BY <1>1, <1>4, <2>1 DEF Taking, AcceptOut, chat
      <3>2. Guessed(f)
        BY <3>1 DEF Guess
      <3>3. incomingId' = f.id
        BY <1>2, <1>6, <3>2 DEF Guessed
      <3>4. f.id \in 1 .. 32
        BY <1>0, <3>1, FarCallIs DEF With, Ids
      <3>5. incomingId' # 0
        BY <3>3, <3>4
      <3>6. BusyOut' => BusyOut
        BY <1>1, <1>3 DEF BusyOut, chat
      <3>7. BusyOut' => HasGroup(calls, "Incoming")'
        BY <3>2, <3>6, <1>6 DEF Guessed
      <3> QED
        BY <1>2, <3>2, <3>3, <3>5, <3>7, GuessedNext DEF Guessed
    <2> QED
      BY <2>1 DEF Guess
  <1> QED
    BY <1>5, <1>6

LEMMA TakingKept ==
  ASSUME QueueTyped, Wired, NEW command \in Commands, command.at = "CLCC", Chat(<<command>>)
  PROVE  /\ Taking => Taking'
         /\ (\E j \in DOMAIN cmds' : cmds'[j].at # "CLCC") => \E j \in DOMAIN cmds : cmds[j].at # "CLCC"
  <1>1. /\ \A j \in DOMAIN cmds' :
              \/ j \in DOMAIN cmds /\ cmds'[j] = cmds[j]
              \/ j = Len(cmds) + 1 /\ cmds'[j] = command
        /\ cmds # <<>> => wire' = wire /\ Head(cmds') = Head(cmds)
        /\ cmds' # <<>>
    BY ChatOne
  <1>2. Taking => cmds # <<>>
    BY DEF Taking, AcceptOut, Wired
  <1> QED
    BY <1>1, <1>2 DEF Taking, AcceptOut

LEMMA DialStepGuess ==
  ASSUME Typed, Wired, Guess, DialStep
  PROVE  Guess'
  <1>0. ProviderTyped /\ QueueTyped /\ CallsTyped
    BY TypedSplit DEF ProviderTyped
  <1>1. UNCHANGED far /\ \E c \in AnyCall : DialCheck(c)
    BY DEF DialStep
  <1>2. PICK c \in AnyCall : DialCheck(c)
    BY <1>1
  <1>3. c \in Call
    BY <1>0, CallsAre
  <1>4. /\ Follows(calls')
        /\ \A i \in DOMAIN calls : calls'[i].state = calls[i].state /\ calls'[i] \in AnyCall'
        /\ \A d \in AnyCall' : \E i \in DOMAIN calls : d = calls'[i]
        /\ Chat(<<DialQuestion(c)>>)
        /\ UNCHANGED <<usedIds, ring, hangup, line>>
    BY <1>0, <1>2, DialCheckEffect
  <1>5. /\ DialQuestion(c) \in Commands /\ DialQuestion(c).at = "CLCC" /\ DialQuestion(c).slot = "clccDialCheck"
        /\ <<DialQuestion(c)>> \in Seq(Commands) /\ DOMAIN <<DialQuestion(c)>> = {1}
        /\ <<DialQuestion(c)>>[1] = DialQuestion(c)
    BY <1>3, DialQuestionIs
  <1>6. Taking => Taking'
    BY <1>0, <1>4, <1>5, TakingKept
  <1>7. BusyOut' => BusyOut
    <2>1. NoCarrierOut' => NoCarrierOut
      BY <1>4 DEF NoCarrierOut
    <2> QED
      BY <1>0, <1>4, <1>5, <2>1, TakingKept DEF BusyOut
  <1>8. ClccOut' => ClccOut
    BY <1>0, <1>4, <1>5, ClccAsked
  <1>9. \A d \in AnyCall' : d.state = "Incoming" => \E e \in AnyCall : e.state = "Incoming" /\ e.id = d.id
    BY <1>4 DEF AnyCall, Follows
  <1>10. HasGroup(calls, "Incoming") => HasGroup(calls, "Incoming")'
    BY <1>4, GroupIs DEF AnyCall
  <1>11. With("incoming")' \subseteq With("incoming")
    BY <1>1, WithNext
  <1>12. usedIds' = usedIds /\ incomingId' = incomingId /\ detect' = detect
    BY <1>4 DEF ring
  <1> QED
    BY <1>6, <1>7, <1>8, <1>9, <1>10, <1>11, <1>12, GuessSame

LEMMA DetectGuess ==
  ASSUME Typed, Wired, Gathers, Guess, DetectStep
  PROVE  Guess'
  <1>0. ProviderTyped /\ QueueTyped /\ CallsTyped
    BY TypedSplit DEF ProviderTyped
  <1>1. DetectTimeout /\ far' = far
    BY DEF DetectStep
  <1>2. /\ detect /\ detect' = FALSE
        /\ \/ /\ AnnouncedCall(incomingId).state = "Incoming" /\ AnnouncedCall(incomingId).id = incomingId
              /\ AnyCall' = AnyCall \cup {AnnouncedCall(incomingId)}
              /\ incomingId' = 0 /\ UNCHANGED chat
           \/ /\ Chat(<<ClccQuestion>>)
              /\ AnyCall' = AnyCall /\ UNCHANGED <<calls, incomingId>>
        /\ UNCHANGED <<usedIds, missed, hangup, line>>
    BY <1>0, <1>1, DetectEffect
  <1>3. With("incoming")' = With("incoming")
    BY <1>1, WithNext
  <1>4. CASE /\ AnnouncedCall(incomingId).state = "Incoming" /\ AnnouncedCall(incomingId).id = incomingId
             /\ AnyCall' = AnyCall \cup {AnnouncedCall(incomingId)}
             /\ incomingId' = 0 /\ UNCHANGED chat
    <2>1. ASSUME ~Taking', NEW f \in With("incoming")' PROVE Guessed(f)'
      <3>1. Guessed(f)
        BY <1>3, <1>4, <2>1 DEF Guess, Taking, AcceptOut, chat
      <3>2. incomingId = f.id
        BY <1>2, <3>1 DEF Guessed
      <3>3. \A d \in AnyCall' : d.state = "Incoming" => d.id = f.id
        BY <1>4, <3>1, <3>2 DEF Guessed
      <3>4. HasGroup(calls, "Incoming")'
        BY <1>4, GroupIs
      <3>5. ~ClccOut'
        BY <1>2, <1>4 DEF Gathers, ClccOut, chat
      <3> QED
        BY <1>2, <1>4, <3>3, <3>4, <3>5, GuessShown
    <2> QED
      BY <2>1 DEF Guess
  <1>5. CASE /\ Chat(<<ClccQuestion>>)
             /\ AnyCall' = AnyCall /\ UNCHANGED <<calls, incomingId>>
    <2>0. (Taking => Taking') /\ (BusyOut' => BusyOut)
      <3>1. NoCarrierOut' => NoCarrierOut
        BY <1>2 DEF NoCarrierOut
      <3> QED
        BY <1>0, <1>5, <3>1, ClccQuestionIs, TakingKept DEF BusyOut
    <2>1. ASSUME ~Taking', NEW f \in With("incoming")' PROVE Guessed(f)'
      <3>1. Guessed(f)
        BY <1>3, <2>0, <2>1 DEF Guess
      <3>2. incomingId # 0 /\ incomingId = f.id
        BY <1>2, <3>1 DEF Guessed
      <3>3. BusyOut' => HasGroup(calls, "Incoming")'
        BY <1>5, <2>0, <3>1 DEF Guessed, HasGroup
      <3> QED
        BY <1>5, <3>1, <3>2, <3>3, GuessedNext DEF Guessed
    <2> QED
      BY <2>1 DEF Guess
  <1> QED
    BY <1>2, <1>4, <1>5

LEMMA CarrierGuess ==
  ASSUME Typed, Wired, Guess, Reads(ReadNoCarrier)
  PROVE  Guess'
  <1>0. ProviderTyped /\ QueueTyped /\ CallsTyped /\ line \in Seq(Lines)
    BY TypedSplit DEF ProviderTyped, Outer
  <1>1. /\ line # <<>> /\ Head(line).kind = "nocarrier" /\ line' = Tail(line) /\ UNCHANGED chat /\ far' = far
        /\ \/ UNCHANGED <<calls, usedIds, ring, hangup>>
           \/ Leave(ChangeGroup(calls, "Connected", "HangupRemote"), usedIds) /\ UNCHANGED ring
    BY ReadNoCarrierIs DEF Reads
  <1>2. (NoCarrierOut' => NoCarrierOut) /\ NoCarrierOut
    BY <1>0, <1>1, NoCarrierFewer
  <1>3. With("incoming")' = With("incoming")
    BY <1>1, WithNext
  <1>4. CASE UNCHANGED <<calls, usedIds, ring, hangup>>
    BY <1>1, <1>2, <1>3, <1>4, GuessRests DEF chat, ring
  <1>5. CASE Leave(ChangeGroup(calls, "Connected", "HangupRemote"), usedIds) /\ UNCHANGED ring
    <2> DEFINE cs == ChangeGroup(calls, "Connected", "HangupRemote")
    <2>1. /\ Handled(cs)
          /\ \A i \in DOMAIN calls : cs[i].state = IF calls[i].state = "Connected" THEN "HangupRemote" ELSE calls[i].state
      BY <1>0, <1>1, <1>5, CarrierLost
    <2>2. Follows(cs) /\ Leave(cs, usedIds)
      BY <1>0, <1>5, <2>1, HandledFollows
    <2> HIDE DEF cs
    <2>3. /\ \A d \in AnyCall' : \E i \in DOMAIN calls : d = cs[i] /\ cs[i].state \in States
          /\ \A i \in DOMAIN calls : cs[i].state \in States => cs[i] \in AnyCall'
      BY <1>0, <2>2, LeaveEffect
    <2>4. \A d \in AnyCall' : d.state = "Incoming" => \E i \in DOMAIN calls : calls[i].state = "Incoming" /\ calls[i].id = d.id
      BY <2>1, <2>2, <2>3 DEF Follows
    <2>5. HasGroup(calls, "Incoming") => HasGroup(calls, "Incoming")'
      <3>1. ASSUME NEW i \in DOMAIN calls, calls[i].state = "Incoming" PROVE \E d \in AnyCall' : d.state = "Incoming"
        <4>1. cs[i].state = "Incoming"
          BY <2>1, <3>1
        <4> QED
          BY <2>3, <4>1 DEF States
      <3> QED
        BY <3>1, GroupIs DEF HasGroup
    <2>6. ASSUME ~Taking', NEW f \in With("incoming")' PROVE Guessed(f)'
      <3>1. Guessed(f)
        BY <1>1, <1>3, <2>6 DEF Guess, Taking, AcceptOut, chat
      <3>2. HasGroup(calls, "Incoming")'
        BY <1>2, <2>5, <3>1 DEF Guessed, BusyOut
      <3>3. \A d \in AnyCall' : d.state = "Incoming" => d.id = f.id
        BY <2>4, <3>1 DEF Guessed, AnyCall
      <3>4. detect' \/ ClccOut' => detect \/ ClccOut
        BY <1>1, <1>5 DEF ClccOut, chat, ring
      <3> QED
        BY <1>5, <3>1, <3>2, <3>3, <3>4, GuessedNext DEF Guessed, ring
    <2> QED
      BY <2>6 DEF Guess
  <1> QED
    BY <1>1, <1>4, <1>5

\* The answer to the question for an incoming call
LEMMA ClccGuess ==
  ASSUME Typed, Wired, Gathers, FarInv, Guess, Reads(ReadAnswer), Head(cmds).slot = "clccIncoming"
  PROVE  Guess'
  <1>0. ProviderTyped /\ QueueTyped /\ CallsTyped /\ far \subseteq FarCalls /\ line \in Seq(Lines)
    BY TypedSplit DEF ProviderTyped, Outer
  <1>1. /\ cmds # <<>> /\ wire = <<>> /\ Head(line).ok /\ (Head(cmds).at = "CLCC" => Head(line).list = far)
        /\ Answer(Head(line).ok, Head(line).list) /\ far' = far
    BY AnswerRead DEF Reads
  <1>2. Head(cmds).at = "CLCC" /\ Head(cmds) = cmds[1] /\ 1 \in DOMAIN cmds
    BY <1>0, <1>1, TailIs DEF QueueTyped, CmdOk
  <1>3. Head(line).ok = TRUE
    BY <1>1, LineIsAre, TypedSplit DEF Reads, ReadAnswer
  <1>4. Answer(TRUE, far)
    BY <1>1, <1>2, <1>3
  <1>5. Done(<<>>) /\ ClccAnswered(TRUE, far)
    BY <1>0, <1>1, <1>4, AnswerEffect
  <1>6. ~ClccOut'
    BY <1>0, <1>1, <1>5, NoneIs, ClccDone DEF Gathers
  <1>7. ClccOut
    BY <1>2 DEF ClccOut
  <1>8. With("incoming")' = With("incoming") /\ ~Taking
    BY <1>1, WithNext DEF Taking, AcceptOut
  <1>9. ASSUME NEW f \in With("incoming")' PROVE Guessed(f)'
    <2>1. f \in far /\ f.stat = "incoming"
      BY <1>8, <1>9 DEF With
    <2>2. PICK g \in far : /\ g.stat = "incoming"
                           /\ AnyCall' = AnyCall \cup {AnnouncedCall(g.id)}
      BY <1>5, <2>1 DEF ClccAnswered
    <2>3. g = f /\ g.id \in Ids
      BY <1>0, <2>1, <2>2, FarCallIs DEF FarInv
    <2>4. UNCHANGED detect /\ incomingId' = 0
      BY <1>5, <2>1 DEF ClccAnswered
    <2>5. AnnouncedCall(g.id).state = "Incoming" /\ AnnouncedCall(g.id).id = g.id
      BY DEF AnnouncedCall
    <2>6. HasGroup(calls, "Incoming")'
      BY <2>2, <2>5, GroupIs
    <2>7. \A d \in AnyCall' : d.state = "Incoming" => d.id = f.id
      BY <1>8, <1>9, <2>2, <2>3, <2>5 DEF Guess, Guessed
    <2>8. ~detect'
      BY <1>7, <2>4 DEF Gathers
    <2> QED
      BY <1>6, <2>4, <2>6, <2>7, <2>8, GuessShown
  <1> QED
    BY <1>9 DEF Guess

\* What an answer leaves of an incoming call
LEMMA ActsIncoming ==
  ASSUME Typed, cmds # <<>>, Head(cmds).slot \notin Swaps, NEW c \in AnyCall
  PROVE  Acts[c] = "Incoming" <=> c.state = "Incoming"
  <1>0. QueueTyped /\ CallsTyped /\ Waiting
    BY TypedSplit DEF ProviderTyped
  <1>1. Head(cmds) = cmds[1] /\ 1 \in DOMAIN cmds /\ Head(cmds) \in Commands
    BY <1>0, TailIs DEF QueueTyped
  <1> DEFINE command == Head(cmds)
  <1>2. Acts[c] = After(command, c, far)
    BY DEF Acts, States1
  <1>3. command.slot = "activateSingleRequestDone" /\ command.key = c.key => c.state # "Incoming"
    BY <1>0, <1>1 DEF Waiting, Early
  <1> HIDE DEF command
  <1>4. CASE Looked(command, c)
    <2>1. After(command, c, far) = Seen(c, far) /\ c.state = "Dialing"
      BY <1>4 DEF After, Looked
    <2>2. Seen(c, far) # "Incoming"
      BY CheckedIs DEF Seen
    <2> QED
      BY <1>2, <2>1, <2>2
  <1>5. CASE ~Looked(command, c)
    <2>1. After(command, c, far) = Result(command, c)
      BY <1>5 DEF After
    <2>2. command.slot \notin Swaps
      BY DEF command
    <2>3. Result(command, c) = "Incoming" <=> c.state = "Incoming"
      BY <1>3, <2>2 DEF Result, Swaps
    <2> QED
      BY <1>2, <2>1, <2>3
  <1> QED
    BY <1>4, <1>5

LEMMA AnswerGuess ==
  ASSUME Typed, Wired, Foreign, Behind, OneRings, Guess, Reads(ReadAnswer), Head(cmds).slot # "clccIncoming"
  PROVE  Guess'
  <1>0. ProviderTyped /\ QueueTyped /\ CallsTyped /\ far \subseteq FarCalls
    BY TypedSplit DEF ProviderTyped, Outer
  <1>1. ReadAnswer /\ far' = far
    BY DEF Reads
  <1>2. cmds # <<>> /\ wire = <<>> /\ (NoCarrierOut' => NoCarrierOut)
    BY <1>1, AnswerRead
  <1>3. /\ Becoming(Acts)
        /\ (\A c \in AnyCall : Acts[c] \in States) => usedIds' = usedIds
        /\ UNCHANGED <<incomingId, detect>>
        /\ \E new \in Seq(Commands) :
             /\ Done(new)
             /\ \A k \in DOMAIN new : new[k].at = "CLCC" /\ new[k].slot = "clccDialCheck"
    BY <1>1, AnswerActs
  <1>4. PICK more \in Seq(Commands) :
             /\ Done(more)
             /\ \A k \in DOMAIN more : more[k].at = "CLCC" /\ more[k].slot = "clccDialCheck"
    BY <1>3
  <1>5. ClccOut' => ClccOut
    BY <1>0, <1>2, <1>4, ClccDone
  <1>6. BusyOut' => BusyOut
    <2>1. \A j \in DOMAIN cmds' :
              \/ j + 1 \in DOMAIN cmds /\ cmds'[j] = cmds[j + 1]
              \/ j + 1 - Len(cmds) \in DOMAIN more /\ cmds'[j] = more[j + 1 - Len(cmds)]
      BY <1>0, <1>2, <1>4, DoneEffect
    <2> QED
      BY <1>2, <1>4, <2>1 DEF BusyOut
  <1>7. With("incoming")' = With("incoming") /\ ~Taking
    BY <1>1, <1>2, WithNext DEF Taking, AcceptOut
  <1>8. CASE With("incoming") = {}
    BY <1>7, <1>8, NoneGuess
  <1>9. CASE With("incoming") # {}
    <2>1. Head(cmds).slot \notin Swaps
      BY <1>2, <1>9 DEF Foreign
    <2>2. \A c \in AnyCall : Acts[c] = "Incoming" <=> c.state = "Incoming"
      BY <1>2, <2>1, ActsIncoming
    <2>3. \A d \in AnyCall' : d.state = "Incoming" => \E c \in AnyCall : c.state = "Incoming" /\ c.id = d.id
      BY <1>3, <2>2 DEF Becoming
    <2>4. HasGroup(calls, "Incoming") => HasGroup(calls, "Incoming")'
      BY <1>3, <2>2, GroupIs DEF Becoming, States
    <2>5. ASSUME ~HasGroup(calls, "Incoming") PROVE usedIds' = usedIds
      <3>1. PICK f \in With("incoming") : TRUE
        BY <1>9
      <3>2. ~BusyOut
        BY <1>7, <2>5 DEF Guess, Guessed
      <3>3. Head(cmds) = cmds[1] /\ 1 \in DOMAIN cmds
        BY <1>0, <1>2, TailIs DEF QueueTyped
      <3>4. Head(cmds).at = "CLCC"
        BY <3>2, <3>3 DEF BusyOut
      <3>5. Head(cmds).slot = "clccDialCheck"
        BY <1>0, <3>3, <3>4 DEF QueueTyped, CmdOk
      <3>6. ASSUME NEW c \in AnyCall PROVE Acts[c] \in States
        <4>1. Acts[c] = After(Head(cmds), c, far)
          BY DEF Acts, States1
        <4>2. CASE Looked(Head(cmds), c)
          <5>1. Acts[c] = Seen(c, far)
            BY <4>1, <4>2 DEF After
          <5>2. Seen(c, far) \in {"Dialing", "Hold", "Connected"}
            BY CheckedIs DEF Seen
          <5> QED
            BY <5>1, <5>2 DEF States
        <4>3. CASE ~Looked(Head(cmds), c)
          <5>1. Acts[c] = Result(Head(cmds), c)
            BY <4>1, <4>3 DEF After
          <5>2. Result(Head(cmds), c) = c.state
            BY <3>5, ResultPlain
          <5>3. c \in Call
            BY <1>0, CallsAre
          <5> QED
            BY <5>1, <5>2, <5>3 DEF Call
        <4> QED
          BY <4>2, <4>3
      <3> QED
        BY <1>3, <3>6
    <2>6. incomingId' = incomingId /\ detect' = detect
      BY <1>3
    <2> QED
      BY <1>5, <1>6, <1>7, <2>3, <2>4, <2>5, <2>6, GuessSame
  <1> QED
    BY <1>8, <1>9

LEMMA GuessNext ==
  ASSUME Typed, Wired, Owned, IdsKept, Foreign, OneRings, Behind, Gathers, FarInv, Step, Guess
  PROVE  Guess'
  <1>0. line \in Seq(Lines)
    BY TypedSplit DEF Outer
  <1>1. CASE Idle
    <2>1. NoCarrierOut' => NoCarrierOut
      BY <1>1 DEF Idle, NoCarrierOut
    <2>2. With("incoming")' = With("incoming") /\ UNCHANGED <<calls, usedIds, incomingId, detect, cmds, wire>>
      BY <1>1, WithNext DEF Idle
    <2> QED
      BY <2>1, <2>2, GuessRests
  <1>2. CASE Dials
    BY <1>2, DialsGuess
  <1>3. CASE Requests
    BY <1>3, RequestGuess
  <1>4. CASE Rings
    <2>1. NoCarrierOut' => NoCarrierOut
      BY <1>0, <1>4, NoCarrierLonger DEF Rings
    <2>2. With("incoming")' = With("incoming")
      BY <1>4, WithNext DEF Rings
    <2>3. UNCHANGED <<calls, usedIds, incomingId, detect, cmds, wire>>
      BY <1>4 DEF Rings, ProviderRests, ring, chat
    <2> QED
      BY <2>1, <2>2, <2>3, GuessRests
  <1>5. CASE Comes
    BY <1>5, ComesGuess
  <1>6. CASE Goes
    <2>1. With("incoming")' = {}
      BY <1>6 DEF Goes, With
    <2> QED
      BY <2>1, NoneGuess
  <1>7. CASE Connects
    <2>1. UNCHANGED <<calls, usedIds, incomingId, detect, cmds, wire, line>>
      BY <1>7 DEF Connects, ProviderRests, ring, chat
    <2>2. \A f \in With("incoming")' : f \in With("incoming")
      <3>1. far' = Moved(With("dialing") \cup With("alerting"), "active") /\ far \subseteq FarCalls
        BY <1>7, TypedSplit DEF Connects, Outer
      <3>2. With("dialing") \cup With("alerting") \in SUBSET FarCalls
        BY <3>1 DEF With
      <3>3. \A g \in Turn(With("dialing") \cup With("alerting"), "active") : g.stat = "active"
        BY <3>2, TurnIs DEF Stats
      <3> QED
        BY <3>1, <3>3 DEF Moved, With
    <2>3. NoCarrierOut' => NoCarrierOut
      BY <2>1 DEF NoCarrierOut
    <2> QED
      BY <2>1, <2>2, <2>3, GuessRests
  <1>8. CASE Drops
    BY <1>8, DropsGuess
  <1>9. CASE Obeys
    BY <1>9, ObeysGuess
  <1>10. CASE Reads(ReadRing)
    BY <1>10, RingGuess
  <1>11. CASE Reads(ReadAnswer)
    BY <1>11, ClccGuess, AnswerGuess
  <1>12. CASE Reads(ReadNoCarrier)
    BY <1>12, CarrierGuess
  <1>13. CASE DetectStep
    BY <1>13, DetectGuess
  <1>14. CASE MissedStep
    <2>1. With("incoming")' = {}
      BY <1>14, WithNext DEF MissedStep
    <2> QED
      BY <2>1, NoneGuess
  <1>15. CASE DialStep
    BY <1>15, DialStepGuess
  <1> QED
    BY <1>1, <1>2, <1>3, <1>4, <1>5, <1>6, <1>7, <1>8, <1>9, <1>10, <1>11, <1>12, <1>13, <1>14, <1>15 DEF Step

\* What becomes of a call when the lines and the command that is out have been dealt with
Becomes(c) ==
  IF NoCarrierOut THEN IF c.state = "Connected" THEN "HangupRemote" ELSE c.state
  ELSE IF cmds = <<>> THEN c.state
  ELSE Result(Head(cmds), c)

\* The calls the modem has when all commands have been obeyed
Target == IF wire = <<>> THEN far ELSE Obeyed(Head(wire))
Aim == {f \in Target : f.id \notin RestOf(cmds)}

Fits(state, stat) ==
  state \in Proper /\ (stat = Stat(state) \/ (state = "Dialing" /\ stat = "active"))

Match ==
  (wire # <<>> => Possible(Head(wire))) =>
    /\ \A c \in AnyCall : Becomes(c) \in Proper => \E f \in Aim : f.id = c.id /\ Fits(Becomes(c), f.stat)
    /\ \A f \in Aim : f.stat # "incoming" => \E c \in AnyCall : f.id = c.id /\ Fits(Becomes(c), f.stat)

LEMMA FarNextSame ==
  ASSUME UNCHANGED far
  PROVE  \A command : Obeyed(command)' = Obeyed(command) /\ Possible(command)' = Possible(command)
  <1>1. /\ \A stat : With(stat)' = With(stat)
        /\ Retrieved' = Retrieved /\ FreeId' = FreeId /\ Room' = Room
    BY DEF With, Retrieved, FreeId, Room
  <1>2. \A command : Obeyed(command)' = Obeyed(command)
    BY <1>1 DEF Obeyed, Moved, Turn
  <1>3. \A command : Possible(command)' = Possible(command)
    BY <1>1 DEF Possible
  <1> QED
    BY <1>2, <1>3

\* The parts, one step on
LEMMA MatchNext ==
  ASSUME (wire' # <<>> => Possible(Head(wire))') =>
            /\ \A c \in AnyCall' : Becomes(c)' \in Proper =>
                 \E f \in Aim' : f.id = c.id /\ Fits(Becomes(c)', f.stat)
            /\ \A f \in Aim' : f.stat # "incoming" =>
                 \E c \in AnyCall' : f.id = c.id /\ Fits(Becomes(c)', f.stat)
  PROVE  Match'
  <1>1. \A x, y : Fits(x, y)' = Fits(x, y)
    BY DEF Fits, Stat
  <1>2. \A c, y : Fits(Becomes(c), y)' = Fits(Becomes(c)', y)
    BY DEF Fits, Stat
  <1>3. Proper' = Proper
    BY DEF Proper
  <1> QED
    BY <1>2, <1>3 DEF Match

LEMMA MatchKept ==
  ASSUME Match,
         (wire' # <<>> => Possible(Head(wire))') => (wire # <<>> => Possible(Head(wire))),
         Aim' = Aim,
         \A d \in AnyCall' : Becomes(d)' \in Proper =>
           \E c \in AnyCall : /\ c.id = d.id /\ Becomes(c) \in Proper
                              /\ \A f \in Aim : f.id = c.id /\ Fits(Becomes(c), f.stat) => Fits(Becomes(d)', f.stat),
         \A c \in AnyCall, f \in Aim : f.id = c.id /\ Fits(Becomes(c), f.stat) =>
           \E d \in AnyCall' : d.id = c.id /\ Fits(Becomes(d)', f.stat)
  PROVE  Match'
  <1>1. ASSUME wire # <<>> => Possible(Head(wire)), NEW d \in AnyCall', Becomes(d)' \in Proper
        PROVE  \E f \in Aim' : f.id = d.id /\ Fits(Becomes(d)', f.stat)
    <2>1. PICK c \in AnyCall : /\ c.id = d.id /\ Becomes(c) \in Proper
                              /\ \A f \in Aim : f.id = c.id /\ Fits(Becomes(c), f.stat) => Fits(Becomes(d)', f.stat)
      BY <1>1
    <2>2. PICK f \in Aim : f.id = c.id /\ Fits(Becomes(c), f.stat)
      BY <1>1, <2>1 DEF Match
    <2> QED
      BY <2>1, <2>2
  <1>2. ASSUME wire # <<>> => Possible(Head(wire)), NEW f \in Aim', f.stat # "incoming"
        PROVE  \E d \in AnyCall' : f.id = d.id /\ Fits(Becomes(d)', f.stat)
    <2>1. PICK c \in AnyCall : f.id = c.id /\ Fits(Becomes(c), f.stat)
      BY <1>2 DEF Match
    <2> QED
      BY <1>2, <2>1
  <1> QED
    BY <1>1, <1>2, MatchNext

\* What becomes of the calls has not changed
LEMMA MatchEqual ==
  ASSUME Match,
         (wire' # <<>> => Possible(Head(wire))') => (wire # <<>> => Possible(Head(wire))),
         Aim' = Aim,
         \A d \in AnyCall' : Becomes(d)' \in Proper => \E c \in AnyCall : c.id = d.id /\ Becomes(c) = Becomes(d)',
         \A c \in AnyCall : Becomes(c) \in Proper => \E d \in AnyCall' : d.id = c.id /\ Becomes(d)' = Becomes(c)
  PROVE  Match'
  <1>1. \A d \in AnyCall' : Becomes(d)' \in Proper =>
           \E c \in AnyCall : /\ c.id = d.id /\ Becomes(c) \in Proper
                              /\ \A f \in Aim : f.id = c.id /\ Fits(Becomes(c), f.stat) => Fits(Becomes(d)', f.stat)
    OBVIOUS
  <1>2. ASSUME NEW c \in AnyCall, NEW f \in Aim, f.id = c.id, Fits(Becomes(c), f.stat)
        PROVE  \E d \in AnyCall' : d.id = c.id /\ Fits(Becomes(d)', f.stat)
    <2>1. Becomes(c) \in Proper
      BY <1>2 DEF Fits
    <2>2. PICK d \in AnyCall' : d.id = c.id /\ Becomes(d)' = Becomes(c)
      BY <2>1
    <2> QED
      BY <1>2, <2>2
  <1> QED
    BY <1>1, <1>2, MatchKept

LEMMA AimRests ==
  ASSUME UNCHANGED <<cmds, wire, far>>
  PROVE  /\ Aim' = Aim
         /\ (wire' # <<>> => Possible(Head(wire))') => (wire # <<>> => Possible(Head(wire)))
  <1>1. PICK first : first = Head(wire)
    OBVIOUS
  <1>2. Obeyed(first)' = Obeyed(first) /\ Possible(first)' = Possible(first)
    BY FarNextSame
  <1>3. Head(wire') = first
    BY <1>1
  <1>4. Obeyed(Head(wire))' = Obeyed(Head(wire)) /\ Possible(Head(wire))' = Possible(Head(wire))
    <2>1. Obeyed(Head(wire))' = Obeyed(first)'
      BY <1>1, <1>3 DEF Obeyed
    <2>2. Possible(Head(wire))' = Possible(first)'
      BY <1>1, <1>3 DEF Possible
    <2> QED
      BY <1>1, <1>2, <2>1, <2>2
  <1> QED
    BY <1>4 DEF Aim, Target, RestOf

LEMMA ResultAs ==
  ASSUME NEW command, NEW c, NEW d, d.state = c.state,
         d.key = command.key <=> c.key = command.key,
         command.slot \in Swaps => (HasGroup(calls, "Incoming")' <=> HasGroup(calls, "Incoming"))
  PROVE  Result(command, d)' = Result(command, c)
  <1>1. CASE command.slot \in Swaps
    BY <1>1 DEF Result, HasGroup
  <1>2. CASE command.slot \notin Swaps
    BY <1>2 DEF Result
  <1> QED
    BY <1>1, <1>2

LEMMA BecomesNext ==
  ASSUME NEW q, cmds' = q
  PROVE  \A d : Becomes(d)' =
           IF NoCarrierOut' THEN IF d.state = "Connected" THEN "HangupRemote" ELSE d.state
           ELSE IF q = <<>> THEN d.state
           ELSE Result(Head(q), d)'
  <1>1. \A d : Result(Head(cmds), d)' = Result(Head(q), d)'
    BY DEF Result
  <1> QED
    BY <1>1 DEF Becomes

PlainSlots == {"none", "acceptDone", "clccIncoming", "clccDialCheck", "dialRequestDone"}

LEMMA BecomesPlain ==
  ASSUME ~NoCarrierOut', cmds' = <<>> \/ Head(cmds').slot \in PlainSlots
  PROVE  \A d : Becomes(d)' = d.state
  <1>1. PICK q : q = cmds'
    OBVIOUS
  <1>2. CASE q = <<>>
    BY <1>1, <1>2, BecomesNext
  <1>3. CASE Head(q).slot \in PlainSlots
    <2>1. \A d : Result(Head(q), d)' = d.state
      BY <1>3, ResultPlain DEF PlainSlots
    <2> QED
      BY <1>1, <2>1, BecomesNext
  <1> QED
    BY <1>1, <1>2, <1>3

LEMMA BecomesAs ==
  ASSUME UNCHANGED <<calls, cmds>>, NoCarrierOut' <=> NoCarrierOut
  PROVE  \A c : Becomes(c)' = Becomes(c)
  <1>1. HasGroup(calls, "Incoming")' <=> HasGroup(calls, "Incoming")
    BY DEF HasGroup
  <1>2. \A command, c : Result(command, c)' = Result(command, c)
    BY <1>1, ResultAs
  <1>3. PICK q : q = cmds
    OBVIOUS
  <1> QED
    BY <1>2, <1>3, BecomesNext DEF Becomes

LEMMA MatchSame ==
  ASSUME Match, UNCHANGED <<calls, cmds, wire, far>>, NoCarrierOut' <=> NoCarrierOut
  PROVE  Match'
  <1>1. AnyCall' = AnyCall
    BY DEF AnyCall
  <1>2. \A c : Becomes(c)' = Becomes(c)
    BY BecomesAs
  <1> QED
    BY <1>1, <1>2, AimRests, MatchEqual

\* Nothing is out
LEMMA MatchBare ==
  ASSUME wire' = <<>>, cmds' = <<>>,
         \A c \in AnyCall' : Becomes(c)' \in Proper => \E f \in far' : f.id = c.id /\ Fits(Becomes(c)', f.stat),
         \A f \in far' : f.stat # "incoming" => \E c \in AnyCall' : f.id = c.id /\ Fits(Becomes(c)', f.stat)
  PROVE  Match'
  <1>1. DOMAIN <<>> = {}
    OBVIOUS
  <1>2. RestOf(<<>>) = {}
    BY <1>1 DEF RestOf
  <1>3. Aim' = far'
    BY <1>2 DEF Aim, Target, RestOf
  <1> QED
    BY <1>3, MatchNext

LEMMA PairFits ==
  ASSUME NEW c, NEW f, Paired(c, f)
  PROVE  /\ c.state \in Proper => Fits(c.state, f.stat)
         /\ c.state # "Incoming" => f.stat = Stat(c.state) /\ f.stat # "incoming"
         /\ c.state = "Incoming" <=> f.stat = "incoming"
  BY StatIs DEF Paired, Fits, Proper

\* The states of the calls
LEMMA StatesAre ==
  ASSUME CallsTyped
  PROVE  \A c \in AnyCall : c.state = "Incoming" \/ c.state \in Proper
  <1>1. \A c \in AnyCall : c.state \in States
    BY CallsAre DEF Call
  <1> QED
    BY <1>1 DEF States, Proper

LEMMA SettledBare ==
  ASSUME Typed, Settled, ProviderRests
  PROVE  /\ wire' = <<>> /\ cmds' = <<>> /\ AnyCall' = AnyCall /\ ~NoCarrierOut
         /\ ~NoCarrierOut' => \A c : Becomes(c)' = c.state
         /\ UNCHANGED line => ~NoCarrierOut'
  <1>1. wire' = <<>> /\ cmds' = <<>> /\ AnyCall' = AnyCall /\ line = <<>>
    BY DEF Settled, Quiet, ProviderRests, chat, AnyCall
  <1>2. ~NoCarrierOut /\ (UNCHANGED line => ~NoCarrierOut')
    BY <1>1 DEF NoCarrierOut
  <1> QED
    BY <1>1, <1>2, BecomesPlain

LEMMA ComesMatch ==
  ASSUME Typed, Comes
  PROVE  Match'
  <1>0. CallsTyped
    BY TypedSplit DEF ProviderTyped
  <1>1. Settled /\ ProviderRests /\ UNCHANGED line /\ far' = far \cup {FarCall(FreeId, "incoming")}
    BY DEF Comes
  <1>2. wire' = <<>> /\ cmds' = <<>> /\ AnyCall' = AnyCall /\ \A c : Becomes(c)' = c.state
    BY <1>1, SettledBare
  <1>3. ASSUME NEW c \in AnyCall, c.state \in Proper PROVE \E f \in far' : f.id = c.id /\ Fits(c.state, f.stat)
    <2>1. PICK f \in far : Paired(c, f)
      BY <1>1, SettledPairs
    <2> QED
      BY <1>1, <1>3, <2>1, PairFits DEF Paired
  <1>4. ASSUME NEW f \in far', f.stat # "incoming" PROVE \E c \in AnyCall : f.id = c.id /\ Fits(c.state, f.stat)
    <2>1. f \in far
      BY <1>1, <1>4, FarCallIs
    <2>2. PICK c \in AnyCall : Paired(c, f)
      BY <1>1, <2>1, SettledPairs
    <2> QED
      BY <1>0, <1>4, <2>2, PairFits, StatesAre DEF Paired
  <1> QED
    BY <1>2, <1>3, <1>4, MatchBare

LEMMA GoesMatch ==
  ASSUME Typed, Goes
  PROVE  Match'
  <1>0. CallsTyped
    BY TypedSplit DEF ProviderTyped
  <1>1. Settled /\ ProviderRests /\ UNCHANGED line /\ far' = far \ With("incoming")
    BY DEF Goes
  <1>2. wire' = <<>> /\ cmds' = <<>> /\ AnyCall' = AnyCall /\ \A c : Becomes(c)' = c.state
    BY <1>1, SettledBare
  <1>3. ASSUME NEW c \in AnyCall, c.state \in Proper PROVE \E f \in far' : f.id = c.id /\ Fits(c.state, f.stat)
    <2>1. PICK f \in far : Paired(c, f)
      BY <1>1, SettledPairs
    <2>2. f.stat # "incoming"
      BY <1>3, <2>1, PairFits DEF Proper
    <2> QED
      BY <1>1, <1>3, <2>1, <2>2, PairFits DEF Paired, With
  <1>4. ASSUME NEW f \in far', f.stat # "incoming" PROVE \E c \in AnyCall : f.id = c.id /\ Fits(c.state, f.stat)
    <2>2. PICK c \in AnyCall : Paired(c, f)
      BY <1>1, <1>4, SettledPairs
    <2> QED
      BY <1>0, <1>4, <2>2, PairFits, StatesAre DEF Paired
  <1> QED
    BY <1>2, <1>3, <1>4, MatchBare

LEMMA ConnectsMatch ==
  ASSUME Typed, Connects
  PROVE  Match'
  <1>0. CallsTyped /\ far \subseteq FarCalls
    BY TypedSplit DEF ProviderTyped, Outer
  <1>1. /\ Settled /\ ProviderRests /\ UNCHANGED line
        /\ far' = Moved(With("dialing") \cup With("alerting"), "active")
    BY DEF Connects
  <1>2. wire' = <<>> /\ cmds' = <<>> /\ AnyCall' = AnyCall /\ \A c : Becomes(c)' = c.state
    BY <1>1, SettledBare
  <1> DEFINE F == With("dialing") \cup With("alerting")
  <1>3. \A g : g \in far' <=> \/ g \in far /\ g.stat \notin {"dialing", "alerting"}
                              \/ \E f \in far : f.stat \in {"dialing", "alerting"} /\ g = FarCall(f.id, "active")
    <2>1. F \in SUBSET FarCalls /\ \A f : f \in F <=> f \in far /\ f.stat \in {"dialing", "alerting"}
      BY <1>0 DEF With
    <2>2. far' = (far \ F) \cup Turn(F, "active")
      BY <1>1 DEF Moved
    <2> HIDE DEF F
    <2>3. \A g : g \in Turn(F, "active") <=> \E f \in F : g = FarCall(f.id, "active")
      BY <2>1, TurnAs
    <2> QED
      BY <2>1, <2>2, <2>3
  <1>4. ASSUME NEW c \in AnyCall, c.state \in Proper PROVE \E f \in far' : f.id = c.id /\ Fits(c.state, f.stat)
    <2>1. PICK f \in far : Paired(c, f)
      BY <1>1, SettledPairs
    <2>2. Fits(c.state, f.stat) /\ f.id = c.id /\ f.stat = Stat(c.state)
      BY <1>4, <2>1, PairFits DEF Paired, Proper
    <2>3. CASE f.stat \in {"dialing", "alerting"}
      <3>1. FarCall(f.id, "active") \in far'
        BY <1>3, <2>3
      <3>2. c.state = "Dialing"
        BY <1>4, <2>2, <2>3, StatIs DEF Proper
      <3>3. FarCall(f.id, "active").id = c.id /\ Fits(c.state, FarCall(f.id, "active").stat)
        BY <1>4, <2>2, <3>2, FarCallIs DEF Fits
      <3> QED
        BY <3>1, <3>3
    <2>4. CASE f.stat \notin {"dialing", "alerting"}
      BY <1>3, <2>2, <2>4
    <2> QED
      BY <2>3, <2>4
  <1>5. ASSUME NEW g \in far', g.stat # "incoming" PROVE \E c \in AnyCall : g.id = c.id /\ Fits(c.state, g.stat)
    <2>1. CASE g \in far
      <3>1. PICK c \in AnyCall : Paired(c, g)
        BY <1>1, <2>1, SettledPairs
      <3> QED
        BY <1>0, <1>5, <3>1, PairFits, StatesAre DEF Paired
    <2>2. CASE \E f \in far : f.stat \in {"dialing", "alerting"} /\ g = FarCall(f.id, "active")
      <3>1. PICK f \in far : f.stat \in {"dialing", "alerting"} /\ g = FarCall(f.id, "active")
        BY <2>2
      <3>2. PICK c \in AnyCall : Paired(c, f)
        BY <1>1, SettledPairs
      <3>3. c.state \in Proper /\ f.stat = Stat(c.state)
        BY <1>0, <3>1, <3>2, PairFits, StatesAre
      <3>4. c.state = "Dialing"
        BY <3>1, <3>3, StatIs DEF Proper
      <3>5. g.id = c.id /\ g.stat = "active"
        BY <3>1, <3>2, FarCallIs DEF Paired
      <3> QED
        BY <3>3, <3>4, <3>5 DEF Fits
    <2> QED
      BY <1>3, <1>5, <2>1, <2>2
  <1> QED
    BY <1>2, <1>4, <1>5, MatchBare

LEMMA DropsMatch ==
  ASSUME Typed, Drops
  PROVE  Match'
  <1>0. CallsTyped
    BY TypedSplit DEF ProviderTyped
  <1>1. Settled /\ ProviderRests /\ ~hangup /\ line' = Append(line, NoCarrier)
    BY DEF Drops
  <1>2. PICK f0 \in far : With("active") = {f0} /\ far' = far \ {f0}
    BY DEF Drops
  <1>3. wire' = <<>> /\ cmds' = <<>> /\ AnyCall' = AnyCall
    BY <1>1, SettledBare
  <1>4. NoCarrierOut'
    BY <1>1, NoCarrierLast DEF Settled, Quiet, ProviderRests
  <1>5. \A c : Becomes(c)' = IF c.state = "Connected" THEN "HangupRemote" ELSE c.state
    BY <1>3, <1>4, BecomesNext
  <1>6. \A f \in far : f.stat = "active" <=> f = f0
    BY <1>2 DEF With
  <1>7. "HangupRemote" \notin Proper
    BY DEF Proper
  <1>8. ASSUME NEW c \in AnyCall, c.state \in Proper, c.state # "Connected"
        PROVE  \E f \in far' : f.id = c.id /\ Fits(c.state, f.stat)
    <2>1. PICK f \in far : Paired(c, f)
      BY <1>1, SettledPairs
    <2>2. Fits(c.state, f.stat) /\ f.id = c.id /\ f.stat = Stat(c.state)
      BY <1>8, <2>1, PairFits DEF Paired, Proper
    <2>3. f.stat # "active"
      BY <1>8, <2>2, StatIs DEF Proper
    <2> QED
      BY <1>2, <1>6, <2>2, <2>3
  <1>9. ASSUME NEW f \in far', f.stat # "incoming"
        PROVE  \E c \in AnyCall : f.id = c.id /\ c.state # "Connected" /\ Fits(c.state, f.stat)
    <2>1. f \in far /\ f.stat # "active"
      BY <1>2, <1>6, <1>9
    <2>2. PICK c \in AnyCall : Paired(c, f)
      BY <1>1, <2>1, SettledPairs
    <2>3. c.state \in Proper /\ f.stat = Stat(c.state) /\ Fits(c.state, f.stat) /\ f.id = c.id
      BY <1>0, <1>9, <2>2, PairFits, StatesAre DEF Paired
    <2>4. c.state # "Connected"
      BY <2>1, <2>3, StatIs
    <2> QED
      BY <2>3, <2>4
  <1> QED
    BY <1>3, <1>5, <1>7, <1>8, <1>9, MatchBare

LEMMA FitsStat ==
  ASSUME NEW state \in Proper
  PROVE  Fits(state, Stat(state)) /\ Stat(state) # "gone" /\ Stat(state) # "incoming"
  BY StatIs DEF Fits

\* The calls the modem is to have after a request
LEMMA WishedAim ==
  ASSUME NEW new, new # <<>>, cmds' = new, wire' = <<Sent(Head(new))>>, far' = far
  PROVE  \A g : g \in Aim' <=> g \in Obeyed(Sent(Head(new))) /\ g.id \notin RestOf(new)
  <1>1. PICK command : command = Sent(Head(new))
    OBVIOUS
  <1>2. wire' # <<>> /\ Head(wire') = command
    BY <1>1
  <1>3. Obeyed(Head(wire))' = Obeyed(command)'
    BY <1>2 DEF Obeyed
  <1>4. Obeyed(command)' = Obeyed(command)
    BY FarNextSame
  <1>5. Target' = Obeyed(command)
    BY <1>2, <1>3, <1>4 DEF Target
  <1>6. RestOf(cmds)' = RestOf(new)
    BY DEF RestOf
  <1>7. Aim' = {f \in Obeyed(command) : f.id \notin RestOf(new)}
    BY <1>5, <1>6 DEF Aim
  <1> QED
    BY <1>1, <1>7

LEMMA RequestMatch ==
  ASSUME Typed, Owned, OneRings, Requests
  PROVE  Match'
  <1>1. PICK new, s, b, o : Wished(new, s, b, o)
    BY RequestWished
  <1>2. Settled /\ Asked /\ Wish(new, s)
    BY <1>1 DEF Wished, Requests
  <1>3. /\ cmds' = new /\ new # <<>> /\ wire' = <<Sent(Head(new))>> /\ far' = far /\ ~NoCarrierOut'
    BY <1>2, WishedEffect DEF Wish
  <1>4. /\ \A c \in AnyCall, d \in AnyCall' : d.key = c.key => Result(Head(new), d)' = b[c]
        /\ \A c \in AnyCall : b[c] \in Proper => s[c] \in States
        /\ \A c \in AnyCall, f \in far : Paired(c, f) => Suits(b[c], o[f])
        /\ \A g : g \in Obeyed(Sent(Head(new))) /\ g.id \notin RestOf(new)
              <=> \E f \in far : o[f] # "gone" /\ g = FarCall(f.id, o[f])
    BY <1>1 DEF Wished
  <1>5. \A g : g \in Aim' <=> \E f \in far : o[f] # "gone" /\ g = FarCall(f.id, o[f])
    BY <1>3, <1>4, WishedAim
  <1>6. \A d : Becomes(d)' = Result(Head(new), d)'
    BY <1>3, BecomesNext
  <1>7. Becoming(s)
    BY <1>2 DEF Wish
  <1>8. ASSUME NEW d \in AnyCall', Becomes(d)' \in Proper
        PROVE  \E f \in Aim' : f.id = d.id /\ Fits(Becomes(d)', f.stat)
    <2>1. PICK c \in AnyCall : d.key = c.key /\ d.id = c.id
      BY <1>7 DEF Becoming
    <2>2. Becomes(d)' = b[c] /\ b[c] \in Proper
      BY <1>4, <1>6, <1>8, <2>1
    <2>3. PICK f \in far : Paired(c, f)
      BY <1>2, SettledPairs
    <2>4. o[f] = Stat(b[c])
      BY <1>4, <2>2, <2>3 DEF Suits
    <2>5. FarCall(f.id, o[f]) \in Aim'
      BY <1>5, <2>2, <2>4, FitsStat
    <2>6. FarCall(f.id, o[f]).id = d.id /\ FarCall(f.id, o[f]).stat = Stat(b[c])
      BY <2>1, <2>3, <2>4, FarCallIs DEF Paired
    <2>7. Fits(Becomes(d)', FarCall(f.id, o[f]).stat)
      BY <2>2, <2>6, FitsStat
    <2> QED
      BY <2>5, <2>6, <2>7
  <1>9. ASSUME NEW g \in Aim', g.stat # "incoming"
        PROVE  \E d \in AnyCall' : g.id = d.id /\ Fits(Becomes(d)', g.stat)
    <2>1. PICK f \in far : o[f] # "gone" /\ g = FarCall(f.id, o[f])
      BY <1>5, <1>9
    <2>2. PICK c \in AnyCall : Paired(c, f)
      BY <1>2, SettledPairs
    <2>3. g.id = f.id /\ g.stat = o[f]
      BY <2>1, FarCallIs
    <2>4. b[c] \in Proper /\ o[f] = Stat(b[c])
      BY <1>4, <1>9, <2>1, <2>2, <2>3 DEF Suits
    <2>5. PICK d \in AnyCall' : d.key = c.key /\ d.id = c.id
      BY <1>4, <1>7, <2>4 DEF Becoming
    <2>6. Becomes(d)' = b[c]
      BY <1>4, <1>6, <2>5
    <2>7. Fits(Becomes(d)', g.stat)
      BY <2>3, <2>4, <2>6, FitsStat
    <2>8. g.id = d.id
      BY <2>2, <2>3, <2>5 DEF Paired
    <2> QED
      BY <2>7, <2>8
  <1> QED
    BY <1>8, <1>9, MatchNext

LEMMA DialsMatch ==
  ASSUME Typed, Owned, IdsKept, Gathers, Dials
  PROVE  Match'
  <1>0. ProviderTyped /\ CallsTyped /\ far \subseteq FarCalls
    BY TypedSplit DEF ProviderTyped, Outer
  <1>1. Settled /\ Dial /\ ~(UNCHANGED provider)
    BY DEF Dials
  <1>2. /\ cmds' = <<DialCommand>> /\ wire' = <<Sent(DialCommand)>> /\ far' = far /\ ~NoCarrierOut'
        /\ Head(cmds') = DialCommand
        /\ DialCommand.at = "ATD" /\ DialCommand.slot = "dialRequestDone"
    BY DialsEffect
  <1>3. \A d : Becomes(d)' = d.state
    BY <1>2, BecomesPlain DEF PlainSlots
  <1> DEFINE cs == ChangeGroup(calls, "Connected", "Hold")
  <1>4. /\ \A i \in DOMAIN calls :
             /\ cs[i].state = IF calls[i].state = "Connected" THEN "Hold" ELSE calls[i].state
             /\ cs[i].id = calls[i].id
        /\ \A d \in AnyCall' : d = Dialed \/ \E i \in DOMAIN calls : d = cs[i]
        /\ \A i \in DOMAIN calls : cs[i] \in AnyCall'
        /\ Dialed \in AnyCall' /\ Dialed.state = "Dialing" /\ Dialed.id = NextId(usedIds)
    BY <1>0, <1>1, DialEffect DEF Restates
  <1> HIDE DEF cs
  <1>5. PICK command : command = DialCommand
    OBVIOUS
  <1>6. \A g : g \in Aim' <=>
           \/ g = FarCall(FreeId, "dialing")
           \/ \E f \in far : g = FarCall(f.id, IF f.stat = "active" THEN "held" ELSE f.stat)
    <2>1. <<command>> # <<>> /\ Head(<<command>>) = command
      OBVIOUS
    <2>2. \A g : g \in Aim' <=> g \in Obeyed(Sent(command)) /\ g.id \notin RestOf(<<command>>)
      <3>1. PICK new : new = <<command>>
        OBVIOUS
      <3>2. new # <<>> /\ Head(new) = command /\ cmds' = new /\ wire' = <<Sent(Head(new))>>
        BY <1>2, <1>5, <2>1, <3>1
      <3>3. \A g : g \in Aim' <=> g \in Obeyed(Sent(Head(new))) /\ g.id \notin RestOf(new)
        BY <1>2, <3>2, WishedAim
      <3> QED
        BY <3>1, <3>2, <3>3
    <2>3. RestOf(<<command>>) = {}
      BY NoRest
    <2>4. Sent(command).at = "ATD"
      BY <1>2, <1>5, SentIs
    <2>5. \A g : g \in Obeyed(Sent(command)) <=>
           \/ g = FarCall(FreeId, "dialing")
           \/ \E f \in far : g = FarCall(f.id, IF f.stat = "active" THEN "held" ELSE f.stat)
      BY <1>0, <2>4, DialObeyed
    <2> QED
      BY <2>2, <2>3, <2>5
  <1>7. ASSUME Possible(Head(wire))' PROVE FreeId = Dialed.id
    <2>1. Head(wire').at = "ATD"
      <3>1. Head(wire') = Sent(DialCommand)
        BY <1>2
      <3> QED
        BY <1>2, <3>1, SentIs
    <2>2. Room'
      BY <1>7, <2>1 DEF Possible
    <2>3. Room
      BY <1>2, <2>2 DEF Room
    <2> QED
      BY <1>1, <1>4, <2>3, SettledFree
  <1>8. wire' # <<>>
    BY <1>2
  <1>9. \A f \in far : FarCall(f.id, f.stat) = f
    BY <1>0, FarCallIs
  <1>10. ASSUME Possible(Head(wire))', NEW d \in AnyCall', d.state \in Proper
         PROVE  \E f \in Aim' : f.id = d.id /\ Fits(d.state, f.stat)
    <2>1. CASE d = Dialed
      <3>1. FarCall(FreeId, "dialing") \in Aim' /\ FarCall(FreeId, "dialing").id = d.id
            /\ FarCall(FreeId, "dialing").stat = "dialing"
        BY <1>6, <1>7, <1>10, <2>1, FarCallIs
      <3>2. Fits(d.state, "dialing")
        BY <1>4, <1>10, <2>1, StatIs DEF Fits
      <3> QED
        BY <3>1, <3>2
    <2>2. ASSUME NEW i \in DOMAIN calls, d = cs[i] PROVE \E f \in Aim' : f.id = d.id /\ Fits(d.state, f.stat)
      <3>1. calls[i] \in AnyCall
        BY DEF AnyCall
      <3>2. PICK f \in far : Paired(calls[i], f)
        BY <1>1, <3>1, SettledPairs
      <3>3. d.state = (IF calls[i].state = "Connected" THEN "Hold" ELSE calls[i].state) /\ d.id = calls[i].id
        BY <1>4, <2>2
      <3>4. calls[i].state \in Proper /\ f.stat = Stat(calls[i].state) /\ f.id = d.id
        BY <1>10, <3>2, <3>3 DEF Proper, Paired
      <3>5. (IF f.stat = "active" THEN "held" ELSE f.stat) = Stat(d.state)
        BY <3>3, <3>4, StatIs DEF Proper
      <3>6. FarCall(f.id, Stat(d.state)) \in Aim'
        BY <1>6, <3>5
      <3> QED
        BY <1>10, <3>4, <3>6, FitsStat, FarCallIs
    <2> QED
      BY <1>4, <2>1, <2>2
  <1>11. ASSUME Possible(Head(wire))', NEW g \in Aim', g.stat # "incoming"
         PROVE  \E d \in AnyCall' : g.id = d.id /\ Fits(d.state, g.stat)
    <2>1. CASE g = FarCall(FreeId, "dialing")
      <3>1. g.id = Dialed.id /\ g.stat = "dialing"
        BY <1>7, <1>11, <2>1, FarCallIs
      <3>2. Fits(Dialed.state, "dialing")
        BY <1>4, StatIs DEF Fits, Proper
      <3> QED
        BY <1>4, <3>1, <3>2
    <2>2. ASSUME NEW f \in far, g = FarCall(f.id, IF f.stat = "active" THEN "held" ELSE f.stat)
          PROVE  \E d \in AnyCall' : g.id = d.id /\ Fits(d.state, g.stat)
      <3>1. g.id = f.id /\ g.stat = (IF f.stat = "active" THEN "held" ELSE f.stat)
        BY <2>2, FarCallIs
      <3>2. f.stat # "incoming"
        BY <1>11, <3>1
      <3>3. PICK c \in AnyCall : Paired(c, f)
        BY <1>1, SettledPairs
      <3>4. c.state \in Proper /\ f.stat = Stat(c.state) /\ f.id = c.id
        BY <1>0, <3>2, <3>3, PairFits, StatesAre DEF Paired
      <3>5. PICK i \in DOMAIN calls : c = calls[i]
        BY DEF AnyCall
      <3>6. cs[i] \in AnyCall' /\ cs[i].id = g.id
            /\ cs[i].state = IF c.state = "Connected" THEN "Hold" ELSE c.state
        BY <1>4, <3>1, <3>4, <3>5
      <3>7. g.stat = Stat(cs[i].state) /\ cs[i].state \in Proper
        BY <3>1, <3>4, <3>6, StatIs DEF Proper
      <3> QED
        BY <3>6, <3>7, FitsStat
    <2> QED
      BY <1>6, <1>11, <2>1, <2>2
  <1>12. /\ \A d \in AnyCall' : Possible(Head(wire))' /\ Becomes(d)' \in Proper =>
              \E f \in Aim' : f.id = d.id /\ Fits(Becomes(d)', f.stat)
         /\ \A g \in Aim' : Possible(Head(wire))' /\ g.stat # "incoming" =>
              \E d \in AnyCall' : g.id = d.id /\ Fits(Becomes(d)', g.stat)
    BY <1>3, <1>10, <1>11
  <1> QED
    BY <1>8, <1>12, MatchNext

\* What goes out is a question: it changes nothing of the modem's
LEMMA ClccAims ==
  ASSUME NEW command, command.at = "CLCC"
  PROVE  Obeyed(command) = far /\ Possible(command)
  BY DEF Obeyed, Possible

\* The provider asks on its own
LEMMA ClccAim ==
  ASSUME QueueTyped, Wired, NEW command \in Commands, command.at = "CLCC", Chat(<<command>>), far' = far
  PROVE  /\ Aim' = Aim
         /\ (wire' # <<>> => Possible(Head(wire))') => (wire # <<>> => Possible(Head(wire)))
  <1>1. /\ cmds' \in Seq(Commands)
        /\ Len(cmds) \in Nat /\ DOMAIN cmds = 1 .. Len(cmds)
        /\ \A j \in DOMAIN cmds' :
              \/ j \in DOMAIN cmds /\ cmds'[j] = cmds[j]
              \/ j = Len(cmds) + 1 /\ cmds'[j] = command
        /\ \A j \in DOMAIN cmds : j \in DOMAIN cmds' /\ cmds'[j] = cmds[j]
        /\ cmds # <<>> => wire' = wire
        /\ cmds = <<>> => wire' = Append(wire, Sent(command))
    BY ChatOne
  <1>2. RestOf(cmds)' = RestOf(cmds)
    <2>1. \A x : x \in RestOf(cmds)' <=> \E k \in DOMAIN cmds' : k # 1 /\ cmds'[k].at = "CHLD1x" /\ x = cmds'[k].id
      BY DEF RestOf
    <2>2. \A x : x \in RestOf(cmds) <=> \E k \in DOMAIN cmds : k # 1 /\ cmds[k].at = "CHLD1x" /\ x = cmds[k].id
      BY DEF RestOf
    <2>3. ASSUME NEW x \in RestOf(cmds)' PROVE x \in RestOf(cmds)
      <3>1. PICK k \in DOMAIN cmds' : k # 1 /\ cmds'[k].at = "CHLD1x" /\ x = cmds'[k].id
        BY <2>1, <2>3
      <3>2. k \in DOMAIN cmds /\ cmds'[k] = cmds[k]
        BY <1>1, <3>1
      <3> QED
        BY <2>2, <3>1, <3>2
    <2>4. ASSUME NEW x \in RestOf(cmds) PROVE x \in RestOf(cmds)'
      BY <1>1, <2>1, <2>2, <2>4
    <2> QED
      BY <2>3, <2>4
  <1>3. CASE cmds # <<>>
    <2>1. PICK first : first = Head(wire)
      OBVIOUS
    <2>2. Obeyed(first)' = Obeyed(first) /\ Possible(first)' = Possible(first)
      BY FarNextSame
    <2>3. wire' = wire /\ Head(wire') = first
      BY <1>1, <1>3, <2>1
    <2>4. Obeyed(Head(wire))' = Obeyed(first)' /\ Possible(Head(wire))' = Possible(first)'
      BY <2>3 DEF Obeyed, Possible
    <2>5. Target' = Target
      BY <2>1, <2>2, <2>3, <2>4 DEF Target
    <2> QED
      BY <1>2, <2>1, <2>2, <2>3, <2>4, <2>5 DEF Aim
  <1>4. CASE cmds = <<>>
    <2>1. wire = <<>>
      BY <1>4 DEF Wired
    <2>2. PICK first : first = Sent(command)
      OBVIOUS
    <2>3. wire' # <<>> /\ Head(wire') = first
      BY <1>1, <1>4, <2>1, <2>2
    <2>4. Obeyed(Head(wire))' = Obeyed(first)'
      BY <2>3 DEF Obeyed
    <2>5. first.at = "CLCC"
      BY <2>2, SentIs
    <2>6. Obeyed(first)' = far
      BY <2>5, ClccAims, FarNextSame
    <2>7. Target' = Target
      BY <2>1, <2>3, <2>4, <2>6 DEF Target
    <2> QED
      BY <1>2, <2>1, <2>7 DEF Aim
  <1> QED
    BY <1>3, <1>4

\* What becomes of a call has nothing to do with a question
LEMMA ClccBecomes ==
  ASSUME QueueTyped, NEW command \in Commands, command.slot \in {"clccIncoming", "clccDialCheck"}, Chat(<<command>>),
         NoCarrierOut' <=> NoCarrierOut,
         HasGroup(calls, "Incoming")' <=> HasGroup(calls, "Incoming"),
         NEW c, NEW d, d.key = c.key, d.state = c.state
  PROVE  Becomes(d)' = Becomes(c)
  <1>1. /\ cmds # <<>> => Head(cmds') = Head(cmds)
        /\ cmds = <<>> => Head(cmds') = command
        /\ cmds' # <<>>
    BY ChatOne
  <1>2. PICK q : q = cmds'
    OBVIOUS
  <1>3. Becomes(d)' = IF NoCarrierOut' THEN IF d.state = "Connected" THEN "HangupRemote" ELSE d.state
                      ELSE IF q = <<>> THEN d.state
                      ELSE Result(Head(q), d)'
    BY <1>2, BecomesNext
  <1>4. CASE NoCarrierOut
    BY <1>3, <1>4 DEF Becomes
  <1>5. CASE ~NoCarrierOut /\ cmds = <<>>
    <2>1. Result(Head(q), d)' = d.state
      BY <1>1, <1>2, <1>5, ResultPlain
    <2> QED
      BY <1>3, <1>5, <2>1 DEF Becomes
  <1>6. CASE ~NoCarrierOut /\ cmds # <<>>
    <2>1. Head(q) = Head(cmds)
      BY <1>1, <1>2, <1>6
    <2>2. Result(Head(q), d)' = Result(Head(q), c)
      BY ResultAs
    <2> QED
      BY <1>1, <1>2, <1>3, <1>6, <2>1, <2>2 DEF Becomes
  <1> QED
    BY <1>4, <1>5, <1>6

LEMMA DialStepMatch ==
  ASSUME Typed, Wired, Match, DialStep
  PROVE  Match'
  <1>0. ProviderTyped /\ QueueTyped /\ CallsTyped
    BY TypedSplit DEF ProviderTyped
  <1>1. far' = far
    BY DEF DialStep
  <1>2. PICK c0 \in AnyCall : DialCheck(c0)
    BY DEF DialStep
  <1>3. c0 \in Call
    BY <1>0, CallsAre
  <1>4. /\ Follows(calls')
        /\ \A i \in DOMAIN calls : calls'[i].state = calls[i].state /\ calls'[i] \in AnyCall'
        /\ \A d \in AnyCall' : \E i \in DOMAIN calls : d = calls'[i]
        /\ Chat(<<DialQuestion(c0)>>)
        /\ line' = line
    BY <1>0, <1>2, DialCheckEffect
  <1>5. DialQuestion(c0) \in Commands /\ DialQuestion(c0).at = "CLCC" /\ DialQuestion(c0).slot = "clccDialCheck"
    BY <1>3, DialQuestionIs
  <1>6. NoCarrierOut' <=> NoCarrierOut
    BY <1>4 DEF NoCarrierOut
  <1>7. \A i \in DOMAIN calls : calls'[i].key = calls[i].key /\ calls'[i].id = calls[i].id
    BY <1>4 DEF Follows
  <1>8. HasGroup(calls, "Incoming")' <=> HasGroup(calls, "Incoming")
    BY <1>4, GroupIs DEF AnyCall
  <1>9. ASSUME NEW i \in DOMAIN calls, NEW d \in AnyCall', d = calls'[i] PROVE Becomes(d)' = Becomes(calls[i])
    <2>1. d.key = calls[i].key /\ d.state = calls[i].state
      BY <1>4, <1>7, <1>9
    <2> QED
      BY <1>0, <1>4, <1>5, <1>6, <1>8, <2>1, ClccBecomes
  <1>10. \A i \in DOMAIN calls : calls[i] \in AnyCall
    BY DEF AnyCall
  <1>11. \A d \in AnyCall' : Becomes(d)' \in Proper => \E c \in AnyCall : c.id = d.id /\ Becomes(c) = Becomes(d)'
    BY <1>4, <1>7, <1>9, <1>10
  <1>12. \A c \in AnyCall : Becomes(c) \in Proper => \E d \in AnyCall' : d.id = c.id /\ Becomes(d)' = Becomes(c)
    BY <1>4, <1>7, <1>9 DEF AnyCall
  <1>13. /\ Aim' = Aim
         /\ (wire' # <<>> => Possible(Head(wire))') => (wire # <<>> => Possible(Head(wire)))
    BY <1>0, <1>1, <1>4, <1>5, ClccAim
  <1> QED
    BY <1>11, <1>12, <1>13, MatchEqual

LEMMA DetectMatch ==
  ASSUME Typed, Wired, NoSwap, Match, DetectStep
  PROVE  Match'
  <1>0. ProviderTyped /\ QueueTyped /\ CallsTyped
    BY TypedSplit DEF ProviderTyped
  <1>1. DetectTimeout /\ far' = far
    BY DEF DetectStep
  <1>2. /\ detect
        /\ \/ /\ AnnouncedCall(incomingId).state = "Incoming" /\ AnnouncedCall(incomingId).key = NewKey
              /\ AnyCall' = AnyCall \cup {AnnouncedCall(incomingId)}
              /\ UNCHANGED chat
           \/ /\ Chat(<<ClccQuestion>>)
              /\ AnyCall' = AnyCall /\ UNCHANGED <<calls, incomingId>>
        /\ line' = line
    BY <1>0, <1>1, DetectEffect
  <1>3. NoCarrierOut' <=> NoCarrierOut
    BY <1>2 DEF NoCarrierOut
  <1>4. CASE /\ AnnouncedCall(incomingId).state = "Incoming" /\ AnnouncedCall(incomingId).key = NewKey
             /\ AnyCall' = AnyCall \cup {AnnouncedCall(incomingId)}
             /\ UNCHANGED chat
    <2>1. UNCHANGED <<cmds, wire>>
      BY <1>4 DEF chat
    <2>2. PICK q : q = cmds
      OBVIOUS
    <2>3. q # <<>> => Head(q).slot \notin Swaps
      BY <1>2, <2>2 DEF NoSwap
    <2>4. \A d : q # <<>> => Result(Head(q), d)' = Result(Head(q), d)
      BY <2>3, ResultAs
    <2>5. \A d : Becomes(d)' = Becomes(d)
      BY <1>3, <2>1, <2>2, <2>4, BecomesNext DEF Becomes
    <2>6. PICK a : a = AnnouncedCall(incomingId)
      OBVIOUS
    <2>7. a.state = "Incoming" /\ AnyCall' = AnyCall \cup {a}
      BY <1>4, <2>6
    <2>8. q # <<>> => Head(q).key # a.key
      <3>1. q # <<>> => Head(q) = cmds[1] /\ 1 \in DOMAIN cmds
        BY <1>0, <2>2, TailIs DEF QueueTyped
      <3> QED
        BY <1>0, <1>4, <2>6, <3>1, NewKeyFresh
    <2>9. Becomes(a) \notin Proper
      <3>1. q # <<>> => Result(Head(q), a) = "Incoming"
        BY <2>3, <2>7, <2>8 DEF Result
      <3> QED
        BY <2>2, <2>7, <3>1 DEF Becomes, Proper
    <2>10. \A d \in AnyCall' : Becomes(d)' \in Proper => d \in AnyCall
      BY <2>5, <2>7, <2>9
    <2>11. Aim' = Aim /\ ((wire' # <<>> => Possible(Head(wire))') => (wire # <<>> => Possible(Head(wire))))
      BY <1>1, <2>1, AimRests
    <2>12. \A d \in AnyCall' : Becomes(d)' \in Proper => \E c \in AnyCall : c.id = d.id /\ Becomes(c) = Becomes(d)'
      BY <2>5, <2>10
    <2>13. \A c \in AnyCall : Becomes(c) \in Proper => \E d \in AnyCall' : d.id = c.id /\ Becomes(d)' = Becomes(c)
      BY <2>5, <2>7
    <2> QED
      BY <2>11, <2>12, <2>13, MatchEqual
  <1>5. CASE /\ Chat(<<ClccQuestion>>)
             /\ AnyCall' = AnyCall /\ UNCHANGED <<calls, incomingId>>
    <2>1. HasGroup(calls, "Incoming")' <=> HasGroup(calls, "Incoming")
      BY <1>5, GroupIs
    <2>2. \A c \in AnyCall : Becomes(c)' = Becomes(c)
      BY <1>0, <1>3, <1>5, <2>1, ClccQuestionIs, ClccBecomes
    <2>3. Aim' = Aim /\ ((wire' # <<>> => Possible(Head(wire))') => (wire # <<>> => Possible(Head(wire))))
      BY <1>0, <1>1, <1>5, ClccQuestionIs, ClccAim
    <2> QED
      BY <1>5, <2>2, <2>3, MatchEqual
  <1> QED
    BY <1>2, <1>4, <1>5

LEMMA MissedMatch ==
  ASSUME Typed, Match, MissedStep
  PROVE  Match'
  <1>0. ProviderTyped /\ QueueTyped /\ CallsTyped
    BY TypedSplit DEF ProviderTyped
  <1>1. MissedTimeout /\ far' = far /\ cmds = <<>> /\ wire = <<>> /\ line = <<>>
    BY DEF MissedStep, Quiet
  <1> DEFINE cs == Missed(calls)
  <1>2. Handled(cs) /\ Leave(cs, usedIds) /\ UNCHANGED <<chat, line>>
    BY <1>0, <1>1, MissedEffect
  <1>3. \A i \in DOMAIN calls :
           \/ cs[i].state = calls[i].state
           \/ calls[i].state = "Incoming" /\ cs[i].state = "Missed"
    BY <1>0, MissedIs
  <1>4. Follows(cs)
    BY <1>0, <1>2, HandledFollows
  <1> HIDE DEF cs
  <1>5. /\ \A d \in AnyCall' : \E i \in DOMAIN calls : d = cs[i] /\ cs[i].state \in States
        /\ \A i \in DOMAIN calls : cs[i].state \in States => cs[i] \in AnyCall'
    BY <1>0, <1>2, <1>4, LeaveEffect
  <1>6. ~NoCarrierOut /\ ~NoCarrierOut' /\ cmds' = <<>> /\ wire' = <<>>
    BY <1>1, <1>2 DEF NoCarrierOut, chat
  <1>7. (\A c : Becomes(c) = c.state) /\ \A c : Becomes(c)' = c.state
    BY <1>1, <1>6, BecomesPlain DEF Becomes
  <1>8. \A i \in DOMAIN calls : calls[i] \in AnyCall /\ cs[i].id = calls[i].id
    BY <1>4 DEF AnyCall, Follows
  <1>9. ASSUME NEW d \in AnyCall', d.state \in Proper PROVE \E c \in AnyCall : c.id = d.id /\ c.state = d.state
    BY <1>3, <1>5, <1>8, <1>9 DEF Proper
  <1>10. ASSUME NEW c \in AnyCall, c.state \in Proper PROVE \E d \in AnyCall' : d.id = c.id /\ d.state = c.state
    <2>1. PICK i \in DOMAIN calls : c = calls[i]
      BY DEF AnyCall
    <2>2. cs[i].state = c.state /\ cs[i].state \in States
      BY <1>3, <1>10, <2>1 DEF Proper, States
    <2> QED
      BY <1>5, <1>8, <2>1, <2>2
  <1>11. /\ Aim' = Aim
         /\ (wire' # <<>> => Possible(Head(wire))') => (wire # <<>> => Possible(Head(wire)))
    BY <1>1, <1>2, AimRests DEF chat
  <1>12. \A d \in AnyCall' : Becomes(d)' \in Proper => \E c \in AnyCall : c.id = d.id /\ Becomes(c) = Becomes(d)'
    BY <1>7, <1>9
  <1>13. \A c \in AnyCall : Becomes(c) \in Proper => \E d \in AnyCall' : d.id = c.id /\ Becomes(d)' = Becomes(c)
    BY <1>7, <1>10
  <1> QED
    BY <1>11, <1>12, <1>13, MatchEqual

LEMMA ObeysMatch ==
  ASSUME Typed, Wired, Match, Obeys
  PROVE  Match'
  <1>0. line \in Seq(Lines)
    BY TypedSplit DEF Outer
  <1>1. /\ cmds # <<>> /\ wire' = <<>> /\ Possible(Head(wire)) /\ far' = Obeyed(Head(wire))
        /\ UNCHANGED <<calls, cmds>>
        /\ \E x \in Lines : x.kind = "answer" /\ line' = Append(line, x)
    BY ObeysEffect
  <1>2. wire # <<>>
    <2>1. <<Sent(Head(cmds))>> # <<>>
      OBVIOUS
    <2> QED
      BY <2>1, ObeysEffect
  <1>3. NoCarrierOut' <=> NoCarrierOut
    <2>1. NoCarrierOut' => NoCarrierOut
      BY <1>0, <1>1, NoCarrierLonger
    <2>2. PICK x \in Lines : line' = Append(line, x)
      BY <1>1
    <2>3. \A i \in DOMAIN line : i \in DOMAIN line' /\ line'[i] = line[i]
      BY <1>0, <2>2, LineLonger
    <2>4. NoCarrierOut => NoCarrierOut'
      BY <2>3 DEF NoCarrierOut
    <2> QED
      BY <2>1, <2>4
  <1>4. \A c : Becomes(c)' = Becomes(c)
    BY <1>1, <1>3, BecomesAs
  <1>5. AnyCall' = AnyCall
    BY <1>1 DEF AnyCall
  <1>6. Target' = Target
    BY <1>1, <1>2 DEF Target
  <1>7. Aim' = Aim
    BY <1>1, <1>6 DEF Aim, RestOf
  <1>8. wire # <<>> => Possible(Head(wire))
    BY <1>1
  <1>9. /\ \A d \in AnyCall' : Becomes(d)' \in Proper => \E c \in AnyCall : c.id = d.id /\ Becomes(c) = Becomes(d)'
        /\ \A c \in AnyCall : Becomes(c) \in Proper => \E d \in AnyCall' : d.id = c.id /\ Becomes(d)' = Becomes(c)
    BY <1>4, <1>5
  <1> QED
    BY <1>7, <1>8, <1>9, MatchEqual

\* The line that is read is not NO CARRIER: there is none
LEMMA NotCarrier ==
  ASSUME Carrier, line \in Seq(Lines), line # <<>>, Head(line).kind # "nocarrier", line' = Tail(line)
  PROVE  ~NoCarrierOut /\ ~NoCarrierOut'
  <1>1. Head(line) = line[1]
    BY LineShorter
  <1>2. ~NoCarrierOut
    BY <1>1 DEF Carrier, NoCarrierOut
  <1> QED
    BY <1>2, NoCarrierFewer

LEMMA ReadRingMatch ==
  ASSUME Typed, Carrier, Match, Reads(ReadRing)
  PROVE  Match'
  <1>0. line \in Seq(Lines)
    BY TypedSplit DEF Outer
  <1>1. /\ line # <<>> /\ Head(line).kind = "ring" /\ line' = Tail(line) /\ UNCHANGED <<calls, cmds, wire, far>>
    BY DEF Reads, ReadRing, LineIs, Ringing, chat
  <1>2. ~NoCarrierOut /\ ~NoCarrierOut'
    BY <1>0, <1>1, NotCarrier
  <1> QED
    BY <1>1, <1>2, MatchSame

LEMMA ReadNoCarrierMatch ==
  ASSUME Typed, Wired, Carrier, Match, Reads(ReadNoCarrier)
  PROVE  Match'
  <1>0. ProviderTyped /\ QueueTyped /\ CallsTyped /\ line \in Seq(Lines)
    BY TypedSplit DEF ProviderTyped, Outer
  <1>1. /\ line # <<>> /\ Head(line).kind = "nocarrier" /\ line' = Tail(line) /\ UNCHANGED chat
        /\ \A j \in DOMAIN cmds : cmds[j].at = "CLCC"
    BY ReadNoCarrierIs DEF Reads
  <1>2. NoCarrierOut /\ ~NoCarrierOut' /\ ~hangup
    BY <1>0, <1>1, NoCarrierFewer, CarrierShorter DEF Carrier
  <1>3. cmds # <<>> => Head(cmds) = cmds[1] /\ 1 \in DOMAIN cmds
    BY <1>0, TailIs DEF QueueTyped
  <1>4. cmds # <<>> => Head(cmds).at = "CLCC" /\ Head(cmds).slot \in PlainSlots
    BY <1>0, <1>1, <1>3 DEF QueueTyped, CmdOk, PlainSlots
  <1>5. Leave(ChangeGroup(calls, "Connected", "HangupRemote"), usedIds)
    BY <1>2, <1>4 DEF Reads, ReadNoCarrier
  <1> DEFINE cs == ChangeGroup(calls, "Connected", "HangupRemote")
  <1>6. /\ Handled(cs)
        /\ \A i \in DOMAIN calls : cs[i].state = IF calls[i].state = "Connected" THEN "HangupRemote" ELSE calls[i].state
    BY <1>0, <1>1, <1>5, CarrierLost
  <1>7. Follows(cs) /\ Leave(cs, usedIds)
    BY <1>0, <1>5, <1>6, HandledFollows
  <1> HIDE DEF cs
  <1>8. /\ \A d \in AnyCall' : \E i \in DOMAIN calls : d = cs[i] /\ cs[i].state \in States
        /\ \A i \in DOMAIN calls : cs[i].state \in States => cs[i] \in AnyCall'
    BY <1>0, <1>7, LeaveEffect
  <1>9. \A c : Becomes(c)' = c.state
    BY <1>1, <1>2, <1>4, BecomesPlain DEF chat
  <1>10. \A c : Becomes(c) = IF c.state = "Connected" THEN "HangupRemote" ELSE c.state
    BY <1>2 DEF Becomes
  <1>11. \A i \in DOMAIN calls : calls[i] \in AnyCall /\ cs[i].id = calls[i].id /\ cs[i].state = Becomes(calls[i])
    BY <1>6, <1>7, <1>10 DEF AnyCall, Follows
  <1>12. /\ Aim' = Aim
         /\ (wire' # <<>> => Possible(Head(wire))') => (wire # <<>> => Possible(Head(wire)))
    BY <1>1, AimRests DEF chat, Reads
  <1>13. \A d \in AnyCall' : Becomes(d)' \in Proper => \E c \in AnyCall : c.id = d.id /\ Becomes(c) = Becomes(d)'
    BY <1>8, <1>9, <1>11
  <1>14. ASSUME NEW c \in AnyCall, Becomes(c) \in Proper PROVE \E d \in AnyCall' : d.id = c.id /\ Becomes(d)' = Becomes(c)
    <2>1. PICK i \in DOMAIN calls : c = calls[i]
      BY DEF AnyCall
    <2>2. cs[i].state \in States
      BY <1>11, <1>14, <2>1 DEF Proper, States
    <2> QED
      BY <1>8, <1>9, <1>11, <2>1, <2>2
  <1> QED
    BY <1>12, <1>13, <1>14, MatchEqual

\* The head of the queue has its answer, and the next command, if any, is out
LEMMA DoneAim ==
  ASSUME QueueTyped, Behind, cmds # <<>>, wire = <<>>, far' = far, NEW more \in Seq(Commands), Done(more),
         \A k \in DOMAIN more : more[k].at = "CLCC"
  PROVE  Aim' = Aim
  <1>1. /\ cmds' \in Seq(Commands) /\ wire' \in Seq(Sents)
        /\ Len(cmds) \in Nat /\ DOMAIN cmds = 1 .. Len(cmds)
        /\ \A j \in DOMAIN cmds' :
              \/ j + 1 \in DOMAIN cmds /\ cmds'[j] = cmds[j + 1]
              \/ j + 1 \notin DOMAIN cmds /\ j + 1 - Len(cmds) \in DOMAIN more /\ cmds'[j] = more[j + 1 - Len(cmds)]
        /\ \A j \in DOMAIN cmds : j # 1 => j - 1 \in DOMAIN cmds' /\ cmds'[j - 1] = cmds[j]
        /\ wire' = IF cmds' = <<>> THEN wire ELSE Append(wire, Sent(Head(cmds')))
    BY DoneEffect
  <1>2. \A x : x \in RestOf(cmds) <=> \E k \in DOMAIN cmds : k # 1 /\ cmds[k].at = "CHLD1x" /\ x = cmds[k].id
    BY DEF RestOf
  <1>3. \A x : x \in RestOf(cmds)' <=> \E k \in DOMAIN cmds' : k # 1 /\ cmds'[k].at = "CHLD1x" /\ x = cmds'[k].id
    BY DEF RestOf
  <1>4. DOMAIN cmds' \subseteq Nat \ {0}
    BY <1>1
  <1>5. \A x : x \in RestOf(cmds) <=> \E j \in DOMAIN cmds' : cmds'[j].at = "CHLD1x" /\ x = cmds'[j].id
    <2>1. ASSUME NEW x \in RestOf(cmds) PROVE \E j \in DOMAIN cmds' : cmds'[j].at = "CHLD1x" /\ x = cmds'[j].id
      <3>1. PICK k \in DOMAIN cmds : k # 1 /\ cmds[k].at = "CHLD1x" /\ x = cmds[k].id
        BY <1>2, <2>1
      <3>2. k - 1 \in DOMAIN cmds' /\ cmds'[k - 1] = cmds[k]
        BY <1>1, <3>1
      <3> QED
        BY <3>1, <3>2
    <2>2. ASSUME NEW j \in DOMAIN cmds', cmds'[j].at = "CHLD1x" PROVE cmds'[j].id \in RestOf(cmds)
      <3>1. j + 1 \in DOMAIN cmds /\ cmds'[j] = cmds[j + 1]
        BY <1>1, <2>2
      <3>2. j + 1 # 1
        BY <1>4
      <3> QED
        BY <1>2, <2>2, <3>1, <3>2
    <2> QED
      BY <2>1, <2>2
  <1>6. Target = far
    BY DEF Target
  <1>7. \A f : f \in Aim <=> f \in far /\ f.id \notin RestOf(cmds)
    BY <1>6 DEF Aim
  <1>8. CASE cmds' = <<>>
    <2>1. Target' = far
      BY <1>1, <1>8 DEF Target
    <2>2. DOMAIN <<>> = {}
      OBVIOUS
    <2>3. \A x : x \notin RestOf(cmds) /\ x \notin RestOf(cmds)'
      BY <1>3, <1>5, <1>8, <2>2
    <2>4. \A f : f \in Aim' <=> f \in far
      BY <2>1, <2>3 DEF Aim
    <2>5. \A f : f \in Aim' <=> f \in Aim
      BY <1>7, <2>3, <2>4
    <2>6. Aim' \subseteq Aim /\ Aim \subseteq Aim'
      BY <2>5
    <2> QED
      BY <2>6
  <1>9. CASE cmds' # <<>>
    <2>1. Head(cmds') = cmds'[1] /\ 1 \in DOMAIN cmds' /\ Head(cmds') \in Commands
      BY <1>1, <1>9, TailIs
    <2>2. PICK first : first = Sent(Head(cmds'))
      OBVIOUS
    <2>3. wire' = <<first>> /\ wire' # <<>> /\ Head(wire') = first
      BY <1>1, <1>9, <2>2
    <2>4. first.at = cmds'[1].at /\ first.id = cmds'[1].id
      BY <2>1, <2>2, SentIs
    <2>5. cmds'[1].at \in {"CLCC", "CHLD1x"}
      <3>1. CASE 1 + 1 \in DOMAIN cmds /\ cmds'[1] = cmds[1 + 1]
        BY <3>1 DEF Behind
      <3>2. CASE 1 + 1 - Len(cmds) \in DOMAIN more /\ cmds'[1] = more[1 + 1 - Len(cmds)]
        BY <3>2
      <3> QED
        BY <1>1, <2>1, <3>1, <3>2
    <2>6. Target' = Obeyed(first)
      <3>1. Obeyed(Head(wire))' = Obeyed(first)'
        BY <2>3 DEF Obeyed
      <3> QED
        BY <2>3, <3>1, FarNextSame DEF Target
    <2>7. \A f : f \in Target' <=> f \in far /\ ~(cmds'[1].at = "CHLD1x" /\ f.id = cmds'[1].id)
      <3>1. CASE cmds'[1].at = "CLCC"
        <4>1. Obeyed(first) = far
          BY <2>4, <3>1, ClccAims
        <4> QED
          BY <2>6, <3>1, <4>1
      <3>2. CASE cmds'[1].at = "CHLD1x"
        <4>1. Obeyed(first) = {f \in far : f.id # first.id}
          BY <2>4, <3>2 DEF Obeyed
        <4> QED
          BY <2>4, <2>6, <3>2, <4>1
      <3> QED
        BY <2>5, <3>1, <3>2
    <2>8. \A f : f \in Aim' <=> f \in Target' /\ f.id \notin RestOf(cmds)'
      BY DEF Aim
    <2>9. \A x : x \in RestOf(cmds) <=> x \in RestOf(cmds)' \/ (cmds'[1].at = "CHLD1x" /\ x = cmds'[1].id)
      BY <1>3, <1>5, <2>1
    <2>10. \A f : f \in Aim' <=> f \in Aim
      BY <1>7, <2>7, <2>8, <2>9
    <2>11. Aim' \subseteq Aim /\ Aim \subseteq Aim'
      BY <2>10
    <2> QED
      BY <2>11
  <1> QED
    BY <1>8, <1>9

\* The calls after an answer, looked for or not
LEMMA AnswerMatch ==
  ASSUME Typed, Wired, Behind, OneRings, FarInv, Carrier, Match, Reads(ReadAnswer), Head(cmds).slot # "clccIncoming"
  PROVE  Match'
  <1>0. ProviderTyped /\ QueueTyped /\ CallsTyped /\ far \subseteq FarCalls /\ line \in Seq(Lines)
    BY TypedSplit DEF ProviderTyped, Outer
  <1>1. ReadAnswer /\ far' = far /\ line # <<>> /\ Head(line).kind = "answer" /\ line' = Tail(line)
    BY DEF Reads, ReadAnswer, LineIs
  <1>2. cmds # <<>> /\ wire = <<>>
    BY <1>1, AnswerRead
  <1>3. ~NoCarrierOut /\ ~NoCarrierOut'
    BY <1>0, <1>1, NotCarrier
  <1>4. Becoming(Acts)
    BY <1>1, AnswerActs
  <1>5. PICK more \in Seq(Commands) :
             /\ Done(more)
             /\ \A k \in DOMAIN more : more[k].at = "CLCC" /\ more[k].slot = "clccDialCheck"
    BY <1>1, AnswerActs
  <1>6. Aim' = Aim
    BY <1>0, <1>1, <1>2, <1>5, DoneAim
  <1>7. \A d : Becomes(d)' = d.state
    <2>1. /\ \A j \in DOMAIN cmds' : /\ cmds'[j].at \in {"CLCC", "CHLD1x"}
                                     /\ cmds'[j].slot \in {"none", "clccIncoming", "clccDialCheck"}
                                     /\ cmds'[j].at = "CHLD1x" => cmds'[j].slot = "none"
          /\ cmds' = <<>> \/ (Head(cmds') = cmds'[1] /\ 1 \in DOMAIN cmds')
      BY <1>1, AnswerPops
    <2>2. cmds' = <<>> \/ Head(cmds').slot \in PlainSlots
      BY <2>1 DEF PlainSlots
    <2> QED
      BY <1>3, <2>2, BecomesPlain
  <1>8. Aim \subseteq far
    BY <1>2 DEF Aim, Target
  <1>9. ASSUME NEW c \in AnyCall
        PROVE  /\ ~Looked(Head(cmds), c) => Acts[c] = Becomes(c)
               /\ Looked(Head(cmds), c) =>
                    /\ Becomes(c) = "Dialing" /\ Acts[c] \in Proper
                    /\ \A f \in Aim : f.id = c.id /\ Fits("Dialing", f.stat) => Fits(Acts[c], f.stat)
    <2>1. Acts[c] = After(Head(cmds), c, far)
      BY DEF Acts, States1
    <2>2. Becomes(c) = Result(Head(cmds), c)
      BY <1>2, <1>3 DEF Becomes
    <2>3. CASE ~Looked(Head(cmds), c)
      BY <2>1, <2>2, <2>3 DEF After
    <2>4. CASE Looked(Head(cmds), c)
      <3>1. Head(cmds).slot = "clccDialCheck" /\ c.state = "Dialing"
        BY <2>4 DEF Looked
      <3>2. Becomes(c) = "Dialing"
        BY <2>2, <3>1, ResultPlain
      <3>3. Acts[c] = Seen(c, far)
        BY <2>1, <2>4 DEF After
      <3>4. Acts[c] \in Proper
        BY <3>3, CheckedIs DEF Seen, Proper
      <3>5. ASSUME NEW f \in Aim, f.id = c.id, Fits("Dialing", f.stat) PROVE Fits(Acts[c], f.stat)
        <4>1. f \in far
          BY <1>8, <3>5
        <4>2. {g \in far : g.id = c.id} = {f}
          BY <3>5, <4>1 DEF FarInv
        <4>3. Seen(c, far) = Checked((CHOOSE g \in {f} : TRUE).stat)
          BY <4>2 DEF Seen
        <4>4. (CHOOSE g \in {f} : TRUE) = f
          OBVIOUS
        <4>5. Acts[c] = Checked(f.stat)
          BY <3>3, <4>3, <4>4
        <4>6. f.stat \in {"dialing", "active"}
          BY <3>5, StatIs DEF Fits
        <4> QED
          BY <4>5, <4>6, StatIs DEF Checked, Fits, Proper
      <3> QED
        BY <2>4, <3>2, <3>4, <3>5
    <2> QED
      BY <2>3, <2>4
  <1>10. ASSUME NEW d \in AnyCall', Becomes(d)' \in Proper
         PROVE  \E c \in AnyCall : /\ c.id = d.id /\ Becomes(c) \in Proper
                                   /\ \A f \in Aim : f.id = c.id /\ Fits(Becomes(c), f.stat) => Fits(Becomes(d)', f.stat)
    <2>1. PICK c \in AnyCall : d.id = c.id /\ d.state = Acts[c]
      BY <1>4 DEF Becoming
    <2>2. Becomes(d)' = Acts[c]
      BY <1>7, <2>1
    <2>3. CASE ~Looked(Head(cmds), c)
      BY <1>9, <1>10, <2>1, <2>2, <2>3
    <2>4. CASE Looked(Head(cmds), c)
      <3>1. "Dialing" \in Proper
        BY DEF Proper
      <3> QED
        BY <1>9, <2>1, <2>2, <2>4, <3>1
    <2> QED
      BY <2>3, <2>4
  <1>11. ASSUME NEW c \in AnyCall, NEW f \in Aim, f.id = c.id, Fits(Becomes(c), f.stat)
         PROVE  \E d \in AnyCall' : d.id = c.id /\ Fits(Becomes(d)', f.stat)
    <2>1. Acts[c] \in Proper /\ Fits(Acts[c], f.stat)
      BY <1>9, <1>11 DEF Fits
    <2>2. Acts[c] \in States
      BY <2>1 DEF Proper, States
    <2>3. PICK d \in AnyCall' : d.id = c.id /\ d.state = Acts[c]
      BY <1>4, <2>2 DEF Becoming
    <2> QED
      BY <1>7, <2>1, <2>3
  <1> QED
    BY <1>2, <1>6, <1>10, <1>11, MatchKept

\* The answer to the question for an incoming call adds or ends incoming calls only
LEMMA ClccMatch ==
  ASSUME Typed, Wired, Behind, Carrier, Match, Reads(ReadAnswer), Head(cmds).slot = "clccIncoming"
  PROVE  Match'
  <1>0. ProviderTyped /\ QueueTyped /\ CallsTyped /\ far \subseteq FarCalls /\ line \in Seq(Lines) /\ Outer
    BY TypedSplit DEF ProviderTyped, Outer
  <1>1. ReadAnswer /\ far' = far /\ line # <<>> /\ Head(line).kind = "answer" /\ line' = Tail(line)
    BY DEF Reads, ReadAnswer, LineIs
  <1>2. cmds # <<>> /\ wire = <<>> /\ Answer(Head(line).ok, Head(line).list)
    BY <1>1, AnswerRead
  <1>3. ~NoCarrierOut /\ ~NoCarrierOut'
    BY <1>0, <1>1, NotCarrier
  <1> DEFINE ok == Head(line).ok
             list == Head(line).list
  <1>4. ok \in BOOLEAN /\ list \in SUBSET FarCalls
    BY <1>0, <1>1, LineIsAre DEF ReadAnswer
  <1> HIDE DEF ok, list
  <1>5. Answer(ok, list)
    BY <1>2 DEF ok, list
  <1>6. Done(<<>>) /\ ClccAnswered(ok, list)
    BY <1>0, <1>2, <1>4, <1>5, AnswerEffect
  <1>7. <<>> \in Seq(Commands) /\ \A k \in DOMAIN <<>> : <<>>[k].at = "CLCC"
    BY NoneIs
  <1>8. Aim' = Aim
    BY <1>0, <1>1, <1>2, <1>6, <1>7, DoneAim
  <1>9. \A d : Becomes(d)' = d.state
    <2>1. /\ \A j \in DOMAIN cmds' : /\ cmds'[j].at \in {"CLCC", "CHLD1x"}
                                     /\ cmds'[j].slot \in {"none", "clccIncoming", "clccDialCheck"}
                                     /\ cmds'[j].at = "CHLD1x" => cmds'[j].slot = "none"
          /\ cmds' = <<>> \/ (Head(cmds') = cmds'[1] /\ 1 \in DOMAIN cmds')
      BY <1>1, AnswerPops
    <2>2. cmds' = <<>> \/ Head(cmds').slot \in PlainSlots
      BY <2>1 DEF PlainSlots
    <2> QED
      BY <1>3, <2>2, BecomesPlain
  <1>10. \A c : Becomes(c) = c.state
    BY <1>2, <1>3, ResultPlain DEF Becomes
  <1>11. \A id : AnnouncedCall(id).state = "Incoming"
    BY DEF AnnouncedCall
  <1>12. "Incoming" \notin Proper
    BY DEF Proper
  <1>13. /\ \A d \in AnyCall' : d \in AnyCall \/ d.state = "Incoming"
         /\ \A c \in AnyCall : c \in AnyCall' \/ c.state = "Incoming"
    BY <1>6, <1>11 DEF ClccAnswered
  <1>14. /\ \A d \in AnyCall' : Becomes(d)' \in Proper => \E c \in AnyCall : c.id = d.id /\ Becomes(c) = Becomes(d)'
         /\ \A c \in AnyCall : Becomes(c) \in Proper => \E d \in AnyCall' : d.id = c.id /\ Becomes(d)' = Becomes(c)
    BY <1>9, <1>10, <1>12, <1>13
  <1> QED
    BY <1>2, <1>8, <1>14, MatchEqual

LEMMA MatchStep ==
  ASSUME Typed, Wired, Owned, IdsKept, OneRings, Behind, Gathers, FarInv, Carrier, NoSwap, Step, Match
  PROVE  Match'
  <1>0. line \in Seq(Lines)
    BY TypedSplit DEF Outer
  <1>1. CASE Idle
    <2>1. UNCHANGED <<calls, cmds, wire, far>> /\ (NoCarrierOut' <=> NoCarrierOut)
      BY <1>1 DEF Idle, NoCarrierOut
    <2> QED
      BY <2>1, MatchSame
  <1>2. CASE Dials
    BY <1>2, DialsMatch
  <1>3. CASE Requests
    BY <1>3, RequestMatch
  <1>4. CASE Rings
    <2>1. UNCHANGED <<calls, cmds, wire, far>>
      BY <1>4 DEF Rings, ProviderRests, chat
    <2>2. PICK x \in Lines : x.kind = "ring" /\ line' = Append(line, x)
      BY <1>4 DEF Rings
    <2>3. \A i \in DOMAIN line : i \in DOMAIN line' /\ line'[i] = line[i]
      BY <1>0, <2>2, LineLonger
    <2>4. NoCarrierOut' <=> NoCarrierOut
      BY <1>0, <2>2, <2>3, NoCarrierLonger DEF NoCarrierOut
    <2> QED
      BY <2>1, <2>4, MatchSame
  <1>5. CASE Comes \/ Goes \/ Connects \/ Drops
    BY <1>5, ComesMatch, GoesMatch, ConnectsMatch, DropsMatch
  <1>6. CASE Obeys
    BY <1>6, ObeysMatch
  <1>7. CASE Reads(ReadRing)
    BY <1>7, ReadRingMatch
  <1>8. CASE Reads(ReadAnswer)
    BY <1>8, AnswerMatch, ClccMatch
  <1>9. CASE Reads(ReadNoCarrier)
    BY <1>9, ReadNoCarrierMatch
  <1>10. CASE DetectStep
    BY <1>10, DetectMatch
  <1>11. CASE MissedStep
    BY <1>11, MissedMatch
  <1>12. CASE DialStep
    BY <1>12, DialStepMatch
  <1> QED
    BY <1>1, <1>2, <1>3, <1>4, <1>5, <1>6, <1>7, <1>8, <1>9, <1>10, <1>11, <1>12 DEF Step

-----------------------------------------------------------------------------
\* What is shown when nothing is under way

\* The calls of the provider are the calls of the modem that do not come in
LEMMA QuietFits ==
  ASSUME Typed, Owned, Dialled, Match, Quiet, \A i \in DOMAIN calls : ~calls[i].poll
  PROVE  /\ \A i \in CallsWith(FALSE) :
              FarCall(calls[i].id, Stat(calls[i].state)) \in far \ With("incoming") /\ calls[i].id # 0
         /\ \A f \in far \ With("incoming") :
              \E i \in CallsWith(FALSE) : f = FarCall(calls[i].id, Stat(calls[i].state))
  <1>0. CallsTyped /\ far \subseteq FarCalls
    BY TypedSplit DEF ProviderTyped, Outer
  <1>1. cmds = <<>> /\ wire = <<>> /\ line = <<>> /\ DOMAIN <<>> = {}
    BY DEF Quiet
  <1>2. \A c \in AnyCall : c.state # "Dialing"
    BY <1>1 DEF Dialled, AnyCall
  <1>3. \A c : Becomes(c) = c.state
    BY <1>1 DEF Becomes, NoCarrierOut
  <1>4. Aim = far
    <2>1. RestOf(cmds) = {}
      BY <1>1 DEF RestOf
    <2> QED
      BY <1>1, <2>1 DEF Aim, Target
  <1>5. /\ \A c \in AnyCall : c.state \in Proper => \E f \in far : f.id = c.id /\ Fits(c.state, f.stat)
        /\ \A f \in far : f.stat # "incoming" => \E c \in AnyCall : f.id = c.id /\ Fits(c.state, f.stat)
    BY <1>1, <1>3, <1>4 DEF Match
  <1>6. \A c \in AnyCall : \A f : Fits(c.state, f.stat) => f.stat = Stat(c.state) /\ c.state # "Incoming" /\ f.stat # "incoming"
    BY <1>2, StatIs DEF Fits, Proper
  <1>7. \A f \in far : f = FarCall(f.id, f.stat) /\ f.id # 0
    <2>1. \A x \in 1 .. 32 : x # 0
      OBVIOUS
    <2> QED
      BY <1>0, <2>1, FarCallIs DEF Ids
  <1>8. \A i \in DOMAIN calls : (i \in CallsWith(FALSE) <=> calls[i].state # "Incoming") /\ calls[i] \in AnyCall
    BY DEF CallsWith, AnyCall
  <1>9. \A i \in CallsWith(FALSE) : i \in DOMAIN calls
    BY DEF CallsWith
  <1>10. ASSUME NEW i \in CallsWith(FALSE)
         PROVE  FarCall(calls[i].id, Stat(calls[i].state)) \in far \ With("incoming") /\ calls[i].id # 0
    <2>1. calls[i] \in AnyCall /\ calls[i].state # "Incoming"
      BY <1>8, <1>9
    <2>2. calls[i].state \in Proper
      BY <1>0, <2>1, StatesAre
    <2>3. PICK f \in far : f.id = calls[i].id /\ Fits(calls[i].state, f.stat)
      BY <1>5, <2>1, <2>2
    <2>4. f.stat = Stat(calls[i].state) /\ f.stat # "incoming"
      BY <1>6, <2>1, <2>3
    <2>5. f = FarCall(calls[i].id, Stat(calls[i].state)) /\ calls[i].id # 0
      BY <1>7, <2>3, <2>4
    <2> QED
      BY <2>4, <2>5 DEF With
  <1>11. ASSUME NEW f \in far \ With("incoming")
         PROVE  \E i \in CallsWith(FALSE) : f = FarCall(calls[i].id, Stat(calls[i].state))
    <2>1. f \in far /\ f.stat # "incoming"
      BY DEF With
    <2>2. PICK c \in AnyCall : f.id = c.id /\ Fits(c.state, f.stat)
      BY <1>5, <2>1
    <2>3. f.stat = Stat(c.state) /\ c.state # "Incoming"
      BY <1>6, <2>2
    <2>4. PICK i \in DOMAIN calls : c = calls[i]
      BY DEF AnyCall
    <2>5. i \in CallsWith(FALSE)
      BY <1>8, <2>3, <2>4
    <2> QED
      BY <1>7, <2>1, <2>2, <2>3, <2>4, <2>5
  <1> QED
    BY <1>10, <1>11

LEMMA QuietAgree ==
  ASSUME Typed, Owned, Dialled, Match, Quiet, \A i \in DOMAIN calls : ~calls[i].poll
  PROVE  Agree
  <1>0. CallsTyped /\ far \subseteq FarCalls
    BY TypedSplit DEF ProviderTyped, Outer
  <1> DEFINE S == CallsWith(FALSE)
             T == far \ With("incoming")
             rec(i) == FarCall(calls[i].id, Stat(calls[i].state))
             M == [i \in S |-> rec(i)]
  <1>1. /\ \A i \in S : rec(i) \in T /\ calls[i].id # 0
        /\ \A f \in T : \E i \in S : f = rec(i)
    BY QuietFits
  <1>2. {[id |-> calls[i].id, stat |-> Stat(calls[i].state)] : i \in CallsWith(FALSE)} = T
    <2>1. {rec(i) : i \in S} = T
      BY <1>1
    <2> QED
      BY <2>1 DEF FarCall
  <1>3. ASSUME NEW i \in S, NEW j \in S, rec(i) = rec(j) PROVE i = j
    <2>1. calls[i].id = calls[j].id
      BY <1>3, FarCallIs
    <2>2. i \in DOMAIN calls /\ j \in DOMAIN calls /\ calls[i] \in AnyCall /\ calls[j] \in AnyCall
      BY DEF CallsWith, AnyCall
    <2>3. calls[i] = calls[j]
      BY <1>1, <2>1, <2>2 DEF Owned
    <2> QED
      BY <1>0, <2>2, <2>3 DEF CallsTyped
  <1>4. IsFiniteSet(S)
    <2>1. Len(calls) \in Nat /\ DOMAIN calls = 1 .. Len(calls)
      BY <1>0, CallsAre
    <2>2. S \in SUBSET (1 .. Len(calls))
      BY <2>1 DEF CallsWith
    <2>3. IsFiniteSet(1 .. Len(calls))
      BY <2>1, Counted
    <2> QED
      BY <2>2, <2>3, FS_Subset
  <1>5. ExistsBijection(S, T)
    <2> HIDE DEF S, T, rec
    <2>1. M \in [S -> T] /\ \A i \in S : M[i] = rec(i)
      BY <1>1
    <2> HIDE DEF M
    <2>2. IsInjective(M)
      BY <1>3, <2>1 DEF IsInjective
    <2>3. \A t \in T : \E s \in S : M[s] = t
      BY <1>1, <2>1
    <2>4. M \in Bijection(S, T)
      BY <2>1, <2>2, <2>3 DEF Bijection, Injection, Surjection
    <2> QED
      BY <2>4 DEF ExistsBijection
  <1>6. Cardinality(T) = Cardinality(S)
    BY <1>4, <1>5, FS_Bijection
  <1> QED
    BY <1>2, <1>6 DEF Agree

ShownParts == Carrier /\ Behind /\ NoSwap /\ Guess /\ Match /\ Dialled
ShownInv == FarInv /\ (InStep => ShownParts)

LEMMA ShownFollows == Typed /\ IdsInv /\ ShownInv => ShownAsIs
  <1> SUFFICES ASSUME Typed, IdsInv, ShownInv, InStep, Quiet
               PROVE  /\ (\A i \in DOMAIN calls : ~calls[i].poll) => Agree
                      /\ With("incoming") # {} =>
                             IdsRinging \subseteq {f.id : f \in With("incoming")}
    BY DEF ShownAsIs
  <1>1. Owned /\ Guess /\ Match /\ Dialled
    BY DEF IdsInv, ShownInv, ShownParts
  <1>2. (\A i \in DOMAIN calls : ~calls[i].poll) => Agree
    BY <1>1, QuietAgree
  <1>3. ~Taking
    BY DEF Taking, AcceptOut, Quiet
  <1>4. ASSUME NEW f \in With("incoming"), NEW x \in IdsRinging PROVE x = f.id
    <2>1. PICK i \in CallsWith(TRUE) : x = calls[i].id
      BY <1>4 DEF IdsRinging
    <2>2. calls[i] \in AnyCall /\ calls[i].state = "Incoming"
      BY DEF CallsWith, AnyCall
    <2> QED
      BY <1>1, <1>3, <2>1, <2>2 DEF Guess, Guessed
  <1>5. ASSUME With("incoming") # {} PROVE IdsRinging \subseteq {f.id : f \in With("incoming")}
    BY <1>4, <1>5
  <1> QED
    BY <1>2, <1>5

LEMMA ShownInit == Init => ShownInv
  <1> SUFFICES ASSUME Init PROVE ShownInv
    OBVIOUS
  <1>1. AnyCall = {} /\ cmds = <<>> /\ wire = <<>> /\ line = <<>> /\ far = {} /\ DOMAIN <<>> = {}
    BY DEF Init, ProviderInit, AnyCall
  <1>2. Carrier /\ Behind /\ NoSwap /\ Dialled
    BY <1>1 DEF Carrier, NoCarrierOut, Behind, NoSwap, Dialled
  <1>3. Guess
    BY <1>1 DEF Guess, With
  <1>4. Aim = {}
    BY <1>1 DEF Aim, Target
  <1>5. Match
    BY <1>1, <1>4 DEF Match
  <1> QED
    BY <1>2, <1>3, <1>5, FarInit DEF ShownInv, ShownParts

LEMMA ShownNext ==
  ASSUME Alerting = FALSE
  PROVE  Typed /\ GatherInv /\ IdsInv /\ ShownInv /\ [Next]_vars => ShownInv'
  <1> SUFFICES ASSUME Typed, GatherInv, IdsInv, ShownInv, [Next]_vars PROVE ShownInv'
    OBVIOUS
  <1>1. FarInv /\ FarInv'
    BY FarNext DEF ShownInv
  <1>2. ASSUME InStep' PROVE ShownParts'
    <2>1. InStep
      BY <1>2, NoOtherThing
    <2>2. Wired /\ Foreign /\ Owned /\ IdsKept /\ Gathers
      BY <2>1 DEF IdsInv, GatherInv, InStep
    <2>3. Carrier /\ Behind /\ NoSwap /\ Guess /\ Match /\ Dialled
      BY <2>1 DEF ShownInv, ShownParts
    <2>4. Step
      BY <1>2, StepKinds
    <2>5. OneRings
      BY <2>2, OneRingsFollows, TypedSplit DEF ProviderTyped
    <2>6. Carrier' /\ Behind'
      BY <2>2, <2>3, <2>4, <2>5, CarrierNext, BehindNext
    <2>7. NoSwap'
      BY <2>2, <2>3, <2>4, <2>5, NoSwapNext
    <2>8. Guess'
      BY <1>1, <2>2, <2>3, <2>4, <2>5, GuessNext
    <2>9. Match'
      BY <1>1, <2>2, <2>3, <2>4, <2>5, MatchStep
    <2>10. Dialled'
      BY <2>2, <2>3, <2>5, DialledNext
    <2> QED
      BY <2>6, <2>7, <2>8, <2>9, <2>10 DEF ShownParts
  <1> QED
    BY <1>1, <1>2 DEF ShownInv

\* The calls of the provider are the modem's, with their identifiers and their
\* states, whenever nothing is under way and nothing happened in the middle of
\* something else, after any sequence of dialing, holding, swapping, joining and
\* hanging up (changeGroup(), activateWaitingOrHeld(), the ...RequestDone() slots,
\* nextModemIdentifier()).  It is of the modems that report no alerting, which
\* clccDialCheck() does not know
THEOREM CallsShownAsTheyAre ==
  ASSUME Alerting = FALSE
  PROVE  Spec => []ShownAsIs
  <1>1. Init => Typed /\ GatherInv /\ IdsInv /\ ShownInv
    BY TypedInit, GatherInit, IdsInit, ShownInit
  <1>2. Typed /\ GatherInv /\ IdsInv /\ ShownInv /\ [Next]_vars => (Typed /\ GatherInv /\ IdsInv /\ ShownInv)'
    BY TypedNext, GatherNext, IdsNext, ShownNext
  <1>3. Typed /\ IdsInv /\ ShownInv => ShownAsIs
    BY ShownFollows
  <1> QED
    BY <1>1, <1>2, <1>3, PTL DEF Spec

=============================================================================
