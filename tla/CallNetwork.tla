------------------------------ MODULE CallNetwork ------------------------------
(***************************************************************************)
(* The calls of an AT modem on a phone network: ModemCalls composed with   *)
(* the user and with the modem, whose calls are a set of records of an     *)
(* identifier and a stat, as AT+CLCC lists them.  The modem obeys the      *)
(* commands as the comments of the provider say they work.                 *)
(***************************************************************************)
EXTENDS ModemCalls

CONSTANTS
    MaxRequests,  \* bound: requests of the user
    MaxCallers,   \* bound: incoming calls
    MaxTroubles,  \* bound: commands the modem refuses although it could obey
    Alerting      \* the modem reports that a dialed call alerts the far end

ASSUME BoundsAssumption == {MaxRequests, MaxCallers, MaxTroubles} \subseteq Nat
ASSUME AlertingAssumption == Alerting \in BOOLEAN

VARIABLES
    far,       \* the calls of the modem
    requests, callers, troubles, \* what the bounds count
    adrift,    \* history: something happened before the last thing was settled,
               \* or something the provider is not told of
    overtaken  \* history: the gathering of an incoming call's lines was overtaken
               \* by a ring or by missedTimer, or cut short by another call

counts == <<requests, callers, troubles>>
vars   == <<provider, far, counts, adrift, overtaken>>

With(stat) == {f \in far : f.stat = stat}
Turn(F, stat) == {[f EXCEPT !.stat = stat] : f \in F}
Moved(F, stat) == (far \ F) \cup Turn(F, stat)
FreeId == Min(Ids \ {f.id : f \in far})
Room == {f.id : f \in far} # Ids  \* the modem has an identifier for one more call

-----------------------------------------------------------------------------
\* What the commands do

\* The waiting call is accepted or else the held calls are activated
Retrieved == IF With("incoming") # {} THEN With("incoming") ELSE With("held")

Obeyed(command) ==
    CASE command.at = "ATD" ->
             Moved(With("active"), "held") \cup {[id |-> FreeId, stat |-> "dialing"]}
      [] command.at = "ATA" -> Moved(With("incoming"), "active")
      [] command.at = "CHLD0" ->
             far \ (IF With("incoming") # {} THEN With("incoming") ELSE With("held"))
      [] command.at = "CHLD1" ->
             (far \ (With("active") \cup With("dialing") \cup With("alerting") \cup Retrieved))
                 \cup Turn(Retrieved, "active")
      [] command.at = "CHLD1x" -> {f \in far : f.id # command.id}
      [] command.at = "CHLD2" ->
             (far \ (With("active") \cup Retrieved))
                 \cup Turn(With("active"), "held") \cup Turn(Retrieved, "active")
      [] command.at = "CHLD2x" ->
             {[f EXCEPT !.stat = IF f.id = command.id THEN "active"
                                 ELSE IF f.stat = "active" THEN "held" ELSE f.stat] : f \in far}
      [] command.at = "CHLD3" -> Moved(With("held"), "active")
      [] command.at = "CHLD4" -> far \ (With("active") \cup With("held"))
      [] command.at = "CTFR" -> far \ With("incoming")
      [] OTHER -> far

Possible(command) ==
    CASE command.at = "ATD" ->
             /\ With("dialing") \cup With("alerting") \cup With("incoming") = {}
             /\ With("active") = {} \/ With("held") = {}
             /\ Room
      [] command.at \in {"ATA", "CTFR"} -> With("incoming") # {}
      [] command.at = "CHLD0" -> Retrieved # {}
      [] command.at = "CHLD1" ->
             With("active") \cup With("dialing") \cup With("alerting") # {}
      [] command.at = "CHLD1x" -> \E f \in far : f.id = command.id /\ f.stat # "incoming"
      [] command.at = "CHLD2" -> With("active") \cup Retrieved # {}
      [] command.at = "CHLD2x" ->
             \E f \in far : f.id = command.id /\ f.stat \in {"active", "held"}
      [] command.at \in {"CHLD3", "CHLD4"} -> With("held") # {} /\ With("active") # {}
      [] OTHER -> TRUE

-----------------------------------------------------------------------------
\* How far the provider and the modem agree

Stat(state) ==
    CASE state = "Dialing" -> "dialing" [] state = "Connected" -> "active" [] OTHER -> "held"

CallsWith(incoming) == {i \in DOMAIN calls : (calls[i].state = "Incoming") = incoming}
IdsRinging == {calls[i].id : i \in CallsWith(TRUE)}

\* Every call of the modem is known by its identifier, in its state
Agree ==
    /\ {[id |-> calls[i].id, stat |-> Stat(calls[i].state)] : i \in CallsWith(FALSE)}
           = far \ With("incoming")
    /\ Cardinality(CallsWith(FALSE)) = Cardinality(far \ With("incoming"))

AgreeOnRinging == IdsRinging = {f.id : f \in With("incoming")}

Quiet == cmds = <<>> /\ wire = <<>> /\ line = <<>>
Settled == Quiet /\ ~detect /\ Agree /\ AgreeOnRinging

-----------------------------------------------------------------------------
\* The user.  After the two have drifted apart nothing new happens: what is
\* under way is played out.

InStep == ~adrift /\ ~overtaken

Request(A, agreed) ==
    /\ requests < MaxRequests /\ InStep
    /\ A
    /\ requests' = requests + 1
    /\ adrift' = ~(Settled /\ agreed)
    /\ UNCHANGED <<far, callers, troubles, overtaken>>

AnyCall == {calls[i] : i \in DOMAIN calls}

UserDials == Request(Dial, TRUE)

UserHangsUp == \E c \in AnyCall :
    \/ Request(HangupCall(c), TRUE)
    \/ Request(HangupActiveGroup(c), TRUE)
    \/ Request(HangupDialingBesideIncoming(c), FALSE)
    \/ Request(HangupHeldGroup(c), TRUE)
    \/ Request(HangupGroupBesideIncoming(c), TRUE)
    \/ Request(Reject(c), TRUE)

UserSwitches == \E c \in AnyCall :
    \/ Request(Accept(c), TRUE)
    \/ Request(Hold(c), TRUE)
    \/ Request(ActivateCall(c), c.state = "Hold" \/ OtherActiveCalls(c.key))
    \/ Request(ActivateGroup(c), TRUE)
    \/ Request(Join(c), TRUE)
    \/ Request(Detach(c), TRUE)
    \/ Request(Transfer(c), c.state = "Incoming")

-----------------------------------------------------------------------------
\* The network and the modem

Network(settled) ==
    /\ adrift' = (adrift \/ ~settled)
    /\ UNCHANGED <<calls, usedIds, ring, hangup, chat, requests, troubles, overtaken>>

NewCaller ==
    /\ callers < MaxCallers /\ InStep /\ With("incoming") = {} /\ Room
    /\ far' = far \cup {[id |-> FreeId, stat |-> "incoming"]}
    /\ callers' = callers + 1
    /\ Network(Settled)
    /\ UNCHANGED line

\* RING, +CRING or +CCWA, sent again as long as the call comes in
Ring ==
    /\ InStep
    /\ With("incoming") # {}
    /\ ~\E i \in DOMAIN line : line[i].kind = "ring"
    /\ \E known \in BOOLEAN : line' = Append(line, [kind |-> "ring", known |-> known])
    /\ UNCHANGED <<calls, usedIds, ring, hangup, chat, far, counts, adrift, overtaken>>

CallerGivesUp ==
    /\ InStep
    /\ With("incoming") # {}
    /\ far' = far \ With("incoming")
    /\ Network(Settled)
    /\ UNCHANGED <<callers, line>>

FarAlerts ==
    /\ Alerting /\ With("dialing") # {}
    /\ far' = Moved(With("dialing"), "alerting")
    /\ Network(Settled)
    /\ UNCHANGED <<callers, line>>

FarAnswers ==
    LET asked == With("dialing") \cup With("alerting") IN
    /\ asked # {}
    /\ far' = Moved(asked, "active")
    /\ Network(Settled)
    /\ UNCHANGED <<callers, line>>

NoCarrier == [kind |-> "nocarrier"]

\* Busy, or not answered
DialFails ==
    LET asked == With("dialing") \cup With("alerting") IN
    /\ asked # {}
    /\ far' = far \ asked
    /\ line' = Append(line, NoCarrier)
    /\ Network(FALSE)
    /\ UNCHANGED callers

\* NO CARRIER tells of the end of the active calls
RemoteHangup ==
    /\ InStep
    /\ \E f \in With("active") \cup With("held") :
       /\ far' = far \ {f}
       /\ line' = IF With("active") = {f} THEN Append(line, NoCarrier) ELSE line
       /\ Network(Settled /\ ~hangup /\ With("active") = {f})
    /\ UNCHANGED callers

AnswerLine(ok, list) == [kind |-> "answer", ok |-> ok, list |-> list]

Obey ==
    /\ wire # <<>>
    /\ wire' = Tail(wire)
    /\ LET command == Head(wire) IN
       \/ /\ Possible(command)
          /\ far' = Obeyed(command)
          /\ line' = Append(line, AnswerLine(TRUE, IF command.at = "CLCC" THEN far ELSE {}))
          /\ UNCHANGED <<troubles, adrift>>
       \/ /\ ~Possible(command) \/ troubles < MaxTroubles
          /\ troubles' = IF Possible(command) THEN troubles + 1 ELSE troubles
          /\ line' = Append(line, AnswerLine(FALSE, {}))
          /\ adrift' = TRUE
          /\ UNCHANGED far
    /\ UNCHANGED <<calls, usedIds, ring, hangup, cmds, requests, callers, overtaken>>

-----------------------------------------------------------------------------
\* Timers and the lines the provider reads

ClccOut == \E i \in DOMAIN cmds : cmds[i].slot = "clccIncoming"

Read ==
    /\ \/ /\ ReadRing
          /\ overtaken' = (overtaken \/ (ClccOut /\ ~HasGroup(calls, "Incoming")))
       \/ /\ ReadAnswer \/ ReadNoCarrier
          /\ overtaken' = (overtaken \/ (detect /\ ~detect'))
    /\ UNCHANGED <<far, counts, adrift>>

DetectFires == DetectTimeout /\ UNCHANGED <<far, counts, adrift, overtaken>>

\* Rings come more often than the timer runs, and detectTimer is the shorter one
MissedFires ==
    /\ ~detect /\ With("incoming") = {} /\ ~LineIs("ring")
    /\ MissedTimeout
    /\ overtaken' = (overtaken \/ ClccOut)
    /\ adrift' = (adrift \/ ~Quiet)
    /\ UNCHANGED <<far, counts>>

HangupFires == HangupTimeout /\ UNCHANGED <<far, counts, adrift, overtaken>>

DialChecks ==
    /\ \E c \in AnyCall : DialCheck(c)
    /\ UNCHANGED <<far, counts, adrift, overtaken>>

-----------------------------------------------------------------------------

Init ==
    /\ ProviderInit
    /\ far = {} /\ requests = 0 /\ callers = 0 /\ troubles = 0
    /\ adrift = FALSE /\ overtaken = FALSE

FarResolves == FarAnswers \/ DialFails
Answering == Obey \/ Read
Clock == DetectFires \/ MissedFires \/ HangupFires \/ DialChecks
World == NewCaller \/ Ring \/ CallerGivesUp \/ FarAlerts \/ FarResolves \/ RemoteHangup
Next == UserDials \/ UserHangsUp \/ UserSwitches \/ World \/ Answering \/ Clock

Spec == Init /\ [][Next]_vars

\* The modem answers, lines are read and timers fire, and a dialed call is
\* answered or fails in the end.
FairSpec ==
    /\ Spec
    /\ WF_vars(Obey) /\ WF_vars(Read)
    /\ WF_vars(DetectFires) /\ WF_vars(MissedFires) /\ WF_vars(DialChecks)
    /\ WF_vars(FarAlerts) /\ WF_vars(FarResolves)

-----------------------------------------------------------------------------

\* Type invariant
TypeOK ==
    /\ calls \in Seq(Call) /\ usedIds \subseteq Ids
    /\ incomingId \in Ids \cup {0}
    /\ {typeKnown, detect, missed, hangup, adrift, overtaken} \subseteq BOOLEAN
    /\ \A i, j \in DOMAIN calls : calls[i].key = calls[j].key => i = j
    /\ \A i \in DOMAIN calls : calls[i].poll => calls[i].state = "Dialing"
    /\ far \subseteq [id : Ids, stat : Stats]
    /\ requests \in 0 .. MaxRequests /\ callers \in 0 .. MaxCallers
    /\ troubles \in 0 .. MaxTroubles

\* No modem identifier leaks: one that is marked as used belongs to a call or to
\* the incoming call that has not been announced (nextModemIdentifier(),
\* releaseModemIdentifier()).  Until the modem and the provider drift apart it is
\* marked for as long as it is used, and belongs to one of them only; 0 stands for
\* none, when all were in use.
IdsAccounted ==
    LET owned == {calls[i].id : i \in DOMAIN calls} \cup {incomingId} IN
    /\ TypeOK
    /\ usedIds \subseteq owned
    /\ InStep =>
         /\ owned \ {0} = usedIds
         /\ \A i, j \in DOMAIN calls :
                calls[i].id = calls[j].id => i = j \/ calls[i].id = 0
         /\ \A i \in DOMAIN calls : calls[i].id = incomingId => incomingId = 0

\* One call is announced at a time: while one is incoming no ring, no timer and
\* no answer to AT+CLCC announces another (ringing(), clccIncoming()).  And it
\* does not ring for ever: missedTimer is there to take it for missed once the
\* rings stop (missedTimeout()).  Not promised once a ring overtook the answer
\* to AT+CLCC.
IncomingWatched ==
    ~overtaken =>
        /\ Cardinality(CallsWith(TRUE)) <= 1
        /\ HasGroup(calls, "Incoming") => missed

\* What the provider shows is what the modem has: whenever nothing is under way,
\* every call has the identifier and the state the modem knows it by, after any
\* sequence of holding, swapping, joining and hanging up (changeGroup(),
\* activateWaitingOrHeld(), the ...RequestDone() slots).  It is not promised
\* once something happened in the middle of something else.  An incoming call
\* is shown, if it is, under the identifier guessed at its first ring
\* (nextModemIdentifier()), which is the modem's.
ShownAsIs ==
    InStep /\ Quiet =>
        /\ (\A i \in DOMAIN calls : ~calls[i].poll) => Agree
        /\ With("incoming") # {} =>
               IdsRinging \subseteq {f.id : f \in With("incoming")}

\* Whoever rings is announced: the identifier kept for the call goes to a call
\* object, also when the caller gives up before detectTimer fires or the modem
\* refuses AT+CLCC (announceCall()).  An announced call stops ringing once the
\* caller has gone, by missedTimer or by the answer to AT+CLCC.
IncomingResolved ==
    /\ incomingId # 0 ~> incomingId = 0 \/ overtaken
    /\ HasGroup(calls, "Incoming") /\ With("incoming") = {}
           ~> ~HasGroup(calls, "Incoming") \/ With("incoming") # {} \/ overtaken

\* A dialed call is connected or over in the end, also when its ATD fails or the
\* modem's report of the failure is lost (dialRequestDone(), clccDialCheck()).
DialingEnds ==
    HasGroup(calls, "Dialing") ~> ~HasGroup(calls, "Dialing")

=============================================================================
