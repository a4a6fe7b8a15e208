------------------------ MODULE SystemSuspend_proofs ------------------------
(***************************************************************************)
(* Theorems about SystemSuspend, for any number of handlers, whichever of  *)
(* them answer later and any number of requests and input events.          *)
(*                                                                         *)
(* IInv is the invariant of suspendSystem() called in whatever             *)
(* circumstances, Ordered the one of calls that are not nested.            *)
(***************************************************************************)
EXTENDS SystemSuspend, SequenceTheorems, TLAPS

\* Whoever waits, waits at a handler that answers later.
WaitsForAsync == \A i \in DOMAIN stack : stack[i].waiting => stack[i].at \in Async

\* Only an invocation that has called nobody yet may run with waitingOn set:
\* it is what an outer invocation was waiting for.
LoopState ==
    /\ waitingOn \in Async \cup {0}
    /\ Running /\ waitingOn # 0 => Top.phase = "suspend" /\ Top.at = N

IInv == TypeOK /\ WaitsForAsync /\ LoopState /\ ReplyOnItsWay

----------------------------------------------------------------------------
\* The initial state, with nothing running, satisfies the invariant.
LEMMA InitIInv == Init => IInv
<1>. SUFFICES ASSUME Init PROVE IInv
    OBVIOUS
<1>0. waitingOn \in 0..N
    BY HandlersAssumption DEF Init
<1>1. /\ inputEvent \in BOOLEAN
      /\ replies \in [Async -> Nat] /\ asleep \in [Handlers -> BOOLEAN]
    BY DEF Init
<1>4. budget \in [requests : 0..MaxRequests, inputs : 0..MaxInputs]
  <2>1. MaxRequests \in 0..MaxRequests /\ MaxInputs \in 0..MaxInputs
      BY BoundsAssumption
  <2>. QED  BY <2>1 DEF Init
<1>2. /\ stack \in Seq(Invocation) /\ toPeer \in [Async -> Seq(Phases)]
      /\ results \in Seq([ok : BOOLEAN, complete : BOOLEAN])
    BY DEF Init
<1>3. WaitsForAsync /\ LoopState /\ ReplyOnItsWay
    BY DEF Init, WaitsForAsync, LoopState, ReplyOnItsWay, Running
<1>. QED  BY <1>0, <1>1, <1>2, <1>3, <1>4 DEF IInv, TypeOK

\* An invocation at one of the handlers stays one when its loop goes on.
LEMMA AdvancedType ==
    ASSUME NEW f \in Invocation, f.at \in Handlers
    PROVE  /\ Advanced(f) \in Invocation /\ ~Advanced(f).waiting
           /\ FromWake(f) \in Invocation /\ ~FromWake(f).waiting
<1>. DEFINE At == 1..N + 1
<1>a. /\ f.at + 1 \in At /\ 1 \in At
      /\ f.at # 1 => f.at - 1 \in At
    BY HandlersAssumption DEF Handlers
<1>. HIDE DEF At
<1>b. f \in [phase : Phases, at : At, waiting : BOOLEAN, seen : BOOLEAN,
             complete : BOOLEAN]
    BY DEF Invocation, At
<1>w. FromWake(f) \in Invocation /\ ~FromWake(f).waiting
    BY <1>a, <1>b DEF FromWake, Invocation, Phases, At
<1>1. CASE f.phase = "wake"
  <2>1. Advanced(f) = [f EXCEPT !.waiting = FALSE, !.at = f.at + 1]
      BY <1>1 DEF Advanced, Upwards
  <2>. QED  BY <2>1, <1>a, <1>b, <1>w DEF Invocation, At
<1>2. CASE f.phase = "suspend" /\ f.at = 1
    BY <1>2, <1>w DEF Advanced, FromFirst, Invocation
<1>3. CASE f.phase = "suspend" /\ f.at # 1
  <2>1. Advanced(f) = [f EXCEPT !.waiting = FALSE, !.at = f.at - 1]
      BY <1>3 DEF Advanced
  <2>. QED  BY <2>1, <1>3, <1>a, <1>b, <1>w DEF Invocation, At
<1>. QED  BY <1>1, <1>2, <1>3 DEF Invocation, Phases

\* Replacing the innermost invocation keeps the others.
LEMMA TopReplaced ==
    ASSUME NEW t \in Seq(Invocation), t # <<>>, NEW f \in Invocation,
           NEW u, u = [t EXCEPT ![1] = f]
    PROVE  /\ u \in Seq(Invocation) /\ u # <<>> /\ DOMAIN u = DOMAIN t
           /\ u[1] = f
           /\ \A i \in DOMAIN t : i # 1 => u[i] = t[i]
OBVIOUS

\* What is left of a bound stays within it.
LEMMA BudgetType ==
    ASSUME NEW b \in [requests : 0..MaxRequests, inputs : 0..MaxInputs]
    PROVE  /\ b.requests > 0 => [b EXCEPT !.requests = b.requests - 1]
                                    \in [requests : 0..MaxRequests, inputs : 0..MaxInputs]
           /\ b.inputs > 0 => [b EXCEPT !.inputs = b.inputs - 1]
                                    \in [requests : 0..MaxRequests, inputs : 0..MaxInputs]
<1>1. /\ b.requests > 0 => b.requests - 1 \in 0..MaxRequests
      /\ b.inputs > 0 => b.inputs - 1 \in 0..MaxInputs
    BY BoundsAssumption
<1>. QED  BY <1>1

\* The typing of the rest of the state is kept by what an action changes of it.
LEMMA StepIInv == IInv /\ [Next]_vars => IInv'
<1>. SUFFICES ASSUME IInv, [Next]_vars PROVE IInv'
    OBVIOUS
<1>. USE HandlersAssumption, BoundsAssumption
<1>t. TypeOK /\ WaitsForAsync /\ LoopState /\ ReplyOnItsWay
    BY DEF IInv
<1>1. ASSUME SuspendSystem PROVE IInv'
  <2>1. TypeOK'
    <3>b. budget' \in [requests : 0..MaxRequests, inputs : 0..MaxInputs]
        BY <1>t, <1>1, BudgetType DEF SuspendSystem, TypeOK
    <3>1. CASE Refused
      <4>1. results' \in Seq([ok : BOOLEAN, complete : BOOLEAN])
          BY <1>t, <3>1 DEF Refused, TypeOK
      <4>. QED  BY <1>t, <1>1, <3>1, <3>b, <4>1 DEF SuspendSystem, Refused, TypeOK
    <3>2. CASE Started
      <4>1. [phase |-> "suspend", at |-> N, waiting |-> FALSE,
             seen |-> FALSE, complete |-> FALSE] \in Invocation
          BY DEF Invocation, Phases
      <4>2. stack' \in Seq(Invocation)
          BY <1>t, <3>2, <4>1 DEF Started, TypeOK
      <4>. QED  BY <1>t, <1>1, <3>2, <3>b, <4>2 DEF SuspendSystem, Started, TypeOK
    <3>. QED  BY <1>1, <3>1, <3>2 DEF SuspendSystem
  <2>2. WaitsForAsync' /\ LoopState' /\ ReplyOnItsWay'
    <3>1. CASE Refused
        BY <1>t, <1>1, <3>1
        DEF SuspendSystem, Refused, WaitsForAsync, LoopState, ReplyOnItsWay, Running, Top
    <3>2. CASE Started
      <4>1. stack' # <<>> /\ ~Top'.waiting /\ Top'.phase = "suspend" /\ Top'.at = N
          BY <1>t, <3>2 DEF Started, TypeOK, Top
      <4>2. \A i \in DOMAIN stack' : i # 1 => i - 1 \in DOMAIN stack /\ stack'[i] = stack[i - 1]
          BY <1>t, <3>2 DEF Started, TypeOK
      <4>3. WaitsForAsync'
          BY <1>t, <4>1, <4>2 DEF WaitsForAsync, Top
      <4>4. LoopState' /\ ReplyOnItsWay'
          BY <1>t, <1>1, <4>1 DEF SuspendSystem, LoopState, ReplyOnItsWay
      <4>. QED  BY <4>3, <4>4
    <3>. QED  BY <1>1, <3>1, <3>2 DEF SuspendSystem
  <2>. QED  BY <2>1, <2>2 DEF IInv
<1>2. ASSUME CallSync PROVE IInv'
  <2>1. stack \in Seq(Invocation) /\ stack # <<>> /\ Top \in Invocation /\ Top.at \in Handlers
      BY <1>t, <1>2 DEF CallSync, TypeOK, Running, Top
  <2>2. Advanced(Top) \in Invocation /\ ~Advanced(Top).waiting
      BY <2>1, AdvancedType
  <2>3. stack' = [stack EXCEPT ![1] = Advanced(Top)]
      BY <1>2 DEF CallSync, Top
  <2>4. /\ stack' \in Seq(Invocation) /\ stack' # <<>> /\ DOMAIN stack' = DOMAIN stack
        /\ stack'[1] = Advanced(Top)
        /\ \A i \in DOMAIN stack : i # 1 => stack'[i] = stack[i]
      BY <2>1, <2>2, <2>3, TopReplaced
  <2>5. TypeOK'
      BY <1>t, <1>2, <2>4 DEF CallSync, TypeOK
  <2>6. WaitsForAsync'
      BY <1>t, <2>2, <2>4 DEF WaitsForAsync
  <2>7. LoopState' /\ ReplyOnItsWay'
      BY <1>2 DEF CallSync, LoopState, ReplyOnItsWay
  <2>. QED  BY <2>5, <2>6, <2>7 DEF IInv
<1>3. ASSUME CallAsync PROVE IInv'
  <2>1. stack \in Seq(Invocation) /\ stack # <<>> /\ Top \in Invocation /\ Top.at \in Async
      BY <1>t, <1>3 DEF CallAsync, TypeOK, Running, Top
  <2>2. [Top EXCEPT !.waiting = TRUE] \in Invocation
      BY <2>1 DEF Invocation
  <2>3. stack' = [stack EXCEPT ![1] = [Top EXCEPT !.waiting = TRUE]]
      BY <1>3 DEF CallAsync, Top
  <2>4. /\ stack' \in Seq(Invocation) /\ stack' # <<>> /\ DOMAIN stack' = DOMAIN stack
        /\ stack'[1] = [Top EXCEPT !.waiting = TRUE]
        /\ \A i \in DOMAIN stack : i # 1 => stack'[i] = stack[i]
      BY <2>1, <2>2, <2>3, TopReplaced
  <2>5. stack'[1].waiting /\ stack'[1].at = Top.at
      BY <2>1, <2>4 DEF Invocation
  <2>6. Top.phase \in Phases
      BY <2>1 DEF Invocation
  <2>7. toPeer' = [toPeer EXCEPT ![Top.at] = Append(@, Top.phase)]
      BY <1>3 DEF CallAsync, AsksPeer
  <2>8. toPeer' \in [Async -> Seq(Phases)] /\ toPeer'[Top.at] # <<>>
    <3>1. toPeer \in [Async -> Seq(Phases)]
        BY <1>t DEF TypeOK
    <3>0. ASSUME NEW S, NEW t \in Seq(S), NEW e \in S
          PROVE  Append(t, e) \in Seq(S) /\ Append(t, e) # <<>>
        OBVIOUS
    <3>2. /\ Append(toPeer[Top.at], Top.phase) \in Seq(Phases)
          /\ Append(toPeer[Top.at], Top.phase) # <<>>
      <4>1. toPeer[Top.at] \in Seq(Phases)
          BY <2>1, <3>1
      <4>. QED  BY <2>6, <3>0, <4>1
    <3>. QED  BY <2>1, <2>7, <3>1, <3>2
  <2>9. TypeOK'
    <3>1. waitingOn' \in 0..N
        BY <1>3, <2>1 DEF CallAsync
    <3>. QED  BY <1>t, <1>3, <2>4, <2>8, <3>1 DEF CallAsync, AsksPeer, TypeOK
  <2>10. WaitsForAsync'
      BY <1>t, <2>1, <2>4, <2>5 DEF WaitsForAsync
  <2>11. LoopState' /\ ReplyOnItsWay'
      BY <1>3, <2>1, <2>5, <2>8
      DEF CallAsync, LoopState, ReplyOnItsWay, Running, Top
  <2>. QED  BY <2>9, <2>10, <2>11 DEF IInv
<1>4. ASSUME Continue PROVE IInv'
  <2>1. stack \in Seq(Invocation) /\ stack # <<>> /\ Top \in Invocation /\ Top.at \in Handlers
    <3>1. stack \in Seq(Invocation) /\ 1 \in DOMAIN stack
        BY <1>t, <1>4 DEF Continue, TypeOK
    <3>2. Top.at \in Async
        BY <1>t, <1>4, <3>1 DEF Continue, WaitsForAsync, Top
    <3>3. Top \in Invocation
        BY <3>1 DEF Top
    <3>4. Top.at \in Handlers
        BY <3>2 DEF Handlers
    <3>. QED  BY <1>4, <3>1, <3>3, <3>4 DEF Continue
  <2>. DEFINE f == IF Top.phase = "suspend" /\ inputEvent THEN FromWake(Top)
                   ELSE Advanced(Top)
  <2>2. f \in Invocation /\ ~f.waiting
      BY <2>1, AdvancedType
  <2>3. stack' = [stack EXCEPT ![1] = f]
      BY <1>4 DEF Continue, Top
  <2>. HIDE DEF f
  <2>4. /\ stack' \in Seq(Invocation) /\ stack' # <<>> /\ DOMAIN stack' = DOMAIN stack
        /\ stack'[1] = f
        /\ \A i \in DOMAIN stack : i # 1 => stack'[i] = stack[i]
      BY <2>1, <2>2, <2>3, TopReplaced
  <2>5. TypeOK'
      BY <1>t, <1>4, <2>4 DEF Continue, TypeOK
  <2>6. WaitsForAsync'
      BY <1>t, <2>2, <2>4 DEF WaitsForAsync
  <2>7. LoopState' /\ ReplyOnItsWay'
      BY <1>4 DEF Continue, LoopState, ReplyOnItsWay
  <2>. QED  BY <2>5, <2>6, <2>7 DEF IInv
<1>5. ASSUME Return PROVE IInv'
  <2>1. /\ stack \in Seq(Invocation) /\ stack # <<>> /\ Top \in Invocation
        /\ results \in Seq([ok : BOOLEAN, complete : BOOLEAN])
      BY <1>t, <1>5 DEF Return, TypeOK, Running, Top
  <2>2. /\ stack' \in Seq(Invocation)
        /\ \A i \in DOMAIN stack' : i + 1 \in DOMAIN stack /\ stack'[i] = stack[i + 1]
      BY <1>5, <2>1 DEF Return
  <2>3. results' \in Seq([ok : BOOLEAN, complete : BOOLEAN])
      BY <1>5, <2>1 DEF Return, Invocation
  <2>4. waitingOn = 0
      BY <1>t, <1>5 DEF Return, LoopState
  <2>5. TypeOK'
      BY <1>t, <1>5, <2>2, <2>3 DEF Return, TypeOK
  <2>6. WaitsForAsync'
      BY <1>t, <2>2 DEF WaitsForAsync
  <2>7. LoopState' /\ ReplyOnItsWay'
      BY <1>5, <2>4 DEF Return, LoopState, ReplyOnItsWay
  <2>. QED  BY <2>5, <2>6, <2>7 DEF IInv
<1>6. ASSUME Input PROVE IInv'
  <2>1. /\ DOMAIN stack' = DOMAIN stack
        /\ stack' = [i \in DOMAIN stack |->
                        [stack[i] EXCEPT !.seen = @ \/ stack[i].phase = "suspend"]]
      BY <1>6 DEF Input
  <2>2. ASSUME NEW i \in DOMAIN stack
        PROVE  /\ stack'[i] \in Invocation
               /\ stack'[i].waiting = stack[i].waiting /\ stack'[i].at = stack[i].at
               /\ stack'[i].phase = stack[i].phase
    <3>1. stack[i] \in Invocation
        BY <1>t DEF TypeOK
    <3>2. stack'[i] = [stack[i] EXCEPT !.seen = stack[i].seen \/ stack[i].phase = "suspend"]
        BY <2>1
    <3>3. (stack[i].seen \/ stack[i].phase = "suspend") \in BOOLEAN
        OBVIOUS
    <3>. QED  BY <3>1, <3>2, <3>3 DEF Invocation
  <2>3. stack' \in Seq(Invocation) /\ (stack' = <<>> <=> stack = <<>>)
    <3>1. Len(stack) \in Nat /\ DOMAIN stack = 1..Len(stack)
        BY <1>t DEF TypeOK
    <3>2. Len(stack') = Len(stack)
        BY <2>1, <3>1
    <3>3. stack' \in [1..Len(stack) -> Invocation]
        BY <2>1, <2>2, <3>1
    <3>4. stack' \in Seq(Invocation)
        BY <3>1, <3>3
    <3>. QED  BY <1>t, <3>1, <3>2, <3>4 DEF TypeOK
  <2>4. stack # <<>> => 1 \in DOMAIN stack
      BY <1>t DEF TypeOK
  <2>5. TypeOK'
      BY <1>t, <1>6, <2>3, BudgetType DEF Input, TypeOK
  <2>6. WaitsForAsync'
      BY <1>t, <2>1, <2>2 DEF WaitsForAsync
  <2>7. LoopState' /\ ReplyOnItsWay'
      BY <1>t, <1>6, <2>2, <2>3, <2>4
      DEF Input, LoopState, ReplyOnItsWay, Running, Top
  <2>. QED  BY <2>5, <2>6, <2>7 DEF IInv
<1>7. ASSUME NEW h \in Async, OperationCompleted(h) PROVE IInv'
  <2>1. /\ UNCHANGED <<stack, inputEvent, toPeer, asleep, results, budget>>
        /\ replies' = [replies EXCEPT ![h] = replies[h] - 1]
        /\ replies[h] > 0 /\ InEventLoop
        /\ waitingOn' = IF waitingOn = h THEN 0 ELSE waitingOn
      BY <1>7 DEF OperationCompleted
  <2>2. replies \in [Async -> Nat] /\ replies[h] - 1 \in Nat
      BY <1>t, <2>1 DEF TypeOK
  <2>3. TypeOK'
      BY <1>t, <2>1, <2>2 DEF TypeOK
  <2>4. WaitsForAsync' /\ LoopState'
      BY <1>t, <2>1 DEF WaitsForAsync, LoopState, Running, Top, InEventLoop
  <2>5. \A k \in Async : k # h => replies'[k] = replies[k]
      BY <2>1, <2>2
  <2>6. ReplyOnItsWay'
      BY <1>t, <2>1, <2>5 DEF ReplyOnItsWay, LoopState, Top
  <2>. QED  BY <2>3, <2>4, <2>6 DEF IInv
<1>8. ASSUME NEW h \in Async, PeerObeys(h) PROVE IInv'
  <2>1. /\ UNCHANGED <<stack, waitingOn, inputEvent, results, budget>>
        /\ toPeer' = [toPeer EXCEPT ![h] = Tail(toPeer[h])]
        /\ toPeer[h] # <<>>
        /\ replies' = [replies EXCEPT ![h] = replies[h] + 1]
        /\ asleep' = [asleep EXCEPT ![h] = (Head(toPeer[h]) = "suspend")]
      BY <1>8 DEF PeerObeys
  <2>2. toPeer' \in [Async -> Seq(Phases)] /\ replies' \in [Async -> Nat]
      BY <1>t, <2>1 DEF TypeOK
  <2>3. asleep' \in [Handlers -> BOOLEAN]
      BY <1>t, <2>1 DEF TypeOK
  <2>4. TypeOK'
      BY <1>t, <2>1, <2>2, <2>3 DEF TypeOK
  <2>5. WaitsForAsync' /\ LoopState'
      BY <1>t, <2>1 DEF WaitsForAsync, LoopState, Running, Top
  <2>6. \A k \in Async : k # h => replies'[k] = replies[k] /\ toPeer'[k] = toPeer[k]
      BY <1>t, <2>1 DEF TypeOK
  <2>7. replies'[h] > 0
      BY <1>t, <2>1 DEF TypeOK
  <2>8. ReplyOnItsWay'
      BY <1>t, <2>1, <2>6, <2>7 DEF ReplyOnItsWay, LoopState, Top
  <2>. QED  BY <2>4, <2>5, <2>8 DEF IInv
<1>9. ASSUME UNCHANGED vars PROVE IInv'
    BY <1>t, <1>9
    DEF vars, IInv, TypeOK, WaitsForAsync, LoopState, ReplyOnItsWay, Running, Top
<1>. QED  BY <1>1, <1>2, <1>3, <1>4, <1>5, <1>6, <1>7, <1>8, <1>9 DEF Next

\* TypeOK: the invocations of suspendSystem() stay at one of its handlers or
\* past the last of them.
THEOREM TypeCorrect == Spec => []TypeOK
<1>1. IInv => TypeOK
    BY DEF IInv
<1>. QED  BY InitIInv, StepIInv, <1>1, PTL DEF Spec

\* ReplyOnItsWay: however suspendSystem() is nested, the loop around
\* processEvents() never waits for a reply that nobody is going to send.
THEOREM WaitsAreAnswered == Spec => []ReplyOnItsWay
<1>1. IInv => ReplyOnItsWay
    BY DEF IInv
<1>. QED  BY InitIInv, StepIInv, <1>1, PTL DEF Spec

----------------------------------------------------------------------------
(* Calls that are not nested: the order of the handlers.                    *)

\* Nothing is on its way from or to a handler that nobody waits for.
Settled == \A h \in Async : ~(stack # <<>> /\ Top.waiting /\ waitingOn = h) =>
               toPeer[h] = <<>> /\ replies[h] = 0

Done == asleep[Top.at] = (Top.phase = "suspend")

\* The invocation that waits is told when, and only when, the handler it is
\* at has done as it was told.
Handshake ==
    stack # <<>> /\ Top.waiting =>
        \/ waitingOn = 0 /\ Done
        \/ waitingOn = Top.at /\ toPeer[Top.at] = <<Top.phase>> /\ replies[Top.at] = 0
        \/ waitingOn = Top.at /\ toPeer[Top.at] = <<>> /\ replies[Top.at] = 1 /\ Done

\* The handlers on the side the loop has left are as it wants them.
Passed ==
    stack # <<>> =>
        /\ Top.phase = "suspend" => \A h \in Handlers : h > Top.at => asleep[h]
        /\ Top.phase = "wake" => \A h \in Handlers : h < Top.at => ~asleep[h]

\* An input event is noticed after the wait in which it came.
Noticed == stack # <<>> /\ Top.phase = "suspend" /\ Top.seen => Top.waiting /\ inputEvent

Ordered == IInv /\ Len(stack) <= 1 /\ Settled /\ Handshake /\ Passed /\ Noticed

\* Where an invocation is after the handler it was at.
LEMMA AdvancedFields ==
    ASSUME NEW f \in Invocation, f.at \in Handlers
    PROVE  /\ f.phase = "wake" => /\ Advanced(f).phase = "wake"
                                  /\ Advanced(f).at = f.at + 1
           /\ f.phase = "suspend" /\ f.at = 1 => /\ Advanced(f).phase = "wake"
                                                 /\ Advanced(f).at = 1
           /\ f.phase = "suspend" /\ f.at # 1 => /\ Advanced(f).phase = "suspend"
                                                 /\ Advanced(f).at = f.at - 1
                                                 /\ Advanced(f).seen = f.seen
           /\ FromWake(f).phase = "wake" /\ FromWake(f).at = 1
BY DEF Invocation, Advanced, Upwards, FromFirst, FromWake

PassedBy(f, a) ==
    /\ f.phase = "suspend" => \A h \in Handlers : h > f.at => a[h]
    /\ f.phase = "wake" => \A h \in Handlers : h < f.at => ~a[h]

\* The handler that has just done as it was told joins those passed.
LEMMA PassedOn ==
    ASSUME NEW f \in Invocation, f.at \in Handlers,
           NEW a, PassedBy(f, a), a[f.at] = (f.phase = "suspend")
    PROVE  PassedBy(Advanced(f), a) /\ PassedBy(FromWake(f), a)
<1>0. N \in Nat /\ f.at \in Nat /\ Handlers \subseteq Nat /\ f.phase \in {"suspend", "wake"}
    BY HandlersAssumption DEF Handlers, Invocation, Phases
<1>1. \A h \in Handlers : h >= 1
    BY HandlersAssumption DEF Handlers
<1>2. PassedBy(FromWake(f), a)
    BY <1>0, <1>1, AdvancedFields DEF PassedBy
<1>3. CASE f.phase = "wake"
  <2>1. Advanced(f).phase = "wake" /\ Advanced(f).at = f.at + 1
      BY <1>3, AdvancedFields
  <2>2. \A h \in Handlers : h < f.at + 1 => h < f.at \/ h = f.at
      BY <1>0
  <2>3. ~a[f.at]
      BY <1>3
  <2>. QED  BY <1>2, <1>3, <2>1, <2>2, <2>3 DEF PassedBy
<1>4. CASE f.phase = "suspend" /\ f.at = 1
    BY <1>0, <1>1, <1>2, <1>4, AdvancedFields DEF PassedBy
<1>5. CASE f.phase = "suspend" /\ f.at # 1
  <2>1. Advanced(f).phase = "suspend" /\ Advanced(f).at = f.at - 1
      BY <1>5, AdvancedFields
  <2>2. \A h \in Handlers : h > f.at - 1 => h > f.at \/ h = f.at
      BY <1>0
  <2>. QED  BY <1>2, <1>5, <2>1, <2>2 DEF PassedBy
<1>. QED  BY <1>0, <1>2, <1>3, <1>4, <1>5

\* With one invocation at most, what its parts say of the innermost one they
\* say of it.
LEMMA StepOrdered == ~Nested /\ Ordered /\ [Next]_vars => Ordered'
<1>. SUFFICES ASSUME ~Nested, Ordered, [Next]_vars PROVE Ordered'
    OBVIOUS
<1>i. IInv'
    BY StepIInv DEF Ordered
<1>t. /\ TypeOK /\ WaitsForAsync /\ LoopState
      /\ Len(stack) <= 1 /\ Settled /\ Handshake /\ Passed /\ Noticed
    BY DEF Ordered, IInv
<1>s. /\ stack \in Seq(Invocation) /\ asleep \in [Handlers -> BOOLEAN]
      /\ toPeer \in [Async -> Seq(Phases)] /\ replies \in [Async -> Nat]
      /\ Async \subseteq Handlers
    BY <1>t, HandlersAssumption DEF TypeOK, Handlers
<1>p. stack # <<>> => Top \in Invocation /\ PassedBy(Top, asleep)
    BY <1>t, <1>s DEF Passed, PassedBy, Top
<1>1. ASSUME SuspendSystem PROVE Ordered'
  <2>1. stack = <<>> /\ UNCHANGED <<waitingOn, toPeer, replies, asleep>>
      BY <1>1 DEF SuspendSystem
  <2>2. CASE Refused
      BY <1>i, <1>t, <2>1, <2>2
      DEF Refused, Ordered, Settled, Handshake, Passed, Noticed
  <2>3. CASE Started
    <3>1. stack' = <<[phase |-> "suspend", at |-> N, waiting |-> FALSE,
                      seen |-> FALSE, complete |-> FALSE]>>
        BY <2>1, <2>3 DEF Started
    <3>2. /\ Len(stack') = 1 /\ ~Top'.waiting /\ ~Top'.seen
          /\ Top'.phase = "suspend" /\ Top'.at = N
        BY <3>1 DEF Top
    <3>3. Settled' /\ Handshake' /\ Noticed'
        BY <1>t, <2>1, <3>2 DEF Settled, Handshake, Noticed
    <3>4. Passed'
      <4>1. \A h \in Handlers : ~(h > N)
          BY HandlersAssumption DEF Handlers
      <4>. QED  BY <3>2, <4>1 DEF Passed
    <3>. QED  BY <1>i, <3>2, <3>3, <3>4 DEF Ordered
  <2>. QED  BY <1>1, <2>2, <2>3 DEF SuspendSystem
<1>2. ASSUME CallSync PROVE Ordered'
  <2>1. /\ stack # <<>> /\ ~Top.waiting /\ Top \in Invocation /\ Top.at \in Handlers \ Async
        /\ asleep' = [asleep EXCEPT ![Top.at] = (Top.phase = "suspend")]
        /\ UNCHANGED <<toPeer, replies>>
      BY <1>2, <1>p DEF CallSync, Running
  <2>2. /\ Len(stack') = Len(stack) /\ stack' # <<>>
        /\ Top' = Advanced(Top)
      BY <1>s, <1>2, <2>1 DEF CallSync, Top
  <2>3. ~Advanced(Top).waiting
      BY <2>1, AdvancedType
  <2>4. Settled' /\ Handshake'
      BY <1>t, <2>1, <2>2, <2>3 DEF Settled, Handshake
  <2>5. Passed'
    <3>1. asleep'[Top.at] = (Top.phase = "suspend")
        BY <1>s, <2>1
    <3>2. \A h \in Handlers : h # Top.at => asleep'[h] = asleep[h]
        BY <1>s, <2>1
    <3>3. Top.at \in Nat
        BY <2>1 DEF Handlers
    <3>4. \A h \in Handlers : (h > Top.at => h # Top.at) /\ (h < Top.at => h # Top.at)
        BY <3>3 DEF Handlers
    <3>5. PassedBy(Top, asleep')
        BY <1>p, <2>1, <3>2, <3>4 DEF PassedBy
    <3>6. PassedBy(Advanced(Top), asleep')
        BY <2>1, <3>1, <3>5, PassedOn
    <3>. QED  BY <2>2, <3>6 DEF Passed, PassedBy
  <2>6. Noticed'
    <3>1. Top.phase = "suspend" => ~Top.seen
        BY <1>t, <2>1 DEF Noticed
    <3>. QED  BY <2>1, <2>2, <3>1, AdvancedFields DEF Noticed, Invocation, Phases
  <2>. QED  BY <1>i, <1>t, <2>2, <2>4, <2>5, <2>6 DEF Ordered
<1>3. ASSUME CallAsync PROVE Ordered'
  <2>1. /\ stack # <<>> /\ ~Top.waiting /\ Top \in Invocation /\ Top.at \in Async
        /\ UNCHANGED <<inputEvent, replies, asleep>>
        /\ toPeer' = [toPeer EXCEPT ![Top.at] = Append(@, Top.phase)]
        /\ waitingOn' = Top.at
        /\ stack' = [stack EXCEPT ![1].waiting = TRUE]
      BY <1>3, <1>p DEF CallAsync, AsksPeer, Running
  <2>2. /\ Len(stack') = Len(stack) /\ stack' # <<>>
        /\ Top' = [Top EXCEPT !.waiting = TRUE]
    <3>1. [Top EXCEPT !.waiting = TRUE] \in Invocation
        BY <2>1 DEF Invocation
    <3>2. stack' = [stack EXCEPT ![1] = [Top EXCEPT !.waiting = TRUE]]
        BY <2>1 DEF Top
    <3>3. /\ stack' \in Seq(Invocation) /\ stack' # <<>> /\ DOMAIN stack' = DOMAIN stack
          /\ stack'[1] = [Top EXCEPT !.waiting = TRUE]
      <4>1. stack \in Seq(Invocation) /\ stack # <<>>
          BY <1>s, <2>1
      <4>. QED  BY <4>1, <3>1, <3>2, TopReplaced
    <3>4. Len(stack') = Len(stack)
        BY <1>s, <3>3
    <3>. QED  BY <3>3, <3>4 DEF Top
  <2>3. /\ Top'.waiting /\ Top'.phase = Top.phase /\ Top'.at = Top.at
        /\ Top'.seen = Top.seen
      BY <2>1, <2>2 DEF Invocation
  <2>4. toPeer[Top.at] = <<>> /\ replies[Top.at] = 0
      BY <1>t, <2>1 DEF Settled
  <2>5. toPeer'[Top.at] = <<Top.phase>>
      BY <1>s, <2>1, <2>4
  <2>6. \A h \in Async : h # Top.at => toPeer'[h] = toPeer[h]
      BY <1>s, <2>1
  <2>7. Settled'
      BY <1>t, <2>1, <2>2, <2>3, <2>6 DEF Settled
  <2>8. Handshake' /\ Passed'
      BY <1>t, <2>1, <2>2, <2>3, <2>4, <2>5 DEF Handshake, Passed
  <2>9. Noticed'
      BY <1>t, <2>1, <2>2, <2>3 DEF Noticed
  <2>. QED  BY <1>i, <1>t, <2>2, <2>7, <2>8, <2>9 DEF Ordered
<1>4. ASSUME Continue PROVE Ordered'
  <2>1. /\ stack # <<>> /\ Top.waiting /\ waitingOn = 0 /\ Top \in Invocation
        /\ UNCHANGED <<waitingOn, inputEvent, toPeer, replies, asleep>>
      BY <1>4, <1>p DEF Continue
  <2>2. Top.at \in Async /\ Top.at \in Handlers /\ Top.at # 0
    <3>1. 1 \in DOMAIN stack
        BY <1>s, <2>1
    <3>2. Top.at \in Async
        BY <1>t, <2>1, <3>1 DEF WaitsForAsync, Top
    <3>3. 0 \notin Async
        BY HandlersAssumption
    <3>. QED  BY <1>s, <3>2, <3>3
  <2>3. asleep[Top.at] = (Top.phase = "suspend")
      BY <1>t, <2>1, <2>2 DEF Handshake, Done
  <2>. DEFINE f == IF Top.phase = "suspend" /\ inputEvent THEN FromWake(Top)
                   ELSE Advanced(Top)
  <2>4. Len(stack') = Len(stack) /\ stack' # <<>> /\ Top' = f
      BY <1>s, <1>4, <2>1 DEF Continue, Top
  <2>5. ~f.waiting /\ PassedBy(f, asleep)
      BY <1>p, <2>1, <2>2, <2>3, PassedOn, AdvancedType
  <2>6. f.phase = "suspend" => ~f.seen
    <3>1. Top.phase = "suspend" /\ ~inputEvent => ~Top.seen
        BY <1>t, <2>1 DEF Noticed
    <3>. QED  BY <2>1, <2>2, <3>1, AdvancedFields DEF Invocation, Phases
  <2>. HIDE DEF f
  <2>7. Settled' /\ Handshake'
      BY <1>t, <2>1, <2>4, <2>5, HandlersAssumption DEF Settled, Handshake
  <2>8. Passed' /\ Noticed'
      BY <2>1, <2>4, <2>5, <2>6 DEF Passed, PassedBy, Noticed
  <2>. QED  BY <1>i, <1>t, <2>4, <2>7, <2>8 DEF Ordered
<1>5. ASSUME Return PROVE Ordered'
  <2>1. stack # <<>> /\ ~Top.waiting /\ UNCHANGED <<waitingOn, toPeer, replies>>
      BY <1>5 DEF Return, Running
  <2>2. stack' = <<>> /\ Len(stack') = 0
    <3>1. ASSUME NEW S, NEW t \in Seq(S), t # <<>>, Len(t) <= 1
          PROVE  Tail(t) = <<>> /\ Len(Tail(t)) = 0
      <4>1. Len(t) = 1
        <5>1. PICK n \in Nat \ {0} : n = Len(t)
            BY <3>1, EmptySeq
        <5>2. n <= 1
            BY <3>1, <5>1
        <5>. QED  BY <5>1, <5>2
      <4>2. Tail(t) \in Seq(S) /\ Len(Tail(t)) = 0
          BY <3>1, <4>1, HeadTailProperties
      <4>. QED  BY <4>2, EmptySeq
    <3>2. stack' = Tail(stack)
        BY <1>5 DEF Return
    <3>3. stack \in Seq(Invocation) /\ stack # <<>> /\ Len(stack) <= 1
        BY <1>s, <1>t, <2>1
    <3>. QED  BY <3>1, <3>2, <3>3
  <2>3. Settled' /\ Handshake' /\ Passed' /\ Noticed'
      BY <1>t, <2>1, <2>2 DEF Settled, Handshake, Passed, Noticed
  <2>. QED  BY <1>i, <2>2, <2>3 DEF Ordered
<1>6. ASSUME Input PROVE Ordered'
  <2>1. /\ InEventLoop /\ inputEvent' = TRUE
        /\ UNCHANGED <<waitingOn, toPeer, replies, asleep>>
        /\ stack' = [i \in DOMAIN stack |->
                        [stack[i] EXCEPT !.seen = @ \/ stack[i].phase = "suspend"]]
      BY <1>6 DEF Input
  <2>2. Len(stack') = Len(stack) /\ (stack' = <<>> <=> stack = <<>>)
    <3>1. stack' \in Seq(Invocation)
        BY <1>i DEF IInv, TypeOK
    <3>. QED  BY <1>s, <2>1, <3>1
  <2>3. ASSUME stack # <<>>
        PROVE  /\ Top'.waiting = Top.waiting /\ Top'.phase = Top.phase
               /\ Top'.at = Top.at /\ Top.waiting
    <3>1. 1 \in DOMAIN stack
        BY <1>s, <2>3
    <3>2. Top' = [Top EXCEPT !.seen = Top.seen \/ Top.phase = "suspend"]
        BY <2>1, <3>1 DEF Top
    <3>3. Top.waiting
        BY <2>1, <2>3 DEF InEventLoop, Running
    <3>. QED  BY <1>p, <2>3, <3>2, <3>3 DEF Invocation
  <2>4. Settled' /\ Handshake'
      BY <1>t, <2>1, <2>2, <2>3 DEF Settled, Handshake, Done
  <2>5. Passed' /\ Noticed'
      BY <1>t, <2>1, <2>2, <2>3 DEF Passed, Noticed
  <2>. QED  BY <1>i, <1>t, <2>2, <2>4, <2>5 DEF Ordered
<1>7. ASSUME NEW h \in Async, OperationCompleted(h) PROVE Ordered'
  <2>1. /\ UNCHANGED <<stack, inputEvent, toPeer, asleep>>
        /\ replies' = [replies EXCEPT ![h] = replies[h] - 1]
        /\ replies[h] > 0
        /\ waitingOn' = IF waitingOn = h THEN 0 ELSE waitingOn
      BY <1>7 DEF OperationCompleted
  <2>2. stack # <<>> /\ Top.waiting /\ waitingOn = h
      BY <1>t, <2>1 DEF Settled
  <2>3. h # 0
      BY HandlersAssumption
  <2>4. Top.at = h /\ toPeer[h] = <<>> /\ replies[h] = 1 /\ Done
      BY <1>t, <2>1, <2>2, <2>3 DEF Handshake
  <2>5. replies'[h] = 0 /\ \A k \in Async : k # h => replies'[k] = replies[k]
      BY <1>s, <2>1, <2>4
  <2>6. waitingOn' = 0
      BY <2>1, <2>2
  <2>7. Settled'
      BY <1>t, <2>1, <2>2, <2>4, <2>5 DEF Settled
  <2>8. Handshake' /\ Passed' /\ Noticed'
      BY <1>t, <2>1, <2>4, <2>6 DEF Handshake, Passed, Noticed, Done, Top
  <2>. QED  BY <1>i, <1>t, <2>1, <2>7, <2>8 DEF Ordered
<1>8. ASSUME NEW h \in Async, PeerObeys(h) PROVE Ordered'
  <2>1. /\ UNCHANGED <<stack, waitingOn, inputEvent>>
        /\ toPeer' = [toPeer EXCEPT ![h] = Tail(toPeer[h])]
        /\ toPeer[h] # <<>>
        /\ replies' = [replies EXCEPT ![h] = replies[h] + 1]
        /\ asleep' = [asleep EXCEPT ![h] = (Head(toPeer[h]) = "suspend")]
      BY <1>8 DEF PeerObeys
  <2>2. stack # <<>> /\ Top.waiting /\ waitingOn = h /\ h # 0
      BY <1>t, <2>1, HandlersAssumption DEF Settled
  <2>3. Top.at = h /\ toPeer[h] = <<Top.phase>> /\ replies[h] = 0
      BY <1>t, <2>1, <2>2 DEF Handshake
  <2>4. /\ toPeer'[h] = <<>> /\ replies'[h] = 1
        /\ asleep'[h] = (Top.phase = "suspend")
      BY <1>s, <2>1, <2>3
  <2>5. \A k \in Async : k # h => toPeer'[k] = toPeer[k] /\ replies'[k] = replies[k]
      BY <1>s, <2>1
  <2>6. Settled'
      BY <1>t, <2>1, <2>2, <2>5 DEF Settled, Top
  <2>7. Handshake' /\ Noticed'
      BY <1>t, <2>1, <2>2, <2>3, <2>4 DEF Handshake, Noticed, Done, Top
  <2>8. Passed'
    <3>1. \A k \in Handlers : k # h => asleep'[k] = asleep[k]
        BY <1>s, <2>1
    <3>2. \A k \in Handlers : (k > h => k # h) /\ (k < h => k # h)
        BY <1>s DEF Handlers
    <3>. QED  BY <1>t, <2>1, <2>2, <2>3, <3>1, <3>2 DEF Passed, Top
  <2>. QED  BY <1>i, <1>t, <2>1, <2>6, <2>7, <2>8 DEF Ordered
<1>9. ASSUME UNCHANGED vars PROVE Ordered'
    BY <1>i, <1>t, <1>9
    DEF vars, Ordered, Settled, Handshake, Passed, Noticed, Done, Top
<1>. QED  BY <1>1, <1>2, <1>3, <1>4, <1>5, <1>6, <1>7, <1>8, <1>9 DEF Next

LEMMA InitOrdered == Init => Ordered
BY InitIInv DEF Init, Ordered, Settled, Handshake, Passed, Noticed

\* SuspendInOrder: when suspendSystem() is not called while it runs, the
\* first handler, which puts the hardware to sleep, is only told to suspend
\* when all the others have completed theirs; and so on along the list.
THEOREM SuspendedInOrder ==
    ASSUME ~Nested PROVE Spec => []SuspendInOrder
<1>1. Ordered => SuspendInOrder
    BY DEF Ordered, Passed, SuspendInOrder, Running
<1>2. Ordered /\ [Next]_vars => Ordered'
    BY StepOrdered
<1>. QED  BY InitOrdered, <1>1, <1>2, PTL DEF Spec

\* WakeInOrder: in the same circumstances a handler is woken after those
\* before it, and systemActive() finds all of them awake.
THEOREM WokenInOrder ==
    ASSUME ~Nested PROVE Spec => []WakeInOrder
<1>1. Ordered => WakeInOrder
    BY DEF Ordered, Passed, WakeInOrder, Running
<1>2. Ordered /\ [Next]_vars => Ordered'
    BY StepOrdered
<1>. QED  BY InitOrdered, <1>1, <1>2, PTL DEF Spec

\* InputAborts: in the same circumstances no handler is told to suspend once
\* an input event has come.
THEOREM AbortedByInput ==
    ASSUME ~Nested PROVE Spec => []InputAborts
<1>1. Ordered => InputAborts
    BY DEF Ordered, Noticed, InputAborts, Running
<1>2. Ordered /\ [Next]_vars => Ordered'
    BY StepOrdered
<1>. QED  BY InitOrdered, <1>1, <1>2, PTL DEF Spec
=============================================================================
