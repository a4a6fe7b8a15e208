------------------------------ MODULE SmsInbox ------------------------------
(***************************************************************************)
(* SmsClient (tools/messageserver/smsclient.cpp), which moves the messages *)
(* that SmsReader finds into the mailbox, in a process of its own: its     *)
(* calls of QSMSReader and the signals of the reader are messages that     *)
(* arrive in order, but each side acts before it has seen the other's.     *)
(* ready(), usedMessages() and totalMessages() are read from the shared    *)
(* value space.  The account keeps its messages on the SIM                 *)
(* (canDeleteMail() is false).                                             *)
(***************************************************************************)
EXTENDS SmsReader

CONSTANTS
    KeepFree,       \* free places the client wants on the SIM (5 in the code)
    MaxChecks,      \* bound: calls of checkForNewMessages() in a behaviour
    UserDeletes     \* the user deletes messages from the mailbox

ASSUME ClientAssumption ==
    KeepFree \in Nat /\ MaxChecks \in Nat /\ UserDeletes \in BOOLEAN

Requests == [req : {"check", "first", "next"}] \cup [req : {"delete"}, id : Ids]

VARIABLES
    client,     \* SmsClient, and the mailbox of its account
    requests    \* calls of QSMSReader that have not reached the reader

vars == <<reader, modem, rx, arrived, failures, client, requests>>

Ask(reqs)  == requests' = requests \o reqs
Call(name) == <<[req |-> name]>>

----------------------------------------------------------------------------
(* SmsClient.                                                               *)

\* deleteImmediately(): only what is known to be on the SIM.
Known(c, id)    == id \in ToSet(c.activeIds)
Deletion(c, id) == IF Known(c, id) THEN <<[req |-> "delete", id |-> id]>> ELSE <<>>
Forget(c, id)   == [c EXCEPT !.activeIds = Without(@, {id})]

\* simReadyChanged(), and what checkForNewMessages() does before it asks.
SimReadyChanged ==
    IF reader.ready /\ client.smsCheckRequired
    THEN client' = [client EXCEPT !.smsCheckRequired = FALSE] /\ Ask(Call("check"))
    ELSE UNCHANGED <<client, requests>>

\* messageCount(): a retrieval begins, or the one in progress must begin
\* again when it ends.
MessageCountLost(n) ==
    IF n = 0 \/ client.smsFetching THEN UNCHANGED <<client, requests>>
    ELSE /\ client' = [client EXCEPT !.smsFetching = TRUE,
                                     !.sawNewMessage = FALSE,
                                     !.activeIds = <<>>]
         /\ Ask(Call("first"))
MessageCount(n) ==
    IF n = 0 THEN UNCHANGED <<client, requests>>
    ELSE IF client.smsFetching
    THEN client' = [client EXCEPT !.sawNewMessage = TRUE] /\ UNCHANGED requests
    ELSE /\ client' = [client EXCEPT !.smsFetching = TRUE,
                                     !.sawNewMessage = FALSE,
                                     !.activeIds = <<>>]
         /\ Ask(Call("first"))

\* fetched(), with a message: one that is in the mailbox is ignored.
RetrievedIds(c) == IF c.retrievedIds = {} THEN c.mailbox ELSE c.retrievedIds
Fetched(id) ==
    /\ client' =
         LET c == [client EXCEPT !.activeIds = Append(@, id),
                                 !.retrievedIds = RetrievedIds(client)]
         IN IF id \in c.retrievedIds THEN c
            ELSE [c EXCEPT !.retrievedIds = @ \cup {id},
                           !.retrievedMessages = Append(@, id)]
    /\ Ask(Call("next"))

\* The loop that frees places: the oldest message is deleted, which removes
\* it from activeIds, and then whatever is at its index is removed as well.
Oldest(ids) == CHOOSE i \in DOMAIN ids :
                  \A j \in DOMAIN ids : ids[i].msg <= ids[j].msg
FreeOne(acc) ==
    IF acc.ids = <<>> THEN acc
    ELSE LET i    == Oldest(acc.ids)
             rest == Without(acc.ids, {acc.ids[i]})
         IN [calls |-> Append(acc.calls, [req |-> "delete", id |-> acc.ids[i]]),
             ids   |-> IF i \in DOMAIN rest THEN RemoveAt(rest, i) ELSE rest]

Freed(ids, n) ==
    LET freed[k \in 0..n] ==
            IF k = 0 THEN [calls |-> <<>>, ids |-> ids] ELSE FreeOne(freed[k - 1])
    IN freed[n]

ToBeDeleted ==
    IF reader.total >= KeepFree /\ reader.total < reader.used + KeepFree
    THEN reader.used + KeepFree - reader.total ELSE 0

\* fetched(), at the end of the list: allMessagesRetrieved() puts what was
\* retrieved in the mailbox.
FetchedEnd ==
    IF client.sawNewMessage
    THEN /\ client' = [client EXCEPT !.smsFetching = FALSE]
         /\ Ask(Call("check"))
    ELSE LET freed == Freed(client.activeIds, ToBeDeleted)
         IN /\ client' = [client EXCEPT
                  !.smsFetching = FALSE,
                  !.mailbox = @ \cup ToSet(client.retrievedMessages),
                  !.received = @ \cup ToSet(client.retrievedMessages),
                  !.retrievedMessages = <<>>, !.retrievedIds = {},
                  !.activeIds = freed.ids]
            /\ Ask(freed.calls)

----------------------------------------------------------------------------
Init ==
    /\ ReaderInit
    /\ client = [smsFetching |-> FALSE, sawNewMessage |-> FALSE,
                 smsCheckRequired |-> FALSE, activeIds |-> <<>>, retrievedIds |-> {},
                 retrievedMessages |-> <<>>, mailbox |-> {}, received |-> {},
                 checks |-> MaxChecks]
    /\ requests = <<>>

\* A signal of the reader arrives.
ReceiveSignal ==
    /\ reader.out # <<>>
    /\ LET signal == Head(reader.out) IN
       CASE signal.sig = "ready"   -> SimReadyChanged
         [] signal.sig = "count"   -> MessageCount(signal.n)
         [] signal.sig = "fetched" -> Fetched(signal.id)
         [] signal.sig = "end"     -> FetchedEnd
    /\ reader' = [reader EXCEPT !.out = Tail(@)]
    /\ UNCHANGED <<modem, rx, arrived, failures>>

\* A call of the client arrives at the reader.
ServeRequest ==
    /\ requests # <<>>
    /\ LET call == Head(requests) IN
       reader' = CASE call.req = "check"  -> Check(reader, FALSE)
                   [] call.req = "first"  -> FirstMessage(reader)
                   [] call.req = "next"   -> NextMessage(reader)
                   [] call.req = "delete" -> DeleteMessages(reader, <<call.id>>)
    /\ requests' = Tail(requests)
    /\ UNCHANGED <<modem, rx, arrived, failures, client>>

\* checkForNewMessages()
CheckForNewMessages ==
    /\ client.checks > 0
    /\ client' = [client EXCEPT !.checks = @ - 1, !.smsCheckRequired = ~reader.ready]
    /\ Ask(IF ~reader.ready THEN <<>>
           ELSE IF client.smsCheckRequired THEN Call("check") \o Call("check")
           ELSE Call("check"))
    /\ UNCHANGED readerVars

\* The user deletes a message from the mailbox.
DeleteImmediately ==
    /\ UserDeletes
    /\ \E id \in client.mailbox :
          /\ client' = [Forget(client, id) EXCEPT !.mailbox = @ \ {id}]
          /\ Ask(Deletion(client, id))
    /\ UNCHANGED readerVars

Next ==
    \/ ReaderNext /\ UNCHANGED <<client, requests>>
    \/ ReceiveSignal \/ ServeRequest \/ CheckForNewMessages \/ DeleteImmediately

Spec == Init /\ [][Next]_vars

\* Both processes run and what they send each other arrives.
Fairness ==
    /\ WF_vars(SmsReady /\ UNCHANGED <<client, requests>>)
    /\ WF_vars(ReadLine /\ UNCHANGED <<client, requests>>)
    /\ WF_vars((ModemExecutes \/ ModemAnswers) /\ UNCHANGED <<client, requests>>)
    /\ WF_vars(ReceiveSignal) /\ WF_vars(ServeRequest)

FairSpec == Spec /\ Fairness

----------------------------------------------------------------------------
(* Correctness.                                                             *)

Clients == [smsFetching : BOOLEAN, sawNewMessage : BOOLEAN,
            smsCheckRequired : BOOLEAN, activeIds : Seq(Ids),
            retrievedIds : SUBSET Ids, retrievedMessages : Seq(Ids),
            mailbox : SUBSET Ids, received : SUBSET Ids, checks : 0..MaxChecks]

TypeOK == ReaderType /\ client \in Clients /\ requests \in Seq(Requests)

\* A message that is in the mailbox is not retrieved again, and none is
\* retrieved twice at a time, however often the list is read.
RetrievedOnce ==
    LET new == client.retrievedMessages IN
    \A i \in DOMAIN new :
        /\ new[i] \notin client.mailbox
        /\ \A j \in DOMAIN new : new[i] = new[j] => i = j

\* No message of the SIM goes both to its service and to the client: the list
\* is not read before joinMessages() has been through it.  (A datagram that came
\* as +CMT: can go to both: fetchMessages() begins the new list with the pseudo
\* inbox, and a client that reads on meanwhile is given it.)
HandedOver == client.received \cup ToSet(client.retrievedMessages)
DispatchedOrRetrieved ==
    \A id \in HandedOver : id.place # 0 => id.msg \notin ToSet(reader.dispatched)

\* A datagram is dispatched once, the mailbox takes a message once, and no
\* message of the SIM is handled in both ways (joinMessages(), fetched())
DeliveredOnce == TypeOK /\ DatagramsOnce /\ RetrievedOnce /\ DispatchedOrRetrieved

\* Every message that has arrived is dispatched to its service or reaches
\* the mailbox, unless the modem failed to list the store or a deletion was
\* overtaken.
Delivered(m) == \/ \E i \in DOMAIN reader.dispatched : reader.dispatched[i] = m
                \/ \E id \in client.received : id.msg = m
EveryMessageDelivered ==
    \A m \in Msgs : arrived >= m ~> Delivered(m) \/ failures < MaxFailures \/ reader.overtaken

\* No message leaves the SIM before it was delivered, unless a deletion
\* has waited behind AT+CMGL: the list then brings the deleted message back,
\* and its identifier may be used again when another message has its place.
InFlight(m) == \/ Delivered(m)
               \/ \E i \in DOMAIN client.retrievedMessages :
                     client.retrievedMessages[i].msg = m
UnreadKept(m) == InFlight(m) \/ m \in Direct \/ \E p \in Places : modem.sim[p] = m
NothingUnreadDeleted == reader.overtaken \/ \A m \in 1..arrived : UnreadKept(m)

\* A retrieval that has begun ends.
EveryRetrievalEnds == client.smsFetching ~> ~client.smsFetching
=============================================================================
