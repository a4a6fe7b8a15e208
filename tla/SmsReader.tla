------------------------------ MODULE SmsReader ------------------------------
(***************************************************************************)
(* QModemSMSReader (libraries/qtopiaphonemodem/qmodemsmsreader.cpp): the   *)
(* phone server's cache of the messages on the SIM, and the modem that     *)
(* stores them.                                                            *)
(*                                                                         *)
(* The reader lists the whole store when it has been told of a new message *)
(* and answers check(), firstMessage() and nextMessage() from the list.    *)
(* Its AT commands wait their turn on the primary AT chat behind whatever  *)
(* else was queued (CommandService), so a list, a deletion and a new       *)
(* message overlap.  As in AtChat, the slots are operators from the        *)
(* reader's private data to the next; SmsInbox adds the client, whose      *)
(* calls they are.                                                         *)
(***************************************************************************)
EXTENDS Naturals, SequencesExt

CONSTANTS
    MaxMessages,    \* bound: messages that arrive in a behaviour
    Datagrams,      \* those that dispatchDatagram() takes
    Direct,         \* those that come as +CMT: and are not stored
    Slots,          \* the places of the SIM
    MaxFailures,    \* bound: AT+CMGL commands that fail
    Announces       \* the modem announces messages before AT+CNMI

ASSUME MessagesAssumption == MaxMessages \in Nat /\ MaxFailures \in Nat
ASSUME KindsAssumption ==
    Datagrams \subseteq 1..MaxMessages /\ Direct \subseteq 1..MaxMessages
ASSUME SlotsAssumption == Slots \in Nat \ {0}
ASSUME AnnouncesAssumption == Announces \in BOOLEAN

Msgs   == 1..MaxMessages    \* messages are numbered as they arrive
Places == 1..Slots

\* A message identifier: "SM:" with the index and the date of the message,
\* or "@@:" with a number of the pseudo inbox, which is place 0 here.
Ids         == [place : 0..Slots, msg : Msgs]
StoredIds   == [place : Places, msg : Msgs]
DatagramIds == [place : 0..Slots, msg : Datagrams]

Commands == [cmd : {"options", "notify", "usage", "list", "delete"},
             place : 0..Slots]

\* messageCount(n), readyChanged(), and fetched() with an identifier or, at
\* the end of the list, without one.
Signals == [sig : {"count"}, n : Nat] \cup [sig : {"fetched"}, id : Ids]
           \cup [sig : {"end", "ready"}]

Lines == [what : {"answer"}, ok : BOOLEAN, ids : Seq(Ids), used : 0..Slots]
         \cup [what : {"note"}] \cup [what : {"direct"}, msg : Msgs]

VARIABLES
    reader,    \* QModemSMSReaderPrivate, its AT queue and unread signals
    modem,     \* the SIM, and the answer the modem is about to give
    rx,        \* lines from the modem that have not been read
    arrived,   \* the number of messages that have arrived
    failures   \* what is left of MaxFailures

readerVars == <<reader, modem, rx, arrived, failures>>

----------------------------------------------------------------------------
(* The member functions of QModemSMSReader.                                 *)

\* The elements of a list of identifiers that are in a set, in their order:
\* SelectSeq as a function, whose definition proofs can expand.
Entries == [place : 0..Slots, msg : 0..MaxMessages]
Only == [S \in SUBSET Entries |-> [seq \in Seq(Entries) |->
    LET kept[n \in 0..Len(seq)] ==
            IF n = 0 THEN <<>>
            ELSE IF seq[n] \in S THEN Append(kept[n - 1], seq[n])
            ELSE kept[n - 1]
    IN kept[Len(seq)]]]
Without(seq, S) == Only[Entries \ S][seq]

Command(cmd)    == [cmd |-> cmd, place |-> 0]
Queue(r, cmds)  == [r EXCEPT !.at = @ \o cmds]
Emit(r, signal) == [r EXCEPT !.out = Append(@, signal)]
Count(r)        == Emit(r, [sig |-> "count", n |-> Len(r.pending)])

\* fetchMessages(): AT+CMGF=0 and AT+CPMS= have no effect of their own here.
FetchMessages(r) ==
    Queue([r EXCEPT !.fetching = TRUE, !.pending = r.pseudoInbox],
          <<Command("usage"), Command("list")>>)

\* check(bool)
Check(r, force) ==
    IF r.haveCached \/ (r.initializing /\ ~force) THEN Count(r)
    ELSE IF r.fetching THEN [r EXCEPT !.pendingCheck = TRUE]
    ELSE FetchMessages([r EXCEPT !.pendingCheck = TRUE])

\* newMessageArrived(); without the refetch it would only drop the cache.
NewMessageUnseen(r) == IF r.fetching THEN r
                       ELSE Check([r EXCEPT !.haveCached = FALSE], FALSE)
NewMessageArrived(r) ==
    IF r.fetching THEN [r EXCEPT !.needRefetch = TRUE]
    ELSE Check([r EXCEPT !.haveCached = FALSE], FALSE)

NextMessage(r) ==
    IF r.pendingPosn < Len(r.pending)
    THEN [Emit(r, [sig |-> "fetched", id |-> r.pending[r.pendingPosn + 1]])
            EXCEPT !.pendingPosn = @ + 1]
    ELSE [Emit(r, [sig |-> "end"]) EXCEPT !.pendingPosn = 0]

\* firstMessage(); without its guard it would list the store twice.
FirstMessageAgain(r) ==
    IF r.haveCached THEN NextMessage([r EXCEPT !.pendingPosn = 0])
    ELSE FetchMessages([r EXCEPT !.pendingFirstMessage = TRUE])
FirstMessage(r) ==
    IF r.haveCached THEN NextMessage([r EXCEPT !.pendingPosn = 0])
    ELSE IF r.fetching THEN [r EXCEPT !.pendingFirstMessage = TRUE]
    ELSE FetchMessages([r EXCEPT !.pendingFirstMessage = TRUE])

\* setValue( "usedMessages", ... ) of deleteMessage().
UsedWithout(used, n) == IF used > n THEN used - n ELSE 0

\* deleteMessage(), for each of ids.  The history variable `overtaken` says
\* that a deletion had to wait behind AT+CMGL.
Listing(r) == \E i \in DOMAIN r.at : r.at[i].cmd = "list"
DeleteMessages(r, ids) ==
    LET stored == Only[StoredIds][ids] IN
    Queue([r EXCEPT !.pending = Without(@, ToSet(ids)),
                    !.pseudoInbox = Without(@, ToSet(ids)),
                    !.overtaken = @ \/ (stored # <<>> /\ Listing(r)),
                    !.used = UsedWithout(@, Len(stored))],
          [i \in DOMAIN stored |-> [cmd |-> "delete", place |-> stored[i].place]])

\* joinMessages(): datagrams go to their services and are deleted.  The
\* client would be given them too if they stayed in the list, and messages
\* would be lost if all were deleted.
Dispatch(r, ids) ==
    [r EXCEPT !.dispatched = @ \o [i \in DOMAIN ids |-> ids[i].msg]]
JoinAndList(r) ==
    [DeleteMessages(Dispatch(r, Only[DatagramIds][r.pending]),
                    Only[DatagramIds][r.pending]) EXCEPT !.pending = r.pending]
JoinDeletingAll(r) ==
    DeleteMessages(Dispatch(r, Only[DatagramIds][r.pending]), r.pending)
JoinMessages(r) ==
    LET data == Only[DatagramIds][r.pending] IN
    DeleteMessages(Dispatch(r, data), data)

\* The end of storeListDone(): what the list was asked for.
AnswerFirst(r) ==
    IF r.pendingFirstMessage
    THEN NextMessage([r EXCEPT !.pendingFirstMessage = FALSE, !.pendingPosn = 0])
    ELSE r
AnswerNothing(r) == [r EXCEPT !.pendingCheck = FALSE, !.pendingFirstMessage = FALSE]
Answer(r) ==
    IF r.pendingCheck THEN AnswerFirst(Count([r EXCEPT !.pendingCheck = FALSE]))
    ELSE AnswerFirst(r)

\* setReady(TRUE), once AT+CMGL has succeeded.
SetReady(r) == IF r.ready THEN r ELSE Emit([r EXCEPT !.ready = TRUE], [sig |-> "ready"])

\* storeListDone(), with the messages listed.
StoreListDone(r, ok, ids) ==
    LET listed == [r EXCEPT !.pending = @ \o ids]
        joined == JoinMessages(IF ok THEN SetReady(listed) ELSE listed)
        done   == [joined EXCEPT !.haveCached = ok, !.fetching = FALSE]
    IN IF done.needRefetch
       THEN FetchMessages([done EXCEPT !.needRefetch = FALSE])
       ELSE Answer(done)

\* cpmsDone()
CpmsDone(r, used) == [r EXCEPT !.used = used, !.total = Slots]

\* nmiStatusReceived(); QRetryAtChat repeats its command until it succeeds.
NmiStatusReceived(r) ==
    Queue([r EXCEPT !.initializing = FALSE], <<Command("notify")>>)

\* The slot of the command at the head of the AT queue.
CommandDone(r, line) ==
    LET cmd == Head(r.at).cmd
        s   == [r EXCEPT !.at = Tail(@)]
    IN CASE cmd = "list"    -> StoreListDone(s, line.ok, line.ids)
         [] cmd = "usage"   -> CpmsDone(s, line.used)
         [] cmd = "options" -> NmiStatusReceived(s)
         [] OTHER           -> s

----------------------------------------------------------------------------
\* The modem has been started and resetModem() has run.
ReaderInit ==
    /\ reader = [pending |-> <<>>, pendingPosn |-> 0, haveCached |-> FALSE,
                 fetching |-> FALSE, pendingCheck |-> FALSE,
                 pendingFirstMessage |-> FALSE, needRefetch |-> FALSE,
                 initializing |-> TRUE, pseudoInbox |-> <<>>, used |-> 0,
                 total |-> 0, at |-> <<>>, out |-> <<>>, dispatched |-> <<>>,
                 ready |-> FALSE, overtaken |-> FALSE]
    /\ modem = [sim |-> [p \in Places |-> 0], notifies |-> Announces,
                answer |-> <<>>]
    /\ rx = <<>>
    /\ arrived = 0
    /\ failures = MaxFailures

\* smsReady(), the answer to the "needsms" that resetModem() has posted.
SmsReady ==
    /\ reader.initializing
    /\ reader' = Check(Queue([reader EXCEPT !.initializing = FALSE],
                             <<Command("options")>>), TRUE)
    /\ UNCHANGED <<modem, rx, arrived, failures>>

\* A line from the modem: an answer, +CMTI:, or +CMT: with its message.
ReadLine ==
    /\ rx # <<>>
    /\ LET line == Head(rx) IN
       reader' =
         CASE line.what = "answer" -> CommandDone(reader, line)
           [] line.what = "note"   -> NewMessageArrived(reader)
           [] line.what = "direct" -> NewMessageArrived([reader EXCEPT
                 !.pseudoInbox = Append(@, [place |-> 0, msg |-> line.msg])])
    /\ rx' = Tail(rx)
    /\ UNCHANGED <<modem, arrived, failures>>

----------------------------------------------------------------------------
(* The modem: it executes the command at the head of the AT queue, and the  *)
(* answer may reach the reader after a message that arrives meanwhile.      *)

Occupied == {p \in Places : modem.sim[p] # 0}

\* AT+CMGL lists the store in the order of its places.
Listed ==
    Only[StoredIds][[p \in Places |-> [place |-> p, msg |-> modem.sim[p]]]]

Outstanding ==
    modem.answer # <<>> \/ \E i \in DOMAIN rx : rx[i].what = "answer"

ModemExecutes ==
    /\ reader.at # <<>> /\ ~Outstanding
    /\ LET c == Head(reader.at) IN
       \E ok \in {TRUE} \cup (IF c.cmd = "list" /\ failures > 0 THEN {FALSE} ELSE {}) :
          /\ modem' = [modem EXCEPT
                !.sim = IF c.cmd = "delete" THEN [@ EXCEPT ![c.place] = 0] ELSE @,
                !.notifies = @ \/ c.cmd = "notify",
                !.answer = <<[what |-> "answer", ok |-> ok,
                              ids |-> IF c.cmd = "list" /\ ok THEN Listed ELSE <<>>,
                              used |-> Cardinality(Occupied)]>>]
          /\ failures' = IF ok THEN failures ELSE failures - 1
    /\ UNCHANGED <<reader, rx, arrived>>

ModemAnswers ==
    /\ modem.answer # <<>>
    /\ rx' = rx \o modem.answer
    /\ modem' = [modem EXCEPT !.answer = <<>>]
    /\ UNCHANGED <<reader, arrived, failures>>

\* A message from the network; one that does not fit comes later.
MessageArrives ==
    /\ arrived < MaxMessages
    /\ arrived' = arrived + 1
    /\ \/ /\ arrived' \in Direct
          /\ rx' = Append(rx, [what |-> "direct", msg |-> arrived'])
          /\ UNCHANGED modem
       \/ /\ arrived' \notin Direct
          /\ \E p \in Places \ Occupied :
                modem' = [modem EXCEPT !.sim[p] = arrived']
          /\ rx' = IF modem.notifies THEN Append(rx, [what |-> "note"]) ELSE rx
    /\ UNCHANGED <<reader, failures>>

ReaderNext ==
    \/ SmsReady \/ ReadLine
    \/ ModemExecutes \/ ModemAnswers \/ MessageArrives

----------------------------------------------------------------------------
(* Correctness.                                                             *)

Readers == [pending : Seq(Ids), pendingPosn : Nat, haveCached : BOOLEAN,
            fetching : BOOLEAN, pendingCheck : BOOLEAN,
            pendingFirstMessage : BOOLEAN, needRefetch : BOOLEAN,
            initializing : BOOLEAN, pseudoInbox : Seq(Ids), used : 0..Slots,
            total : {0, Slots}, at : Seq(Commands), out : Seq(Signals),
            dispatched : Seq(Msgs), ready : BOOLEAN, overtaken : BOOLEAN]
Modems == [sim : [Places -> 0..MaxMessages], notifies : BOOLEAN, answer : Seq(Lines)]

ReaderType ==
    /\ reader \in Readers /\ modem \in Modems
    /\ rx \in Seq(Lines)
    /\ arrived \in 0..MaxMessages
    /\ failures \in 0..MaxFailures

Queued(cmd) == {i \in DOMAIN reader.at : reader.at[i].cmd = cmd}

\* The store is listed once at a time, and `fetching` says whether it is:
\* a list nobody waits for, or a wait without a list, would leave the
\* client without an answer.  Someone waits for every list.
OneListOut ==
    /\ reader.fetching <=> Queued("list") # {}
    /\ \A i, j \in Queued("list") : i = j
    /\ reader.fetching <=> reader.pendingCheck \/ reader.pendingFirstMessage
    /\ reader.needRefetch => reader.fetching

\* The cache knows every message on the SIM unless a notification that will
\* drop it is on its way, or the message is about to be deleted.
Deleting == {reader.at[i].place : i \in Queued("delete")}
CacheComplete ==
    /\ reader.haveCached /\ ~reader.fetching
    /\ \A i \in DOMAIN rx : rx[i].what = "answer"
    => /\ \A p \in Occupied \ Deleting :
             [place |-> p, msg |-> modem.sim[p]] \in ToSet(reader.pending)
       /\ ToSet(reader.pseudoInbox) \subseteq ToSet(reader.pending)

\* A datagram is handed to its service once, however often the store is
\* listed before it is deleted.
DatagramsOnce ==
    \A i, j \in DOMAIN reader.dispatched :
        reader.dispatched[i] = reader.dispatched[j] => i = j
=============================================================================
