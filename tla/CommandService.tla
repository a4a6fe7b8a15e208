--------------------------- MODULE CommandService ---------------------------
(***************************************************************************)
(* What QAtChat promises to its clients, without its timers, its line and  *)
(* its modem, and QModemSMSSender to its: commands (or messages) are       *)
(* numbered as they are queued, at most one is out at a time, they go out  *)
(* and end in that order, and none ends twice.                             *)
(***************************************************************************)
EXTENDS Naturals

CONSTANT MaxCommands    \* bound: commands in a behaviour

Ids == 1..MaxCommands

VARIABLE phase          \* how far each command has come

Phases == {"new", "queued", "sent", "ended"}

\* The phases in the order a command goes through them; it may skip some.
Before == {<<"new", "queued">>, <<"new", "sent">>, <<"new", "ended">>,
           <<"queued", "sent">>, <<"queued", "ended">>, <<"sent", "ended">>}

\* Commands go out and end in the order they were queued, one at a time.
InTurn(p) ==
    \A i, j \in Ids : i < j =>
        /\ <<p[i], p[j]>> \notin Before
        /\ ~(p[i] = "sent" /\ p[j] = "sent")

Init == phase = [i \in Ids |-> "new"]

\* One call or event may move several commands: the end of one lets the
\* next go out, and a slot may queue another.
Advance ==
    /\ phase' \in [Ids -> Phases]
    /\ \A i \in Ids : phase'[i] = phase[i] \/ <<phase[i], phase'[i]>> \in Before
    /\ InTurn(phase')

Spec == Init /\ [][Advance]_phase
=============================================================================
