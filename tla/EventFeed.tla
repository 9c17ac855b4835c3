----------------------------- MODULE EventFeed -----------------------------
(***************************************************************************)
(* What the event log and its stream promise the page that watches a run:  *)
(* the log only grows, one event at a time, under consecutive numbers; the *)
(* page shows events that are in the log, in the order of their numbers,   *)
(* each at most once, and nothing after a terminal event.  It promises no  *)
(* more than that: an event may never be shown.                            *)
(***************************************************************************)
EXTENDS Naturals, Sequences

CONSTANTS EventTypes, TerminalTypes

VARIABLES log,    \* the types of the events, by sequence number
          shown,  \* the numbers of the events shown
          seen    \* the last of them, 0 before the first

feedVars == <<log, shown, seen>>

Init == log = <<"run.created">> /\ shown = {} /\ seen = 0

Record(t) ==
  /\ log' = Append(log, t)
  /\ UNCHANGED <<shown, seen>>

Ended == seen > 0 /\ log[seen] \in TerminalTypes

Show(n) ==
  /\ ~Ended
  /\ n \in seen + 1 .. Len(log)
  /\ shown' = shown \cup {n}
  /\ seen' = n
  /\ UNCHANGED log

Next == \/ \E t \in EventTypes : Record(t)
        \/ \E n \in 1..Len(log) : Show(n)

Spec == Init /\ [][Next]_feedVars
=============================================================================
