--------------------------- MODULE CycleContract ---------------------------
(***************************************************************************)
(* What the agents rely on when they run a decision cycle: it acts at most *)
(* once, it appends at most one decision, which is the last thing it does, *)
(* a decision appended as accepted has been acted on, and while the part   *)
(* of the log it looks at loops nothing is acted on or appended.           *)
(* It may end without a decision, or be cut short, at any point.           *)
(***************************************************************************)
EXTENDS DecisionLog

CONSTANT Digests

VARIABLES
  log,    \* the decisions of the session, a digest and a verdict each
  floor,  \* the cycle looks at the log from here on
  gated,  \* whether repetition is judged at all
  busy,   \* a cycle is running
  acted   \* it has acted on a decision

vars == <<log, floor, gated, busy, acted>>

Looping ==
  LET digests == [i \in 1..Len(log) |-> log[i].digest]
  IN  gated /\ LoopDetected(SubSeq(digests, floor + 1, Len(log)))

Appended(d, verdict) == log' = Append(log, [digest |-> d, verdict |-> verdict])

Init ==
  /\ log = << >>
  /\ floor = 0
  /\ gated \in BOOLEAN
  /\ busy = FALSE
  /\ acted = FALSE

\* With nothing to look at, a cycle may end where it starts.
Start ==
  /\ ~busy
  /\ busy' \in BOOLEAN
  /\ acted' = FALSE
  /\ floor' \in 0..Len(log)
  /\ UNCHANGED <<log, gated>>

Act ==
  /\ busy /\ ~acted /\ ~Looping
  /\ acted' = TRUE
  /\ busy' \in BOOLEAN
  /\ UNCHANGED <<log, floor, gated>>

Accept ==
  /\ busy /\ acted
  /\ \E d \in Digests : Appended(d, "pass")
  /\ busy' = FALSE
  /\ UNCHANGED <<floor, gated, acted>>

Reject ==
  /\ busy /\ ~acted /\ ~Looping
  /\ \E d \in Digests : Appended(d, "exhausted")
  /\ busy' = FALSE
  /\ UNCHANGED <<floor, gated, acted>>

End ==
  /\ busy
  /\ busy' = FALSE
  /\ UNCHANGED <<log, floor, gated, acted>>

Next == Start \/ Act \/ Accept \/ Reject \/ End

Spec == Init /\ [][Next]_vars
=============================================================================
