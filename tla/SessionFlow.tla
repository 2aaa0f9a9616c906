---------------------------- MODULE SessionFlow ----------------------------
(***************************************************************************)
(* What a session promises, whichever engine runs it: it plans, dispatches *)
(* and then executes, judges and revises; every verdict is taken on a      *)
(* fresh execution; a failed verdict is answered by at most `allowance'    *)
(* revisions, a passed one by none; and the session is reported solved     *)
(* exactly when the last thing that happened in it was a passed verdict.   *)
(* It may give up at any point: an exception, a budget, a detected loop.   *)
(***************************************************************************)
EXTENDS Naturals

VARIABLES
  phase,      \* what happens next
  verdict,    \* the last verdict, "none" when overtaken by later work
  revisions,  \* revisions made
  allowance,  \* revisions allowed
  solved      \* the reported result, "unknown" until the session returns

vars == <<phase, verdict, revisions, allowance, solved>>

Init ==
  /\ phase = "PLAN"
  /\ verdict = "none"
  /\ revisions = 0
  /\ allowance \in Nat
  /\ solved = "unknown"

Step(from, to) == phase = from /\ phase' = to

Plan ==
  /\ Step("PLAN", "DISPATCH")
  /\ UNCHANGED <<verdict, revisions, allowance, solved>>

Dispatch ==
  /\ Step("DISPATCH", "EXECUTE")
  /\ UNCHANGED <<verdict, revisions, allowance, solved>>

Execute ==
  /\ Step("EXECUTE", "EVALUATE")
  /\ UNCHANGED <<verdict, revisions, allowance, solved>>

Pass ==
  /\ Step("EVALUATE", "STOP")
  /\ verdict' = "pass"
  /\ UNCHANGED <<revisions, allowance, solved>>

Fail ==
  /\ \/ Step("EVALUATE", "STOP")
     \/ (Step("EVALUATE", "REVISE") /\ revisions < allowance)
  /\ verdict' = "fail"
  /\ UNCHANGED <<revisions, allowance, solved>>

Revise ==
  /\ Step("REVISE", "EXECUTE")
  /\ verdict' = "none"
  /\ revisions' = revisions + 1
  /\ UNCHANGED <<allowance, solved>>

\* A revision that is given up may or may not count.
GiveUp ==
  /\ phase \in {"PLAN", "DISPATCH", "EXECUTE", "EVALUATE", "REVISE"}
  /\ phase' = "STOP"
  /\ verdict' = "none"
  /\ \/ UNCHANGED revisions
     \/ phase = "REVISE" /\ revisions' = revisions + 1
  /\ UNCHANGED <<allowance, solved>>

Return ==
  /\ Step("STOP", "RETURNED")
  /\ solved' = IF verdict = "pass" THEN "yes" ELSE "no"
  /\ UNCHANGED <<verdict, revisions, allowance>>

Next == Plan \/ Dispatch \/ Execute \/ Pass \/ Fail \/ Revise \/ GiveUp \/ Return

Spec == Init /\ [][Next]_vars
=============================================================================
