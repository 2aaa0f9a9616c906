---------------------------- MODULE SessionLoop ----------------------------
(***************************************************************************)
(* The session engine kept for parity tests: the imperative loop of        *)
(* _run_full_session_loop (orchestration/session.py).  It takes the same   *)
(* steps as the graph, but tests max_steps before every one of them, and   *)
(* executes, judges and decides in a single pass of the loop.              *)
(***************************************************************************)
EXTENDS SessionNodes

VARIABLES
  pc,           \* "top" of the loop, within a pass, or how it has been left
  planned,
  test_passed

loop_result == <<test_passed, outcome, final_state>>
loop_vars == <<pc, planned, workflow, config, stores, works, loop_result>>

ControlPoints == {"top", "evaluate", "revise", "left", "raised", "returned"}

\* Nothing is ever promoted to this engine.
LoopInit ==
  /\ SessionInit
  /\ ~promoted
  /\ pc = "top"
  /\ planned = FALSE
  /\ test_passed = FALSE

-----------------------------------------------------------------------------
\* Mutated: the budget is tested inclusively.
BudgetLeftInclusive == step_count <= max_steps

BudgetLeft == step_count < max_steps

AtTop == pc = "top" /\ BudgetLeft

LoopPlan ==
  /\ AtTop
  /\ ~planned
  /\ PlanWork
  /\ planned' = TRUE
  /\ step_count' = step_count + 1
  /\ current_state' = "PLAN"
  /\ UNCHANGED <<pc, active_subtask_id, retry_count, evaluation, config, dispatch,
                 reflections, works, loop_result>>

\* With no open subtask the session is given up.
LoopDispatch ==
  /\ AtTop
  /\ planned /\ active_subtask_id = None
  /\ DispatchWork
  /\ current_state' = "DISPATCH"
  /\ IF active_subtask_id' = None
     THEN pc' = "left" /\ outcome' = "unresolvable" /\ final_state' = "DISPATCH"
     ELSE UNCHANGED <<pc, outcome, final_state>>
  /\ UNCHANGED <<planned, retry_count, evaluation, config, recent, reflections, works,
                 test_passed>>

LoopExecute ==
  /\ AtTop
  /\ planned /\ active_subtask_id /= None
  /\ ExecuteWork
  /\ pc' = "evaluate"
  /\ current_state' = "EXECUTE"
  /\ UNCHANGED <<planned, active_subtask_id, step_count, retry_count, config, subtasks,
                 dispatch, reflections, loop_result>>

\* A passed verdict ends the session before the workflow state is advanced.
EvaluatePass ==
  /\ pc = "evaluate"
  /\ Verdict = "pass"
  /\ evaluation' = "pass"
  /\ test_passed' = TRUE
  /\ pc' = "left"
  /\ outcome' = "solved"
  /\ final_state' = "DONE"
  /\ UNCHANGED <<planned, current_state, active_subtask_id, step_count, retry_count,
                 config, stores, works>>

EvaluateFail ==
  LET transition == IF settings.control THEN NextState("fail")
                    ELSE UncontrolledNextState("fail")
  IN  /\ pc = "evaluate"
      /\ Verdict = "fail"
      /\ evaluation' = "fail"
      /\ test_passed' = FALSE
      /\ current_state' = "EVALUATE"
      /\ step_count' = step_count + 1
      /\ IF transition = "ESCALATE"
         THEN pc' = "left" /\ outcome' = "escalate" /\ final_state' = "ESCALATE"
         ELSE pc' = "revise" /\ UNCHANGED <<outcome, final_state>>
      /\ UNCHANGED <<planned, active_subtask_id, retry_count, config, stores, works>>

LoopRevise ==
  /\ pc = "revise"
  /\ ReflectionWork
  /\ pc' = "top"
  /\ current_state' = "REVISE"
  /\ retry_count' = retry_count + 1
  /\ UNCHANGED <<planned, active_subtask_id, step_count, evaluation, config, subtasks,
                 dispatch, works, loop_result>>

OutOfBudget ==
  /\ pc = "top"
  /\ ~BudgetLeft
  /\ pc' = "left"
  /\ IF outcome = "max_steps_reached" /\ test_passed
     THEN outcome' = "solved" /\ final_state' = "DONE"
     ELSE UNCHANGED <<outcome, final_state>>
  /\ UNCHANGED <<planned, workflow, config, stores, works, test_passed>>

\* The step of the session that the loop takes next.
NextStep ==
  IF pc = "top" THEN IF ~planned THEN "PLAN"
                     ELSE IF active_subtask_id = None THEN "DISPATCH" ELSE "EXECUTE"
  ELSE IF pc = "evaluate" THEN "EVALUATE"
  ELSE IF pc = "revise" THEN "REVISE"
  ELSE IF pc = "returned" THEN "RETURNED"
  ELSE "STOP"

\* An exception of a node, the verifier or a store.  The loop's own state keeps
\* what the pass had set: a verdict, if the ledger raises, or a counted revision.
Raises ==
  /\ AtTop \/ pc \in {"evaluate", "revise"}
  /\ Interrupted(NextStep)
  /\ pc' = "raised"
  /\ outcome' = "unresolvable"
  /\ \/ /\ pc /= "revise"
        /\ UNCHANGED <<current_state, retry_count, evaluation, test_passed>>
     \/ /\ pc = "evaluate"
        /\ settings.control \/ Verdict = "pass"
        /\ evaluation' = Verdict
        /\ test_passed' = (Verdict = "pass")
        /\ current_state' = IF Verdict = "pass" THEN current_state ELSE "EVALUATE"
        /\ UNCHANGED retry_count
     \/ /\ pc = "revise"
        /\ current_state' = "REVISE"
        /\ retry_count' = retry_count + 1
        /\ UNCHANGED <<evaluation, test_passed>>
  /\ UNCHANGED <<planned, active_subtask_id, step_count, config, final_state>>

\* Mutated: the session does not return when a node raises.
LeftTheLoop == pc = "left"

Over == pc \in {"left", "raised"}

\* Whatever the end, final_state is overwritten with the workflow state.
LoopReport ==
  /\ Over
  /\ pc' = "returned"
  /\ final_state' = current_state
  /\ UNCHANGED <<planned, workflow, config, stores, works, test_passed, outcome>>

LoopReturned == pc = "returned" /\ UNCHANGED loop_vars

LoopNext ==
  \/ LoopPlan \/ LoopDispatch \/ LoopExecute \/ EvaluatePass \/ EvaluateFail \/ LoopRevise
  \/ OutOfBudget \/ Raises \/ LoopReport \/ LoopReturned

LoopSpec == LoopInit /\ [][LoopNext]_loop_vars

\* A session runs in one thread; every call of the loop returns or raises.
LoopFairSpec == LoopSpec /\ WF_loop_vars(LoopNext)

-----------------------------------------------------------------------------
LoopTypeOK ==
  /\ SessionTypeOK
  /\ pc \in ControlPoints
  /\ planned \in BOOLEAN
  /\ test_passed \in BOOLEAN

(* Unlike the graph the loop never takes a step beyond max_steps, so it may  *)
(* end without having executed anything; revisions stay within max_retries.  *)
StepBudgetIsStrict == step_count <= max_steps /\ retry_count <= max_retries

(* Solved is reported only of a workspace that passes the verifier, escalate *)
(* only of one that does not, and running out of steps never hides a pass:   *)
(* the last thing done to the workspace was judged to fail.                  *)
LoopOutcomeMatches ==
  pc = "returned" =>
    /\ outcome = "solved" => works
    /\ outcome = "escalate" => ~works
    /\ outcome = "max_steps_reached" /\ evaluation /= "none" => ~works

(* With control on, no execution starts that the gate's loop test dooms,     *)
(* although the loop tests for loops only after a failed verdict.            *)
NoDoomedPass ==
  settings.control /\ pc = "top" /\ active_subtask_id /= None =>
    \A d \in Digests : Occurrences(recent, d) < LoopThreshold

(* Every session returns an outcome.                                         *)
LoopTermination == <>(pc = "returned")

(* The loop implements the session every engine promises.                    *)
LoopFlowVerdict ==
  IF pc = "revise" THEN evaluation
  ELSE IF pc \in {"left", "returned"} /\ outcome = "solved" THEN "pass"
  ELSE IF pc \in {"left", "returned"} /\ outcome = "escalate" THEN "fail"
  ELSE "none"

LoopFlowSolved ==
  IF pc /= "returned" THEN "unknown" ELSE IF outcome = "solved" THEN "yes" ELSE "no"

LoopFlow == INSTANCE SessionFlow WITH
  phase <- NextStep, verdict <- LoopFlowVerdict, revisions <- retry_count,
  allowance <- max_retries, solved <- LoopFlowSolved

LoopImplementsFlow == LoopFlow!Spec
=============================================================================
