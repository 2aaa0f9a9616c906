---------------------------- MODULE SessionGraph ----------------------------
(***************************************************************************)
(* The production session engine: the LangGraph state machine compiled by  *)
(* _compile_session_graph (orchestration/graph.py) and driven by           *)
(* _run_full_session_graph (orchestration/session.py).  One action is one  *)
(* superstep: a node and, for EVALUATE, the conditional edge taken after   *)
(* it.  `node' is the node the graph runs next.                            *)
(***************************************************************************)
EXTENDS SessionNodes

VARIABLES
  node,
  supersteps      \* nodes run, counted against the recursion limit

vars == <<node, supersteps, workflow, config, stores, works, result>>

Nodes == {"PLAN", "DISPATCH", "EXECUTE", "EVALUATE", "REVISE", "ESCALATE",
          "END", "FAILED", "RETURNED"}

\* Mutated: no lower bound.
RecursionLimitOfSteps == max_steps * 6

RecursionLimit == IF max_steps * 6 > 24 THEN max_steps * 6 ELSE 24

Init ==
  /\ SessionInit
  /\ node = "PLAN"
  /\ supersteps = 0

-----------------------------------------------------------------------------
\* The recursion limit is not a guard: that it never stops a run is a theorem.
Superstep(from, to) ==
  /\ node = from
  /\ node' = to
  /\ supersteps' = supersteps + 1

Plan ==
  /\ Superstep("PLAN", "DISPATCH")
  /\ PlanWork
  /\ current_state' = "PLAN"
  /\ step_count' = step_count + 1
  /\ UNCHANGED <<active_subtask_id, retry_count, evaluation, config, dispatch,
                 reflections, works, result>>

Dispatch ==
  /\ Superstep("DISPATCH", "EXECUTE")
  /\ DispatchWork
  /\ current_state' = "DISPATCH"
  /\ UNCHANGED <<retry_count, evaluation, config, recent, reflections, works, result>>

Execute ==
  /\ Superstep("EXECUTE", "EVALUATE")
  /\ ExecuteWork
  /\ current_state' = "EXECUTE"
  /\ UNCHANGED <<active_subtask_id, step_count, retry_count, config, subtasks,
                 dispatch, reflections, result>>

\* Mutated: the step budget is tested with > instead of >=.
RouterOneMoreStep(steps, verdict) ==
  IF steps > max_steps THEN IF verdict = "pass" THEN "END" ELSE "ESCALATE"
  ELSE IF verdict = "pass" THEN "END" ELSE UncontrolledNextState(verdict)

Router(steps, verdict) ==
  LET target ==
        IF steps >= max_steps THEN IF verdict = "pass" THEN "DONE" ELSE "ESCALATE"
        ELSE IF settings.control THEN NextState(verdict)
        ELSE UncontrolledNextState(verdict)
  IN  IF target = "DONE" THEN "END" ELSE target

Evaluate ==
  /\ Superstep("EVALUATE", Router(step_count + 1, Verdict))
  /\ evaluation' = Verdict
  /\ step_count' = step_count + 1
  /\ current_state' = "EVALUATE"
  /\ UNCHANGED <<active_subtask_id, retry_count, config, stores, works, result>>

Revise ==
  /\ Superstep("REVISE", "EXECUTE")
  /\ retry_count' = retry_count + 1
  /\ ReflectionWork
  /\ current_state' = "REVISE"
  /\ UNCHANGED <<active_subtask_id, step_count, evaluation, config, subtasks,
                 dispatch, works, result>>

Escalate ==
  /\ Superstep("ESCALATE", "END")
  /\ current_state' = "ESCALATE"
  /\ UNCHANGED <<active_subtask_id, step_count, retry_count, evaluation, config,
                 stores, works, result>>

\* An exception in a node leaves the graph: of the state it was given nothing is
\* changed, of the stores what the node had written.
NodeRaises ==
  /\ \E n \in {"PLAN", "DISPATCH", "EXECUTE", "EVALUATE", "REVISE"} :
       Superstep(n, "FAILED") /\ Interrupted(n)
  /\ UNCHANGED <<workflow, config, result>>

\* Mutated: an exception in a node is not caught.
Ended == node = "END"

RunIsOver == node \in {"END", "FAILED"}

\* How _run_full_session_graph names the end of the run.
Report ==
  /\ RunIsOver
  /\ node' = "RETURNED"
  /\ \/ node = "FAILED" /\ outcome' = "unresolvable" /\ UNCHANGED final_state
     \/ node = "END" /\ evaluation = "pass" /\ outcome' = "solved" /\ final_state' = "DONE"
     \/ /\ node = "END" /\ evaluation /= "pass"
        /\ outcome' = IF current_state = "ESCALATE" THEN "escalate"
                      ELSE IF step_count >= max_steps THEN "max_steps_reached"
                      ELSE "unresolvable"
        /\ final_state' = current_state
  /\ UNCHANGED <<supersteps, workflow, config, stores, works>>

Returned == node = "RETURNED" /\ UNCHANGED vars

Next ==
  \/ Plan \/ Dispatch \/ Execute \/ Evaluate \/ Revise \/ Escalate
  \/ NodeRaises \/ Report \/ Returned

Spec == Init /\ [][Next]_vars

\* A session runs in one thread; every node returns or raises.
FairSpec == Spec /\ WF_vars(Next)

-----------------------------------------------------------------------------
TypeOK ==
  /\ SessionTypeOK
  /\ node \in Nodes
  /\ supersteps \in Nat

(* The router tests max_steps only after EVALUATE, so planning, dispatching  *)
(* and one evaluation are spent whatever the budget; nothing else exceeds    *)
(* it, and no revision starts beyond max_retries.                            *)
BudgetsRespected ==
  /\ step_count <= max_steps \/ step_count <= 3
  /\ retry_count <= max_retries

(* The limit handed to LangGraph, max(6 * max_steps, 24), is never the       *)
(* reason a session stops, for any budgets.                                  *)
RecursionLimitNeverHit == supersteps <= RecursionLimit

(* The outcome speaks of the workspace as it is left: solved only if it      *)
(* passes the verifier, escalate only if it does not.  The executor's own    *)
(* verdict on its tool call, also kept in last_evaluation, never decides.    *)
OutcomeMatchesWorkspace ==
  node = "RETURNED" =>
    /\ outcome = "solved" => works
    /\ outcome = "escalate" => ~works

(* Whenever the executor runs, it runs the active subtask: the dispatch it   *)
(* loads names it and the registry has it in progress.  A promoted session   *)
(* is the exception: OpenSubtaskAfterPlanning.                               *)
ExecutorHasActiveSubtask ==
  node = "EXECUTE" /\ ~promoted =>
    /\ active_subtask_id /= None
    /\ dispatch = active_subtask_id
    /\ subtasks[dispatch] = "in_progress"

(* With error control on, the gate keeps any decision from filling the loop  *)
(* window beyond the threshold, however the model repeats itself and however *)
(* reflections push entries out of the window: where a promoted session      *)
(* exceeds it, the turns before had, and it never repeats itself further.    *)
RepetitionBounded ==
  settings.error_control =>
    \A d \in Digests : \/ Occurrences(recent, d) <= LoopThreshold
                       \/ Occurrences(recent, d) <= Occurrences(inherited, d)

(* With control on, the router's loop test keeps the executor from starting  *)
(* a cycle that the gate's loop test dooms: no decision has reached the      *)
(* threshold when EXECUTE runs (repeated reflections still may).  Only the   *)
(* first execution of a promoted session, which no router has preceded, may  *)
(* be doomed, by what its turns have recorded.                               *)
NoDoomedCycle ==
  settings.control /\ node = "EXECUTE" /\ (promoted => retry_count > 0) =>
    \A d \in Digests : Occurrences(recent, d) < LoopThreshold

(* Every session returns an outcome.                                         *)
Termination == <>(node = "RETURNED")

(* The graph implements the session every engine promises.  FAILED, ESCALATE *)
(* and END are the ways to stop; a verdict counts until work overtakes it.   *)
FlowPhase ==
  IF node \in {"ESCALATE", "END", "FAILED"} THEN "STOP" ELSE node

FlowVerdict ==
  IF node \in {"REVISE", "ESCALATE", "END"}
       \/ (node = "RETURNED" /\ outcome /= "unresolvable")
  THEN evaluation ELSE "none"

FlowSolved ==
  IF node /= "RETURNED" THEN "unknown" ELSE IF outcome = "solved" THEN "yes" ELSE "no"

Flow == INSTANCE SessionFlow WITH
  phase <- FlowPhase, verdict <- FlowVerdict, revisions <- retry_count,
  allowance <- max_retries, solved <- FlowSolved

ImplementsFlow == Flow!Spec

(* "Ensure at least one open executor subtask exists after planning"         *)
(* (_ensure_work_subtasks).                                                  *)
OpenSubtaskAfterPlanning ==
  node = "DISPATCH" => \E t \in Tasks : subtasks[t] = "open"
=============================================================================
