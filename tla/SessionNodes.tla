---------------------------- MODULE SessionNodes ----------------------------
(***************************************************************************)
(* What both session engines share: the workflow state, the stores it      *)
(* reads and writes, and the work of each node (orchestration/planner.py,  *)
(* executor.py, the helpers of session.py and control/workflow.py).  The   *)
(* LangGraph engine (SessionGraph) and the imperative loop (SessionLoop)   *)
(* differ in how they sequence these steps and when they test budgets.     *)
(*                                                                         *)
(* The small language model is the environment: which subtasks it plans,   *)
(* whether a decision is accepted and which one, and whether an edit makes *)
(* the workspace pass the verifier, are free.                              *)
(***************************************************************************)
EXTENDS Naturals, DecisionLog

CONSTANTS
  Tasks,          \* ids of non-root subtasks
  Main,           \* "st-main", the id _ensure_work_subtasks registers
  None,           \* no subtask, no dispatch
  Digests,        \* digests of planner and executor decisions
  Guidance,       \* digests of reflection entries
  StepBudgets,    \* values of max_steps to start sessions with
  RetryBudgets,   \* values of max_retries to start sessions with
  MaxReflections, \* max_reflections_per_subtask of memory.yaml
  Origins         \* logs to start sessions with, as far as LoopWindow looks back

ASSUME BudgetsAreNat == StepBudgets \subseteq Nat /\ RetryBudgets \subseteq Nat
ASSUME MainIsATask == Main \in Tasks /\ None \notin Tasks
ASSUME MaxReflectionsIsNat == MaxReflections \in Nat
ASSUME OriginsAreLogs == \A log \in Origins : log \in Seq(Digests) /\ Len(log) <= LoopWindow
ASSUME GuidanceIsNoDigest == Digests \intersect Guidance = {}

VARIABLES
  current_state,  \* WorkflowState fields, named as in control/workflow.py
  active_subtask_id,
  step_count,
  retry_count,
  max_steps,
  max_retries,
  evaluation,     \* last_evaluation: "none", "pass" or "fail"
  settings,       \* AblationSettings, reflection_enabled, planner_enabled
  inherited,      \* the log, as recent, of the turns before a needs_plan handoff
  subtasks,       \* SubTaskRegistry: status of each id, "absent" if no row
  dispatch,       \* the task of the saved DispatchMessage
  recent,         \* digests of the last LoopWindow decisions
  reflections,    \* reflection entries in the log for the active subtask
  works,          \* TRUE iff the verifier passes on the workspace
  outcome,        \* SessionOutcome.outcome and .final_state
  final_state

config == <<max_steps, max_retries, settings, inherited>>
workflow == <<current_state, active_subtask_id, step_count, retry_count, evaluation>>
stores == <<subtasks, dispatch, recent, reflections>>
result == <<outcome, final_state>>

Statuses == {"absent", "open", "in_progress", "done", "abandoned"}
WorkflowStates == {"PLAN", "DISPATCH", "EXECUTE", "EVALUATE", "REVISE", "ESCALATE"}
Verdicts == {"none", "pass", "fail"}
Outcomes == {"solved", "max_steps_reached", "unresolvable", "escalate"}

Settings == [control : BOOLEAN, error_control : BOOLEAN,
             reflection_enabled : BOOLEAN, planner_enabled : BOOLEAN]

\* A session that run_turn goes on with after a needs_plan handoff.
promoted == inherited /= << >>

(* A fresh session has no work subtask, no dispatch and an empty log.  A     *)
(* promoted one is handed what run_turn leaves: st-main abandoned and still  *)
(* dispatched, the planner enabled, and the decisions of every turn so far,  *)
(* all of which its cycles look back on (decision_floor is 0).  Each turn    *)
(* judged only its own decisions, so they may repeat one another freely.     *)
SessionInit ==
  /\ current_state = "PLAN"
  /\ active_subtask_id = None
  /\ step_count = 0
  /\ retry_count = 0
  /\ max_steps \in StepBudgets
  /\ max_retries \in RetryBudgets
  /\ evaluation = "none"
  /\ settings \in Settings
  /\ inherited \in Origins
  /\ promoted => settings.planner_enabled
  /\ subtasks = [t \in Tasks |-> IF promoted /\ t = Main THEN "abandoned" ELSE "absent"]
  /\ dispatch = IF promoted THEN Main ELSE None
  /\ recent = inherited
  /\ reflections = 0
  /\ works \in BOOLEAN
  /\ outcome = "max_steps_reached"
  /\ final_state = "PLAN"

SessionTypeOK ==
  /\ current_state \in WorkflowStates
  /\ active_subtask_id \in Tasks \union {None}
  /\ step_count \in Nat
  /\ retry_count \in Nat
  /\ max_steps \in Nat
  /\ max_retries \in Nat
  /\ evaluation \in Verdicts
  /\ settings \in Settings
  /\ inherited \in Origins
  /\ subtasks \in [Tasks -> Statuses]
  /\ dispatch \in Tasks \union {None}
  /\ recent \in Seq(Digests \union Guidance)
  /\ Len(recent) <= LoopWindow
  /\ reflections \in 0..MaxReflections
  /\ works \in BOOLEAN
  /\ outcome \in Outcomes
  /\ final_state \in WorkflowStates \union {"DONE"}

-----------------------------------------------------------------------------
\* Mutated: the gate is not consulted.
UngatedCycleRecords(d) == recent' = AppendLastN(recent, d, LoopWindow)

(* The decision cycle, seen from the nodes that call it: at most one         *)
(* decision is recorded, and with error control on none is while the log     *)
(* already loops, because the quality gate judges the log, not the proposal. *)
CycleRecords(d) ==
  /\ settings.error_control => ~LoopDetected(recent)
  /\ recent' = AppendLastN(recent, d, LoopWindow)

\* SubTaskRegistry.register is an upsert that stores status "open".
Registered(reg, ids) == [t \in Tasks |-> IF t \in ids THEN "open" ELSE reg[t]]

\* Mutated: no fallback subtask.
EnsureNothing(reg) == reg

EnsureWorkSubtasks(reg) ==
  IF \E t \in Tasks : reg[t] /= "absent" THEN reg ELSE Registered(reg, {Main})

\* The planner's cycle registers the subtasks of an accepted decision, of any
\* kind; without one, or with the planner disabled, only the fallback applies.
PlanWork ==
  \/ /\ settings.planner_enabled
     /\ \E d \in Digests : CycleRecords(d)
     /\ \E ids \in SUBSET Tasks :
          subtasks' = EnsureWorkSubtasks(Registered(subtasks, ids))
  \/ /\ subtasks' = EnsureWorkSubtasks(subtasks)
     /\ UNCHANGED recent

\* The first open row in the backend's order; Redis scans in no order.
DispatchWork ==
  LET open == {t \in Tasks : subtasks[t] = "open"}
  IN  \/ \E t \in open :
           /\ dispatch' = t
           /\ subtasks' = [subtasks EXCEPT ![t] = "in_progress"]
           /\ active_subtask_id' = t
           /\ step_count' = step_count + 1
      \/ /\ open = {}
         /\ active_subtask_id' = None
         /\ UNCHANGED <<dispatch, subtasks, step_count>>

\* One executor cycle on the saved dispatch.  The node leaves its own verdict,
\* drawn from the last tool or edit result, in last_evaluation.
ExecuteWork ==
  IF dispatch = None
  THEN UNCHANGED <<recent, works, evaluation>>
  ELSE \/ /\ \E d \in Digests : CycleRecords(d)
          /\ works' \in BOOLEAN
          /\ evaluation' \in {"pass", "fail"}
       \/ \* the cycle ended without an accepted decision
          /\ evaluation' = "fail"
          /\ UNCHANGED <<recent, works>>

\* Mutated: the executor's own verdict is taken for the verifier's.
VerdictOfExecutor == evaluation

Verdict == IF works THEN "pass" ELSE "fail"

\* Mutated: without the loop test; one revision too many.
NextStateIgnoringLoops(verdict) ==
  IF retry_count >= max_retries THEN "ESCALATE"
  ELSE IF verdict = "pass" THEN "DONE" ELSE "REVISE"

NextStateOneMore(verdict) ==
  IF retry_count > max_retries \/ LoopDetected(recent) THEN "ESCALATE"
  ELSE IF verdict = "pass" THEN "DONE" ELSE "REVISE"

\* next_state in EVALUATE, for the verdict just taken.
NextState(verdict) ==
  IF retry_count >= max_retries \/ LoopDetected(recent) THEN "ESCALATE"
  ELSE IF verdict = "pass" THEN "DONE" ELSE "REVISE"

\* The transition both engines take with the control component switched off.
UncontrolledNextState(verdict) ==
  IF verdict = "pass" THEN "DONE"
  ELSE IF retry_count >= max_retries THEN "ESCALATE" ELSE "REVISE"

\* Mutated: the cap on reflections is forgotten.
UncappedReflection ==
  IF settings.error_control /\ settings.reflection_enabled
  THEN /\ \E g \in Guidance : recent' = AppendLastN(recent, g, LoopWindow)
       /\ reflections' = reflections + 1
  ELSE UNCHANGED <<recent, reflections>>

(* _run_revise_reflection: one reflection entry, unless it is switched off   *)
(* or the subtask's cap is reached.  Reflections go to the log directly,     *)
(* past the quality gate.                                                    *)
ReflectionWork ==
  IF settings.error_control /\ settings.reflection_enabled
       /\ reflections < MaxReflections
  THEN /\ \E g \in Guidance : recent' = AppendLastN(recent, g, LoopWindow)
       /\ reflections' = reflections + 1
  ELSE UNCHANGED <<recent, reflections>>

-----------------------------------------------------------------------------
(* What a step that raised has left behind: it keeps what it had written.    *)
(* Subtasks are registered one by one and before the decision is recorded,   *)
(* the dispatch is saved before its subtask is set in progress, the executor *)
(* acts before it records, and an entry is in the log before the retrieval   *)
(* index and the listener hear of it.                                        *)
InterruptedPlan ==
  /\ \E ids \in SUBSET Tasks :
       /\ ids \subseteq {Main} \/ settings.planner_enabled
       /\ subtasks' = Registered(subtasks, ids)
  /\ \/ UNCHANGED recent
     \/ settings.planner_enabled /\ \E d \in Digests : CycleRecords(d)
  /\ UNCHANGED <<dispatch, reflections, works>>

InterruptedDispatch ==
  /\ \/ UNCHANGED <<dispatch, subtasks>>
     \/ \E t \in Tasks :
          /\ subtasks[t] = "open"
          /\ dispatch' = t
          /\ subtasks' \in {subtasks, [subtasks EXCEPT ![t] = "in_progress"]}
  /\ UNCHANGED <<recent, reflections, works>>

InterruptedExecution ==
  /\ \/ UNCHANGED <<recent, works>>
     \/ /\ dispatch /= None
        /\ works' \in BOOLEAN
        /\ UNCHANGED recent \/ \E d \in Digests : CycleRecords(d)
  /\ UNCHANGED <<subtasks, dispatch, reflections>>

InterruptedRevision ==
  /\ ReflectionWork \/ UNCHANGED <<recent, reflections>>
  /\ UNCHANGED <<subtasks, dispatch, works>>

Interrupted(step) ==
  \/ step = "PLAN" /\ InterruptedPlan
  \/ step = "DISPATCH" /\ InterruptedDispatch
  \/ step = "EXECUTE" /\ InterruptedExecution
  \/ step = "EVALUATE" /\ UNCHANGED <<subtasks, dispatch, recent, reflections, works>>
  \/ step = "REVISE" /\ InterruptedRevision
=============================================================================
