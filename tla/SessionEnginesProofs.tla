------------------------ MODULE SessionEnginesProofs ------------------------
(***************************************************************************)
(* Theorems about both session engines, for any budgets, any subtasks and  *)
(* any decisions, with their proofs: first the steps the engines share,    *)
(* then the graph, then the loop.  Names of the loop begin with Loop where *)
(* the graph has its like.                                                 *)
(***************************************************************************)
EXTENDS SessionGraph, SessionLoop, DecisionLogProofs

-----------------------------------------------------------------------------
(* The log stays a window of digests when a decision or a reflection is      *)
(* appended to it.                                                           *)
LEMMA WindowStaysAWindow ==
  ASSUME SessionTypeOK, NEW d \in Digests \union Guidance,
         recent' = AppendLastN(recent, d, LoopWindow)
  PROVE  /\ recent' \in Seq(Digests \union Guidance)
         /\ Len(recent') <= LoopWindow
         /\ Len(recent') <= Len(recent) + 1
BY AppendToWindow DEF SessionTypeOK, LoopWindow

(* Planning leaves a registry of statuses.                                   *)
LEMMA PlanningTypes ==
  ASSUME SessionTypeOK, PlanWork
  PROVE  /\ subtasks' \in [Tasks -> Statuses]
         /\ recent' \in Seq(Digests \union Guidance)
         /\ Len(recent') <= LoopWindow
<1>1. ASSUME NEW reg \in [Tasks -> Statuses], NEW ids
      PROVE  Registered(reg, ids) \in [Tasks -> Statuses]
  BY DEF Registered, Statuses
<1>2. ASSUME NEW reg \in [Tasks -> Statuses]
      PROVE  EnsureWorkSubtasks(reg) \in [Tasks -> Statuses]
  BY <1>1 DEF EnsureWorkSubtasks
<1>3. CASE \E d \in Digests : CycleRecords(d)
  <2>1. recent' \in Seq(Digests \union Guidance) /\ Len(recent') <= LoopWindow
    BY <1>3, WindowStaysAWindow DEF CycleRecords
  <2>2. subtasks' \in [Tasks -> Statuses]
    BY <1>1, <1>2 DEF PlanWork, SessionTypeOK
  <2> QED
    BY <2>1, <2>2
<1>4. CASE UNCHANGED recent
  BY <1>1, <1>2, <1>4 DEF PlanWork, SessionTypeOK
<1> QED
  BY <1>3, <1>4 DEF PlanWork

(* A session starts with the log it inherits, a window of decisions, which is *)
(* empty unless it is promoted.                                              *)
LEMMA InitialLog ==
  ASSUME SessionInit
  PROVE  /\ recent = inherited
         /\ recent \in Seq(Digests \union Guidance)
         /\ Len(recent) <= LoopWindow
         /\ ~promoted => Len(recent) = 0
<1>1. recent = inherited /\ inherited \in Origins
  BY DEF SessionInit
<1>2. inherited \in Seq(Digests) /\ Len(inherited) <= LoopWindow
  BY <1>1, OriginsAreLogs
<1>3. inherited \in Seq(Digests \union Guidance)
  BY <1>2
<1>4. ~promoted => Len(inherited) = 0
  BY EmptySeq DEF promoted
<1> QED
  BY <1>1, <1>2, <1>3, <1>4

(* What a promoted session inherits can be counted.                          *)
LEMMA InheritedOccurrences ==
  ASSUME SessionTypeOK, NEW d
  PROVE  Occurrences(inherited, d) \in Nat
<1>1. inherited \in Seq(Digests)
  BY OriginsAreLogs DEF SessionTypeOK
<1> QED
  BY <1>1, OccurrencesBounded

(* A reflection keeps the window a window and the reflections within the cap. *)
LEMMA ReflectionTypes ==
  ASSUME SessionTypeOK, ReflectionWork
  PROVE  /\ recent' \in Seq(Digests \union Guidance)
         /\ Len(recent') <= LoopWindow
         /\ reflections' \in 0..MaxReflections
<1>1. CASE settings.error_control /\ settings.reflection_enabled
             /\ reflections < MaxReflections
  <2>1. /\ \E g \in Guidance : recent' = AppendLastN(recent, g, LoopWindow)
        /\ reflections' = reflections + 1
    BY <1>1 DEF ReflectionWork
  <2>2. recent' \in Seq(Digests \union Guidance) /\ Len(recent') <= LoopWindow
    BY <2>1, WindowStaysAWindow
  <2> QED
    BY <1>1, <2>1, <2>2, MaxReflectionsIsNat DEF SessionTypeOK
<1>2. CASE UNCHANGED <<recent, reflections>>
  BY <1>2 DEF SessionTypeOK
<1> QED
  BY <1>1, <1>2 DEF ReflectionWork

(* Whatever a step that raised had written, the stores keep their types.     *)
LEMMA InterruptedTypes ==
  ASSUME SessionTypeOK, NEW step, Interrupted(step)
  PROVE  /\ subtasks' \in [Tasks -> Statuses]
         /\ dispatch' \in Tasks \union {None}
         /\ recent' \in Seq(Digests \union Guidance)
         /\ Len(recent') <= LoopWindow
         /\ reflections' \in 0..MaxReflections
         /\ works' \in BOOLEAN
<1> USE DEF SessionTypeOK
<1>1. ASSUME NEW d \in Digests, CycleRecords(d)
      PROVE  recent' \in Seq(Digests \union Guidance) /\ Len(recent') <= LoopWindow
  BY <1>1, WindowStaysAWindow DEF CycleRecords
<1>2. CASE InterruptedPlan
  <2>1. subtasks' \in [Tasks -> Statuses]
    BY <1>2 DEF InterruptedPlan, Registered, Statuses
  <2> QED
    BY <1>1, <1>2, <2>1 DEF InterruptedPlan
<1>3. CASE InterruptedDispatch
  <2>1. subtasks' \in [Tasks -> Statuses] /\ dispatch' \in Tasks \union {None}
    BY <1>3 DEF InterruptedDispatch, Statuses
  <2> QED
    BY <1>3, <2>1 DEF InterruptedDispatch
<1>4. CASE InterruptedExecution
  BY <1>1, <1>4 DEF InterruptedExecution
<1>5. CASE UNCHANGED <<subtasks, dispatch, recent, reflections, works>>
  BY <1>5
<1>6. CASE InterruptedRevision
  <2>1. CASE ReflectionWork
    BY <1>6, <2>1, ReflectionTypes DEF InterruptedRevision
  <2>2. CASE UNCHANGED <<recent, reflections>>
    BY <1>6, <2>2 DEF InterruptedRevision
  <2> QED
    BY <1>6, <2>1, <2>2 DEF InterruptedRevision
<1> QED
  BY <1>2, <1>3, <1>4, <1>5, <1>6 DEF Interrupted

(* An accepted decision repeats itself at most up to the loop threshold.     *)
LEMMA GatedRecording ==
  ASSUME SessionTypeOK, NEW d \in Digests, CycleRecords(d), settings.error_control,
         NEW e \in Digests
  PROVE  Occurrences(recent', e) <= LoopThreshold
<1>1. Occurrences(recent, e) < LoopThreshold
  BY NoLoopMeansFewOccurrences DEF CycleRecords, SessionTypeOK
<1>2. /\ Occurrences(recent', e) \in Nat
      /\ Occurrences(recent', e) <= Occurrences(recent, e) + IF d = e THEN 1 ELSE 0
  BY AppendToWindow DEF CycleRecords, SessionTypeOK, LoopWindow
<1>3. Occurrences(recent, e) \in Nat
  BY OccurrencesBounded DEF SessionTypeOK
<1> QED
  BY <1>1, <1>2, <1>3 DEF LoopThreshold

(* A reflection repeats no decision, and may push one out of the window.     *)
LEMMA ReflectionRepeatsNothing ==
  ASSUME SessionTypeOK, ReflectionWork, NEW e \in Digests
  PROVE  /\ Occurrences(recent, e) \in Nat
         /\ Occurrences(recent', e) \in Nat
         /\ Occurrences(recent', e) <= Occurrences(recent, e)
<1>1. Occurrences(recent, e) \in Nat
  BY OccurrencesBounded DEF SessionTypeOK
<1>2. ASSUME NEW g \in Guidance, recent' = AppendLastN(recent, g, LoopWindow)
      PROVE  /\ Occurrences(recent', e) \in Nat
             /\ Occurrences(recent', e) <= Occurrences(recent, e)
  <2>1. g /= e
    BY GuidanceIsNoDigest
  <2>2. /\ Occurrences(recent', e) \in Nat
        /\ Occurrences(recent', e) <= Occurrences(recent, e) + IF g = e THEN 1 ELSE 0
    BY <1>2, AppendToWindow DEF SessionTypeOK, LoopWindow
  <2> QED
    BY <1>1, <2>1, <2>2
<1>3. CASE UNCHANGED recent
  BY <1>1, <1>3
<1> QED
  BY <1>1, <1>2, <1>3 DEF ReflectionWork

(* Nor does a step that raised push the repetition beyond the threshold, or   *)
(* further beyond it.                                                        *)
LEMMA InterruptedRepetition ==
  ASSUME SessionTypeOK, NEW step, Interrupted(step), settings.error_control,
         NEW e \in Digests
  PROVE  /\ Occurrences(recent, e) \in Nat
         /\ Occurrences(recent', e) \in Nat
         /\ \/ Occurrences(recent', e) <= LoopThreshold
            \/ Occurrences(recent', e) <= Occurrences(recent, e)
<1>t. Occurrences(recent, e) \in Nat
  BY OccurrencesBounded DEF SessionTypeOK
<1>1. CASE \E d \in Digests : CycleRecords(d)
  <2>1. PICK d \in Digests : CycleRecords(d)
    BY <1>1
  <2>2. Occurrences(recent', e) \in Nat
    BY <2>1, AppendToWindow DEF CycleRecords, SessionTypeOK, LoopWindow
  <2> QED
    BY <1>t, <2>1, <2>2, GatedRecording
<1>2. CASE ReflectionWork
  BY <1>t, <1>2, ReflectionRepeatsNothing
<1>3. CASE UNCHANGED recent
  BY <1>t, <1>3
<1> QED
  BY <1>1, <1>2, <1>3 DEF Interrupted, InterruptedPlan, InterruptedDispatch,
     InterruptedExecution, InterruptedRevision

-----------------------------------------------------------------------------
\* The nodes that have the verifier's verdict just behind them.
Judged == {"REVISE", "ESCALATE", "END"}

\* What the counters have come to when each node is next.
Progress ==
  /\ node = "PLAN" => supersteps = 0 /\ step_count = 0
  /\ node = "DISPATCH" => supersteps = 1 /\ step_count = 1
  /\ node = "EXECUTE" =>
       /\ supersteps <= 3 * step_count - 1
       /\ step_count <= 2 \/ step_count < max_steps
  /\ node = "EVALUATE" =>
       /\ supersteps <= 3 * step_count
       /\ step_count <= 2 \/ step_count < max_steps
  /\ node = "REVISE" =>
       /\ supersteps <= 3 * step_count - 2
       /\ step_count < max_steps
       /\ retry_count < max_retries
  /\ node = "ESCALATE" => supersteps <= 3 * step_count - 2
  /\ supersteps <= 3 * step_count + 1
  /\ BudgetsRespected

\* The verdict the run would be reported with, and what it says of the workspace.
VerdictIsCurrent ==
  /\ node \in Judged => evaluation = Verdict
  /\ node = "REVISE" => evaluation = "fail"
  /\ node = "END" => evaluation = "pass" \/ current_state = "ESCALATE"
  /\ OutcomeMatchesWorkspace

\* What planning and dispatching have established for the executor.
WorkIsDispatched ==
  ~promoted =>
    /\ node = "PLAN" => \A t \in Tasks : subtasks[t] = "absent"
    /\ node = "DISPATCH" => \E t \in Tasks : subtasks[t] = "open"
    /\ node \in {"EXECUTE", "EVALUATE", "REVISE"} =>
         /\ active_subtask_id \in Tasks
         /\ dispatch = active_subtask_id
         /\ subtasks[dispatch] = "in_progress"

\* How far the model can have repeated itself when each node is next.
RepetitionSoFar ==
  /\ RepetitionBounded
  /\ node \in {"PLAN", "DISPATCH"} => retry_count = 0
  /\ node = "PLAN" /\ ~promoted => Len(recent) = 0
  /\ node = "DISPATCH" /\ ~promoted => Len(recent) <= 1
  /\ settings.control /\ node = "REVISE" =>
       \A d \in Digests : Occurrences(recent, d) < LoopThreshold
  /\ settings.control /\ node = "EXECUTE" /\ (promoted => retry_count > 0) =>
       \A d \in Digests : Occurrences(recent, d) < LoopThreshold

IInv == TypeOK /\ Progress /\ VerdictIsCurrent /\ WorkIsDispatched /\ RepetitionSoFar

-----------------------------------------------------------------------------
(* The initial sessions are well typed.                                      *)
LEMMA InitTypeOK == Init => TypeOK
<1> SUFFICES ASSUME Init PROVE TypeOK
  OBVIOUS
<1>1. recent \in Seq(Digests \union Guidance) /\ Len(recent) <= LoopWindow
  BY InitialLog DEF Init
<1>2. subtasks \in [Tasks -> Statuses]
  BY DEF Init, SessionInit, Statuses
<1>3. dispatch \in Tasks \union {None}
  BY MainIsATask DEF Init, SessionInit
<1>4. max_steps \in Nat /\ max_retries \in Nat
  BY BudgetsAreNat DEF Init, SessionInit
<1>5. inherited \in Origins
  BY DEF Init, SessionInit
<1> QED
  BY <1>1, <1>2, <1>3, <1>4, <1>5, MaxReflectionsIsNat
     DEF Init, SessionInit, TypeOK, SessionTypeOK, WorkflowStates, Verdicts, Nodes, Outcomes

(* Every step keeps the types.                                               *)
LEMMA NextTypeOK == TypeOK /\ [Next]_vars => TypeOK'
<1> SUFFICES ASSUME TypeOK, [Next]_vars PROVE TypeOK'
  OBVIOUS
<1> USE DEF TypeOK, SessionTypeOK
<1>1. CASE Plan
  <2>1. /\ subtasks' \in [Tasks -> Statuses]
        /\ recent' \in Seq(Digests \union Guidance)
        /\ Len(recent') <= LoopWindow
    BY <1>1, PlanningTypes DEF Plan
  <2> QED
    BY <1>1, <2>1 DEF Plan, Superstep, config, result, Nodes, WorkflowStates
<1>2. CASE Dispatch
  BY <1>2 DEF Dispatch, DispatchWork, Superstep, config, result, Nodes, WorkflowStates, Statuses
<1>3. CASE Execute
  <2>1. /\ recent' \in Seq(Digests \union Guidance)
        /\ Len(recent') <= LoopWindow
    <3>1. CASE \E d \in Digests : CycleRecords(d)
      BY <3>1, WindowStaysAWindow DEF CycleRecords
    <3>2. CASE UNCHANGED recent
      BY <3>2
    <3> QED
      BY <1>3, <3>1, <3>2 DEF Execute, ExecuteWork
  <2>2. works' \in BOOLEAN /\ evaluation' \in Verdicts
    BY <1>3 DEF Execute, ExecuteWork, Verdicts
  <2> QED
    BY <1>3, <2>1, <2>2 DEF Execute, Superstep, config, result, Nodes, WorkflowStates
<1>4. CASE Evaluate
  <2>1. Router(step_count + 1, Verdict) \in Nodes
    BY DEF Router, NextState, UncontrolledNextState, Verdict, Nodes
  <2>2. Verdict \in Verdicts
    BY DEF Verdict, Verdicts
  <2> QED
    BY <1>4, <2>1, <2>2 DEF Evaluate, Superstep, config, stores, result, WorkflowStates
<1>5. CASE Revise
  <2>1. /\ recent' \in Seq(Digests \union Guidance)
        /\ Len(recent') <= LoopWindow
        /\ reflections' \in 0..MaxReflections
    BY <1>5, ReflectionTypes DEF Revise
  <2> QED
    BY <1>5, <2>1 DEF Revise, Superstep, config, result, Nodes, WorkflowStates
<1>6. CASE Escalate
  BY <1>6 DEF Escalate, Superstep, config, stores, result, Nodes, WorkflowStates
<1>7. CASE NodeRaises
  <2>1. /\ subtasks' \in [Tasks -> Statuses]
        /\ dispatch' \in Tasks \union {None}
        /\ recent' \in Seq(Digests \union Guidance)
        /\ Len(recent') <= LoopWindow
        /\ reflections' \in 0..MaxReflections
        /\ works' \in BOOLEAN
    BY <1>7, InterruptedTypes DEF NodeRaises
  <2>2. node' = "FAILED" /\ supersteps' = supersteps + 1
    BY <1>7 DEF NodeRaises, Superstep
  <2> QED
    BY <1>7, <2>1, <2>2 DEF NodeRaises, workflow, config, result, Nodes
<1>8. CASE Report
  <2>1. outcome' \in Outcomes /\ final_state' \in WorkflowStates \union {"DONE"}
    BY <1>8 DEF Report, RunIsOver, Outcomes
  <2> QED
    BY <1>8, <2>1 DEF Report, workflow, config, stores, Nodes
<1>9. CASE UNCHANGED vars
  BY <1>9 DEF vars, workflow, config, stores, result
<1> QED
  BY <1>1, <1>2, <1>3, <1>4, <1>5, <1>6, <1>7, <1>8, <1>9 DEF Next, Returned

(* Every variable keeps its type in every session: counters stay natural,    *)
(* the log stays a window of known digests, reflections stay within the cap. *)
THEOREM TypeCorrect == Spec => []TypeOK
BY InitTypeOK, NextTypeOK, PTL DEF Spec

-----------------------------------------------------------------------------
(* No step is charged and no superstep run at the start.                     *)
LEMMA InitProgress == Init => Progress
BY BudgetsAreNat DEF Init, SessionInit, Progress, BudgetsRespected

(* Where the graph goes after a verdict, and on what condition.              *)
LEMMA RouterTargets ==
  ASSUME NEW steps, NEW verdict
  PROVE  /\ Router(steps, verdict) \in {"END", "ESCALATE", "REVISE"}
         /\ Router(steps, verdict) = "END" => verdict = "pass"
         /\ Router(steps, verdict) = "REVISE" =>
              /\ verdict /= "pass"
              /\ ~(steps >= max_steps)
              /\ ~(retry_count >= max_retries)
              /\ settings.control => ~LoopDetected(recent)
BY DEF Router, NextState, UncontrolledNextState

(* Every step keeps the counters in step with the place in the graph.        *)
LEMMA NextProgress == TypeOK /\ Progress /\ [Next]_vars => Progress'
<1> SUFFICES ASSUME TypeOK, Progress, [Next]_vars PROVE Progress'
  OBVIOUS
<1>t. /\ step_count \in Nat /\ retry_count \in Nat /\ supersteps \in Nat
      /\ max_steps \in Nat /\ max_retries \in Nat
  BY DEF TypeOK, SessionTypeOK
<1> USE DEF Progress, BudgetsRespected
<1>1. CASE Plan
  BY <1>t, <1>1 DEF Plan, Superstep, config
<1>2. CASE Dispatch
  <2>1. step_count' \in {step_count, step_count + 1}
    BY <1>2 DEF Dispatch, DispatchWork
  <2>2. CASE step_count' = step_count
    BY <1>t, <1>2, <2>2 DEF Dispatch, Superstep, config
  <2>3. CASE step_count' = step_count + 1
    BY <1>t, <1>2, <2>3 DEF Dispatch, Superstep, config
  <2> QED
    BY <2>1, <2>2, <2>3
<1>3. CASE Execute
  BY <1>t, <1>3 DEF Execute, Superstep, config
<1>4. CASE Evaluate
  <2>1. /\ Router(step_count + 1, Verdict) \in {"END", "ESCALATE", "REVISE"}
        /\ Router(step_count + 1, Verdict) = "REVISE" =>
             /\ step_count + 1 < max_steps
             /\ retry_count < max_retries
    BY <1>t, RouterTargets
  <2> QED
    BY <1>t, <1>4, <2>1 DEF Evaluate, Superstep, config
<1>5. CASE Revise
  BY <1>t, <1>5 DEF Revise, Superstep, config
<1>6. CASE Escalate
  BY <1>t, <1>6 DEF Escalate, Superstep, config
<1>7. CASE NodeRaises
  BY <1>t, <1>7 DEF NodeRaises, Superstep, workflow, config
<1>8. CASE Report
  BY <1>t, <1>8 DEF Report, workflow, config
<1>9. CASE UNCHANGED vars
  BY <1>9 DEF vars, workflow, config
<1> QED
  BY <1>1, <1>2, <1>3, <1>4, <1>5, <1>6, <1>7, <1>8, <1>9 DEF Next, Returned

(* At the start there is no verdict to be out of date.                       *)
LEMMA InitVerdictIsCurrent == Init => VerdictIsCurrent
BY DEF Init, VerdictIsCurrent, Judged, OutcomeMatchesWorkspace

(* A verdict stays true of the workspace as long as it counts.               *)
LEMMA NextVerdictIsCurrent ==
  TypeOK /\ VerdictIsCurrent /\ [Next]_vars => VerdictIsCurrent'
<1> SUFFICES ASSUME TypeOK, VerdictIsCurrent, [Next]_vars PROVE VerdictIsCurrent'
  OBVIOUS
<1> USE DEF VerdictIsCurrent, OutcomeMatchesWorkspace, Judged, Verdict
<1>1. CASE Plan
  BY <1>1 DEF Plan, Superstep
<1>2. CASE Dispatch
  BY <1>2 DEF Dispatch, Superstep
<1>3. CASE Execute
  BY <1>3 DEF Execute, Superstep
<1>4. CASE Evaluate
  <2>1. /\ Router(step_count + 1, Verdict) \in {"END", "ESCALATE", "REVISE"}
        /\ Router(step_count + 1, Verdict) = "END" => Verdict = "pass"
        /\ Router(step_count + 1, Verdict) = "REVISE" => Verdict /= "pass"
    BY RouterTargets
  <2> QED
    BY <1>4, <2>1 DEF Evaluate, Superstep
<1>5. CASE Revise
  BY <1>5 DEF Revise, Superstep
<1>6. CASE Escalate
  BY <1>6 DEF Escalate, Superstep
<1>7. CASE NodeRaises
  BY <1>7 DEF NodeRaises, Superstep
<1>8. CASE Report
  BY <1>8 DEF Report, RunIsOver, workflow
<1>9. CASE UNCHANGED vars
  BY <1>9 DEF vars, workflow, result
<1> QED
  BY <1>1, <1>2, <1>3, <1>4, <1>5, <1>6, <1>7, <1>8, <1>9 DEF Next, Returned

(* A fresh registry is empty.                                                *)
LEMMA InitWorkIsDispatched == Init => WorkIsDispatched
BY DEF Init, SessionInit, WorkIsDispatched

(* What planning registers, dispatching sets in progress, and it stays so.   *)
LEMMA NextWorkIsDispatched ==
  TypeOK /\ WorkIsDispatched /\ [Next]_vars => WorkIsDispatched'
<1> SUFFICES ASSUME TypeOK, WorkIsDispatched, [Next]_vars, ~promoted'
             PROVE  WorkIsDispatched'
  BY DEF WorkIsDispatched
<1>p. ~promoted
  BY DEF promoted, Next, vars, config, Plan, Dispatch, Execute, Evaluate, Revise, Escalate,
         NodeRaises, Report, Returned
<1> USE <1>p DEF WorkIsDispatched
<1>t. subtasks \in [Tasks -> Statuses]
  BY DEF TypeOK, SessionTypeOK
<1>1. CASE Plan
  <2>1. \A t \in Tasks : subtasks[t] = "absent"
    BY <1>1 DEF Plan, Superstep
  <2>2. ASSUME NEW ids \in SUBSET Tasks,
               subtasks' = EnsureWorkSubtasks(Registered(subtasks, ids))
        PROVE  \E t \in Tasks : subtasks'[t] = "open"
    <3>1. CASE ids = {}
      <4>1. subtasks' = Registered(Registered(subtasks, ids), {Main})
        BY <2>1, <2>2, <3>1 DEF EnsureWorkSubtasks, Registered
      <4> QED
        BY <4>1, MainIsATask DEF Registered
    <3>2. CASE ids /= {}
      <4>1. PICK t \in ids : t \in Tasks
        BY <3>2
      <4>2. Registered(subtasks, ids)[t] = "open"
        BY <4>1 DEF Registered
      <4>3. subtasks' = Registered(subtasks, ids)
        BY <2>2, <4>1, <4>2 DEF EnsureWorkSubtasks
      <4> QED
        BY <4>1, <4>2, <4>3
    <3> QED
      BY <3>1, <3>2
  <2>3. ASSUME subtasks' = EnsureWorkSubtasks(subtasks)
        PROVE  \E t \in Tasks : subtasks'[t] = "open"
    BY <2>1, <2>3, MainIsATask DEF EnsureWorkSubtasks, Registered
  <2>4. \E t \in Tasks : subtasks'[t] = "open"
    BY <1>1, <2>2, <2>3 DEF Plan, PlanWork
  <2> QED
    BY <1>1, <2>4 DEF Plan, Superstep
<1>2. CASE Dispatch
  <2>1. PICK t \in Tasks :
          /\ dispatch' = t
          /\ subtasks' = [subtasks EXCEPT ![t] = "in_progress"]
          /\ active_subtask_id' = t
    BY <1>2 DEF Dispatch, DispatchWork, Superstep
  <2> QED
    BY <1>t, <1>2, <2>1 DEF Dispatch, Superstep
<1>3. CASE Execute
  BY <1>3 DEF Execute, Superstep
<1>4. CASE Evaluate
  <2>1. Router(step_count + 1, Verdict) \in {"END", "ESCALATE", "REVISE"}
    BY RouterTargets
  <2> QED
    BY <1>4, <2>1 DEF Evaluate, Superstep, stores
<1>5. CASE Revise
  BY <1>5 DEF Revise, Superstep
<1>6. CASE Escalate
  BY <1>6 DEF Escalate, Superstep
<1>7. CASE NodeRaises
  BY <1>7 DEF NodeRaises, Superstep
<1>8. CASE Report
  BY <1>8 DEF Report, RunIsOver
<1>9. CASE UNCHANGED vars
  BY <1>9 DEF vars, workflow, stores
<1> QED
  BY <1>1, <1>2, <1>3, <1>4, <1>5, <1>6, <1>7, <1>8, <1>9 DEF Next, Returned

(* At the start the log is the one the session inherits.                     *)
LEMMA InitRepetitionSoFar == Init => RepetitionSoFar
<1> SUFFICES ASSUME Init PROVE RepetitionSoFar
  OBVIOUS
<1>1. recent = inherited /\ (~promoted => Len(recent) = 0)
  BY InitialLog DEF Init
<1>2. \A d \in Digests : Occurrences(inherited, d) \in Nat
  BY InitTypeOK, InheritedOccurrences DEF TypeOK
<1>3. \A d \in Digests : Occurrences(recent, d) <= Occurrences(inherited, d)
  BY <1>1, <1>2
<1>4. node = "PLAN" /\ retry_count = 0
  BY DEF Init, SessionInit
<1> QED
  BY <1>1, <1>3, <1>4 DEF RepetitionSoFar, RepetitionBounded

(* Every step leaves the budgets, the switches and the origin as they were.  *)
LEMMA NextKeepsConfig ==
  ASSUME [Next]_vars
  PROVE  UNCHANGED <<settings, inherited>> /\ (promoted' <=> promoted)
<1>1. UNCHANGED <<settings, inherited>>
  BY DEF Next, vars, config, Plan, Dispatch, Execute, Evaluate, Revise, Escalate,
         NodeRaises, Report, Returned
<1> QED
  BY <1>1 DEF promoted

(* Every step keeps the repetition bounded: the gate judges each decision,   *)
(* and a reflection repeats none.                                            *)
LEMMA NextRepetitionBounded ==
  ASSUME TypeOK, RepetitionBounded, [Next]_vars
  PROVE  RepetitionBounded'
<1> SUFFICES ASSUME settings.error_control, NEW e \in Digests
             PROVE  \/ Occurrences(recent', e) <= LoopThreshold
                    \/ Occurrences(recent', e) <= Occurrences(inherited, e)
  BY NextKeepsConfig DEF RepetitionBounded
<1>t. SessionTypeOK
  BY DEF TypeOK
<1>n. Occurrences(recent, e) \in Nat /\ Occurrences(inherited, e) \in Nat
  BY <1>t, OccurrencesBounded, InheritedOccurrences DEF SessionTypeOK
<1>i. \/ Occurrences(recent, e) <= LoopThreshold
      \/ Occurrences(recent, e) <= Occurrences(inherited, e)
  BY DEF RepetitionBounded
<1>l. LoopThreshold \in Nat
  BY DEF LoopThreshold
<1>1. CASE \E d \in Digests : CycleRecords(d)
  BY <1>1, <1>t, GatedRecording
<1>2. CASE ReflectionWork
  <2>1. Occurrences(recent', e) \in Nat /\ Occurrences(recent', e) <= Occurrences(recent, e)
    BY <1>2, <1>t, ReflectionRepeatsNothing
  <2> QED
    BY <1>n, <1>i, <1>l, <2>1
<1>3. CASE UNCHANGED recent
  BY <1>3, <1>i
<1>4. CASE NodeRaises
  <2>1. /\ Occurrences(recent', e) \in Nat
        /\ \/ Occurrences(recent', e) <= LoopThreshold
           \/ Occurrences(recent', e) <= Occurrences(recent, e)
    BY <1>4, <1>t, InterruptedRepetition DEF NodeRaises
  <2> QED
    BY <1>n, <1>i, <1>l, <2>1
<1> QED
  BY <1>1, <1>2, <1>3, <1>4
     DEF Next, vars, stores, Plan, PlanWork, Dispatch, Execute, ExecuteWork, Evaluate,
         Revise, Escalate, Report, Returned

(* A fresh session has recorded two decisions at most when its executor      *)
(* first runs; every later execution has the router's loop test behind it.   *)
LEMMA NextRepetitionSoFar ==
  TypeOK /\ RepetitionSoFar /\ [Next]_vars => RepetitionSoFar'
<1> SUFFICES ASSUME TypeOK, RepetitionSoFar, [Next]_vars PROVE RepetitionSoFar'
  OBVIOUS
<1>b. RepetitionBounded'
  BY NextRepetitionBounded DEF RepetitionSoFar
<1>c. UNCHANGED <<settings, inherited>> /\ (promoted' <=> promoted)
  BY NextKeepsConfig
<1> HIDE DEF promoted
<1> USE <1>b, <1>c DEF RepetitionSoFar
<1>t. SessionTypeOK
  BY DEF TypeOK
<1>l. Len(recent) \in Nat /\ retry_count \in Nat
  BY <1>t, LenProperties DEF SessionTypeOK
<1>o. \A d \in Digests :
        Occurrences(recent, d) \in Nat /\ Occurrences(recent, d) <= Len(recent)
  BY <1>t, OccurrencesBounded DEF SessionTypeOK
<1>1. CASE Plan
  <2>1. node = "PLAN" /\ node' = "DISPATCH" /\ retry_count' = retry_count
    BY <1>1 DEF Plan, Superstep
  <2>2. ASSUME NEW d \in Digests, CycleRecords(d), ~promoted
        PROVE  Len(recent') <= 1
    <3>1. recent' \in Seq(Digests \union Guidance) /\ Len(recent') <= Len(recent) + 1
      BY <1>t, <2>2, WindowStaysAWindow DEF CycleRecords
    <3>2. Len(recent') \in Nat
      BY <3>1, LenProperties
    <3>3. Len(recent) = 0
      BY <2>1, <2>2
    <3> QED
      BY <3>1, <3>2, <3>3
  <2>3. ASSUME UNCHANGED recent, ~promoted PROVE Len(recent') <= 1
    BY <2>1, <2>3
  <2>4. ~promoted => Len(recent') <= 1
    BY <1>1, <2>2, <2>3 DEF Plan, PlanWork
  <2> QED
    BY <2>1, <2>4
<1>2. CASE Dispatch
  <2>1. /\ node = "DISPATCH" /\ node' = "EXECUTE" /\ UNCHANGED <<recent, retry_count>>
        /\ retry_count = 0
    BY <1>2 DEF Dispatch, Superstep
  <2>2. ~promoted => \A d \in Digests : Occurrences(recent, d) < LoopThreshold
    BY <1>l, <1>o, <2>1 DEF LoopThreshold
  <2> QED
    BY <2>1, <2>2
<1>3. CASE Execute
  BY <1>3 DEF Execute, Superstep
<1>4. CASE Evaluate
  <2>1. /\ Router(step_count + 1, Verdict) \in {"END", "ESCALATE", "REVISE"}
        /\ Router(step_count + 1, Verdict) = "REVISE" =>
             (settings.control => ~LoopDetected(recent))
    BY RouterTargets
  <2>2. node' = Router(step_count + 1, Verdict) /\ UNCHANGED recent
    BY <1>4 DEF Evaluate, Superstep, stores
  <2>3. ~LoopDetected(recent) =>
          \A d \in Digests : Occurrences(recent, d) < LoopThreshold
    BY <1>t, NoLoopMeansFewOccurrences DEF SessionTypeOK
  <2> QED
    BY <2>1, <2>2, <2>3
<1>5. CASE Revise
  <2>1. node = "REVISE" /\ node' = "EXECUTE"
    BY <1>5 DEF Revise, Superstep
  <2>2. \A e \in Digests :
          /\ Occurrences(recent, e) \in Nat
          /\ Occurrences(recent', e) \in Nat
          /\ Occurrences(recent', e) <= Occurrences(recent, e)
    BY <1>5, <1>t, ReflectionRepeatsNothing DEF Revise
  <2>3. settings.control =>
          \A e \in Digests : Occurrences(recent', e) < LoopThreshold
    BY <2>1, <2>2 DEF LoopThreshold
  <2> QED
    BY <2>1, <2>3
<1>6. CASE Escalate
  BY <1>6 DEF Escalate, Superstep
<1>7. CASE NodeRaises
  BY <1>7 DEF NodeRaises, Superstep
<1>8. CASE Report
  BY <1>8 DEF Report
<1>9. CASE UNCHANGED vars
  BY <1>9 DEF vars, workflow, stores
<1> QED
  BY <1>1, <1>2, <1>3, <1>4, <1>5, <1>6, <1>7, <1>8, <1>9 DEF Next, Returned

-----------------------------------------------------------------------------
(* The inductive invariant holds at the start.                               *)
LEMMA InitIInv == Init => IInv
BY InitTypeOK, InitProgress, InitVerdictIsCurrent, InitWorkIsDispatched,
   InitRepetitionSoFar DEF IInv

(* Every step preserves the inductive invariant.                             *)
LEMMA NextIInv == IInv /\ [Next]_vars => IInv'
BY NextTypeOK, NextProgress, NextVerdictIsCurrent, NextWorkIsDispatched,
   NextRepetitionSoFar DEF IInv

(* The inductive invariant holds throughout every session.                   *)
LEMMA Inductive == Spec => []IInv
BY InitIInv, NextIInv, PTL DEF Spec

(* No session of the graph, whatever its budgets, takes more steps than      *)
(* max_steps once it is past the three that planning, dispatching and one    *)
(* evaluation cost, or revises more often than max_retries: the router's     *)
(* tests after EVALUATE are enough.                                          *)
THEOREM BudgetsAlwaysRespected == Spec => []BudgetsRespected
<1>1. IInv => BudgetsRespected
  BY DEF IInv, Progress
<1> QED
  BY <1>1, Inductive, PTL

(* max(6 * max_steps, 24) supersteps are always enough, so that LangGraph's  *)
(* recursion error never ends a session, for any budgets.                    *)
THEOREM RecursionLimitSuffices == Spec => []RecursionLimitNeverHit
<1>1. IInv => RecursionLimitNeverHit
  <2> SUFFICES ASSUME IInv PROVE supersteps <= RecursionLimit
    BY DEF RecursionLimitNeverHit
  <2>1. /\ supersteps <= 3 * step_count + 1
        /\ step_count <= max_steps \/ step_count <= 3
    BY DEF IInv, Progress, BudgetsRespected
  <2>2. supersteps \in Nat /\ step_count \in Nat /\ max_steps \in Nat
    BY DEF IInv, TypeOK, SessionTypeOK
  <2> QED
    BY <2>1, <2>2 DEF RecursionLimit
<1> QED
  BY <1>1, Inductive, PTL

(* A session reported solved leaves a workspace that passes the verifier and *)
(* an escalated one a workspace that does not, because no node that touches  *)
(* the workspace runs after the verdict.                                     *)
THEOREM OutcomeAlwaysMatches == Spec => []OutcomeMatchesWorkspace
<1>1. IInv => OutcomeMatchesWorkspace
  BY DEF IInv, VerdictIsCurrent
<1> QED
  BY <1>1, Inductive, PTL

(* In a session that starts with a fresh registry the executor always runs   *)
(* on the active subtask; a promoted one starts with st-main abandoned.      *)
THEOREM ExecutorAlwaysHasSubtask == Spec => []ExecutorHasActiveSubtask
<1>1. IInv => ExecutorHasActiveSubtask
  BY MainIsATask DEF IInv, WorkIsDispatched, ExecutorHasActiveSubtask
<1> QED
  BY <1>1, Inductive, PTL

(* The quality gate bounds repetition for every model and every mix of       *)
(* planner, executor and reflection entries: beyond the threshold there is   *)
(* only what the turns before a promotion recorded, whatever that was.       *)
THEOREM RepetitionAlwaysBounded == Spec => []RepetitionBounded
<1>1. IInv => RepetitionBounded
  BY DEF IInv, RepetitionSoFar
<1> QED
  BY <1>1, Inductive, PTL

(* With control on no execution starts that the gate's loop test would doom, *)
(* except the first of a session promoted with any log.                      *)
THEOREM NeverADoomedCycle == Spec => []NoDoomedCycle
<1>1. IInv => NoDoomedCycle
  BY DEF IInv, RepetitionSoFar, NoDoomedCycle
<1> QED
  BY <1>1, Inductive, PTL

-----------------------------------------------------------------------------
(* A session starts as SessionFlow says.                                     *)
LEMMA InitImplements == Init => Flow!Init
BY BudgetsAreNat DEF Init, SessionInit, Flow!Init, FlowPhase, FlowVerdict, FlowSolved

\* Every superstep is a step of the session the engines promise, or a stutter.
LEMMA NextImplements == IInv /\ [Next]_vars => [Flow!Next]_(Flow!vars)
<1> SUFFICES ASSUME IInv, [Next]_vars PROVE [Flow!Next]_(Flow!vars)
  OBVIOUS
<1> USE DEF Superstep, FlowPhase, FlowVerdict, FlowSolved, Flow!Step, config
<1>t. node \in Nodes
  BY DEF IInv, TypeOK
<1>1. CASE Plan
  <2>1. Flow!Plan
    BY <1>1 DEF Plan, Flow!Plan
  <2> QED
    BY <2>1 DEF Flow!Next
<1>2. CASE Dispatch
  <2>1. Flow!Dispatch
    BY <1>2 DEF Dispatch, Flow!Dispatch
  <2> QED
    BY <2>1 DEF Flow!Next
<1>3. CASE Execute
  <2>1. Flow!Execute
    BY <1>3 DEF Execute, Flow!Execute
  <2> QED
    BY <2>1 DEF Flow!Next
<1>4. CASE Evaluate
  <2>1. /\ Router(step_count + 1, Verdict) \in {"END", "ESCALATE", "REVISE"}
        /\ Router(step_count + 1, Verdict) = "END" => Verdict = "pass"
        /\ Router(step_count + 1, Verdict) = "REVISE" =>
             Verdict /= "pass" /\ ~(retry_count >= max_retries)
    BY RouterTargets
  <2>2. retry_count \in Nat /\ max_retries \in Nat
    BY DEF IInv, TypeOK, SessionTypeOK
  <2>3. Verdict \in {"pass", "fail"}
    BY DEF Verdict
  <2>4. CASE Verdict = "pass"
    <3>1. Flow!Pass
      BY <1>4, <2>1, <2>4 DEF Evaluate, Flow!Pass
    <3> QED
      BY <3>1 DEF Flow!Next
  <2>5. CASE Verdict = "fail"
    <3>1. Flow!Fail
      BY <1>4, <2>1, <2>2, <2>5 DEF Evaluate, Flow!Fail
    <3> QED
      BY <3>1 DEF Flow!Next
  <2> QED
    BY <2>3, <2>4, <2>5
<1>5. CASE Revise
  <2>1. Flow!Revise
    BY <1>5 DEF Revise, Flow!Revise
  <2> QED
    BY <2>1 DEF Flow!Next
<1>6. CASE Escalate
  <2>1. UNCHANGED Flow!vars
    BY <1>6 DEF Escalate, Flow!vars
  <2> QED
    BY <2>1
<1>7. CASE NodeRaises
  <2>1. Flow!GiveUp
    BY <1>7 DEF NodeRaises, Flow!GiveUp, workflow
  <2> QED
    BY <2>1 DEF Flow!Next
<1>8. CASE Report
  <2>1. CASE node = "FAILED"
    BY <1>8, <2>1 DEF Report, Flow!Return, Flow!Next, workflow
  <2>2. CASE node = "END" /\ evaluation = "pass"
    BY <1>8, <2>2 DEF Report, Flow!Return, Flow!Next, workflow
  <2>3. CASE node = "END" /\ evaluation /= "pass"
    <3>1. current_state = "ESCALATE"
      BY <2>3 DEF IInv, VerdictIsCurrent
    <3>2. outcome' = "escalate" /\ node' = "RETURNED"
      BY <1>8, <2>3, <3>1 DEF Report
    <3>3. Flow!Return
      BY <1>8, <2>3, <3>2 DEF Report, Flow!Return, workflow
    <3> QED
      BY <3>3 DEF Flow!Next
  <2> QED
    BY <1>8, <2>1, <2>2, <2>3 DEF Report, RunIsOver
<1>9. CASE UNCHANGED vars
  BY <1>9 DEF vars, workflow, result, Flow!vars
<1> QED
  BY <1>1, <1>2, <1>3, <1>4, <1>5, <1>6, <1>7, <1>8, <1>9 DEF Next, Returned

(* The graph engine is a session as SessionFlow describes it: a verdict      *)
(* follows every execution, a pass is never revised, revisions stay within   *)
(* max_retries, and solved is reported exactly on a passed last verdict.     *)
THEOREM GraphImplementsFlow == Spec => ImplementsFlow
BY InitImplements, NextImplements, Inductive, PTL DEF Spec, ImplementsFlow, Flow!Spec

-----------------------------------------------------------------------------
\* Control points at which the loop has not come to an outcome yet.
Working == {"top", "evaluate", "revise"}

\* What of the budgets is left at each control point.
Budgets ==
  /\ StepBudgetIsStrict
  /\ pc = "evaluate" => step_count < max_steps
  /\ pc = "revise" => retry_count < max_retries

\* Nothing is dispatched before it is planned, nor done before it is dispatched.
Dispatched ==
  /\ ~planned => active_subtask_id = None
  /\ pc \in {"evaluate", "revise"} => planned /\ active_subtask_id /= None

\* What the last verdict says of the workspace, and when there is an outcome.
LoopVerdictIsCurrent ==
  /\ pc \in Working => outcome = "max_steps_reached" /\ ~test_passed
  /\ pc \in {"top", "revise"} => evaluation = "none" \/ ~works
  /\ pc = "revise" => evaluation = "fail"
  /\ pc = "raised" => outcome = "unresolvable"
  /\ pc \in {"left", "returned"} =>
       /\ outcome = "solved" => works
       /\ outcome = "escalate" => ~works
       /\ outcome = "max_steps_reached" => evaluation = "none" \/ ~works

\* How far the model can have repeated itself when each step is next.
LoopRepetitionSoFar ==
  /\ NextStep = "PLAN" => Len(recent) <= 1
  /\ NextStep = "DISPATCH" => Len(recent) <= 2
  /\ settings.control /\ NextStep \in {"EXECUTE", "REVISE"} =>
       \A d \in Digests : Occurrences(recent, d) < LoopThreshold

LoopIInv == LoopTypeOK /\ Budgets /\ Dispatched /\ LoopVerdictIsCurrent /\ LoopRepetitionSoFar

-----------------------------------------------------------------------------
(* The initial sessions are well typed.                                      *)
LEMMA LoopInitTypeOK == LoopInit => LoopTypeOK
<1> SUFFICES ASSUME LoopInit PROVE LoopTypeOK
  OBVIOUS
<1>1. recent \in Seq(Digests \union Guidance) /\ Len(recent) <= LoopWindow
  BY InitialLog DEF LoopInit
<1>2. subtasks \in [Tasks -> Statuses]
  BY DEF LoopInit, SessionInit, Statuses
<1>3. dispatch \in Tasks \union {None}
  BY MainIsATask DEF LoopInit, SessionInit
<1>4. max_steps \in Nat /\ max_retries \in Nat
  BY BudgetsAreNat DEF LoopInit, SessionInit
<1>5. inherited \in Origins
  BY DEF LoopInit, SessionInit
<1>6. SessionTypeOK
  BY <1>1, <1>2, <1>3, <1>4, <1>5, MaxReflectionsIsNat
     DEF LoopInit, SessionInit, SessionTypeOK, WorkflowStates, Verdicts, Outcomes
<1>7. pc \in ControlPoints /\ planned \in BOOLEAN /\ test_passed \in BOOLEAN
  BY DEF LoopInit, ControlPoints
<1> QED
  BY <1>6, <1>7 DEF LoopTypeOK

(* Every step keeps the types.                                               *)
LEMMA LoopNextTypeOK == LoopTypeOK /\ [LoopNext]_loop_vars => LoopTypeOK'
<1> SUFFICES ASSUME LoopTypeOK, [LoopNext]_loop_vars PROVE LoopTypeOK'
  OBVIOUS
<1> USE DEF LoopTypeOK, SessionTypeOK
<1>1. CASE LoopPlan
  <2>1. /\ subtasks' \in [Tasks -> Statuses]
        /\ recent' \in Seq(Digests \union Guidance)
        /\ Len(recent') <= LoopWindow
    BY <1>1, PlanningTypes DEF LoopPlan
  <2> QED
    BY <1>1, <2>1 DEF LoopPlan, config, loop_result, WorkflowStates
<1>2. CASE LoopDispatch
  <2>1. /\ subtasks' \in [Tasks -> Statuses]
        /\ dispatch' \in Tasks \union {None}
        /\ active_subtask_id' \in Tasks \union {None}
        /\ step_count' \in Nat
    BY <1>2 DEF LoopDispatch, DispatchWork, Statuses
  <2>2. /\ pc' \in ControlPoints
        /\ outcome' \in Outcomes
        /\ final_state' \in WorkflowStates \union {"DONE"}
    BY <1>2 DEF LoopDispatch, ControlPoints, Outcomes, WorkflowStates
  <2> QED
    BY <1>2, <2>1, <2>2 DEF LoopDispatch, config, WorkflowStates
<1>3. CASE LoopExecute
  <2>1. /\ recent' \in Seq(Digests \union Guidance)
        /\ Len(recent') <= LoopWindow
    <3>1. CASE \E d \in Digests : CycleRecords(d)
      BY <3>1, WindowStaysAWindow DEF CycleRecords
    <3>2. CASE UNCHANGED recent
      BY <3>2
    <3> QED
      BY <1>3, <3>1, <3>2 DEF LoopExecute, ExecuteWork
  <2>2. works' \in BOOLEAN /\ evaluation' \in Verdicts
    BY <1>3 DEF LoopExecute, ExecuteWork, Verdicts
  <2> QED
    BY <1>3, <2>1, <2>2 DEF LoopExecute, config, loop_result, ControlPoints, WorkflowStates
<1>4. CASE EvaluatePass
  BY <1>4 DEF EvaluatePass, config, stores, ControlPoints, Outcomes, Verdicts
<1>5. CASE EvaluateFail
  <2>1. /\ pc' \in ControlPoints
        /\ outcome' \in Outcomes
        /\ final_state' \in WorkflowStates \union {"DONE"}
    BY <1>5 DEF EvaluateFail, ControlPoints, Outcomes, WorkflowStates
  <2>2. evaluation' \in Verdicts /\ test_passed' \in BOOLEAN
    BY <1>5 DEF EvaluateFail, Verdicts
  <2>3. current_state' \in WorkflowStates /\ step_count' \in Nat
    BY <1>5 DEF EvaluateFail, WorkflowStates
  <2>4. UNCHANGED <<planned, active_subtask_id, retry_count, config, stores, works>>
    BY <1>5 DEF EvaluateFail
  <2> QED
    BY <2>1, <2>2, <2>3, <2>4 DEF config, stores
<1>6. CASE LoopRevise
  <2>1. /\ recent' \in Seq(Digests \union Guidance)
        /\ Len(recent') <= LoopWindow
        /\ reflections' \in 0..MaxReflections
    BY <1>6, ReflectionTypes DEF LoopRevise
  <2> QED
    BY <1>6, <2>1 DEF LoopRevise, config, loop_result, ControlPoints, WorkflowStates
<1>7. CASE OutOfBudget
  <2>1. outcome' \in Outcomes /\ final_state' \in WorkflowStates \union {"DONE"}
    BY <1>7 DEF OutOfBudget, Outcomes
  <2> QED
    BY <1>7, <2>1 DEF OutOfBudget, workflow, config, stores, ControlPoints
<1>8. CASE Raises
  <2>1. /\ subtasks' \in [Tasks -> Statuses]
        /\ dispatch' \in Tasks \union {None}
        /\ recent' \in Seq(Digests \union Guidance)
        /\ Len(recent') <= LoopWindow
        /\ reflections' \in 0..MaxReflections
        /\ works' \in BOOLEAN
    BY <1>8, InterruptedTypes DEF Raises
  <2>2. /\ current_state' \in WorkflowStates
        /\ retry_count' \in Nat
        /\ evaluation' \in Verdicts
        /\ test_passed' \in BOOLEAN
    BY <1>8 DEF Raises, Verdict, Verdicts, WorkflowStates
  <2> QED
    BY <1>8, <2>1, <2>2 DEF Raises, config, ControlPoints, Outcomes
<1>9. CASE LoopReport
  BY <1>9 DEF LoopReport, workflow, config, stores, ControlPoints
<1>10. CASE UNCHANGED loop_vars
  BY <1>10 DEF loop_vars, workflow, config, stores, loop_result
<1> QED
  BY <1>1, <1>2, <1>3, <1>4, <1>5, <1>6, <1>7, <1>8, <1>9, <1>10 DEF LoopNext, LoopReturned

(* Every variable of the loop keeps its type, for any budgets.               *)
THEOREM LoopTypeCorrect == LoopSpec => []LoopTypeOK
BY LoopInitTypeOK, LoopNextTypeOK, PTL DEF LoopSpec

-----------------------------------------------------------------------------
(* Nothing of the budgets is spent at the start.                             *)
LEMMA InitBudgets == LoopInit => Budgets
BY BudgetsAreNat DEF LoopInit, SessionInit, Budgets, StepBudgetIsStrict

(* Where the loop goes after a failed verdict, and on what condition.        *)
LEMMA AfterAFailure ==
  ASSUME EvaluateFail
  PROVE  \/ pc' = "left" /\ outcome' = "escalate"
         \/ /\ pc' = "revise" /\ UNCHANGED outcome
            /\ ~(retry_count >= max_retries)
            /\ settings.control => ~LoopDetected(recent)
BY DEF EvaluateFail, NextState, UncontrolledNextState

(* A step is charged only when one is left, a revision likewise.             *)
LEMMA NextBudgets == LoopTypeOK /\ Budgets /\ [LoopNext]_loop_vars => Budgets'
<1> SUFFICES ASSUME LoopTypeOK, Budgets, [LoopNext]_loop_vars PROVE Budgets'
  OBVIOUS
<1>t. /\ step_count \in Nat /\ retry_count \in Nat
      /\ max_steps \in Nat /\ max_retries \in Nat
  BY DEF LoopTypeOK, SessionTypeOK
<1> USE DEF Budgets, StepBudgetIsStrict
<1>1. CASE LoopPlan
  BY <1>t, <1>1 DEF LoopPlan, AtTop, BudgetLeft, config
<1>2. CASE LoopDispatch
  <2>1. step_count' = step_count \/ step_count' = step_count + 1
    BY <1>2 DEF LoopDispatch, DispatchWork
  <2>2. /\ step_count < max_steps /\ pc' \notin {"evaluate", "revise"}
        /\ UNCHANGED <<retry_count, config>>
    BY <1>2 DEF LoopDispatch, AtTop, BudgetLeft
  <2> QED
    BY <1>t, <2>1, <2>2 DEF config
<1>3. CASE LoopExecute
  BY <1>t, <1>3 DEF LoopExecute, AtTop, BudgetLeft, config
<1>4. CASE EvaluatePass
  BY <1>t, <1>4 DEF EvaluatePass, config
<1>5. CASE EvaluateFail
  <2>1. /\ pc = "evaluate" /\ step_count' = step_count + 1
        /\ UNCHANGED <<retry_count, config>>
    BY <1>5 DEF EvaluateFail
  <2> QED
    BY <1>t, <1>5, <2>1, AfterAFailure DEF config
<1>6. CASE LoopRevise
  BY <1>t, <1>6 DEF LoopRevise, config
<1>7. CASE OutOfBudget
  BY <1>t, <1>7 DEF OutOfBudget, workflow, config
<1>8. CASE Raises
  <2>1. /\ pc' = "raised" /\ UNCHANGED <<step_count, config>>
        /\ retry_count' = retry_count \/ (pc = "revise" /\ retry_count' = retry_count + 1)
    BY <1>8 DEF Raises
  <2> QED
    BY <1>t, <2>1 DEF config
<1>9. CASE LoopReport
  BY <1>t, <1>9 DEF LoopReport, workflow, config
<1>10. CASE UNCHANGED loop_vars
  BY <1>10 DEF loop_vars, workflow, config
<1> QED
  BY <1>1, <1>2, <1>3, <1>4, <1>5, <1>6, <1>7, <1>8, <1>9, <1>10 DEF LoopNext, LoopReturned

(* Nothing is planned or dispatched at the start.                            *)
LEMMA InitDispatched == LoopInit => Dispatched
BY DEF LoopInit, SessionInit, Dispatched

(* Planning comes before dispatching, dispatching before the work.           *)
LEMMA NextDispatched == Dispatched /\ [LoopNext]_loop_vars => Dispatched'
<1> SUFFICES ASSUME Dispatched, [LoopNext]_loop_vars PROVE Dispatched'
  OBVIOUS
<1> USE DEF Dispatched
<1>1. CASE LoopPlan
  BY <1>1 DEF LoopPlan, AtTop
<1>2. CASE LoopDispatch
  BY <1>2 DEF LoopDispatch, AtTop
<1>3. CASE LoopExecute
  BY <1>3 DEF LoopExecute
<1>4. CASE EvaluatePass
  BY <1>4 DEF EvaluatePass
<1>5. CASE EvaluateFail
  BY <1>5 DEF EvaluateFail
<1>6. CASE LoopRevise
  BY <1>6 DEF LoopRevise
<1>7. CASE OutOfBudget
  BY <1>7 DEF OutOfBudget, workflow
<1>8. CASE Raises
  BY <1>8 DEF Raises
<1>9. CASE LoopReport
  BY <1>9 DEF LoopReport, workflow
<1>10. CASE UNCHANGED loop_vars
  BY <1>10 DEF loop_vars, workflow
<1> QED
  BY <1>1, <1>2, <1>3, <1>4, <1>5, <1>6, <1>7, <1>8, <1>9, <1>10 DEF LoopNext, LoopReturned

(* At the start there is no verdict and no outcome.                          *)
LEMMA LoopInitVerdictIsCurrent == LoopInit => LoopVerdictIsCurrent
BY DEF LoopInit, SessionInit, LoopVerdictIsCurrent, Working

(* A verdict stays true of the workspace as long as it counts.               *)
LEMMA LoopNextVerdictIsCurrent == LoopVerdictIsCurrent /\ [LoopNext]_loop_vars => LoopVerdictIsCurrent'
<1> SUFFICES ASSUME LoopVerdictIsCurrent, [LoopNext]_loop_vars PROVE LoopVerdictIsCurrent'
  OBVIOUS
<1> USE DEF LoopVerdictIsCurrent, Working
<1>1. CASE LoopPlan
  BY <1>1 DEF LoopPlan, AtTop, loop_result
<1>2. CASE LoopDispatch
  <2>1. /\ pc = "top" /\ UNCHANGED <<evaluation, works, test_passed>>
        /\ \/ pc' = "left" /\ outcome' = "unresolvable"
           \/ UNCHANGED <<pc, outcome>>
    BY <1>2 DEF LoopDispatch, AtTop
  <2> QED
    BY <2>1
<1>3. CASE LoopExecute
  BY <1>3 DEF LoopExecute, AtTop, loop_result
<1>4. CASE EvaluatePass
  BY <1>4 DEF EvaluatePass, Verdict
<1>5. CASE EvaluateFail
  <2>1. /\ pc = "evaluate" /\ evaluation' = "fail" /\ ~works /\ UNCHANGED works
        /\ ~test_passed'
    BY <1>5 DEF EvaluateFail, Verdict
  <2> QED
    BY <1>5, <2>1, AfterAFailure
<1>6. CASE LoopRevise
  BY <1>6 DEF LoopRevise, loop_result
<1>7. CASE OutOfBudget
  <2>1. /\ pc = "top" /\ pc' = "left" /\ outcome' = outcome
        /\ UNCHANGED <<evaluation, works>>
    BY <1>7 DEF OutOfBudget, workflow
  <2> QED
    BY <2>1
<1>8. CASE Raises
  BY <1>8 DEF Raises
<1>9. CASE LoopReport
  BY <1>9 DEF LoopReport, Over, workflow
<1>10. CASE UNCHANGED loop_vars
  BY <1>10 DEF loop_vars, workflow, loop_result
<1> QED
  BY <1>1, <1>2, <1>3, <1>4, <1>5, <1>6, <1>7, <1>8, <1>9, <1>10 DEF LoopNext, LoopReturned

(* This engine starts with an empty log.                                     *)
LEMMA LoopInitRepetitionSoFar == LoopInit => LoopRepetitionSoFar
<1> SUFFICES ASSUME LoopInit PROVE LoopRepetitionSoFar
  OBVIOUS
<1>1. NextStep = "PLAN"
  BY DEF LoopInit, NextStep
<1>2. Len(recent) = 0
  BY InitialLog DEF LoopInit
<1> QED
  BY <1>1, <1>2 DEF LoopRepetitionSoFar

(* No decision reaches the threshold before planning and dispatching are     *)
(* done; afterwards the loop test stands before every revision.              *)
LEMMA LoopNextRepetitionSoFar ==
  LoopTypeOK /\ Dispatched /\ LoopRepetitionSoFar /\ [LoopNext]_loop_vars => LoopRepetitionSoFar'
<1> SUFFICES ASSUME LoopTypeOK, Dispatched, LoopRepetitionSoFar, [LoopNext]_loop_vars
             PROVE  LoopRepetitionSoFar'
  OBVIOUS
<1> USE DEF LoopRepetitionSoFar
<1>t. SessionTypeOK
  BY DEF LoopTypeOK
<1>l. Len(recent) \in Nat
  BY <1>t, LenProperties DEF SessionTypeOK
<1>o. \A d \in Digests :
        Occurrences(recent, d) \in Nat /\ Occurrences(recent, d) <= Len(recent)
  BY <1>t, OccurrencesBounded DEF SessionTypeOK
<1>1. CASE LoopPlan
  <2>1. NextStep = "PLAN" /\ NextStep' = "DISPATCH"
    BY <1>1 DEF LoopPlan, AtTop, NextStep, Dispatched
  <2>2. CASE \E d \in Digests : CycleRecords(d)
    <3>1. recent' \in Seq(Digests \union Guidance) /\ Len(recent') <= Len(recent) + 1
      BY <1>t, <2>2, WindowStaysAWindow DEF CycleRecords
    <3>2. Len(recent') \in Nat
      BY <3>1, LenProperties
    <3> QED
      BY <1>l, <2>1, <3>1, <3>2
  <2>3. CASE UNCHANGED recent
    BY <1>l, <2>1, <2>3
  <2> QED
    BY <1>1, <2>2, <2>3 DEF LoopPlan, PlanWork
<1>2. CASE LoopDispatch
  <2>1. /\ NextStep = "DISPATCH" /\ UNCHANGED recent
        /\ NextStep' = "STOP" \/ NextStep' = "EXECUTE"
    BY <1>2 DEF LoopDispatch, AtTop, NextStep
  <2>2. \A d \in Digests : Occurrences(recent, d) < LoopThreshold
    BY <1>l, <1>o, <2>1 DEF LoopThreshold
  <2> QED
    BY <2>1, <2>2
<1>3. CASE LoopExecute
  BY <1>3 DEF LoopExecute, NextStep
<1>4. CASE EvaluatePass
  BY <1>4 DEF EvaluatePass, NextStep
<1>5. CASE EvaluateFail
  <2>1. UNCHANGED <<recent, settings>>
    BY <1>5 DEF EvaluateFail, stores, config
  <2>2. ~LoopDetected(recent) =>
          \A d \in Digests : Occurrences(recent, d) < LoopThreshold
    BY <1>t, NoLoopMeansFewOccurrences DEF SessionTypeOK
  <2>3. CASE pc' = "left"
    BY <2>3 DEF NextStep
  <2>4. CASE pc' = "revise" /\ (settings.control => ~LoopDetected(recent))
    BY <2>1, <2>2, <2>4 DEF NextStep
  <2> QED
    BY <1>5, <2>3, <2>4, AfterAFailure
<1>6. CASE LoopRevise
  <2>1. NextStep = "REVISE" /\ NextStep' = "EXECUTE" /\ UNCHANGED settings
    BY <1>6 DEF LoopRevise, NextStep, Dispatched, config
  <2>2. \A e \in Digests :
          /\ Occurrences(recent, e) \in Nat
          /\ Occurrences(recent', e) \in Nat
          /\ Occurrences(recent', e) <= Occurrences(recent, e)
    BY <1>6, <1>t, ReflectionRepeatsNothing DEF LoopRevise
  <2> QED
    BY <2>1, <2>2 DEF LoopThreshold
<1>7. CASE OutOfBudget
  BY <1>7 DEF OutOfBudget, NextStep
<1>8. CASE Raises
  BY <1>8 DEF Raises, NextStep
<1>9. CASE LoopReport
  BY <1>9 DEF LoopReport, NextStep
<1>10. CASE UNCHANGED loop_vars
  BY <1>10 DEF loop_vars, workflow, stores, config, NextStep
<1> QED
  BY <1>1, <1>2, <1>3, <1>4, <1>5, <1>6, <1>7, <1>8, <1>9, <1>10 DEF LoopNext, LoopReturned

-----------------------------------------------------------------------------
(* The inductive invariant holds at the start.                               *)
LEMMA LoopInitIInv == LoopInit => LoopIInv
BY LoopInitTypeOK, InitBudgets, InitDispatched, LoopInitVerdictIsCurrent, LoopInitRepetitionSoFar
   DEF LoopIInv

(* Every step preserves the inductive invariant.                             *)
LEMMA LoopNextIInv == LoopIInv /\ [LoopNext]_loop_vars => LoopIInv'
BY LoopNextTypeOK, NextBudgets, NextDispatched, LoopNextVerdictIsCurrent, LoopNextRepetitionSoFar
   DEF LoopIInv

(* The inductive invariant holds throughout every session.                   *)
LEMMA LoopInductive == LoopSpec => []LoopIInv
BY LoopInitIInv, LoopNextIInv, PTL DEF LoopSpec

(* No session of the loop charges more than max_steps or revises more than   *)
(* max_retries times: the test before every step is enough.                  *)
THEOREM StepBudgetAlwaysStrict == LoopSpec => []StepBudgetIsStrict
<1>1. LoopIInv => StepBudgetIsStrict
  BY DEF LoopIInv, Budgets
<1> QED
  BY <1>1, LoopInductive, PTL

(* What the loop reports is true of the workspace it leaves, and out of      *)
(* steps it never reports a workspace that had passed as unsolved.           *)
THEOREM LoopOutcomeAlwaysMatches == LoopSpec => []LoopOutcomeMatches
<1>1. LoopIInv => LoopOutcomeMatches
  BY DEF LoopIInv, LoopVerdictIsCurrent, LoopOutcomeMatches
<1> QED
  BY <1>1, LoopInductive, PTL

(* With control on the loop never starts an execution that the gate's loop   *)
(* test would doom.                                                          *)
THEOREM NeverADoomedPass == LoopSpec => []NoDoomedPass
<1>1. LoopIInv => NoDoomedPass
  BY DEF LoopIInv, Dispatched, LoopRepetitionSoFar, NextStep, NoDoomedPass
<1> QED
  BY <1>1, LoopInductive, PTL

-----------------------------------------------------------------------------
(* A session starts as SessionFlow says.                                     *)
LEMMA LoopInitImplements == LoopInit => LoopFlow!Init
BY BudgetsAreNat DEF LoopInit, SessionInit, LoopFlow!Init, NextStep, LoopFlowVerdict, LoopFlowSolved

(* Every step of the loop is a step of the session the engines promise, or a *)
(* stutter.                                                                  *)
LEMMA LoopNextImplements == LoopIInv /\ [LoopNext]_loop_vars => [LoopFlow!Next]_(LoopFlow!vars)
<1> SUFFICES ASSUME LoopIInv, [LoopNext]_loop_vars PROVE [LoopFlow!Next]_(LoopFlow!vars)
  OBVIOUS
<1> USE DEF NextStep, LoopFlowVerdict, LoopFlowSolved, LoopFlow!Step, config
<1>d. Dispatched /\ LoopVerdictIsCurrent
  BY DEF LoopIInv
<1>1. CASE LoopPlan
  <2>1. LoopFlow!Plan
    BY <1>d, <1>1 DEF LoopPlan, LoopFlow!Plan, AtTop, Dispatched
  <2> QED
    BY <2>1 DEF LoopFlow!Next
<1>2. CASE LoopDispatch
  <2>1. /\ pc = "top" /\ planned /\ active_subtask_id = None
        /\ UNCHANGED <<planned, retry_count, max_retries>>
    BY <1>2 DEF LoopDispatch, AtTop
  <2>2. CASE active_subtask_id' = None
    <3>1. pc' = "left" /\ outcome' = "unresolvable"
      BY <1>2, <2>2 DEF LoopDispatch
    <3>2. LoopFlow!GiveUp
      BY <2>1, <3>1 DEF LoopFlow!GiveUp
    <3> QED
      BY <3>2 DEF LoopFlow!Next
  <2>3. CASE active_subtask_id' /= None
    <3>1. UNCHANGED pc
      BY <1>2, <2>3 DEF LoopDispatch
    <3>2. LoopFlow!Dispatch
      BY <2>1, <2>3, <3>1 DEF LoopFlow!Dispatch
    <3> QED
      BY <3>2 DEF LoopFlow!Next
  <2> QED
    BY <2>2, <2>3
<1>3. CASE LoopExecute
  <2>1. LoopFlow!Execute
    BY <1>3 DEF LoopExecute, LoopFlow!Execute, AtTop
  <2> QED
    BY <2>1 DEF LoopFlow!Next
<1>4. CASE EvaluatePass
  <2>1. LoopFlow!Pass
    BY <1>4 DEF EvaluatePass, LoopFlow!Pass
  <2> QED
    BY <2>1 DEF LoopFlow!Next
<1>5. CASE EvaluateFail
  <2>1. /\ pc = "evaluate" /\ evaluation' = "fail"
        /\ UNCHANGED <<retry_count, max_retries>>
    BY <1>5 DEF EvaluateFail
  <2>2. retry_count \in Nat /\ max_retries \in Nat
    BY DEF LoopIInv, LoopTypeOK, SessionTypeOK
  <2>3. CASE pc' = "left" /\ outcome' = "escalate"
    <3>1. LoopFlow!Fail
      BY <2>1, <2>3 DEF LoopFlow!Fail
    <3> QED
      BY <3>1 DEF LoopFlow!Next
  <2>4. CASE pc' = "revise" /\ ~(retry_count >= max_retries)
    <3>1. LoopFlow!Fail
      BY <2>1, <2>2, <2>4 DEF LoopFlow!Fail
    <3> QED
      BY <3>1 DEF LoopFlow!Next
  <2> QED
    BY <1>5, <2>3, <2>4, AfterAFailure
<1>6. CASE LoopRevise
  <2>1. planned' /\ active_subtask_id' /= None
    BY <1>d, <1>6 DEF LoopRevise, Dispatched
  <2>2. LoopFlow!Revise
    BY <1>6, <2>1 DEF LoopRevise, LoopFlow!Revise
  <2> QED
    BY <2>2 DEF LoopFlow!Next
<1>7. CASE OutOfBudget
  <2>1. outcome = "max_steps_reached" /\ outcome' = outcome
    BY <1>d, <1>7 DEF OutOfBudget, LoopVerdictIsCurrent, Working
  <2>2. LoopFlow!GiveUp
    BY <1>7, <2>1 DEF OutOfBudget, workflow, LoopFlow!GiveUp
  <2> QED
    BY <2>2 DEF LoopFlow!Next
<1>8. CASE Raises
  <2>1. /\ pc \in Working /\ pc' = "raised"
        /\ UNCHANGED max_retries
        /\ retry_count' = retry_count \/ (pc = "revise" /\ retry_count' = retry_count + 1)
    BY <1>8 DEF Raises, AtTop, Working
  <2>2. LoopFlow!GiveUp
    BY <2>1 DEF LoopFlow!GiveUp, Working
  <2> QED
    BY <2>2 DEF LoopFlow!Next
<1>9. CASE LoopReport
  <2>1. LoopFlow!Return
    BY <1>d, <1>9 DEF LoopReport, Over, workflow, LoopFlow!Return, LoopVerdictIsCurrent
  <2> QED
    BY <2>1 DEF LoopFlow!Next
<1>10. CASE UNCHANGED loop_vars
  BY <1>10 DEF loop_vars, workflow, loop_result, LoopFlow!vars
<1> QED
  BY <1>1, <1>2, <1>3, <1>4, <1>5, <1>6, <1>7, <1>8, <1>9, <1>10 DEF LoopNext, LoopReturned

(* The loop is a session as SessionFlow describes it, like the graph: where  *)
(* they may differ is in when they give up.                                  *)
THEOREM LoopEngineImplementsFlow == LoopSpec => LoopImplementsFlow
BY LoopInitImplements, LoopNextImplements, LoopInductive, PTL DEF LoopSpec, LoopImplementsFlow, LoopFlow!Spec
=============================================================================
