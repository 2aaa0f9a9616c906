----------------------- MODULE InteractiveTurnProofs -----------------------
(***************************************************************************)
(* Theorems about an interactive turn of the executor, for any decisions,  *)
(* phase budgets, retry budgets and settings, with their proofs.           *)
(***************************************************************************)
EXTENDS InteractiveTurn, DecisionLogProofs

-----------------------------------------------------------------------------
\* What an attempt has recorded is a decision, and made while there was a turn.
RecordedSoFar == recorded => decision \in Decisions

\* Once bound there is an attempt left.  Before, with control on, every attempt
\* has recorded nothing and cost a retry, and nothing has been billed.
AttemptsSoFar ==
  /\ bound /\ pc \in {"attempt", "react"} => attempts_left > 0
  /\ settings.control /\ ~bound =>
       /\ ~recorded
       /\ phase_billable = 0
       /\ pc \in {"attempt", "react"} => retry_count <= max_retries
       /\ pc = "attempt" => attempts_left + retry_count = max_retries + 3
       /\ pc = "react" => attempts_left + retry_count = max_retries + 2

\* What a phase has been billed, and will have been after this attempt.
BillingSoFar ==
  /\ bound => max_steps = PhaseBudgets[compound_phase]
  /\ settings.control /\ pc = "react" =>
       /\ phase_billable <= max_steps
       /\ billed_before < IF max_steps = 0 THEN 1 ELSE max_steps
  /\ PhaseBudgetsRespected

\* Where the turn's permission to write comes from.
LicenseSoFar ==
  /\ ~bound => binder = "none"
  /\ binder /= "earlier_turn" /\ ~licensed => read_only
  /\ recorded /\ IsHandoff(decision, "needs_edit") => licensed
  /\ WritesAreLicensed

IInv ==
  /\ TypeOK /\ RecordedSoFar /\ AttemptsSoFar /\ BillingSoFar
  /\ LicenseSoFar /\ NoWriteAfterEdit

-----------------------------------------------------------------------------
(* No phase has a larger budget than the largest, and it is a number.        *)
LEMMA LargestBudgetIsLargest == LargestBudget \in Nat /\ LargestBudget >= 1
<1> DEFINE S == {PhaseBudgets[p] : p \in Phases} \union {1}
           P(b) == \A p \in Phases : b >= PhaseBudgets[p] /\ b >= 1
<1>1. S = {PhaseBudgets["inspect"], PhaseBudgets["edit"], PhaseBudgets["run"],
           PhaseBudgets["answer"], PhaseBudgets["build"], 1}
  BY DEF Phases
<1>2. \A b \in S : b \in Nat
  BY PhaseBudgetsAreNat
<1>3. \E b \in S : P(b)
  BY <1>1, <1>2 DEF Phases
<1>4. LargestBudget \in S /\ P(LargestBudget)
  <2>1. LargestBudget = CHOOSE b \in S : P(b)
    BY DEF LargestBudget
  <2> HIDE DEF S, P
  <2> QED
    BY <1>3, <2>1, Zenon
<1> QED
  BY <1>2, <1>4 DEF Phases

LEMMA CapsAreNat ==
  ASSUME max_retries \in RetryBudgets
  PROVE  max_retries \in Nat /\ AttemptsCap \in Nat /\ RetriesCap \in Nat
BY BudgetsAreNat, LargestBudgetIsLargest DEF AttemptsCap, RetriesCap

(* After any number of attempts at least one more is allowed a phase.        *)
LEMMA LeftAfterIsPositive ==
  ASSUME max_retries \in Nat, NEW steps \in Nat, NEW tries \in Nat
  PROVE  LeftAfter(steps, tries) \in Nat /\ LeftAfter(steps, tries) > 0
BY DEF LeftAfter

LEMMA PlusOneStays ==
  ASSUME NEW cap \in Nat, NEW n \in 0..cap
  PROVE  PlusOneUpTo(n, cap) \in 0..cap
BY DEF PlusOneUpTo

(* The initial states are well typed.                                        *)
LEMMA InitTypeOK == Init => TypeOK
<1> SUFFICES ASSUME Init PROVE TypeOK
  OBVIOUS
<1>1. max_retries \in RetryBudgets /\ settings \in Ablations
  BY DEF Init
<1>2. AttemptsCap \in Nat /\ RetriesCap \in Nat /\ max_retries \in Nat
  BY <1>1, CapsAreNat
<1>3. /\ attempts \in 0..AttemptsCap /\ retry_count \in 0..RetriesCap
      /\ attempts_left \in Nat
  BY <1>2 DEF Init
<1>4. icp \in [phase : {"gather", "must_finalize_or_continue"},
               tools_used : SUBSET {ToolKey(d) : d \in Decisions}, after_edit : BOOLEAN]
  BY DEF Init, IcpInitial
<1>5. recent \in Seq({Digest(d) : d \in Decisions})
  BY EmptySeq DEF Init
<1>6. decision \in Decisions \union Earlier \union {None}
  BY Zenon DEF Init
<1>7. phase_cycles \in [Phases -> Nat] /\ compound_phase \in Phases
  BY DEF Init, Phases
<1>8. /\ pc \in ControlPoints /\ bound \in BOOLEAN
      /\ binder \in {"none", "this_turn", "earlier_turn"}
      /\ phase_billable \in Nat /\ max_steps \in Nat /\ billed_before \in Nat
      /\ read_only \in BOOLEAN /\ licensed \in BOOLEAN /\ recorded \in BOOLEAN
      /\ tool_result \in {"none", "ok", "failed"} /\ edit_result \in {"none", "ok", "failed"}
      /\ wrote \in BOOLEAN /\ tool_results \in BOOLEAN
      /\ outcome \in Outcomes /\ step_count \in Nat
  BY DEF Init, ControlPoints, Outcomes
<1>9. edits_done \subseteq {d.payload.path : d \in Decisions} \ {""}
  BY DEF Init
<1> QED
  BY <1>1, <1>3, <1>4, <1>5, <1>6, <1>7, <1>8, <1>9 DEF TypeOK

LEMMA InitRecordedSoFar == Init => RecordedSoFar
BY DEF Init, RecordedSoFar

(* What a cycle leaves behind.                                               *)
LEMMA CycleTypes ==
  ASSUME TypeOK, Cycle
  PROVE  /\ recorded' \in BOOLEAN /\ (recorded' => decision' \in Decisions)
         /\ decision' \in Decisions \union Earlier \union {None}
         /\ recent' \in Seq({Digest(d) : d \in Decisions})
         /\ tool_result' \in {"none", "ok", "failed"}
         /\ edit_result' \in {"none", "ok", "failed"}
         /\ wrote' \in BOOLEAN
         /\ (licensed \in BOOLEAN => licensed' \in BOOLEAN)
<1>1. CASE /\ recorded' = FALSE
           /\ tool_result' = "none" /\ edit_result' = "none" /\ wrote' = FALSE
           /\ UNCHANGED <<decision, recent, licensed>>
  BY <1>1 DEF TypeOK
<1>2. ASSUME NEW d \in Decisions,
             recorded' = TRUE, decision' = d,
             recent' = IF settings.error_control
                       THEN AppendLastN(recent, Digest(d), LoopWindow) ELSE recent,
             licensed' = (licensed \/ DeclaresWriting(d) \/ IsHandoff(d, "needs_edit")),
             Effect(d)
      PROVE  /\ recorded' \in BOOLEAN /\ (recorded' => decision' \in Decisions)
             /\ decision' \in Decisions \union Earlier \union {None}
             /\ recent' \in Seq({Digest(x) : x \in Decisions})
             /\ tool_result' \in {"none", "ok", "failed"}
             /\ edit_result' \in {"none", "ok", "failed"}
             /\ wrote' \in BOOLEAN
             /\ (licensed \in BOOLEAN => licensed' \in BOOLEAN)
  <2>1. recent' \in Seq({Digest(x) : x \in Decisions})
    <3> DEFINE D == {Digest(x) : x \in Decisions}
    <3>1. Digest(d) \in D /\ recent \in Seq(D)
      BY DEF TypeOK
    <3> HIDE DEF D
    <3>2. AppendLastN(recent, Digest(d), LoopWindow) \in Seq(D)
      BY <3>1, AppendToWindow DEF LoopWindow
    <3> QED
      BY <1>2, <3>1, <3>2 DEF D
  <2>2. tool_result' \in {"none", "ok", "failed"}
    BY <1>2 DEF Effect
  <2>3. edit_result' \in {"none", "ok", "failed"} /\ wrote' \in BOOLEAN
    BY <1>2 DEF Effect, RunsCommand
  <2>4. licensed \in BOOLEAN => licensed' \in BOOLEAN
    BY <1>2 DEF DeclaresWriting, IsHandoff
  <2> QED
    BY <1>2, <2>1, <2>2, <2>3, <2>4
<1> QED
  BY <1>1, <1>2 DEF Cycle

(* A turn is bound to a phase and its budget.                                *)
LEMMA BindTypes ==
  ASSUME TypeOK, Bind
  PROVE  /\ bound' \in BOOLEAN /\ binder' \in {"none", "this_turn", "earlier_turn"}
         /\ compound_phase' \in Phases /\ phase_billable' \in Nat
         /\ phase_cycles' \in [Phases -> Nat] /\ max_steps' \in Nat
         /\ read_only' \in BOOLEAN
<1>1. CASE ~bound /\ decision' /= None /\ DeclaresTurnType(decision')
  <2>1. decision'.payload.turn_type \in Phases
    BY <1>1 DEF DeclaresTurnType, TurnTypes, Phases
  <2>2. PhaseBudgets[decision'.payload.turn_type] \in Nat
    BY <2>1, PhaseBudgetsAreNat
  <2> QED
    BY <1>1, <2>1, <2>2 DEF Bind
<1>2. CASE ~(~bound /\ decision' /= None /\ DeclaresTurnType(decision'))
  BY <1>2 DEF Bind, TypeOK
<1> QED
  BY <1>1, <1>2

(* What the loop does with an outcome, the turn's variables aside.           *)
LEMMA ReactTypes ==
  ASSUME TypeOK, NEW next \in ControlPoints, React(next)
  PROVE  /\ pc' \in ControlPoints
         /\ attempts' \in 0..AttemptsCap' /\ RetriesCap' = RetriesCap
         /\ bound' \in BOOLEAN /\ binder' \in {"none", "this_turn", "earlier_turn"}
         /\ max_retries' \in RetryBudgets /\ settings' \in Ablations
         /\ billed_before' \in Nat
         /\ recent' \in Seq({Digest(d) : d \in Decisions})
         /\ recorded' \in BOOLEAN
         /\ decision' \in Decisions \union Earlier \union {None}
         /\ tool_result' \in {"none", "ok", "failed"}
         /\ edit_result' \in {"none", "ok", "failed"}
         /\ wrote' \in BOOLEAN /\ licensed' \in BOOLEAN
BY DEF React, TypeOK, attempt, config, AttemptsCap, RetriesCap

LEMMA NextRecordedSoFar == TypeOK /\ RecordedSoFar /\ [Next]_vars => RecordedSoFar'
<1> SUFFICES ASSUME TypeOK, RecordedSoFar, [Next]_vars PROVE RecordedSoFar'
  OBVIOUS
<1>1. CASE Attempt
  BY <1>1, CycleTypes DEF Attempt, RecordedSoFar
<1>2. CASE UNCHANGED <<recorded, decision>>
  BY <1>2 DEF RecordedSoFar
<1>3. Attempt \/ UNCHANGED attempt
  BY DEF Next, vars, AttemptRaises, LoopEnds, React, NoDecision, Terminate,
         HandOffToPlanner, PromoteToEdit, PromoteToRun, Promote, RejectReadOnly,
         ToolCall, CodeEdit, OtherKind, WrapUp, Finalizer, Returned
<1> QED
  BY <1>1, <1>2, <1>3 DEF attempt

(* The counters and their caps are natural numbers.                          *)
LEMMA NumbersAreTyped ==
  ASSUME TypeOK
  PROVE  /\ max_retries \in Nat /\ AttemptsCap \in Nat /\ RetriesCap \in Nat
         /\ attempts \in 0..AttemptsCap /\ attempts \in Nat /\ attempts_left \in Nat
         /\ retry_count \in 0..RetriesCap /\ retry_count \in Nat
         /\ billed_before \in Nat /\ phase_billable \in Nat /\ max_steps \in Nat
         /\ step_count \in Nat /\ phase_cycles \in [Phases -> Nat]
<1>1. /\ max_retries \in RetryBudgets /\ attempts \in 0..AttemptsCap
      /\ attempts_left \in Nat /\ retry_count \in 0..RetriesCap
      /\ billed_before \in Nat /\ phase_billable \in Nat /\ max_steps \in Nat
      /\ step_count \in Nat /\ phase_cycles \in [Phases -> Nat]
  BY Zenon DEF TypeOK
<1>2. max_retries \in Nat /\ AttemptsCap \in Nat /\ RetriesCap \in Nat
  BY <1>1, CapsAreNat
<1> QED
  BY <1>1, <1>2

(* Every step keeps the types.                                               *)
LEMMA NextTypeOK == TypeOK /\ RecordedSoFar /\ [Next]_vars => TypeOK'
<1> SUFFICES ASSUME TypeOK, RecordedSoFar, [Next]_vars PROVE TypeOK'
  OBVIOUS
<1>t. /\ max_retries \in Nat /\ AttemptsCap \in Nat /\ RetriesCap \in Nat
      /\ attempts \in 0..AttemptsCap /\ attempts \in Nat /\ attempts_left \in Nat
      /\ retry_count \in 0..RetriesCap
      /\ billed_before \in Nat /\ phase_billable \in Nat /\ step_count \in Nat
      /\ phase_cycles \in [Phases -> Nat]
  BY NumbersAreTyped
<1>c. UNCHANGED max_retries => AttemptsCap' = AttemptsCap /\ RetriesCap' = RetriesCap
  BY DEF AttemptsCap, RetriesCap
<1>b. Bill => phase_billable' \in Nat
  BY <1>t DEF Bill
<1>r. Retry => retry_count' \in 0..RetriesCap
  BY <1>t, PlusOneStays DEF Retry
<1>u. TotalWith(billed_before + 1) \in Nat /\ TotalSteps \in Nat
  BY <1>t DEF TotalWith, TotalSteps, Phases
<1>i. IcpInitial \in [phase : {"gather", "must_finalize_or_continue"},
                      tools_used : SUBSET {ToolKey(d) : d \in Decisions},
                      after_edit : BOOLEAN]
  BY DEF IcpInitial
\* The variables of the turn when only its result changes.
<1>k. ASSUME UNCHANGED <<turn, attempt, tool_results, config>>,
             pc' \in ControlPoints, outcome' \in Outcomes, step_count' \in Nat
      PROVE  TypeOK'
  <2>1. /\ UNCHANGED <<attempts, attempts_left, bound, binder, compound_phase,
                        phase_billable, phase_cycles, max_steps, retry_count, read_only,
                        icp, edits_done>>
        /\ UNCHANGED <<billed_before, recent, recorded, decision, tool_result,
                        edit_result, wrote, licensed>>
        /\ UNCHANGED <<tool_results, max_retries, settings>>
    BY <1>k DEF turn, attempt, config
  <2> QED
    <3>1. /\ icp' = icp /\ edits_done' = edits_done /\ recent' = recent
          /\ decision' = decision /\ settings' = settings /\ max_retries' = max_retries
      BY <2>1
    <3>2. /\ icp' \in [phase : {"gather", "must_finalize_or_continue"},
                        tools_used : SUBSET {ToolKey(d) : d \in Decisions},
                        after_edit : BOOLEAN]
          /\ edits_done' \subseteq {d.payload.path : d \in Decisions} \ {""}
          /\ recent' \in Seq({Digest(d) : d \in Decisions})
          /\ decision' \in Decisions \union Earlier \union {None}
          /\ settings' \in Ablations /\ max_retries' \in RetryBudgets
      BY <3>1 DEF TypeOK
    <3>3. /\ attempts' \in 0..AttemptsCap' /\ attempts_left' \in Nat
          /\ retry_count' \in 0..RetriesCap' /\ billed_before' \in Nat
          /\ phase_billable' \in Nat /\ max_steps' \in Nat
          /\ phase_cycles' \in [Phases -> Nat]
      BY <1>c, <2>1, NumbersAreTyped
    <3>4. /\ bound' \in BOOLEAN /\ binder' \in {"none", "this_turn", "earlier_turn"}
          /\ compound_phase' \in Phases /\ read_only' \in BOOLEAN
          /\ recorded' \in BOOLEAN /\ wrote' \in BOOLEAN /\ licensed' \in BOOLEAN
          /\ tool_result' \in {"none", "ok", "failed"}
          /\ edit_result' \in {"none", "ok", "failed"} /\ tool_results' \in BOOLEAN
      BY <2>1 DEF TypeOK
    <3> QED
      BY <1>k, <3>2, <3>3, <3>4 DEF TypeOK
\* The other variables of the turn when a decision is billed, or not.
<1>m. ASSUME NEW next \in ControlPoints, React(next), phase_billable' \in Nat,
             UNCHANGED <<attempts_left, compound_phase, phase_cycles, max_steps, read_only>>,
             retry_count' \in 0..RetriesCap,
             icp' \in [phase : {"gather", "must_finalize_or_continue"},
                       tools_used : SUBSET {ToolKey(d) : d \in Decisions},
                       after_edit : BOOLEAN],
             edits_done' \subseteq {d.payload.path : d \in Decisions} \ {""},
             tool_results' \in BOOLEAN, outcome' \in Outcomes, step_count' \in Nat
      PROVE  TypeOK'
  BY <1>m, ReactTypes DEF TypeOK
<1>1. CASE Attempt
  <2>1. attempts' \in 0..AttemptsCap /\ attempts' \in Nat
    <3>1. attempts' = PlusOneUpTo(attempts, AttemptsCap)
      BY <1>1 DEF Attempt
    <3> QED
      BY <1>t, <3>1, PlusOneStays
  <2>2. /\ recorded' \in BOOLEAN /\ decision' \in Decisions \union Earlier \union {None}
        /\ recent' \in Seq({Digest(d) : d \in Decisions})
        /\ tool_result' \in {"none", "ok", "failed"}
        /\ edit_result' \in {"none", "ok", "failed"}
        /\ wrote' \in BOOLEAN /\ licensed' \in BOOLEAN
    <3>1. licensed \in BOOLEAN
      BY Zenon DEF TypeOK
    <3>2. Cycle
      BY <1>1 DEF Attempt
    <3> QED
      BY <3>1, <3>2, CycleTypes
  <2>3. /\ bound' \in BOOLEAN /\ binder' \in {"none", "this_turn", "earlier_turn"}
        /\ compound_phase' \in Phases /\ phase_billable' \in Nat
        /\ phase_cycles' \in [Phases -> Nat] /\ max_steps' \in Nat
        /\ read_only' \in BOOLEAN
    BY <1>1, BindTypes DEF Attempt
  <2>4. UNCHANGED <<retry_count, icp, edits_done, tool_results, max_retries, settings,
                    outcome, step_count>>
    BY <1>1 DEF Attempt, config, result
  <2>5. attempts_left' \in Nat
    <3>1. CASE bound'
      <4>1. attempts_left' = LeftAfter(max_steps', attempts')
        BY <1>1, <2>3, <2>4, <3>1 DEF Attempt
      <4> QED
        BY <1>t, <2>1, <2>3, <2>4, <4>1, LeftAfterIsPositive
    <3>2. CASE ~bound'
      BY <1>1, <1>t, <3>2 DEF Attempt, LoopGoesOn
    <3> QED
      BY <3>1, <3>2
  <2>6. pc' \in ControlPoints /\ billed_before' \in Nat
    BY <1>1, <1>t DEF Attempt, ControlPoints
  <2> QED
    BY <1>c, <2>1, <2>2, <2>3, <2>4, <2>5, <2>6 DEF TypeOK
<1>2. CASE AttemptRaises \/ LoopEnds
  <2>1. pc' \in ControlPoints /\ outcome' \in Outcomes /\ step_count' = step_count
    BY <1>2 DEF AttemptRaises, LoopEnds, ControlPoints, Outcomes, result, TypeOK
  <2>2. UNCHANGED <<turn, attempt, tool_results, config>>
    BY <1>2 DEF AttemptRaises, LoopEnds
  <2> QED
    BY <1>k, <1>t, <2>1, <2>2
<1>3. CASE NoDecision
  <2>1. \E next \in ControlPoints : React(next)
    BY <1>3 DEF NoDecision, ControlPoints
  <2> QED
    BY <1>3, <1>m, <1>r, <2>1 DEF NoDecision, result, TypeOK
<1>4. CASE Terminate
  <2>1. outcome' \in Outcomes
    BY <1>4 DEF Terminate, Outcomes
  <2>2. React("returned") /\ "returned" \in ControlPoints
    BY <1>4 DEF Terminate, ControlPoints
  <2> QED
    BY <1>4, <1>b, <1>m, <1>u, <2>1, <2>2 DEF Terminate, TypeOK
<1>5. CASE HandOffToPlanner
  <2>1. outcome' \in Outcomes
    BY <1>5 DEF HandOffToPlanner, Outcomes
  <2>2. React("returned") /\ "returned" \in ControlPoints
    BY <1>5 DEF HandOffToPlanner, ControlPoints
  <2> QED
    BY <1>5, <1>b, <1>m, <1>u, <2>1, <2>2 DEF HandOffToPlanner, TypeOK
<1>6. ASSUME NEW target \in Phases, NEW reason, Promote(target, reason)
      PROVE  TypeOK'
  <2>1. React("attempt") /\ "attempt" \in ControlPoints
    BY <1>6 DEF Promote, ControlPoints
  <2>2. max_steps' \in Nat /\ compound_phase' \in Phases /\ phase_billable' \in Nat
        /\ read_only' \in BOOLEAN
    BY <1>6, PhaseBudgetsAreNat DEF Promote
  <2>3. attempts_left' \in Nat
    <3>1. attempts_left' = LeftAfter(max_steps', attempts)
      BY <1>6 DEF Promote
    <3> QED
      BY <1>t, <2>2, <3>1, LeftAfterIsPositive
  <2>4. phase_cycles' \in [Phases -> Nat]
    BY <1>6, <1>t DEF Promote, TypeOK
  <2>5. icp' = IcpInitial
    BY <1>6 DEF Promote
  <2>6. UNCHANGED <<retry_count, edits_done, tool_results, outcome, step_count>>
    BY <1>6 DEF Promote, result
  <2> QED
    BY <1>i, <2>1, <2>2, <2>3, <2>4, <2>5, <2>6, ReactTypes DEF TypeOK
<1>7. CASE PromoteToEdit \/ PromoteToRun
  BY <1>6, <1>7 DEF PromoteToEdit, PromoteToRun, Phases
<1>8. CASE RejectReadOnly
  <2>1. React("attempt") /\ "attempt" \in ControlPoints
    BY <1>8 DEF RejectReadOnly, ControlPoints
  <2> QED
    BY <1>8, <1>b, <1>m, <1>r, <2>1 DEF RejectReadOnly, result, TypeOK
<1>9. CASE ToolCall
  <2>1. React("attempt") /\ "attempt" \in ControlPoints
    BY <1>9 DEF ToolCall, ControlPoints
  <2>2. icp' \in [phase : {"gather", "must_finalize_or_continue"},
                  tools_used : SUBSET {ToolKey(d) : d \in Decisions}, after_edit : BOOLEAN]
    <3>1. ToolKey(decision) \in {ToolKey(d) : d \in Decisions}
      BY <1>9 DEF ToolCall, RecordedSoFar
    <3> QED
      BY <1>9, <3>1 DEF ToolCall, IcpAfterSuccessfulTool, TypeOK
  <2>3. retry_count' \in 0..RetriesCap /\ tool_results' \in BOOLEAN
    BY <1>9, <1>r DEF ToolCall, TypeOK
  <2> QED
    BY <1>9, <1>b, <1>m, <2>1, <2>2, <2>3 DEF ToolCall, result, TypeOK
<1>10. CASE CodeEdit
  <2>1. React("attempt") /\ "attempt" \in ControlPoints
    BY <1>10 DEF CodeEdit, ControlPoints
  <2>2. retry_count' \in 0..RetriesCap
    BY <1>10, <1>r DEF CodeEdit, TypeOK
  <2>3. icp' \in [phase : {"gather", "must_finalize_or_continue"},
                  tools_used : SUBSET {ToolKey(d) : d \in Decisions}, after_edit : BOOLEAN]
    <3>1. icp' \in {icp, IcpAfterSuccessfulEdit(icp)}
      BY <1>10 DEF CodeEdit
    <3> QED
      BY <3>1 DEF IcpAfterSuccessfulEdit, TypeOK
  <2>4. edits_done' \subseteq {d.payload.path : d \in Decisions} \ {""}
        /\ tool_results' \in BOOLEAN
    <3>1. decision.payload.path \in {d.payload.path : d \in Decisions}
      BY <1>10 DEF CodeEdit, RecordedSoFar
    <3> QED
      BY <1>10, <3>1 DEF CodeEdit, RememberedPath, TypeOK
  <2> QED
    BY <1>10, <1>b, <1>m, <2>1, <2>2, <2>3, <2>4 DEF CodeEdit, result, TypeOK
<1>11. CASE OtherKind
  <2>1. React("wrap_up") /\ "wrap_up" \in ControlPoints
    BY <1>11 DEF OtherKind, ControlPoints
  <2> QED
    BY <1>11, <1>b, <1>m, <2>1 DEF OtherKind, result, TypeOK
<1>12. CASE WrapUp \/ Finalizer
  <2>1. pc' \in ControlPoints /\ outcome' \in Outcomes /\ step_count' \in Nat
    <3>1. pc' \in ControlPoints
      BY <1>12 DEF WrapUp, Finalizer, ControlPoints
    <3>2. step_count' \in Nat
      <4>1. CASE WrapUp
        BY <1>u, <4>1 DEF WrapUp
      <4>2. CASE Finalizer
        <5>1. step_count' = step_count \/ step_count' = step_count + 1
          BY <4>2, Zenon DEF Finalizer
        <5> QED
          BY <1>t, <5>1
      <4> QED
        BY <1>12, <4>1, <4>2
    <3>3. outcome \in Outcomes
      BY Zenon DEF TypeOK
    <3>4. outcome' \in Outcomes
      BY <1>12, <3>3 DEF WrapUp, Finalizer, Outcomes
    <3> QED
      BY <3>1, <3>2, <3>4
  <2>2. UNCHANGED <<turn, attempt, tool_results, config>>
    BY <1>12 DEF WrapUp, Finalizer
  <2> QED
    BY <1>k, <2>1, <2>2
<1>13. CASE UNCHANGED vars
  <2>1. /\ UNCHANGED <<turn, attempt, tool_results, config>>
        /\ pc' = pc /\ outcome' = outcome /\ step_count' = step_count
    BY <1>13 DEF vars, result
  <2>2. pc \in ControlPoints /\ outcome \in Outcomes /\ step_count \in Nat
    BY Zenon DEF TypeOK
  <2> QED
    BY <1>k, <2>1, <2>2
<1> QED
  BY <1>1, <1>2, <1>3, <1>4, <1>5, <1>7, <1>8, <1>9, <1>10, <1>11, <1>12, <1>13
     DEF Next, Returned

(* Every variable keeps its type however long the turn goes on: the counters *)
(* that bound it stay at their caps, and only what was decided is remembered. *)
THEOREM TypeCorrect == Spec => []TypeOK
BY InitTypeOK, NextTypeOK, InitRecordedSoFar, NextRecordedSoFar, PTL DEF Spec

-----------------------------------------------------------------------------
(* Whether a cycle is recorded, it passed the checks that are switched on.   *)
LEMMA RecordedIsChecked ==
  ASSUME Cycle, recorded'
  PROVE  /\ settings.control => Accepts("executor", decision', << >>, ~bound, icp, FALSE)
         /\ licensed' = (\/ licensed \/ DeclaresWriting(decision')
                         \/ IsHandoff(decision', "needs_edit"))
         /\ Effect(decision') /\ decision' \in Decisions
BY DEF Cycle

(* A turn that was not bound is bound by the decision it made, if that       *)
(* declares a type, or by the last one of an earlier turn.                   *)
LEMMA BoundByDeclaration ==
  ASSUME Bind, TypeOK, bound \/ (recorded' /\ decision' \in Decisions
                                   /\ DeclaresTurnType(decision'))
  PROVE  bound'
<1>1. bound \in BOOLEAN
  BY Zenon DEF TypeOK
<1>2. CASE bound
  BY <1>1, <1>2 DEF Bind
<1>3. CASE ~bound
  BY <1>3, NoneIsNoDecision DEF Bind
<1> QED
  BY <1>2, <1>3

(* What every step but an attempt leaves alone.                              *)
LEMMA AfterTheAttempt ==
  ASSUME [Next]_vars
  PROVE  \/ Attempt
         \/ UNCHANGED <<attempts, bound, binder, attempt, config>>
BY DEF Next, vars, turn, AttemptRaises, LoopEnds, React, NoDecision, Terminate,
       HandOffToPlanner, PromoteToEdit, PromoteToRun, Promote, RejectReadOnly,
       ToolCall, CodeEdit, OtherKind, WrapUp, Finalizer, Returned

LEMMA InitAttemptsSoFar == Init => AttemptsSoFar
<1> SUFFICES ASSUME Init PROVE AttemptsSoFar
  OBVIOUS
<1>1. max_retries \in Nat
  BY BudgetsAreNat DEF Init
<1> QED
  BY <1>1 DEF Init, AttemptsSoFar

(* An attempt of a turn that is bound is followed by another one at least;   *)
(* an attempt that leaves it unbound has recorded nothing, and is retried    *)
(* only while there are retries.                                             *)
LEMMA NextAttemptsSoFar == TypeOK /\ AttemptsSoFar /\ [Next]_vars => AttemptsSoFar'
<1> SUFFICES ASSUME TypeOK, AttemptsSoFar, [Next]_vars PROVE AttemptsSoFar'
  OBVIOUS
<1>t. /\ max_retries \in Nat /\ retry_count \in Nat /\ attempts_left \in Nat
      /\ attempts \in Nat
  BY NumbersAreTyped
<1>b. bound \in BOOLEAN /\ recorded \in BOOLEAN
  BY Zenon DEF TypeOK
<1> USE DEF AttemptsSoFar
\* Nothing is claimed of a turn that has left the loop, but what it billed.
<1>1. CASE Attempt
  <2>1. /\ pc = "attempt" /\ pc' = "react" /\ Cycle /\ Bind
        /\ UNCHANGED <<retry_count, max_retries, settings>>
    BY <1>1 DEF Attempt, config
  <2>2. CASE bound'
    <3>1. attempts_left' = LeftAfter(max_steps', attempts')
      BY <1>1, <2>2 DEF Attempt
    <3>2. max_steps' \in Nat /\ attempts' \in Nat
      <4>1. attempts' = PlusOneUpTo(attempts, AttemptsCap)
        BY <1>1 DEF Attempt
      <4>2. attempts' \in Nat
        BY <1>t, <4>1, NumbersAreTyped, PlusOneStays
      <4> QED
        BY <2>1, <4>2, BindTypes
    <3>3. attempts_left' > 0
      BY <1>t, <2>1, <3>1, <3>2, LeftAfterIsPositive DEF LeftAfter
    <3> QED
      BY <2>2, <3>3
  <2>3. CASE ~bound' /\ settings.control
    <3>1. ~bound
      BY <2>1, <2>3, BoundByDeclaration
    <3>2. ~recorded'
      <4> SUFFICES ASSUME recorded' PROVE FALSE
        OBVIOUS
      <4>1. DeclaresTurnType(decision') /\ decision' \in Decisions
        BY <2>1, <2>3, <3>1, RecordedIsChecked DEF Accepts
      <4> QED
        BY <2>1, <2>3, <4>1, BoundByDeclaration
    <3>3. phase_billable' = phase_billable
      BY <2>1, <2>3 DEF Bind
    <3>4. attempts_left' = attempts_left - 1
      BY <1>1, <2>3 DEF Attempt
    <3> QED
      BY <1>t, <2>1, <2>3, <3>1, <3>2, <3>3, <3>4
  <2>4. CASE ~bound' /\ ~settings.control
    BY <2>1, <2>4
  <2> QED
    BY <2>2, <2>3, <2>4
<1>2. CASE AttemptRaises \/ LoopEnds
  <2>1. /\ UNCHANGED <<bound, recorded, phase_billable, settings>>
        /\ pc' \in {"returned", "wrap_up"}
    BY <1>2 DEF AttemptRaises, LoopEnds, turn, attempt, config
  <2> QED
    BY <2>1
<1>3. CASE NoDecision
  <2>1. /\ UNCHANGED <<bound, recorded, phase_billable, settings, max_retries, attempts_left>>
        /\ pc = "react" /\ retry_count' = PlusOneUpTo(retry_count, RetriesCap)
        /\ pc' = IF retry_count' > max_retries THEN "wrap_up" ELSE "attempt"
    BY <1>3 DEF NoDecision, React, attempt, config, Retry
  <2>2. retry_count <= max_retries => retry_count' = retry_count + 1
    BY <1>t, <2>1 DEF PlusOneUpTo, RetriesCap
  <2> QED
    BY <1>t, <2>1, <2>2
<1>4. CASE Terminate \/ HandOffToPlanner \/ RejectReadOnly \/ ToolCall \/ CodeEdit \/ OtherKind
  <2>1. /\ recorded /\ pc = "react"
        /\ UNCHANGED <<bound, recorded, settings, attempts_left>>
    BY <1>4 DEF Terminate, HandOffToPlanner, RejectReadOnly, ToolCall, CodeEdit, OtherKind,
                React, attempt, config
  <2> QED
    BY <2>1
<1>5. ASSUME NEW target \in Phases, NEW reason, Promote(target, reason)
      PROVE  AttemptsSoFar'
  <2>1. /\ recorded /\ UNCHANGED <<bound, recorded, settings>>
        /\ max_steps' = PhaseBudgets[target]
        /\ attempts_left' = LeftAfter(max_steps', attempts)
    BY <1>5 DEF Promote, React, attempt, config
  <2>2. LeftAfter(max_steps', attempts) > 0
    BY <1>t, <2>1, PhaseBudgetsAreNat, LeftAfterIsPositive
  <2> QED
    BY <2>1, <2>2
<1>6. CASE PromoteToEdit \/ PromoteToRun
  BY <1>5, <1>6 DEF PromoteToEdit, PromoteToRun, Phases
<1>7. CASE WrapUp \/ Finalizer
  <2>1. /\ UNCHANGED <<bound, recorded, phase_billable, settings>>
        /\ pc' \in {"returned", "finalizer"}
    BY <1>7 DEF WrapUp, Finalizer, turn, attempt, config
  <2> QED
    BY <2>1
<1>8. CASE UNCHANGED vars
  BY <1>8 DEF vars, turn, attempt, config, result
<1> QED
  BY <1>1, <1>2, <1>3, <1>4, <1>6, <1>7, <1>8 DEF Next, Returned

-----------------------------------------------------------------------------
(* Settings are switches that are on or off.                                 *)
LEMMA ControlIsASwitch == TypeOK => settings.control \in BOOLEAN
<1>1. TypeOK => settings \in Ablations
  BY Zenon DEF TypeOK
<1> QED
  BY <1>1, AblationsAreSettings

LEMMA InitBillingSoFar == Init => BillingSoFar
<1> SUFFICES ASSUME Init PROVE BillingSoFar
  OBVIOUS
<1>1. \A p \in Phases : phase_cycles[p] = 0 /\ PhaseBudgets[p] \in Nat
  BY PhaseBudgetsAreNat DEF Init
<1>2. bound = FALSE /\ pc = "attempt" /\ phase_billable = 0 /\ max_steps = 1
  BY DEF Init
<1> QED
  BY <1>1, <1>2 DEF BillingSoFar, PhaseBudgetsRespected

(* An attempt is made while something is left of the phase's budget, and its *)
(* decision is billed once or not at all.  The binding that starts a new     *)
(* budget happens, with control on, before anything has been billed.         *)
LEMMA NextBillingSoFar ==
  TypeOK /\ AttemptsSoFar /\ BillingSoFar /\ [Next]_vars => BillingSoFar'
<1> SUFFICES ASSUME TypeOK, AttemptsSoFar, BillingSoFar, [Next]_vars PROVE BillingSoFar'
  OBVIOUS
<1>t. /\ phase_billable \in Nat /\ max_steps \in Nat /\ billed_before \in Nat
      /\ phase_cycles \in [Phases -> Nat]
  BY NumbersAreTyped
<1>b. bound \in BOOLEAN /\ recorded \in BOOLEAN /\ settings.control \in BOOLEAN
      /\ compound_phase \in Phases
  <2>1. bound \in BOOLEAN /\ recorded \in BOOLEAN /\ compound_phase \in Phases
    BY Zenon DEF TypeOK
  <2> QED
    BY <2>1, ControlIsASwitch
<1>p. \A p \in Phases : PhaseBudgets[p] \in Nat
  BY PhaseBudgetsAreNat
<1> USE DEF BillingSoFar, PhaseBudgetsRespected
\* The loop goes on or ends, and the attempt's decision is billed or not.
<1>m. ASSUME UNCHANGED <<bound, settings, compound_phase, max_steps, phase_cycles>>,
             pc' /= "react",
             \/ UNCHANGED phase_billable
             \/ pc = "react" /\ Bill
      PROVE  BillingSoFar'
  BY <1>t, <1>b, <1>m DEF Bill
<1>1. CASE Attempt
  <2>1. /\ pc' = "react" /\ Bind /\ UNCHANGED settings
        /\ billed_before' = phase_billable /\ phase_billable < max_steps
    BY <1>1 DEF Attempt, LoopGoesOn, config
  <2>2. CASE ~bound /\ decision' /= None /\ DeclaresTurnType(decision')
    <3> DEFINE phase == decision'.payload.turn_type
    <3>1. /\ compound_phase' = phase /\ phase_billable' = 0 /\ max_steps' = PhaseBudgets[phase]
          /\ phase_cycles' = [p \in Phases |-> 0]
      BY <2>1, <2>2 DEF Bind
    <3>2. phase \in Phases
      BY <2>2 DEF DeclaresTurnType, TurnTypes, Phases
    <3>3. settings.control => billed_before' = 0
      BY <2>1, <2>2 DEF AttemptsSoFar
    <3> HIDE DEF phase
    <3>4. max_steps' \in Nat
      BY <1>p, <3>1, <3>2
    <3>5. \A p \in Phases : phase_cycles'[p] <= PhaseBudgets[p]
      BY <1>p, <3>1
    <3> QED
      BY <2>1, <3>1, <3>3, <3>4, <3>5
  <2>3. CASE ~(~bound /\ decision' /= None /\ DeclaresTurnType(decision'))
    <3>1. UNCHANGED <<bound, compound_phase, phase_billable, phase_cycles, max_steps>>
      BY <2>1, <2>3 DEF Bind
    <3> QED
      BY <1>t, <2>1, <3>1
  <2> QED
    BY <2>2, <2>3
<1>2. CASE AttemptRaises \/ LoopEnds \/ WrapUp \/ Finalizer
  <2>1. /\ UNCHANGED <<bound, settings, compound_phase, max_steps, phase_cycles, phase_billable>>
        /\ pc' /= "react"
    BY <1>2 DEF AttemptRaises, LoopEnds, WrapUp, Finalizer, turn, config
  <2> QED
    BY <1>m, <2>1
<1>3. CASE NoDecision
  <2>1. /\ UNCHANGED <<bound, settings, compound_phase, max_steps, phase_cycles, phase_billable>>
        /\ pc' /= "react"
    BY <1>3 DEF NoDecision, React, config
  <2> QED
    BY <1>m, <2>1
<1>4. CASE Terminate \/ HandOffToPlanner \/ RejectReadOnly \/ ToolCall \/ CodeEdit \/ OtherKind
  <2>1. /\ UNCHANGED <<bound, settings, compound_phase, max_steps, phase_cycles>>
        /\ pc = "react" /\ pc' /= "react" /\ Bill
    BY <1>4 DEF Terminate, HandOffToPlanner, RejectReadOnly, ToolCall, CodeEdit, OtherKind,
                React, config
  <2> QED
    BY <1>m, <2>1
<1>5. ASSUME NEW target \in Phases, NEW reason, Promote(target, reason)
      PROVE  BillingSoFar'
  <2>1. /\ pc = "react" /\ pc' = "attempt" /\ recorded
        /\ UNCHANGED <<bound, settings>>
        /\ phase_cycles' = [phase_cycles EXCEPT ![compound_phase] = phase_billable]
        /\ compound_phase' = target /\ phase_billable' = 0 /\ max_steps' = PhaseBudgets[target]
    BY <1>5 DEF Promote, React, config
  <2>2. max_steps' \in Nat
    BY <1>p, <2>1
  <2>3. ASSUME settings.control, NEW p \in Phases
        PROVE  phase_cycles'[p] <= PhaseBudgets[p]
    <3>1. bound
      BY <1>b, <2>1, <2>3 DEF AttemptsSoFar
    <3>2. phase_billable <= PhaseBudgets[compound_phase]
      BY <2>1, <2>3, <3>1
    <3>3. phase_cycles[p] <= PhaseBudgets[p]
      BY <2>3
    <3> QED
      BY <1>t, <1>b, <2>1, <3>2, <3>3
  <2> QED
    BY <2>1, <2>2, <2>3
<1>6. CASE PromoteToEdit \/ PromoteToRun
  BY <1>5, <1>6 DEF PromoteToEdit, PromoteToRun, Phases
<1>7. CASE UNCHANGED vars
  BY <1>7 DEF vars, turn, attempt, config, result
<1> QED
  BY <1>1, <1>2, <1>3, <1>4, <1>6, <1>7 DEF Next, Returned

-----------------------------------------------------------------------------
LEMMA InitLicenseSoFar == Init => LicenseSoFar
BY DEF Init, LicenseSoFar, WritesAreLicensed

(* A turn that may write was opened for it, or decided on it: by declaring   *)
(* it, which binds the turn, or by the handoff that promotes it.             *)
LEMMA NextLicenseSoFar == TypeOK /\ LicenseSoFar /\ [Next]_vars => LicenseSoFar'
<1> SUFFICES ASSUME TypeOK, LicenseSoFar, [Next]_vars PROVE LicenseSoFar'
  OBVIOUS
<1>b. /\ bound \in BOOLEAN /\ recorded \in BOOLEAN /\ licensed \in BOOLEAN
      /\ read_only \in BOOLEAN /\ binder \in {"none", "this_turn", "earlier_turn"}
  BY Zenon DEF TypeOK
<1> USE DEF LicenseSoFar, WritesAreLicensed
<1>1. CASE Attempt
  <2>1. Cycle /\ Bind
    BY <1>1 DEF Attempt
  <2>2. /\ licensed => licensed'
        /\ recorded' /\ IsHandoff(decision', "needs_edit") => licensed'
        /\ recorded' /\ DeclaresWriting(decision') => licensed'
        /\ ~recorded' => ~wrote'
        /\ wrote' /\ read_only /\ ~RunsCommand(decision') => DeclaresWriting(decision')
    <3>1. CASE ~recorded'
      <4>1. licensed' = licensed /\ wrote' = FALSE
        BY <2>1, <3>1 DEF Cycle
      <4> QED
        BY <3>1, <4>1
    <3>2. CASE recorded'
      <4>1. /\ licensed' = (\/ licensed \/ DeclaresWriting(decision')
                            \/ IsHandoff(decision', "needs_edit"))
            /\ Effect(decision')
        BY <2>1, <3>2, RecordedIsChecked
      <4>2. wrote' /\ ~RunsCommand(decision') => MayWrite(decision')
        BY <4>1 DEF Effect
      <4> QED
        BY <3>2, <4>1, <4>2 DEF MayWrite
    <3> QED
      BY <3>1, <3>2
  <2>3. CASE ~bound /\ decision' /= None /\ DeclaresTurnType(decision')
    <3>1. /\ bound' /\ binder' = IF recorded' THEN "this_turn" ELSE "earlier_turn"
          /\ read_only' = (decision'.payload.turn_type \in {"answer", "inspect"})
      BY <2>1, <2>3 DEF Bind
    <3>2. read_only' \/ DeclaresWriting(decision')
      BY <2>3, <3>1 DEF DeclaresTurnType, TurnTypes, DeclaresWriting
    <3> QED
      BY <1>b, <2>2, <2>3, <3>1, <3>2
  <2>4. CASE ~(~bound /\ decision' /= None /\ DeclaresTurnType(decision'))
    <3>1. UNCHANGED <<bound, binder, read_only>>
      BY <2>1, <2>4 DEF Bind
    <3> QED
      BY <1>b, <2>2, <3>1
  <2> QED
    BY <2>3, <2>4
<1>2. ASSUME UNCHANGED <<bound, binder, attempt, read_only>>
      PROVE  LicenseSoFar'
  BY <1>2 DEF attempt
<1>3. ASSUME NEW target \in Phases, NEW reason, Promote(target, reason),
             target = "run" \/ reason = "needs_edit"
      PROVE  LicenseSoFar'
  <2>1. /\ recorded /\ IsHandoff(decision, reason) /\ UNCHANGED <<bound, binder, attempt>>
        /\ read_only' = (target = "run")
    BY <1>3 DEF Promote, React
  <2> QED
    BY <1>3, <2>1 DEF attempt
<1>4. CASE PromoteToEdit \/ PromoteToRun
  BY <1>3, <1>4 DEF PromoteToEdit, PromoteToRun, Phases
<1>5. \/ Attempt \/ PromoteToEdit \/ PromoteToRun
      \/ UNCHANGED <<bound, binder, attempt, read_only>>
  BY DEF Next, vars, turn, AttemptRaises, LoopEnds, React, NoDecision, Terminate,
         HandOffToPlanner, RejectReadOnly, ToolCall, CodeEdit, OtherKind, WrapUp,
         Finalizer, Returned
<1> QED
  BY <1>1, <1>2, <1>4, <1>5

-----------------------------------------------------------------------------
LEMMA InitNoWriteAfterEdit == Init => NoWriteAfterEdit
BY DEF Init, NoWriteAfterEdit

(* After an edit the self check lets only a termination or a handoff pass,   *)
(* and neither of them writes.                                               *)
LEMMA NextNoWriteAfterEdit == NoWriteAfterEdit /\ [Next]_vars => NoWriteAfterEdit'
<1> SUFFICES ASSUME NoWriteAfterEdit, [Next]_vars PROVE NoWriteAfterEdit'
  OBVIOUS
<1>1. CASE Attempt
  <2> SUFFICES ASSUME settings.control, icp.after_edit, recorded'
               PROVE  ~wrote'
    BY <1>1 DEF NoWriteAfterEdit, Attempt, config
  <2>1. Accepts("executor", decision', << >>, ~bound, icp, FALSE) /\ Effect(decision')
    BY <1>1, RecordedIsChecked DEF Attempt
  <2>2. decision'.kind \in {"terminate", "handoff"}
    BY <2>1 DEF Accepts, IcpAllows, IsHandoff
  <2> QED
    BY <2>1, <2>2 DEF Effect, RunsCommand
<1>2. ASSUME pc' /= "react"
      PROVE  NoWriteAfterEdit'
  BY <1>2 DEF NoWriteAfterEdit
<1>3. CASE UNCHANGED vars
  BY <1>3 DEF vars, turn, attempt, config, NoWriteAfterEdit
<1>4. Attempt \/ pc' /= "react" \/ UNCHANGED vars
  BY DEF Next, AttemptRaises, LoopEnds, React, NoDecision, Terminate,
         HandOffToPlanner, PromoteToEdit, PromoteToRun, Promote, RejectReadOnly,
         ToolCall, CodeEdit, OtherKind, WrapUp, Finalizer, Returned
<1> QED
  BY <1>1, <1>2, <1>3, <1>4

-----------------------------------------------------------------------------
LEMMA InitIInv == Init => IInv
BY InitTypeOK, InitRecordedSoFar, InitAttemptsSoFar, InitBillingSoFar, InitLicenseSoFar,
   InitNoWriteAfterEdit DEF IInv

LEMMA NextIInv == IInv /\ [Next]_vars => IInv'
BY NextTypeOK, NextRecordedSoFar, NextAttemptsSoFar, NextBillingSoFar, NextLicenseSoFar,
   NextNoWriteAfterEdit DEF IInv

LEMMA Inductive == Spec => []IInv
BY InitIInv, NextIInv, PTL DEF Spec

(* The attempts cap stops no turn that is bound, and with control on none at *)
(* all: it leaves an attempt after every cycle, and before the turn is bound *)
(* the retries run out first.                                                *)
THEOREM AttemptsAlwaysLeft == Spec => []AttemptsNeverRunOut
<1>1. IInv => AttemptsNeverRunOut
  <2> SUFFICES ASSUME TypeOK, AttemptsSoFar, pc = "attempt", settings.control \/ bound
               PROVE  attempts_left > 0
    BY DEF IInv, AttemptsNeverRunOut
  <2>1. attempts_left \in Nat /\ retry_count \in Nat /\ max_retries \in Nat
    BY NumbersAreTyped
  <2> QED
    BY <2>1 DEF AttemptsSoFar
<1> QED
  BY <1>1, Inductive, PTL

(* With control on, no phase of a turn is billed more cycles than its budget, *)
(* one if the phase has none and the turn is bound to it.                    *)
THEOREM PhaseBudgetsAlwaysRespected == Spec => []PhaseBudgetsRespected
<1>1. IInv => PhaseBudgetsRespected
  BY DEF IInv, BillingSoFar
<1> QED
  BY <1>1, Inductive, PTL

(* Whatever decisions the model makes, a turn that was opened read-only      *)
(* changes a file only after a decision of its own that asks for writing, by *)
(* a command it runs, or when a decision of an earlier turn has bound it.    *)
THEOREM WritesAlwaysLicensed == Spec => []WritesAreLicensed
<1>1. IInv => WritesAreLicensed
  BY DEF IInv, LicenseSoFar
<1> QED
  BY <1>1, Inductive, PTL

(* With control on, nothing is written after an accepted edit until the turn *)
(* ends or is promoted.                                                      *)
THEOREM NeverAWriteAfterEdit == Spec => []NoWriteAfterEdit
<1>1. IInv => NoWriteAfterEdit
  BY DEF IInv
<1> QED
  BY <1>1, Inductive, PTL
=============================================================================
