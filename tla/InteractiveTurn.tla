-------------------------- MODULE InteractiveTurn --------------------------
(***************************************************************************)
(* One interactive turn of the executor: _run_interactive_executor_turn in *)
(* orchestration/session.py, with execute_node of orchestration/executor.py*)
(* as the body of its loop.                                                *)
(*                                                                         *)
(* An attempt runs one decision cycle of the executor on the decisions of  *)
(* the turn.  Of the cycle only its contract is used (CycleContract): it   *)
(* records at most one decision, which passed the gate and the self check, *)
(* and has acted on it.  That a proposal contradicts an earlier one is one *)
(* of the reasons for recording nothing, which is always possible, so the  *)
(* self check is applied without the history it needs for that.            *)
(***************************************************************************)
EXTENDS SelfCheck

CONSTANTS
  Decisions,     \* the decisions the executor may record
  Earlier,       \* those the executor's last one of earlier turns may be
  None,
  PhaseBudgets,  \* interactive.budgets of models.yaml
  RetryBudgets,  \* values of max_retries to start turns with
  Ablations      \* AblationSettings, with the finalizer switch, of the turns

Phases == {"inspect", "edit", "run", "answer", "build"}

ASSUME PhaseBudgetsAreNat == PhaseBudgets \in [Phases -> Nat]
ASSUME BudgetsAreNat == RetryBudgets \subseteq Nat
ASSUME AblationsAreSettings ==
  Ablations \subseteq [control : BOOLEAN, error_control : BOOLEAN, finalizer : BOOLEAN]
ASSUME NoneIsNoDecision == None \notin Decisions \union Earlier

VARIABLES
  pc,
  attempts,
  attempts_left,   \* max_attempts - attempts
  bound,           \* interactive_turn_bound
  binder,          \* the turn whose decision bound it
  compound_phase,
  phase_billable,
  phase_cycles,    \* billable cycles of phases left, 0 if never left
  max_steps,
  max_retries,
  retry_count,
  billed_before,   \* phase_billable as read before the cycle ran
  read_only,       \* executor.interactive_read_only
  icp,             \* icp_state
  edits_done,      \* code_edits_done
  recent,          \* digests of the last LoopWindow decisions of the turn, not
                   \* kept with error control off, when nothing looks at them
  recorded,        \* the attempt recorded a decision
  decision,        \* the last decision of the executor, this turn's or not
  tool_result,     \* last_tool_result: "none", "ok", or "failed" for any other
  edit_result,     \* last_edit_result: "none", "ok" or "failed"
  wrote,           \* the attempt changed a file
  licensed,        \* a decision of this turn, or its caller, allowed writing
  tool_results,    \* the turn has entries in the tool-result log
  settings,        \* one of Ablations
  outcome,
  step_count

turn == <<attempts, attempts_left, bound, binder, compound_phase, phase_billable,
          phase_cycles, max_steps, retry_count, read_only, icp, edits_done>>
attempt == <<billed_before, recent, recorded, decision, tool_result, edit_result,
             wrote, licensed>>
config == <<max_retries, settings>>
result == <<outcome, step_count>>
vars == <<pc, turn, attempt, tool_results, config, result>>

ControlPoints == {"attempt", "react", "wrap_up", "finalizer", "returned"}
Outcomes == {"none", "solved", "unresolvable", "needs_plan", "raised"}

\* A turn starts unbound, with one step, on a log that may end with a decision
\* of an earlier turn.
Init ==
  /\ pc = "attempt"
  /\ max_retries \in RetryBudgets
  /\ settings \in Ablations
  /\ attempts = 0
  /\ attempts_left = 1 + max_retries + 2
  /\ bound = FALSE
  /\ binder = "none"
  /\ compound_phase = "inspect"
  /\ phase_billable = 0
  /\ phase_cycles = [p \in Phases |-> 0]
  /\ max_steps = 1
  /\ retry_count = 0
  /\ billed_before = 0
  /\ read_only \in BOOLEAN
  /\ icp = IcpInitial
  /\ edits_done = {}
  /\ recent = << >>
  /\ recorded = FALSE
  /\ decision \in Earlier \union {None}
  /\ tool_result = "none"
  /\ edit_result = "none"
  /\ wrote = FALSE
  /\ licensed = ~read_only
  /\ tool_results = FALSE
  /\ outcome = "none"
  /\ step_count = 0

-----------------------------------------------------------------------------
PlusOneUpTo(n, cap) == IF n < cap THEN n + 1 ELSE cap

\* Beyond these values the counters decide nothing any more, so they stay there.
LargestBudget == CHOOSE b \in {PhaseBudgets[p] : p \in Phases} \union {1} :
                   \A p \in Phases : b >= PhaseBudgets[p] /\ b >= 1
AttemptsCap == LargestBudget + max_retries + 2
RetriesCap == max_retries + 1

\* Mutated: the attempts already made are not allowed for.
LeftOfPhase(steps, tries) == steps + max_retries + 2 - tries

LeftAfter(steps, tries) ==
  IF steps + max_retries + 2 > tries + 1 THEN steps + max_retries + 2 - tries ELSE 1

TotalWith(billable) ==
  phase_cycles["inspect"] + phase_cycles["edit"] + phase_cycles["run"]
    + phase_cycles["answer"] + phase_cycles["build"] + billable

TotalSteps == TotalWith(phase_billable)

DeclaresWriting(d) == d.payload.turn_type \in {"edit", "build"}

\* Mutated: the read-only flag is ignored.
MayAlwaysWrite(d) == TRUE

MayWrite(d) == read_only => DeclaresWriting(d)

\* Tools that run a command, which the read-only flag does not stop: the denial in
\* _require_permission is for write_file and edit_file.  "shell" stands for its
\* aliases as well.
CommandTools == {"shell", "pytest"}

RunsCommand(d) == d.kind = "tool_call" /\ d.payload.tool \in CommandTools

\* What executing a decision leaves in last_tool_result and last_edit_result, and
\* whether it changed a file.  A test result has no `ok', so it counts as failed;
\* an edit that does not compile has failed but is written.  A command may fail
\* after it has written, and one that is denied or blocked fails without.
Effect(d) ==
  LET tool == d.payload.tool
      edit == d.kind = "code_edit" \/ (d.kind = "tool_call" /\ tool = "write_file")
      read == d.kind = "tool_call" /\ tool = "read_file"
      shell == d.kind = "tool_call" /\ tool = "shell"
      test == d.kind = "tool_call" /\ tool = "pytest"
  IN  /\ CASE read \/ shell -> tool_result' \in {"ok", "failed"}
          [] test -> tool_result' = "failed"
          [] d.kind = "terminate" ->
               tool_result' = IF d.payload.message \/ d.rationale THEN "ok" ELSE "failed"
          [] OTHER -> tool_result' = "none"
      /\ IF edit
         THEN \/ edit_result' = "failed" /\ wrote' = FALSE
              \/ MayWrite(d) /\ edit_result' \in {"ok", "failed"} /\ wrote' = TRUE
         ELSE edit_result' = "none" /\ wrote' \in {RunsCommand(d), FALSE}

\* The executor's cycle: nothing recorded, or one decision that passed.
Cycle ==
  \/ /\ recorded' = FALSE
     /\ tool_result' = "none" /\ edit_result' = "none" /\ wrote' = FALSE
     /\ UNCHANGED <<decision, recent, licensed>>
  \/ \E d \in Decisions :
       /\ settings.error_control => ~LoopDetected(recent)
       /\ settings.control => Accepts("executor", d, << >>, ~bound, icp, FALSE)
       /\ recorded' = TRUE
       /\ decision' = d
       /\ recent' = IF settings.error_control
                     THEN AppendLastN(recent, Digest(d), LoopWindow) ELSE recent
       /\ licensed' = (licensed \/ DeclaresWriting(d) \/ IsHandoff(d, "needs_edit"))
       /\ Effect(d)

\* _apply_interactive_turn_binding, on the last decision of the executor.
Bind ==
  IF ~bound /\ decision' /= None /\ DeclaresTurnType(decision')
  THEN LET turn_type == decision'.payload.turn_type
       IN  /\ bound' = TRUE
           /\ binder' = IF recorded' THEN "this_turn" ELSE "earlier_turn"
           /\ compound_phase' = turn_type
           /\ phase_billable' = 0
           /\ phase_cycles' = [p \in Phases |-> 0]
           /\ max_steps' = PhaseBudgets[turn_type]
           /\ read_only' = (turn_type \in {"answer", "inspect"})
  ELSE UNCHANGED <<bound, binder, compound_phase, phase_billable, phase_cycles,
                   max_steps, read_only>>

\* Mutated: the budget is tested inclusively.
LoopGoesOnOnce == phase_billable <= max_steps /\ attempts_left > 0

LoopGoesOn == phase_billable < max_steps /\ attempts_left > 0

Attempt ==
  /\ pc = "attempt"
  /\ LoopGoesOn
  /\ pc' = "react"
  /\ attempts' = PlusOneUpTo(attempts, AttemptsCap)
  /\ billed_before' = phase_billable
  /\ Cycle
  /\ Bind
  /\ attempts_left' = IF bound' THEN LeftAfter(max_steps', attempts')
                      ELSE attempts_left - 1
  /\ UNCHANGED <<retry_count, icp, edits_done, tool_results, config, result>>

\* A store or a tool raises and the exception leaves the turn.
AttemptRaises ==
  /\ pc = "attempt"
  /\ LoopGoesOn
  /\ pc' = "returned"
  /\ outcome' = "raised"
  /\ UNCHANGED <<turn, attempt, tool_results, config, step_count>>

LoopEnds ==
  /\ pc = "attempt"
  /\ ~LoopGoesOn
  /\ pc' = "wrap_up"
  /\ UNCHANGED <<turn, attempt, tool_results, config, result>>

-----------------------------------------------------------------------------
\* What the loop does with the outcome of an attempt, one action per branch.
React(next) ==
  /\ pc = "react"
  /\ pc' = next
  /\ UNCHANGED <<attempts, bound, binder, attempt, config>>

\* Mutated: the cycle is not billed.
NoBill == UNCHANGED phase_billable

Bill == phase_billable' = billed_before + 1

Retry == retry_count' = PlusOneUpTo(retry_count, RetriesCap)

NoDecision ==
  /\ ~recorded
  /\ Retry
  /\ React(IF retry_count' > max_retries THEN "wrap_up" ELSE "attempt")
  /\ UNCHANGED <<attempts_left, compound_phase, phase_billable, phase_cycles, max_steps,
                 read_only, icp, edits_done, tool_results, result>>

\* The end of the turn.  With control off the self check has not validated the
\* payload, and an invalid turn type raises; so may the verifier, which is asked
\* about a turn that edits or builds.
Terminate ==
  /\ recorded
  /\ decision.kind = "terminate"
  /\ React("returned")
  /\ Bill
  /\ step_count' = TotalWith(billed_before + 1)
  /\ \/ /\ decision.payload.turn_type \in {"other", "edit", "build"}
        /\ outcome' = "raised"
     \/ /\ decision.payload.turn_type /= "other"
        /\ outcome' = IF decision.payload.message THEN "solved" ELSE "unresolvable"
  /\ UNCHANGED <<attempts_left, compound_phase, phase_cycles, max_steps, retry_count,
                 read_only, icp, edits_done, tool_results>>

HandOffToPlanner ==
  /\ recorded
  /\ IsHandoff(decision, "needs_plan")
  /\ React("returned")
  /\ Bill
  /\ step_count' = TotalWith(billed_before + 1)
  /\ outcome' = "needs_plan"
  /\ UNCHANGED <<attempts_left, compound_phase, phase_cycles, max_steps, retry_count,
                 read_only, icp, edits_done, tool_results>>

\* The handoff itself is not billed, and the new phase starts on a fresh budget.
Promote(target, reason) ==
  /\ recorded
  /\ IsHandoff(decision, reason)
  /\ React("attempt")
  /\ phase_cycles' = [phase_cycles EXCEPT ![compound_phase] = phase_billable]
  /\ compound_phase' = target
  /\ phase_billable' = 0
  /\ max_steps' = PhaseBudgets[target]
  /\ icp' = IcpInitial
  /\ read_only' = (target = "run")
  /\ attempts_left' = LeftAfter(max_steps', attempts)
  /\ UNCHANGED <<retry_count, edits_done, tool_results, result>>

PromoteToEdit == Promote("edit", "needs_edit")
PromoteToRun == Promote("run", "needs_run")

\* _read_only_invalid_decision; the three tools it lets pass stand for _READ_TOOLS.
ReadOnlyInvalid ==
  /\ read_only
  /\ CASE decision.kind = "code_edit" -> ~DeclaresWriting(decision)
       [] decision.kind = "tool_call" ->
            \/ decision.payload.tool = "write_file" /\ ~DeclaresWriting(decision)
            \/ decision.payload.tool \notin {"write_file", "read_file"} \union CommandTools
       [] decision.kind = "handoff" -> decision.payload.reason \notin HandoffReasons
       [] OTHER -> FALSE

RejectReadOnly ==
  /\ recorded
  /\ ReadOnlyInvalid
  /\ React("attempt")
  /\ Bill
  /\ Retry
  /\ UNCHANGED <<attempts_left, compound_phase, phase_cycles, max_steps, read_only, icp,
                 edits_done, tool_results, result>>

ToolCall ==
  /\ recorded
  /\ decision.kind = "tool_call" /\ ~ReadOnlyInvalid
  /\ React("attempt")
  /\ Bill
  /\ tool_results' = (tool_results \/ tool_result /= "none")
  /\ IF tool_result = "failed" THEN Retry ELSE UNCHANGED retry_count
  /\ icp' = IF tool_result = "ok" THEN IcpAfterSuccessfulTool(icp, ToolKey(decision))
            ELSE icp
  /\ UNCHANGED <<attempts_left, compound_phase, phase_cycles, max_steps, read_only,
                 edits_done, result>>

\* Mutated: an edit without a file name is remembered under none.
RememberedAny(path) == {path}

RememberedPath(path) == {path} \ {""}

\* The decision is judged here, not the edit: last_edit_result is not looked at.
CodeEdit ==
  LET path == decision.payload.path
      repeated == path \in edits_done
  IN  /\ recorded
      /\ decision.kind = "code_edit" /\ ~ReadOnlyInvalid
      /\ React("attempt")
      /\ Bill
      /\ IF repeated THEN Retry ELSE UNCHANGED retry_count
      /\ IF ~repeated /\ DeclaresWriting(decision)
         THEN /\ edits_done' = edits_done \union RememberedPath(path)
              /\ tool_results' = TRUE
              /\ icp' = IcpAfterSuccessfulEdit(icp)
         ELSE UNCHANGED <<edits_done, tool_results, icp>>
      /\ UNCHANGED <<attempts_left, compound_phase, phase_cycles, max_steps, read_only,
                     result>>

\* Decisions of any other kind, an invalid handoff among them, stop the loop.
OtherKind ==
  /\ recorded
  /\ \/ decision.kind \notin {"terminate", "tool_call", "code_edit", "handoff"}
     \/ decision.kind = "handoff" /\ decision.payload.reason \notin HandoffReasons
  /\ ~ReadOnlyInvalid
  /\ React("wrap_up")
  /\ Bill
  /\ UNCHANGED <<attempts_left, compound_phase, phase_cycles, max_steps, retry_count,
                 read_only, icp, edits_done, tool_results, result>>

-----------------------------------------------------------------------------
\* The loop has ended, so no decision of the turn is a terminate and there is no
\* user message yet; the finalizer may still get one out of the tool results.  The
\* verifier, which is asked first, may raise.
WrapUp ==
  /\ pc = "wrap_up"
  /\ step_count' = TotalSteps
  /\ \/ pc' = "returned" /\ outcome' = "raised"
     \/ /\ tool_results /\ settings.finalizer
        /\ pc' = "finalizer"
        /\ UNCHANGED outcome
     \/ /\ ~(tool_results /\ settings.finalizer)
        /\ pc' = "returned"
        /\ outcome' = "unresolvable"
  /\ UNCHANGED <<turn, attempt, tool_results, config>>

\* One cycle that may only terminate; solved if the verifier passed as well.
\* With control off it may record any decision, which then carries no message.
\* The cycle may raise.
Finalizer ==
  /\ pc = "finalizer"
  /\ pc' = "returned"
  /\ \/ outcome' \in {"unresolvable", "raised"} /\ UNCHANGED step_count
     \/ /\ settings.error_control => ~LoopDetected(recent)
        /\ \E d \in Decisions :
             /\ d.kind = "terminate" /\ d.payload.message
             /\ settings.control => Accepts("executor", d, << >>, FALSE, IcpInitial, TRUE)
        /\ outcome' \in {"solved", "unresolvable"}
        /\ step_count' = step_count + 1
  /\ UNCHANGED <<turn, attempt, tool_results, config>>

Returned == pc = "returned" /\ UNCHANGED vars

Next ==
  \/ Attempt \/ AttemptRaises \/ LoopEnds
  \/ NoDecision \/ Terminate \/ HandOffToPlanner \/ PromoteToEdit \/ PromoteToRun
  \/ RejectReadOnly \/ ToolCall \/ CodeEdit \/ OtherKind
  \/ WrapUp \/ Finalizer \/ Returned

Spec == Init /\ [][Next]_vars

\* A turn runs in one thread, and a cycle ends: it makes boundedly many calls
\* (CallsBounded of DecisionCycle), each of which returns or raises.
FairSpec == Spec /\ WF_vars(Next)

-----------------------------------------------------------------------------
TypeOK ==
  /\ pc \in ControlPoints
  /\ attempts \in 0..AttemptsCap
  /\ attempts_left \in Nat
  /\ bound \in BOOLEAN
  /\ binder \in {"none", "this_turn", "earlier_turn"}
  /\ compound_phase \in Phases
  /\ phase_billable \in Nat
  /\ phase_cycles \in [Phases -> Nat]
  /\ max_steps \in Nat
  /\ max_retries \in RetryBudgets
  /\ retry_count \in 0..RetriesCap
  /\ billed_before \in Nat
  /\ read_only \in BOOLEAN
  /\ icp \in [phase : {"gather", "must_finalize_or_continue"},
              tools_used : SUBSET {ToolKey(d) : d \in Decisions}, after_edit : BOOLEAN]
  /\ edits_done \subseteq {d.payload.path : d \in Decisions} \ {""}
  /\ recent \in Seq({Digest(d) : d \in Decisions})
  /\ recorded \in BOOLEAN
  /\ decision \in Decisions \union Earlier \union {None}
  /\ tool_result \in {"none", "ok", "failed"}
  /\ edit_result \in {"none", "ok", "failed"}
  /\ wrote \in BOOLEAN
  /\ licensed \in BOOLEAN
  /\ tool_results \in BOOLEAN
  /\ settings \in Ablations
  /\ outcome \in Outcomes
  /\ step_count \in Nat

(* The attempts cap never stops a turn that is bound: it is recomputed after *)
(* every cycle as at least one more attempt.  With control on it stops none, *)
(* for before the turn is bound the retries run out first.  Only billing, a  *)
(* decision or the retries of empty cycles end the loop.  With control off a *)
(* handoff may promote a turn it does not bind, and then the cap may end it. *)
AttemptsNeverRunOut ==
  pc = "attempt" /\ (settings.control \/ bound) => attempts_left > 0

(* With control on, the billable cycles of every phase stay within its       *)
(* budget, through binding and promotions.  The cycle that binds a turn is   *)
(* billed to the phase it declares, even if that has a budget of 0.          *)
PhaseBudgetsRespected ==
  settings.control =>
    /\ phase_billable <= IF max_steps = 0 THEN 1 ELSE max_steps
    /\ \A p \in Phases : phase_cycles[p] <= PhaseBudgets[p]

(* By itself, a turn changes a file only if its caller opened it for writing *)
(* or it made a decision that asks for it: one that declares edit or build,  *)
(* or a needs_edit handoff.  What is left are the commands it runs, on which *)
(* read-only turns are not restricted.  Bindings taken from an earlier turn  *)
(* are the subject of BoundByThisTurn.                                       *)
WritesAreLicensed ==
  wrote /\ binder /= "earlier_turn" /\ ~RunsCommand(decision) => licensed

(* With control on, once an edit has been accepted nothing is written until  *)
(* the turn ends or is promoted to running its result.                       *)
NoWriteAfterEdit ==
  settings.control /\ icp.after_edit /\ pc = "react" /\ recorded => ~wrote

(* A turn that never returns keeps handing itself from phase to phase.       *)
OnlyHandoffsAreEndless ==
  \/ <>(pc = "returned")
  \/ []<><<PromoteToEdit \/ PromoteToRun>>_vars

(* "Require terminate on the next proposal after a successful code_edit"     *)
(* (icp_after_successful_edit): the rule is in force only after one.         *)
AfterEditMeansEdited == [][icp'.after_edit /\ ~icp.after_edit => edit_result = "ok"]_vars

(* "Bind budget and read-only from cycle-1 declared turn_type"               *)
(* (_apply_interactive_turn_binding): the declaration is of this turn.       *)
BoundByThisTurn == binder /= "earlier_turn"
=============================================================================
