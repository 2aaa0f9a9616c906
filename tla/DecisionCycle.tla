--------------------------- MODULE DecisionCycle ---------------------------
(***************************************************************************)
(* The decision cycle (control/cycle.py): one request of an agent to the   *)
(* small language model, corrected and retried until a proposal passes the *)
(* quality gate and the self check, acted on, and appended to the decision *)
(* log.  Planner, executor and finalizer run their cycles one after the    *)
(* other on the same log, in any order.                                    *)
(*                                                                         *)
(* The model is the environment: at each call it may fail, answer with     *)
(* garbage or propose any decision.  StepBudgetLimiter.check_steps is left *)
(* out: no caller passes step_count, so it never refuses.                  *)
(***************************************************************************)
EXTENDS SelfCheck

CONSTANTS
  Proposals,     \* the decisions the model may propose
  Garbage,       \* an empty or unparseable answer
  RetryBudgets,  \* values of max_retries to run cycles with
  Icps,          \* completion states an interactive turn may be in
  MaxCycles      \* bound: the number of cycles to run

ASSUME BudgetsAreNat == RetryBudgets \subseteq Nat
ASSUME MaxCyclesIsNat == MaxCycles \in Nat
ASSUME GarbageIsNoProposal == Garbage \notin Proposals

VARIABLES
  pc,
  request,      \* the arguments of run
  floor,        \* decision_floor: the gate looks at the log from here on
  retry_count,
  calls,        \* calls to the model in this cycle
  draft,        \* the answer under judgement
  acted,        \* action_fn may have had its effect in this cycle
  looped,       \* the gate has failed this cycle with "loop"
  result,       \* how the last cycle ended
  log,          \* the decision log
  turn_floor,   \* length of the log when the current turn began
  settings,     \* AblationSettings
  cycles        \* cycles begun

vars == <<pc, request, floor, retry_count, calls, draft, acted, looped, result,
          log, turn_floor, settings, cycles>>

ControlPoints == {"idle", "call", "gate", "check", "act", "record", "return"}
Results == {"none", "decision", "exhausted", "raised"}

\* The arguments the planner, the executor and the finalizer call run with.
SessionRequests ==
  [role : {"planner", "executor"}, max_retries : RetryBudgets, in_turn : {FALSE},
   require_turn_type : {FALSE}, icp : {IcpInitial}, finalizer_only : {FALSE}]

TurnRequests ==
  [role : {"executor"}, max_retries : RetryBudgets, in_turn : {TRUE},
   require_turn_type : BOOLEAN, icp : Icps, finalizer_only : {FALSE}]

FinalizerRequests ==
  [role : {"executor"}, max_retries : RetryBudgets, in_turn : {TRUE},
   require_turn_type : {FALSE}, icp : {IcpInitial}, finalizer_only : {TRUE}]

Requests == SessionRequests \union TurnRequests \union FinalizerRequests

NoRequest == [role |-> "none", max_retries |-> 0]

Init ==
  /\ pc = "idle"
  /\ request = NoRequest
  /\ floor = 0
  /\ retry_count = 0
  /\ calls = 0
  /\ draft = Garbage
  /\ acted = FALSE
  /\ looped = FALSE
  /\ result = "none"
  /\ log = << >>
  /\ turn_floor = 0
  /\ settings \in [control : BOOLEAN, error_control : BOOLEAN]
  /\ cycles = 0

-----------------------------------------------------------------------------
\* Mutated: the part of the log before the floor is looked at.
VisibleBefore == SubSeq(DigestsOf(log), 1, floor)

Visible == SubSeq(DigestsOf(log), floor + 1, Len(log))

Finish(how) == pc' = "return" /\ result' = how

Step(from) ==
  /\ pc = from
  /\ UNCHANGED <<request, floor, turn_floor, settings, cycles>>

\* The test of the while loop: up to here the working memory is built anew.
WithinRetries == retry_count + 1 <= request.max_retries

\* That of StepBudgetLimiter.check_retries, without which there is no further call.
MayRetry == retry_count + 1 < request.max_retries

\* A failed proposal: one more retry, with a corrective prompt over a freshly
\* built working memory, which nothing guards against an exception.
Retry ==
  /\ retry_count' = retry_count + 1
  /\ \/ MayRetry /\ pc' = "call" /\ UNCHANGED result
     \/ ~MayRetry /\ Finish("exhausted")
     \/ WithinRetries /\ Finish("raised")

NewTurn ==
  /\ pc = "idle"
  /\ turn_floor' = Len(log)
  /\ UNCHANGED <<pc, request, floor, retry_count, calls, draft, acted, looped,
                 result, log, settings, cycles>>

\* A working memory over the token ceiling ends the cycle before it calls; any
\* other error of a store or of the retrieval is not caught.
Begin ==
  /\ pc = "idle"
  /\ cycles < MaxCycles
  /\ cycles' = cycles + 1
  /\ request' \in Requests
  /\ floor' = IF request'.in_turn THEN turn_floor ELSE 0
  /\ \/ pc' = "call" /\ UNCHANGED result
     \/ Finish("exhausted") \/ Finish("raised")
  /\ UNCHANGED <<retry_count, calls, draft, acted, looped, log, turn_floor, settings>>

\* Bound: calls are counted up to one more than any cycle may make.
CallsCap == request.max_retries + 2

\* The client answers, reports an error, or raises (a body that is not JSON), or
\* the log cannot be read.
Call ==
  /\ Step("call")
  /\ calls' = IF calls < CallsCap THEN calls + 1 ELSE calls
  /\ \/ /\ pc' = "gate"
        /\ draft' \in Proposals \union {Garbage}
        /\ UNCHANGED result
     \/ /\ Finish("exhausted") \/ Finish("raised")
        /\ UNCHANGED draft
  /\ UNCHANGED <<retry_count, acted, looped, log>>

\* Mutated: only the first answer is judged.
LoopingAtFirst ==
  settings.error_control /\ LoopDetected(Visible) /\ retry_count = 0

\* The quality gate judges the answer and the log; it never compares the two.
Looping == settings.error_control /\ LoopDetected(Visible)

\* Mutated: the parse result is not looked at.
RejectedForLoop == Looping

Rejected == draft = Garbage \/ Looping

Gate ==
  /\ Step("gate")
  /\ looped' = (looped \/ (draft /= Garbage /\ Looping))
  /\ IF Rejected
     THEN Retry
     ELSE pc' = "check" /\ UNCHANGED <<retry_count, result>>
  /\ UNCHANGED <<calls, draft, acted, log>>

Passes ==
  settings.control =>
    Accepts(request.role, draft, log, request.require_turn_type, request.icp,
            request.finalizer_only)

Entry(verdict) ==
  [kind |-> draft.kind, payload |-> draft.payload, verdict |-> verdict]

\* A rejected proposal is recorded only if it used up the retries at once; its
\* append may raise like any other, and so may the reads of the self check.
Check ==
  /\ Step("check")
  /\ \/ /\ Passes
        /\ pc' = "act"
        /\ UNCHANGED <<retry_count, result, log>>
     \/ /\ ~Passes
        /\ WithinRetries
        /\ Retry
        /\ UNCHANGED log
     \/ /\ ~Passes
        /\ ~WithinRetries
        /\ retry_count' = retry_count + 1
        /\ log' = Append(log, Entry("exhausted"))
        /\ Finish("exhausted") \/ Finish("raised")
     \/ /\ Finish("raised")
        /\ UNCHANGED <<retry_count, log>>
  /\ UNCHANGED <<calls, draft, acted, looped>>

\* Mutated: an exception of action_fn is swallowed.
ActRegardless ==
  /\ Step("act")
  /\ acted' \in BOOLEAN
  /\ pc' = "record"
  /\ UNCHANGED <<retry_count, calls, draft, looped, result, log>>

\* Mutated: an exception of action_fn is reported like a failure of the model.
ActOrExhausted ==
  /\ Step("act")
  /\ \/ acted' = TRUE /\ pc' = "record" /\ UNCHANGED result
     \/ acted' \in BOOLEAN /\ Finish("exhausted")
  /\ UNCHANGED <<retry_count, calls, draft, looped, log>>

\* action_fn may raise, before or after it had its effect.
Act ==
  /\ Step("act")
  /\ \/ acted' = TRUE /\ pc' = "record" /\ UNCHANGED result
     \/ acted' \in BOOLEAN /\ Finish("raised")
  /\ UNCHANGED <<retry_count, calls, draft, looped, log>>

\* DecisionLog.append: the backend, then the retrieval index and the listener.
Record ==
  /\ Step("record")
  /\ \/ /\ log' = Append(log, Entry("pass"))
        /\ Finish("decision") \/ Finish("raised")
     \/ Finish("raised") /\ UNCHANGED log
  /\ UNCHANGED <<retry_count, calls, draft, acted, looped>>

\* The result goes to the caller and the cycle's locals go out of scope.
Return ==
  /\ pc = "return"
  /\ pc' = "idle"
  /\ request' = NoRequest
  /\ floor' = 0
  /\ retry_count' = 0
  /\ calls' = 0
  /\ draft' = Garbage
  /\ acted' = FALSE
  /\ looped' = FALSE
  /\ result' = "none"
  /\ UNCHANGED <<log, turn_floor, settings, cycles>>

Run == Call \/ Gate \/ Check \/ Act \/ Record \/ Return

Next == NewTurn \/ Begin \/ Run

Spec == Init /\ [][Next]_vars

-----------------------------------------------------------------------------
Entries == [kind : {p.kind : p \in Proposals}, payload : {p.payload : p \in Proposals},
            verdict : {"pass", "exhausted"}]

TypeOK ==
  /\ pc \in ControlPoints
  /\ request \in Requests \union {NoRequest}
  /\ floor \in 0..Len(log)
  /\ retry_count \in Nat
  /\ calls \in Nat
  /\ draft \in Proposals \union {Garbage}
  /\ acted \in BOOLEAN
  /\ looped \in BOOLEAN
  /\ result \in Results
  /\ log \in Seq(Entries)
  /\ turn_floor \in 0..Len(log)
  /\ settings \in [control : BOOLEAN, error_control : BOOLEAN]
  /\ cycles \in 0..MaxCycles
  /\ pc \in {"check", "act", "record"} => draft /= Garbage

(* A cycle calls the model max_retries times, once if that is 0: the first   *)
(* call counts as one of the retries.                                        *)
CallsBounded ==
  calls <= IF request.max_retries = 0 THEN 1 ELSE request.max_retries

(* With error control on, no decision is recorded more than LoopThreshold    *)
(* times in any LoopWindow consecutive decisions of a turn, whichever agents *)
(* and however many cycles recorded them.                                    *)
RepetitionBounded ==
  settings.error_control =>
    LET turn == SubSeq(DigestsOf(log), turn_floor + 1, Len(log))
    IN  \A n \in 1..Len(turn) :
          Occurrences(LastN(SubSeq(turn, 1, n), LoopWindow), turn[n]) <= LoopThreshold

(* Once the gate has seen a loop no retry can help, since retries leave the  *)
(* log alone: the cycle spends its calls and ends without a decision.        *)
LoopVerdictIsFinal ==
  looped =>
    /\ pc \in {"call", "gate", "return"}
    /\ result /= "decision"
    /\ ~acted

(* With control on, an accepted decision never disagrees with one of the     *)
(* ContradictionWindow decisions before it.                                  *)
NoContradiction ==
  settings.control =>
    \A i, j \in 1..Len(log) :
      /\ i < j
      /\ j - i <= ContradictionWindow
      /\ log[j].verdict = "pass"
      => ~Disagree(log[i], log[j])

(* A cycle reported exhausted has done nothing: its caller may run another   *)
(* in its place.  An effect without a decision is left only by an exception, *)
(* which is why those of the action and of the append must reach the caller. *)
ExhaustedDidNothing == result = "exhausted" => ~acted

(* The cycle is the one the agents rely on.                                  *)
Contract == INSTANCE CycleContract WITH
  Digests <- {Digest(p) : p \in Proposals},
  log <- [i \in 1..Len(log) |-> [digest |-> Digest(log[i]), verdict |-> log[i].verdict]],
  gated <- settings.error_control, busy <- pc \notin {"idle", "return"}

ImplementsContract == Contract!Spec
=============================================================================
