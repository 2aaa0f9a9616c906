----------------------------- MODULE SelfCheck -----------------------------
(***************************************************************************)
(* The deterministic self check of a proposed decision                     *)
(* (control/self_check.py) with the rules of the Interactive Completion    *)
(* Protocol (control/interactive.py).                                      *)
(*                                                                         *)
(* A decision is a kind, a payload and whether it has a rationale.  Of the *)
(* payload the checks and the loop detectors tell apart                    *)
(*   turn_type  one of TurnTypes, "none" when absent, "other" when invalid *)
(*   reason     a handoff reason, "none" when absent or invalid            *)
(*   tool       the tool of a tool call, aliases resolved                  *)
(*   path       the file a tool call or code edit is about, "" when absent *)
(*   message    whether it carries a non-blank user_message                *)
(*   facts      the payload keys that must not vary between decisions      *)
(***************************************************************************)
EXTENDS DecisionLog

CONSTANT ContradictionWindow  \* 10 in self_check

ASSUME ContradictionWindowIsNat == ContradictionWindow \in Nat

Kinds == {"plan_step", "code_edit", "tool_call", "handoff", "terminate",
          "reflection", "quality_failure"}
ExecutorOnlyKinds == {"code_edit", "tool_call", "reflection", "quality_failure"}
TurnTypes == {"answer", "inspect", "edit", "build"}
HandoffReasons == {"needs_edit", "needs_run", "needs_plan"}

\* What the loop detectors hash: the rationale does not count.
Digest(decision) == <<decision.kind, decision.payload>>

DigestsOf(log) == [i \in 1..Len(log) |-> Digest(log[i])]

\* bind_interactive_turn accepts a declared turn type; anything else is undeclared.
DeclaresTurnType(decision) == decision.payload.turn_type \in TurnTypes

IsHandoff(decision, reason) ==
  decision.kind = "handoff" /\ decision.payload.reason = reason

ToolKey(decision) == <<decision.payload.tool, decision.payload.path>>

-----------------------------------------------------------------------------
\* Two values of the same fact in decisions of the same kind; tool calls may vary.
Disagree(d, e) ==
  /\ d.kind = e.kind
  /\ d.kind /= "tool_call"
  /\ \E key \in DOMAIN d.payload.facts \intersect DOMAIN e.payload.facts :
       d.payload.facts[key] /= e.payload.facts[key]

\* Mutated: only the last decision is compared with.
ContradictsLast(decision, log) ==
  log /= << >> /\ Disagree(decision, log[Len(log)])

\* The window is that of the session, whatever turn the decision belongs to.
Contradicts(decision, log) ==
  LET recent == LastN(log, ContradictionWindow)
  IN  \E i \in 1..Len(recent) : Disagree(decision, recent[i])

InScope(role, decision) ==
  /\ role = "executor" => decision.kind /= "plan_step"
  /\ role = "planner" => decision.kind \notin ExecutorOnlyKinds

WellFormed(decision) ==
  /\ decision.rationale
  /\ decision.kind = "handoff" => decision.payload.reason \in HandoffReasons
  /\ decision.kind = "terminate" => decision.payload.turn_type /= "other"

-----------------------------------------------------------------------------
\* InteractiveCompletionState.  No ICP at all (None) behaves as the initial one.
IcpInitial == [phase |-> "gather", tools_used |-> {}, after_edit |-> FALSE]

IcpAfterSuccessfulTool(icp, key) ==
  [phase |-> "must_finalize_or_continue",
   tools_used |-> icp.tools_used \union {key}, after_edit |-> FALSE]

IcpAfterSuccessfulEdit(icp) ==
  [icp EXCEPT !.phase = "must_finalize_or_continue", !.after_edit = TRUE]

\* Mutated: nothing special after an edit.
IcpForgetsEdits(decision, icp) ==
  \/ icp.phase = "gather"
  \/ decision.kind \in {"handoff", "terminate"}
  \/ decision.kind = "tool_call" /\ ToolKey(decision) \notin icp.tools_used

IcpAllows(decision, icp) ==
  IF icp.after_edit
  THEN decision.kind = "terminate" \/ IsHandoff(decision, "needs_run")
  ELSE \/ icp.phase = "gather"
       \/ decision.kind \in {"handoff", "terminate"}
       \/ decision.kind = "tool_call" /\ ToolKey(decision) \notin icp.tools_used

\* self_check: the conditions under which a proposal gets verdict "pass".
Accepts(role, decision, log, require_turn_type, icp, finalizer_only) ==
  /\ WellFormed(decision)
  /\ InScope(role, decision)
  /\ ~Contradicts(decision, log)
  /\ require_turn_type => DeclaresTurnType(decision)
  /\ finalizer_only => decision.kind = "terminate"
  /\ IcpAllows(decision, icp)
=============================================================================
