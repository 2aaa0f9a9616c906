------------------------- MODULE MCInteractiveTurn -------------------------
EXTENDS InteractiveTurn

Decision(kind, turn_type, reason, tool, path) ==
  [kind |-> kind, rationale |-> TRUE,
   payload |-> [turn_type |-> turn_type, reason |-> reason, tool |-> tool,
                path |-> path, message |-> TRUE, facts |-> << >>]]

Silent(d) == [d EXCEPT !.payload.message = FALSE]

Answer == Decision("terminate", "answer", "none", "", "")

MCDecisions ==
  {Answer, Silent(Decision("terminate", "inspect", "none", "", "")),
   Decision("terminate", "other", "none", "", ""),
   Decision("tool_call", "inspect", "none", "read_file", "a"),
   Decision("tool_call", "none", "none", "pytest", ""),
   Decision("tool_call", "inspect", "none", "shell", ""),
   Decision("tool_call", "none", "none", "write_file", "a"),
   Decision("code_edit", "edit", "none", "", "a"),
   Decision("code_edit", "build", "none", "", ""),
   Decision("code_edit", "none", "none", "", "a"),
   Decision("handoff", "edit", "needs_run", "", ""),
   Decision("handoff", "build", "needs_plan", "", ""),
   Decision("handoff", "none", "none", "", ""),
   Decision("handoff", "none", "needs_edit", "", ""),
   Decision("reflection", "none", "none", "", "")}

MCEarlier == {Answer, Decision("code_edit", "edit", "none", "", "a")}

MCProduction == {[control |-> TRUE, error_control |-> TRUE, finalizer |-> TRUE]}
MCAblations ==
  [control : BOOLEAN, error_control : BOOLEAN, finalizer : {TRUE}]
    \union {[control |-> TRUE, error_control |-> TRUE, finalizer |-> FALSE]}

MCPhaseBudgets == [answer |-> 0, inspect |-> 2, edit |-> 2, run |-> 1, build |-> 1]
=============================================================================
