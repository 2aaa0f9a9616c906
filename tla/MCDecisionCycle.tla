-------------------------- MODULE MCDecisionCycle --------------------------
EXTENDS DecisionCycle

Payload(turn_type, tool, facts) ==
  [turn_type |-> turn_type, reason |-> "none", tool |-> tool, path |-> "",
   message |-> TRUE, facts |-> facts]

\* Two answers that disagree in a fact, and a read, which no planner may do.
MCProposals ==
  {[kind |-> "terminate", rationale |-> TRUE,
    payload |-> Payload("answer", "", [answer |-> n])] : n \in 1..2}
    \union
  {[kind |-> "tool_call", rationale |-> TRUE,
    payload |-> Payload("none", "read_file", << >>)]}

MCIcps == {IcpInitial, IcpAfterSuccessfulTool(IcpInitial, <<"read_file", "">>)}
=============================================================================
