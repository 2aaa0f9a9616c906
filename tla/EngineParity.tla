---------------------------- MODULE EngineParity ----------------------------
(***************************************************************************)
(* The two session engines on the same seeded task, as the parity test     *)
(* runs them (tests/integration/test_workflow.py): first the graph, then,  *)
(* from the same start, the loop.  The executor is the test's stub, which  *)
(* records nothing and leaves the workspace as it is, and nothing raises,  *)
(* so that each engine has exactly one outcome to report.                  *)
(***************************************************************************)
EXTENDS SessionLoop

VARIABLES
  engine,                                 \* "graph", "loop" or "done"
  graph_outcome,                          \* what the graph has reported
  node, supersteps                        \* of the graph

Graph == INSTANCE SessionGraph

graph_only == <<node, supersteps>>
loop_only == <<pc, planned, test_passed>>
session == <<current_state, active_subtask_id, step_count, retry_count, evaluation, config,
             subtasks, dispatch, recent, reflections, works, outcome, final_state>>
vars == <<engine, graph_outcome, graph_only, loop_only, session>>

Init ==
  /\ engine = "graph"
  /\ graph_outcome = "none"
  /\ Graph!Init
  /\ LoopInit
  /\ ~settings.planner_enabled

\* The stubbed executor, under either engine, has no effect.
Stubbed(executing) == executing => UNCHANGED <<works, recent>>

RunGraph ==
  /\ engine = "graph"
  /\ node /= "RETURNED"
  /\ Stubbed(node = "EXECUTE")
  /\ Graph!Next
  /\ node' /= "FAILED"
  /\ UNCHANGED <<engine, graph_outcome, loop_only>>

\* The same task, its limits and settings, on fresh stores.
SwitchToLoop ==
  /\ engine = "graph"
  /\ node = "RETURNED"
  /\ engine' = "loop"
  /\ graph_outcome' = outcome
  /\ current_state' = "PLAN"
  /\ active_subtask_id' = None
  /\ step_count' = 0
  /\ retry_count' = 0
  /\ evaluation' = "none"
  /\ subtasks' = [t \in Tasks |-> "absent"]
  /\ dispatch' = None
  /\ recent' = << >>
  /\ reflections' = 0
  /\ outcome' = "max_steps_reached"
  /\ final_state' = "PLAN"
  /\ UNCHANGED <<config, works, graph_only, loop_only>>

RunLoop ==
  /\ engine = "loop"
  /\ pc /= "returned"
  /\ Stubbed(pc = "top" /\ planned /\ active_subtask_id /= None)
  /\ LoopNext
  /\ pc' /= "raised"
  /\ UNCHANGED <<engine, graph_outcome, graph_only>>

Done ==
  /\ engine = "loop"
  /\ pc = "returned"
  /\ engine' = "done"
  /\ UNCHANGED <<graph_outcome, graph_only, loop_only, session>>

Finished == engine = "done" /\ UNCHANGED vars

Next == RunGraph \/ SwitchToLoop \/ RunLoop \/ Done \/ Finished

Spec == Init /\ [][Next]_vars

-----------------------------------------------------------------------------
(* "Graph and imperative loop agree on terminal outcome for the same seeded  *)
(* task" (tests/integration/test_workflow.py).                               *)
EnginesAgree == engine = "done" => outcome = graph_outcome
=============================================================================
