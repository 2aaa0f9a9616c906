# A verification development of the SLM agentic framework

TLA+ models of the framework that runs a small language model as planner and
executor on a coding task, TLC configurations that check them on small
instances, and TLAPS proofs, for every value of the constants, of every safety
property these check and of every refinement. Paths below are relative to the repository; `fw/` stands for
`src/framework/`.

## 1. The system

| component | state it keeps | operations | talks to |
|---|---|---|---|
| session engine, graph (`fw/orchestration/graph.py`, `session.py`) | `WorkflowState`: current state, active subtask, step and retry counts, last evaluation | nodes PLAN, DISPATCH, EXECUTE, EVALUATE, REVISE, ESCALATE; `router`; the driver that names the outcome | planner, executor, verifier, all stores |
| session engine, loop (`_run_full_session_loop`) | the same, with `planned` and the outcome in local variables | one pass of a `while` per step | the same |
| planner, executor (`fw/orchestration/planner.py`, `executor.py`) | the last tool, edit and handback result of the executor | decompose a goal into subtasks; dispatch the first open one; act on one decision | decision cycle, registry, dispatch messages, tools |
| decision cycle (`fw/control/cycle.py`, `budget.py`, `fw/error_control/quality.py`) | locals of one `run` | call the model, gate, self check, retry, act, append | SLM client, working memory, log, caller's `action_fn` |
| self check and completion protocol (`fw/control/self_check.py`, `interactive.py`) | `InteractiveCompletionState` | accept or reject a proposal | log |
| interactive turn (`_run_interactive_executor_turn`) | budget of the phase, attempts, binding, protocol state, edits done | attempt, bind, promote, reject, finalize | executor, tools, tool-result log |
| workflow rules (`fw/control/workflow.py`, `ledger.py`, `ablation.py`) | none | `next_state`, loop test, progress ledger | log, registry |
| stores (`fw/memory/stores.py`, `backend.py`, `fw/orchestration/messages.py`) | decision log, subtask registry, state snapshots, retrieval index, results, tool results, dispatch messages, in one table | append, upsert, set status; a record and its index item in two transactions | SQLite, Redis |
| checkpoints (`fw/memory/checkpoint.py`) | one file per session and step | save (temporary file, rename), find the latest, restore row by row | stores |
| reflections (`fw/memory/reflection.py`) | entries in the log | one per revision, capped per subtask | SLM client, log |
| working memory (`fw/memory/working_memory.py`, `retrieval.py`, `tool_results.py`) | none | retrieve, cap, recap the turn, fit the context into a token ceiling | all stores |
| SLM client (`fw/slm/client.py`, `usage.py`, `registry.py`) | HTTP clients, usage counters | call with retries; probe the key; open and close around an engine | HTTP |
| tools, sandbox, watchdog, parser, truncation | none | files, processes, text | the operating system |
| evaluation harness (`eval/run_eval.py`, `eval/scenarios/`) | environment variables of the process; traces, manifests, decision streams, quality files | a run is a configuration on the tasks of a seed, an experiment a sequence of runs | sessions |
| readers and reports (`eval/curated.py`, `scripts/reporting/`) | none | decide which run may be cited, count its decisions, render | the harness's files |

A session is one thread. What interleaves is not threads but agents: planner,
executor, finalizer and reflection all append to one decision log, each looks at
a window of it of its own, and each of them can stop the others by repeating
itself. The hard behaviours are

* budgets that are tested in some places and charged in others (steps,
  retries, calls, attempts, phase cycles, LangGraph's supersteps);
* state read before a call and used after it (`phase_billable`,
  `last_evaluation`, the last decision of the executor);
* two loop detectors over one log that is also written past the gate;
* failures in the middle of a step, which keep what was already written;
* protocols over several steps: read-only turns, the rule after an edit,
  promotion from a turn to a planned session;
* crashes between the two transactions of a store call, between a temporary file
  and its renaming, between the rows of a restore, between the files of a run;
* truncation by a bounded number of passes, in an order that decides what the
  next call of the model gets to see;
* state of the whole process (`.env`, the retrieval mode) that every task, arm and
  experiment reads and some of them change.

What makes each component correct: a session ends, within its budgets, and
what it reports is true of the workspace; a cycle calls the model a bounded number
of times, records only what it acted on and has done nothing when it is exhausted;
the log neither loops nor contradicts itself; a turn ends or is kept going by
handoffs only, writes by itself only when it was asked to (the commands it runs, by
`shell` or `pytest`, are not restricted, on read-only turns either), and bills what
it uses; the stores lose and duplicate nothing and the
index agrees with them; the anchors of a working memory are cut last; a probe
vouches for the calls that follow it and leaves nothing open; what is cited of a
run is one whole run.

## 2. Modules and plan

Written in this order, the behaviour everything else rests on first.

| module | models | relation |
|---|---|---|
| `DecisionLog` | the window of the log, the loop test | extended by the modules of the engines, the cycle and the turn |
| `SessionNodes` | the shared work of the session nodes, the rules of `workflow.py`, what a failed step leaves behind | extended by both engines |
| `SessionGraph` | the LangGraph engine and its driver | implements `SessionFlow` |
| `SessionLoop` | the imperative engine | implements `SessionFlow` |
| `SessionFlow` | what a session promises, abstractly | |
| `EngineParity` | both engines on the same task, as the parity test runs them | instantiates both engines |
| `SelfCheck` | acceptance of a proposal, completion protocol | |
| `DecisionCycle` | cycles of all agents on one log | implements `CycleContract` |
| `CycleContract` | what the agents rely on, abstractly | |
| `InteractiveTurn` | one interactive turn | uses the contract of the cycle |
| `MemoryStores` | the stores, the index, the backends and the checkpoints | |
| `WorkingMemory` | retrieval and fitting to the ceiling | |
| `ModelClient` | probe, clients and retries around an engine | leaves the engines free |
| `EvalRun` | runs, experiments, their files and who reads them | leaves the sessions free |
| `DecisionLogProofs` | lemmas about windows of the log | extended by the next three |
| `SessionEnginesProofs` | lemmas about the steps common to both engines, theorems about either | extends `SessionGraph` and `SessionLoop` |
| `DecisionCycleProofs`, `InteractiveTurnProofs` | theorems about the cycle and the turn | each extends the module it is about |
| `MemoryStoresProofs`, `WorkingMemoryProofs`, `ModelClientProofs`, `EvalRunProofs` | theorems about these components | the same |
| `MC*` | instances for TLC | |

Still to come:

1. `TurnAndBuild`: an interactive turn promoted to a graph session, with the
   executor's read-only flag carried over.
2. Resumed threads of LangGraph's checkpointer: a session run again under its id.
3. The tools of the executor (an edit that does not match, a snapshot restored).

## 3. How the models correspond to the code

**The language model is the environment.** It may fail, answer with garbage or
propose any decision at every call. Tools and the verifier give any result; the
verifier is a function of the workspace, so `works`, which only executing can
change, is what it says.

**Sessions.** Variables carry the names of the `WorkflowState` fields.
`settings` holds the ablation switches; a session starts in any combination.
One action of `SessionGraph` is one superstep of LangGraph, a node with the edge
taken after it; one action of `SessionLoop` is one stretch of the loop up to the
next call. `promoted` marks sessions that `run_turn` starts after a `needs_plan`
handoff: they find `st-main` abandoned, its dispatch still saved, and in the log every
decision of the session so far, all of which they look back on (`decision_floor` is
0). The turns before judged only their own decisions, so this log, `inherited`, may
be any: it may repeat a decision at the threshold or beyond it before the first node
runs. Only the graph is started by a promotion, and the model starts the first one
of its session id (a second one resumes LangGraph's thread, `graph.py:276`). A step may raise at any
point: the graph drops the state of the node and keeps what it wrote to the stores (`Interrupted`), the loop also
keeps its own assignments. LangGraph's recursion limit is not a guard of the
model, so that the model shows whether it is needed.

**Log.** A decision is its digest (kind and payload), which is all the loop
detectors compare. Only the last five are kept in the session models, as many
as either detector reads. `DecisionCycle` keeps the whole log.

**Cycle.** One action per stage: `Begin` (working memory), `Call`, `Gate`,
`Check`, `Act`, `Record`, `Return`. `action_fn` may raise before or after its
effect; `append` may raise after the backend has the entry, because the index
and the listener come later. `Retry` rebuilds the working memory outside any handler,
so it may raise for every retry within the `while` loop's own test (`WithinRetries`),
also for the last, which the limiter (`MayRetry`) then would not let call; `Begin`
raises what is not a `WorkingMemoryBudgetError`. The payload is reduced to what the
checks tell apart. `check_steps` is left out: no caller passes `step_count`.

**Turn.** `Attempt` is `execute_node` with the binding that follows it; then one
action per branch of the loop. Counters stop one above the largest value that
still decides something (`AttemptsCap`, `RetriesCap`): both are only compared
with smaller bounds. `attempts_left` is what the cap, recomputed from the counters
after every cycle, leaves of them. `Effect` is what executing a decision does to files
and results; the two tools that run a command (`CommandTools`) may change files
whatever the read-only flag says, and fail after having done so. The verifier and the
finalizer's cycle may raise, which ends the turn. With error control
off nothing looks at the log, and `recent` is not kept.

**Stores.** A row has the fields the code can tell rows apart by: where it is kept,
its key, the moment it was first written, its status or kind, and for an index item
what it refers to. A call of an indexed store is two actions, the record and `Index`,
as each is a transaction of its own, and `Crash` may come in between; so may it
between `SaveCheckpoint` (the temporary file) and `RenameCheckpoint`, and between
two `RestoreRow`. `Reopen` is the next process with another database, `Expire` the
TTL of Redis. `damage` is history: it remembers what befell this memory, for the
properties to say what they do not claim (`cut`: a call cut off after its record;
`torn`: a restore cut off; `merged`: a restore on top of rows; `expired`) and
`memory` keeps with a checkpoint what it was taken of. Two names are simplified: the
code refers to a snapshot by its step alone, without the session, and finds the latest
checkpoint by a prefix of its file's name, which another session id may share; session
ids are taken to be prefixes of no other.

**Working memory.** A text is its length in tokens, which the code estimates from its
characters; headings and separators are constants. `Build` retrieves (by keyword or
by embedding, relevance being an input), caps and assembles; one `Pass` is one
iteration of `_fit_to_budget`; `GiveUp` is the branch after the last one, and
`Return` or `Raise` what `build` comes to. `given` keeps the parts as they were
before the first pass.

**Clients.** A session starts in any `Settings`: which provider each role resolves to,
which keys are there, whether it is probed and which engine it runs. `Post` is one
request; what it comes to decides between another one, an `SLMResponse` and an
exception. The engine is reduced to when it calls whom (`EngineCalls`), to promoting a
turn and to ending (`EngineEnds`): the graph and the loop catch what a call raises, a
turn does not. After it, at `report`, any session still reads its records, saves its
checkpoint and words its message outside any handler, so it may raise there too
(`SessionRaises`), as it may while its agents are built (`OpenClients`). `open` is
the set of HTTP clients not closed.

**Experiments.** A run's files are named by the configuration and the second it began
in; `no` numbers the runs, so that the model can tell a file from another of the
same name. Sessions are reduced to whether they returned or raised and whether they
decided anything before that. `.env` may name model profiles or a retrieval mode, or
neither; each task loads it over the environment. The failures are an experiment that
raises before its first run (`Begin`), a run that raises at any point, in the middle of
writing its trace too (`RunRaises`), `Kill`, a checkpoint that is not saved, and the
append that swallows an `OSError`; after a kill the same shell starts
another process.

## 4. Runs

| run | what it shows | instance |
|---|---|---|
| `graph` | budgets, recursion limit, true outcome, dispatched work, bounded repetition, no doomed execution, termination, `SessionFlow` | 2 subtasks, 2 decisions, 1 reflection, steps 0..6, retries 0..3, all ablations; fresh, or promoted with one decision or any full window in the log |
| `loop` | budgets, true outcome, termination and `SessionFlow` of the loop, whose step budget is strict | same, but fresh sessions only: no promotion starts the loop |
| `cycle` | calls bounded, repetition over all cycles bounded, loop verdicts final, no contradiction inside the window, nothing done by an exhausted cycle, `CycleContract` | 3 proposals of which two disagree and one is out of the planner's scope, 4 cycles, retries 0, 1 and 2, window 2 |
| `turn` | attempts never run out, phase budgets, licensed writes, nothing written after an edit, only handoffs are endless | 15 decisions, phase budgets 0, 1 and 2, retries 0 and 1, production and ablations |
| `memory` | records kept once, index and records agree, snapshots never overwritten, restores faithful | 1 session, 1 subtask, 3 store calls with SQLite and 2 with Redis, 2 checkpoints, 1 restore, step counts 2 and 3 |
| `wm` | anchors cut last, oldest results kept, gives up only out of passes | ceilings 500, 650 and 750, up to 14 tool results, the code's 32 passes, keyword and semantic retrieval, 3 indexes |
| `client` | clean ends, a probe vouches, sessions end unless a turn keeps calling | 3 providers of which two need a key, 3 requests per call, 3 attempts, all settings; 2 calls of the graph and the loop, any number of a turn's |
| `eval` | citations sound, only valid runs aggregated, the retrieval mode scoped | configurations A and D, seeds 41 and 42 with one task and two, 2 runs, 1 experiment of any kind, 1 tick |
| `graph_promoted`, `parity`, `turn_edit`, `turn_binding` | the disagreements of section 7 | as small as they need |

The bounds are large enough for what they are about. The loop window has five entries and its threshold is
three, so two decisions and one reflection produce every pattern the detectors
tell apart: one repeated too often, two competing, and one pushed out. Six steps and three retries pass through every order
in which the two budgets run out, the minimum of 24 supersteps included (it
applies to `max_steps` up to 4); and the cap of two reflections bites before the
third retry. A promoted log that is full decides most, since what it repeats leaves the
window one by one; one of a single decision is a window that is still to fill. A retry
budget of 1 is the one whose only retry rebuilds the working memory without being
allowed to call. A contradiction window of two with four cycles
(the fourth is the first that a loop can doom) has entries that leave it. Phase budgets of one and two give phases that are
left used up and phases that are left with cycles to spare; the answer phase has none, so
that the cycle that binds a turn to it is one too many; and one handoff asks for an edit
without declaring a turn type, which promotes a turn that is not bound when control is off.

Three store calls and two checkpoints are what the stores need for a record that is
cut off before its item, a checkpoint saved of such a memory, one renamed over
another, and a restore onto rows that are in the checkpoint too. Each call is up to
two steps and a crash may follow each of them. With Redis, where rows also expire, two
calls are enough for a log whose entries are restored in another order. Each long
tool result takes a pass to shorten and one to drop, so 14 of them, with the items and
the recap that go first, use up the 32 passes, and a few do not; the ceilings are small for the goals to be cut at all, as the caps are
fractions of the ceiling. Three requests and three attempts are the code's own
constants. Two runs are enough for one name given out twice in a second, and for an
experiment whose second run fails; `MaxZeroPercent` is 50 where the code has 10, so
that with one or two tasks a run can be just valid, just not, and neither.

The properties relate several pieces of state; a type invariant is kept where a
run has room for one, and `WorkingMemory`, `ModelClient` and `MemoryStores` have
theirs proved. Sessions and turns idle when they have returned (`Returned`), so
deadlock is checked for them, and so it is for cycles, after which another turn may
always begin. `CHECK_DEADLOCK FALSE` is said of the runs that stop: `memory` and `eval`
have their calls and runs bounded, `wm` and `client` follow one build and one session to
the end.

**Fairness.** `WF_vars(Next)` for sessions and turns: they are single threads
without waiting, and every call they make returns or raises because the client,
the tools and the test runner carry timeouts. A turn relies on its cycles ending:
they call the model a bounded number of times (`CallsBounded`), and every call
returns or raises. `WF_vars(Next)` for clients: one thread posts, requests have a
timeout, and the pauses between attempts end. That the graph and the loop make a
bounded number of calls is what their budgets are for (`Termination`,
`LoopTermination`); of a turn it is not assumed, and `SessionEnds` excepts one that
calls for ever. The stores, the cycles and the experiments are not
claimed to make progress.

## 5. What is proved

Every invariant and every refinement of the passing runs is a theorem, and so are the
two action properties of `memory`. Two properties were found too strong when their proof failed, in
cases the bounds of the runs left out, and say now what the code does:
`AttemptsNeverRunOut`, which a turn that control does not hold can break by being
promoted without ever being bound, and `RaisesOnlyOutOfPasses`, whose ceilings must
leave room for the 12 tokens that the last resort gives a subtask and a goal however
small the ceiling.

The assumptions are those of the modules: budgets, caps, sizes and windows are natural
numbers, `None` is no task and `Garbage` no proposal, `st-main` is a task, reflections
have digests of their own (the kind is part of the digest), lists are sequences, and
backends are `sqlite` or `redis`.

`DecisionLogProofs` has the facts about the window: how often a digest can occur,
what appending adds, what leaving the window takes away (`AppendToWindow`).

**The engines.** `SessionEnginesProofs` begins with what the steps common to both
engines, interrupted or not, do to the types and to the repetition in the log. It then
proves, for every set of subtasks, decisions and reflections, every cap on reflections
and all budgets, that the graph engine satisfies every safety property of the `graph`
run and implements `SessionFlow`. None of the properties is inductive alone. The
invariant of the graph is

    IInv == TypeOK /\ Progress /\ VerdictIsCurrent /\ WorkIsDispatched /\ RepetitionSoFar

* `Progress` ties supersteps to charged steps at each node. REVISE and EXECUTE
  are not charged, EVALUATE is, so three supersteps pass per step; with planning
  and dispatching that stays below max(6 * max_steps, 24), and small budgets are
  covered by the minimum.
* `VerdictIsCurrent` says the verdict in REVISE, ESCALATE and END is that of the
  workspace: the executor's own verdict is always overwritten first, and nothing
  runs between the verdict and the report.
* `WorkIsDispatched` carries the subtask from the registry (open after PLAN) to
  the dispatch (in progress after DISPATCH). It needs a fresh registry.
* `RepetitionSoFar` needs the lengths of the log at PLAN and DISPATCH, because
  up to there nobody has tested for loops, and the router's test before each
  revision: a reflection repeats no decision. Of a promoted session it says that what
  is beyond the threshold was inherited and only shrinks, since the gate lets nothing
  be added to a log that loops; the router's first test then ends a session that is
  still doomed.

The refinement follows from `IInv` with `FlowPhase`, `FlowVerdict` and
`FlowSolved`: ESCALATE, END and FAILED are one phase of the abstract session, a
verdict is forgotten when work overtakes it.

The same is proved of the loop. Its invariant has the same parts, without the
supersteps: that a step is left while one is taken, that the subtask is planned, then
dispatched, then worked on, that there is no outcome while the loop works and a verdict
that is true of the workspace until the next execution, and the repetition so far.
Together the two refinements say on what the engines agree for every budget. That they
agree on the outcome is false (`parity`).

**The cycle.** `DecisionCycleProofs` proves every safety property of the `cycle` run and
that the cycle implements `CycleContract`, for any proposals, budgets and windows and any
number of cycles. Its invariant says of each stage what the stages before it have settled:

    IInv == TypeOK /\ StageSoFar /\ CallsSoFar /\ VerdictsHold /\ AgreesSoFar /\ RepetitionSoFar

`StageSoFar` has `ExhaustedDidNothing`, `CallsSoFar` counts the calls by the retries, `VerdictsHold` and `AgreesSoFar` keep what
the gate and the self check have concluded of a log that nothing changes until `Record`
does, and `RepetitionSoFar` is `RepetitionBounded` by places in the log, which
appending disturbs in one window only. The contract sees of a
cycle whether one is busy, and of an entry its digest and its verdict.

**The turn.** `InteractiveTurnProofs` proves every safety property of the `turn` run for
any decisions and all phase and retry budgets, from

    IInv == TypeOK /\ RecordedSoFar /\ AttemptsSoFar /\ BillingSoFar /\ LicenseSoFar /\ NoWriteAfterEdit

* `AttemptsSoFar`: a bound turn has an attempt left; one that is not, with control on,
  has recorded nothing, so that each of its attempts has cost a retry, and attempts left
  and retries add up to a constant.
* `BillingSoFar`: what a phase will have been billed after this attempt is within its
  budget, whatever binding and promotion reset in between.
* `LicenseSoFar`: a turn without a licence is read-only, unless an earlier turn's
  decision bound it.

**Stores, working memory, clients, experiments.**

`MemoryStoresProofs` proves, for any sessions, subtasks and bounds on calls,
checkpoints and restores, that records are kept once, that index and records agree and
that snapshots are never overwritten. What makes the first two inductive is

    IInv == TypeOK /\ TableIsSound /\ WorkIsIndexed /\ FilesAreSound /\ RestoreSoFar

The table and each checkpoint file satisfy the same conditions, the latter relative
to the damage saved with it. `RestoreSoFar` is what carries them through a restore:
each row restored has a row that stands for it (perhaps a later row of its key), and
an item that is missing is still to come. The order in which stores are restored
matters in one place, `RecordsComeFirst`: the index is restored last. For the
snapshots `SnapshotsSoFar` says that their numbers have no gap, rows to come
included, and `CountIsFree` that a set of numbers without a gap is counted by
the first number it lacks.

`RestoreIsFaithful` needs what is back so far: `RestoresHold` says that the rows restored
and the rows of the checkpoint they come from have the same contents, store by store,
and with SQLite list alike, since in both every row comes after those restored before
it (`ListedAppends`, `BothAppend`).

`WorkingMemoryProofs` proves `AnchorsCutLast` and `OldestResultsKept` for all
ceilings, lengths and numbers of passes, from `Shapes /\ AnchorsCutLast /\
ResultsSoFar`: a pass takes away the first thing there is, so as long as something
stands before the anchors they are whole. `RaisesOnlyOutOfPasses` follows from
`CutDown`, what the last resort has left of each part. It needs the total of the
constraints: they are at most two, and of two numbers the fold can be taken apart
without an induction (`SumOverTwo`).

`ModelClientProofs` proves `CleanEnds` and `ProbeVouches` for any providers, keys,
retries and attempts, from `TypeOK /\ ClientsSoFar /\ BudgetsLeft /\ ProbedSoFar`:
which clients are open at which point, those of a session that raises included, what is
left of the budgets, and that a probe that passed has posted with the planner's profile.

`EvalRunProofs` proves `RetrievalModeScoped` for any configurations, seeds and tasks.
Its invariant adds `ArmsAgree`, that an experiment sets the mode of all its runs or of
none, which needs `Plan` and the product of configurations and seeds
(`ProductTypes`), and `ModeSoFar`, what the mode is at each point.

For `CitationsAreSound` the argument is by numbers, not by names: a run's number is given
out once (`NumbersGiven`), its files are written in order and each once
(`FilesInOrder`), and a manifest says what was true of its run (`RunSoFar`), which no
later run can change (`ManifestsHold`). Names come in only where the readers do, who have
nothing else. `OnlyValidRunsAggregated` adds that the runs made and the ones to be made
are the plan (`PlanSoFar`) and that a run the experiment went on after is vouched for
by its file (`VouchedSoFar`).

## 6. What is only model-checked, and what is not modelled

Liveness (`Termination`, `LoopTermination`, `OnlyHandoffsAreEndless`, `SessionEnds`) stays with TLC: it is beyond the prover. So do the four runs that find a
violation, which are single counterexamples. Nothing is proved of what the recursive and
folded definitions compute for every input, which needs an induction over data the
installed provers cannot do: the theorem about totals is about at most two of them. The
loop window of five and its threshold of three are definitions of `DecisionLog`, and
the theorems about repetition are about these.

Not modelled: parsing, thinking and truncation of answers, the tools and the sandbox
(text and I/O whose results are free choices here); the watchdog and the thinking
budget, which only tests use; the reading of YAML and environment
variables into a configuration; datasets, Docker grading and metrics, and
`interaction_length`, which is one more sequence of runs; the renderers of reports; the
checkpoints of LangGraph's `SqliteSaver`. `restore_checkpoint`,
`load_latest_checkpoint` and `create_backend_from_env` are modelled, but only tests
call them. `PROJECT.json` lists every component and every hazard, those without a
property with the reason.

## 7. Where code and text disagree

| run | what the text says | what the code does |
|---|---|---|
| `graph_promoted` | "Ensure at least one open executor subtask exists after planning" (`session.py:482`) | an abandoned `st-main` is enough to register nothing, so nothing is dispatched and the abandoned subtask is executed |
| `parity` | both engines "agree on terminal outcome for the same seeded task" (`tests/integration/test_workflow.py`) | out of steps, the graph reports `escalate` and the loop `max_steps_reached` |
| `turn_edit` | "after a successful code_edit" only terminate is legal | also after one that failed |
| `turn_binding` | bound "from cycle-1 declared turn_type" | an empty first cycle binds the turn by an earlier turn's decision |

Met on the way and modelled or read, without a run of their own: no text promises
otherwise, one step shows it, or the case is outside the models.

* A proposal whose rejection ends the cycle is logged only with `max_retries` 0, and
  the issues streamed with a decision are dropped when the stream is read back
  (`analyze_traces.py:111`): reports count no violations.
* Handoffs are not billed and renew the budget of a turn
  (`OnlyHandoffsAreEndless` is what is left); a phase entered twice forgets its
  first visit in the step count (`interactive.py:110`).
* With control off a turn can be promoted by a handoff that does not bind it; only
  then does the attempts cap end a turn (`AttemptsNeverRunOut`).
* The last resort leaves a subtask and a goal 12 tokens each whatever the ceiling
  (`working_memory.py`): below 60 tokens these are no fractions of it.
* `.env`, which is made from `.env.example` and names profiles, overrides the bundle
  of an experiment; the bundle's variables stay set after an ablation; `agent_count`
  has no `finally`.
* Two runs of one configuration begun in the same second overwrite each other's files,
  which the properties of `EvalRun` exempt (`Shared`).
* `retrieval_compare` and `agent_count` aggregate runs whatever their validity.
* A run whose stream is empty has the decisions of all sessions' checkpoints counted
  for it (`Counted`).
* A `shell` command runs on a read-only turn too, and is even allowed without asking
  when it is declared an inspection (`executor.py:149`, `350`), `python -c` included,
  so it may write, where a test says "Inspect turn_type does not permit file writes on
  read-only interactive turns" and tries only `write_file`
  (`tests/unit/test_shell_inspect_permission_policy.py:77`). `WritesAreLicensed` is
  about what a turn writes by itself.
* A 429 or 503 with a body that is not JSON raises (`slm/client.py:261`) from a client
  that "never raises on API failure" (`slm/client.py:114`).
* A session that raises once its agents are built leaves both clients open: a turn
  whose call or verifier raises, and any session that raises outside the `try` around
  its engine (`session.py:1068`, `1096`, `1112`, `1258`, `1350`, `1475`).
* The first execution of a promoted session may be doomed by what the turns before it
  recorded, since nothing tests the log before it (`NoDoomedCycle` excepts it).
* The rebuild of the working memory for a retry has no handler, so a context over the
  ceiling ends a cycle quietly the first time and by an exception later
  (`cycle.py:305`).
* A subtask whose status changed is indexed twice under one `item_ref`, and Chroma
  refuses the batch (`RetrievalRaises`).
* Only the first open subtask is ever dispatched, and nothing sets one done
  (`planner.py:86`); a `TestResult` has no `ok`, so a passing test run counts as a
  failed tool (`session.py:883`); the loop overwrites `final_state`
  (`session.py:1491`); `register` upserts any row (`stores.py:268`).
