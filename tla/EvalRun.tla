------------------------------ MODULE EvalRun ------------------------------
(***************************************************************************)
(* The evaluation harness: run_eval (eval/run_eval.py), the experiments    *)
(* made of it (eval/scenarios: ablation, retrieval_compare, agent_count),  *)
(* the files they leave (decision_log, manifest, run_quality) and what is  *)
(* made of the files later (eval/curated.py and iter_decisions of          *)
(* scripts/reporting/analyze_traces.py).                                   *)
(*                                                                         *)
(* A run is a configuration on the tasks of a seed.  Its files are named   *)
(* after the configuration and the second it began in, and it is numbered  *)
(* here so that a file can be told from another of the same name.  The     *)
(* dataset is fixed; a session is represented by what became of it; and    *)
(* the metrics, which are averages of rows, are left out.                  *)
(***************************************************************************)
EXTENDS Naturals, Sequences, FiniteSets

CONSTANTS
  Configs,         \* CONFIG_ORDER
  MemoryConfigs,   \* MEMORY_CONFIGS of retrieval_compare
  Seeds,           \* the seeds an experiment is asked for
  Sample,          \* Sample[seed] is the sequence of its tasks
  MaxZeroPercent,  \* max_zero_ix_fraction in per cent
  MaxClock,        \* bound on the seconds that pass
  MaxRuns,         \* bound on the runs begun
  MaxScenarios     \* bound on the experiments begun

ASSUME ListsAreSequences ==
  Configs \in Seq(STRING) /\ MemoryConfigs \in Seq(STRING) /\ Seeds \in Seq(Nat)
ASSUME SamplesAreNotEmpty == \A i \in DOMAIN Seeds : Sample[Seeds[i]] /= << >>

VARIABLES
  dotenv,       \* what .env names, a subset of {"profiles", "mode"}
  shell,        \* MEMORY_RETRIEVAL_MODE of the shell the process is started from
  env,          \* PLANNER_PROFILE and so on, and MEMORY_RETRIEVAL_MODE
  clock,        \* in seconds
  pc,           \* "idle", "next", "task", "trace", "manifest", "quality", "judge" or "leave"
  scenario,     \* the experiment
  previous,     \* previous_retrieval_mode
  todo,         \* its runs still to be made
  run,          \* the run being made
  done,         \* the runs of the experiment so far
  results,      \* what experiments returned
  traces,       \* {run_id}.jsonl
  manifests,    \* {run_id}.manifest.json
  qualities,    \* {run_id}.quality.json
  decisions,    \* the lines of decisions/{run_id}.jsonl
  checkpoints,  \* the decisions in var/checkpoints, of all sessions
  taken,        \* the run ids given out and to which run
  begun         \* experiments begun

vars == <<dotenv, shell, env, clock, pc, scenario, previous, todo, run, done, results, traces,
          manifests, qualities, decisions, checkpoints, taken, begun>>
experiment == <<scenario, previous, todo, done, results, begun>>
files == <<traces, manifests, qualities, decisions, checkpoints>>

Unset == "unset"
Modes == {"keyword", "semantic"}
NoRun == [id |-> << >>, no |-> 0, seed |-> 0, mode |-> Unset, rows |-> << >>,
          sessions |-> {}, models |-> {}, modes |-> {}, valid |-> TRUE]

\* load_project_env: what .env names overrides the environment.
Loaded(e) == [profiles |-> IF "profiles" \in dotenv THEN "dotenv" ELSE e.profiles,
              mode |-> IF "mode" \in dotenv THEN "dotenv" ELSE e.mode]

Init ==
  /\ dotenv \in SUBSET {"profiles", "mode"}
  /\ shell \in {Unset, "keyword"}
  /\ env = [profiles |-> "default", mode |-> shell]
  /\ clock = 0
  /\ pc = "idle"
  /\ scenario = [kind |-> "none", dry_run |-> FALSE, seeds |-> << >>, bundle |-> FALSE, mode |-> Unset]
  /\ previous = shell
  /\ todo = << >>
  /\ run = NoRun
  /\ done = << >>
  /\ results = {}
  /\ traces = {} /\ manifests = {} /\ qualities = {} /\ decisions = {} /\ checkpoints = {}
  /\ taken = {}
  /\ begun = 0

-----------------------------------------------------------------------------
(* The experiments, each a sequence of runs.                                *)
SeedLists == {SubSeq(Seeds, 1, n) : n \in 1..Len(Seeds)}
Scenarios ==
  [kind : {"ablation"}, dry_run : BOOLEAN, seeds : SeedLists, bundle : BOOLEAN,
   mode : Modes \union {Unset}]
    \union
  [kind : {"retrieval_compare"}, dry_run : BOOLEAN, seeds : SeedLists, bundle : BOOLEAN,
   mode : {Unset}]
    \union
  [kind : {"agent_count"}, dry_run : BOOLEAN, seeds : SeedLists, bundle : {FALSE}, mode : {Unset}]

\* Every x of xs with every y of ys, x by x.
Product(xs, ys) ==
  [i \in 1..(Len(xs) * Len(ys)) |->
     <<xs[(i - 1) \div Len(ys) + 1], ys[((i - 1) % Len(ys)) + 1]>>]

\* The configuration, the seed and the mode set for each run of the experiment.
Plan(s) ==
  LET Runs(configs, mode) ==
        LET pairs == Product(configs, s.seeds)
        IN  [i \in DOMAIN pairs |->
               [config |-> pairs[i][1], seed |-> pairs[i][2], mode |-> mode]]
  IN  IF s.kind = "ablation" THEN Runs(Configs, s.mode)
      ELSE IF s.kind = "retrieval_compare"
           THEN Runs(MemoryConfigs, "keyword") \o Runs(MemoryConfigs, "semantic")
      ELSE LET pairs == Product(s.seeds, <<"two agents", "one agent">>)
           IN  [i \in DOMAIN pairs |->
                  [config |-> "D", seed |-> pairs[i][1], mode |-> Unset]]

\* An unknown bundle or mode, or a configuration that cannot be read, raises before
\* the first run, and the finally clause undoes what was set of the mode.
Begin(s) ==
  /\ pc = "idle"
  /\ begun < MaxScenarios
  /\ scenario' = s
  /\ previous' = env.mode
  /\ todo' = Plan(s)
  /\ done' = << >>
  /\ begun' = begun + 1
  /\ env' = IF s.bundle THEN [env EXCEPT !.profiles = "bundle"] ELSE env
  /\ pc' \in {"next", "idle"}
  /\ UNCHANGED <<dotenv, shell, clock, run, results, files, taken>>

-----------------------------------------------------------------------------
(* run_eval.                                                                *)
\* The id has neither the seed nor the arm nor the mode in it.
RunId(config) == <<config, clock>>

StartRun ==
  /\ pc = "next"
  /\ todo /= << >>
  /\ Cardinality(taken) < MaxRuns
  /\ LET r == Head(todo)
         no == Cardinality(taken) + 1
     IN  /\ env' = IF r.mode = Unset THEN env ELSE [env EXCEPT !.mode = r.mode]
         /\ run' = [NoRun EXCEPT !.id = RunId(r.config), !.no = no, !.seed = r.seed,
                                 !.mode = r.mode]
         /\ taken' = taken \union {[id |-> RunId(r.config), no |-> no]}
  /\ todo' = Tail(todo)
  /\ pc' = "task"
  /\ UNCHANGED <<dotenv, shell, clock, scenario, previous, done, results, begun, files>>

\* A session returns having decided something or nothing, or raises before or after
\* its first decision.  Saving its checkpoint may fail, which is swallowed or raises,
\* and it may raise after that.
Outcomes == IF scenario.dry_run THEN {"dry_run"} ELSE {"worked", "idle", "failed", "cut off"}
Returned(row) == row \in {"worked", "idle"}
Streamed(row) == row \in {"worked", "cut off"}

RunTask ==
  /\ pc = "task"
  /\ Len(run.rows) < Len(Sample[run.seed])
  /\ LET task == Sample[run.seed][Len(run.rows) + 1]
         e == IF scenario.dry_run THEN env ELSE Loaded(env)
     IN  \E row \in Outcomes :
           /\ env' = e
           /\ run' = [run EXCEPT
                        !.rows = Append(@, row),
                        !.sessions = IF Returned(row) THEN @ \union {task} ELSE @,
                        !.models = IF scenario.dry_run THEN @ ELSE @ \union {e.profiles},
                        !.modes = IF scenario.dry_run THEN @ ELSE @ \union {e.mode}]
           /\ \/ decisions' = IF Streamed(row)
                              THEN decisions \union {[id |-> run.id, no |-> run.no, task |-> task]}
                              ELSE decisions
              \/ decisions' = decisions    \* append swallows OSError
           /\ \/ checkpoints' = IF Streamed(row)
                                THEN checkpoints \union {[no |-> run.no, task |-> task]}
                                ELSE checkpoints
              \/ checkpoints' = checkpoints
  /\ UNCHANGED <<dotenv, shell, clock, pc, experiment, traces, manifests, qualities, taken>>

TasksDone ==
  /\ pc = "task"
  /\ Len(run.rows) = Len(Sample[run.seed])
  /\ pc' = "trace"
  /\ UNCHANGED <<dotenv, shell, env, clock, experiment, run, files, taken>>

\* A file replaces another of its name.
Write(fs, f) == {g \in fs : g.id /= f.id} \union {f}

\* The trace when writing it stops: untouched, or with the rows that got that far.
TraceCutOff ==
  \/ UNCHANGED traces
  \/ /\ pc = "trace"
     /\ \E n \in 0..Len(run.rows) :
          traces' = Write(traces, [id |-> run.id, no |-> run.no,
                                   rows |-> SubSeq(run.rows, 1, n), models |-> run.models])

WriteTrace ==
  /\ pc = "trace"
  /\ traces' = Write(traces, [id |-> run.id, no |-> run.no, rows |-> run.rows,
                              models |-> run.models])
  /\ pc' = "manifest"
  /\ UNCHANGED <<dotenv, shell, env, clock, experiment, run, manifests, qualities, decisions,
                 checkpoints, taken>>

\* Mutated: the profiles the experiment set, not those the tasks found.
ProfilesAsked == IF scenario.bundle THEN "bundle" ELSE "default"

\* manifest_provider_and_profiles, after the tasks.
ProfilesNow == env.profiles

WriteManifest ==
  /\ pc = "manifest"
  /\ manifests' = Write(manifests, [id |-> run.id, no |-> run.no, seed |-> run.seed,
                                    profiles |-> ProfilesNow, sessions |-> run.sessions,
                                    decisions_file |-> ~scenario.dry_run])
  /\ pc' = IF scenario.dry_run THEN "judge" ELSE "quality"
  /\ UNCHANGED <<dotenv, shell, env, clock, experiment, run, traces, qualities, decisions,
                 checkpoints, taken>>

\* assess_run: too many rows without an interaction make a run invalid.
ZeroRows(rows) == Cardinality({i \in DOMAIN rows : rows[i] /= "worked"})
Valid(rows) == 100 * ZeroRows(rows) <= MaxZeroPercent * Len(rows)

AssessRun ==
  /\ pc = "quality"
  /\ \E t \in traces :
       /\ t.id = run.id
       /\ qualities' = Write(qualities, [id |-> run.id, no |-> run.no, valid |-> Valid(t.rows)])
       /\ run' = [run EXCEPT !.valid = Valid(t.rows)]
  /\ pc' = "judge"
  /\ UNCHANGED <<dotenv, shell, env, clock, experiment, traces, manifests, decisions, checkpoints, taken>>

\* Loading the tasks, Docker, an unknown profile or a file it cannot write: run_eval
\* raises.
RunRaises ==
  /\ pc \in {"task", "trace", "manifest", "quality"}
  /\ TraceCutOff
  /\ pc' = "leave"
  /\ UNCHANGED <<dotenv, shell, env, clock, experiment, run, manifests, qualities, decisions,
                 checkpoints, taken>>

-----------------------------------------------------------------------------
(* Back in the experiment.                                                  *)
\* Mutated: the ablation takes any run, like the other experiments.
AcceptsAll == TRUE

\* Only the ablation looks at run_valid.
Accepts == scenario.kind = "ablation" /\ ~scenario.dry_run => run.valid

JudgeRun ==
  /\ pc = "judge"
  /\ IF Accepts
     THEN /\ done' = Append(done, [id |-> run.id, no |-> run.no, seed |-> run.seed])
          /\ pc' = "next"
     ELSE /\ done' = done
          /\ pc' = "leave"
  /\ UNCHANGED <<dotenv, shell, env, clock, scenario, previous, todo, run, results, begun, files, taken>>

\* Mutated: the mode is only put back if there was one.
RestoredIfSet == IF scenario.kind = "agent_count" \/ previous = Unset THEN env.mode ELSE previous

\* The finally clause, which agent_count does not have, nor a mode to restore.
Restored == IF scenario.kind = "agent_count" THEN env.mode ELSE previous

Finish ==
  /\ pc = "next"
  /\ todo = << >>
  /\ results' = results \union {[scenario |-> scenario, runs |-> done]}
  /\ env' = [env EXCEPT !.mode = Restored]
  /\ run' = NoRun
  /\ pc' = "idle"
  /\ UNCHANGED <<dotenv, shell, clock, scenario, previous, todo, done, begun, files, taken>>

\* AblationRunInvalidError, or what run_eval raised.
Leave ==
  /\ pc = "leave"
  /\ env' = [env EXCEPT !.mode = Restored]
  /\ run' = NoRun
  /\ pc' = "idle"
  /\ UNCHANGED <<dotenv, shell, clock, experiment, files, taken>>

\* The process is killed, perhaps in the middle of writing the trace, and another
\* one is started by the same shell.
Kill ==
  /\ pc /= "idle"
  /\ TraceCutOff
  /\ env' = [profiles |-> "default", mode |-> shell]
  /\ previous' = shell
  /\ run' = NoRun
  /\ pc' = "idle"
  /\ UNCHANGED <<dotenv, shell, clock, scenario, todo, done, results, begun, manifests,
                 qualities, decisions, checkpoints, taken>>

Tick ==
  /\ clock < MaxClock
  /\ clock' = clock + 1
  /\ UNCHANGED <<dotenv, shell, env, pc, experiment, run, files, taken>>

Next ==
  \/ \E s \in Scenarios : Begin(s)
  \/ StartRun \/ RunTask \/ TasksDone \/ WriteTrace \/ WriteManifest \/ AssessRun \/ RunRaises
  \/ JudgeRun \/ Finish \/ Leave
  \/ Kill \/ Tick

Spec == Init /\ [][Next]_vars

-----------------------------------------------------------------------------
(* The readers: validate_cited_run and iter_decisions.                      *)
Citable(t, m) == t.id = m.id /\ Valid(t.rows)

\* The decisions counted for a run: of its stream, or else of all checkpoints.
Counted(m) ==
  LET stream == {[no |-> d.no, task |-> d.task] : d \in {l \in decisions : l.id = m.id}}
  IN  IF m.decisions_file /\ stream /= {} THEN stream ELSE checkpoints

-----------------------------------------------------------------------------
(* Properties.                                                              *)
Shared(id) == Cardinality({t \in taken : t.id = id}) > 1

\* What may be cited is one whole run: if two runs were not begun under one id, a trace
\* that validate_cited_run accepts has a row for every task of the manifest's seed, the
\* profiles the manifest names are those of every session, it names the sessions of
\* exactly the rows that returned, and once a line of its stream was written, the
\* decisions counted are its own, whatever was killed or failed on the way.
CitationsAreSound ==
  \A t \in traces, m \in manifests :
    Citable(t, m) /\ ~Shared(t.id) =>
      /\ t.no = m.no
      /\ Len(t.rows) = Len(Sample[m.seed])
      /\ t.models \subseteq {m.profiles}
      /\ m.sessions = {Sample[m.seed][i] : i \in {j \in DOMAIN t.rows : Returned(t.rows[j])}}
      /\ (\E d \in decisions : d.no = m.no) => \A d \in Counted(m) : d.no = m.no

\* An ablation that made no dry run returns a run for every configuration and seed, and
\* the file left beside each of them calls it valid.
OnlyValidRunsAggregated ==
  \A r \in results :
    r.scenario.kind = "ablation" /\ ~r.scenario.dry_run =>
      /\ [i \in DOMAIN r.runs |-> r.runs[i].seed]
           = [i \in DOMAIN Plan(r.scenario) |-> Plan(r.scenario)[i].seed]
      /\ \A i \in DOMAIN r.runs :
           Shared(r.runs[i].id) \/ \E q \in qualities : q.no = r.runs[i].no /\ q.valid

\* An experiment leaves the retrieval mode as it found it, however it ends, and unless
\* .env names one, each session retrieves in the mode of its arm.
RetrievalModeScoped ==
  /\ pc = "idle" =>
       env.mode = previous \/ (scenario.kind = "agent_count" /\ "mode" \in dotenv)
  /\ "mode" \notin dotenv => run.modes \subseteq {IF run.mode = Unset THEN shell ELSE run.mode}
=============================================================================
