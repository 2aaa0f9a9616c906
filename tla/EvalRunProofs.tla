--------------------------- MODULE EvalRunProofs ---------------------------
(***************************************************************************)
(* Theorems about the experiments, for any configurations, seeds, tasks    *)
(* and bounds: an experiment runs its arms in the retrieval modes it says  *)
(* and leaves the mode as it found it; what may be cited is one whole run; *)
(* an ablation returns its planned runs, each called valid.                *)
(***************************************************************************)
EXTENDS EvalRun, Integers, FiniteSetTheorems, TLAPS

-----------------------------------------------------------------------------
\* The experiments that set the mode for each of their runs.
SetsMode(s) == s.kind = "retrieval_compare" \/ (s.kind = "ablation" /\ s.mode /= Unset)

\* A run to be made.  agent_count names its configuration, "D", itself.
Arm == [mode : Modes \union {Unset}, config : STRING \union {"D"}, seed : Nat]

\* What is known without any history.
Shapes ==
  /\ DOMAIN env = {"profiles", "mode"}
  /\ env = [profiles |-> env.profiles, mode |-> env.mode]
  /\ todo \in Seq(Arm)

\* An experiment sets the mode of all its runs or of none.
ArmsAgree ==
  pc /= "idle" =>
    /\ \A i \in 1..Len(todo) : todo[i].mode = Unset <=> ~SetsMode(scenario)
    /\ pc /= "next" => (run.mode = Unset <=> ~SetsMode(scenario))

\* The mode sessions retrieve in, if .env names none.
ModeOf(r) == IF r.mode = Unset THEN shell ELSE r.mode

ModeSoFar ==
  "mode" \notin dotenv =>
    /\ previous = shell
    /\ pc = "idle" \/ ~SetsMode(scenario) => env.mode = shell
    /\ pc \notin {"idle", "next"} => env.mode = ModeOf(run)
    /\ run.modes \subseteq {ModeOf(run)}

\* If .env names a mode, only an experiment that sets it puts it back.
ModePutBack ==
  pc = "idle" => env.mode = previous \/ (scenario.kind = "agent_count" /\ "mode" \in dotenv)

IInv == Shapes /\ ArmsAgree /\ ModeSoFar /\ ModePutBack

-----------------------------------------------------------------------------
(* What an experiment plans.                                                *)
LEMMA QuotientInRange ==
  ASSUME NEW a \in Nat, NEW b \in Nat, NEW i \in 1..(a * b)
  PROVE  b > 0 /\ (i - 1) \div b + 1 \in 1..a /\ ((i - 1) % b) + 1 \in 1..b
<1>1. b > 0
  BY SMT
<1>2. (i - 1) \div b \in Int /\ (i - 1) % b \in 0..(b - 1)
      /\ i - 1 = b * ((i - 1) \div b) + ((i - 1) % b)
  BY <1>1, SMT
<1> DEFINE q == (i - 1) \div b
           r == (i - 1) % b
<1> HIDE DEF q, r
<1>3. q \in Int /\ r \in 0..(b - 1) /\ i - 1 = b * q + r
  BY <1>2 DEF q, r
<1>4. q >= 0
  <2>1. q < 0 => b * q <= -b
    BY <1>1, <1>3, SMT
  <2> QED
    BY <1>1, <1>3, <2>1, SMT
<1>5. q < a
  <2>1. q >= a => b * q >= a * b
    BY <1>1, <1>3, SMT
  <2> QED
    BY <1>1, <1>3, <2>1, SMT
<1> QED
  BY <1>1, <1>3, <1>4, <1>5 DEF q, r

LEMMA ProductTypes ==
  ASSUME NEW X, NEW Y, NEW xs \in Seq(X), NEW ys \in Seq(Y)
  PROVE  /\ Len(xs) * Len(ys) \in Nat
         /\ DOMAIN Product(xs, ys) = 1..(Len(xs) * Len(ys))
         /\ \A i \in DOMAIN Product(xs, ys) : Product(xs, ys)[i] \in X \X Y
<1>1. Len(xs) * Len(ys) \in Nat
  BY SMT
<1>2. ASSUME NEW i \in 1..(Len(xs) * Len(ys))
      PROVE  <<xs[(i - 1) \div Len(ys) + 1], ys[((i - 1) % Len(ys)) + 1]>> \in X \X Y
  <2>1. (i - 1) \div Len(ys) + 1 \in 1..Len(xs) /\ ((i - 1) % Len(ys)) + 1 \in 1..Len(ys)
    BY <1>2, QuotientInRange
  <2> QED
    BY <2>1
<1> QED
  BY <1>1, <1>2 DEF Product

\* The arms of a list of configurations and seeds in one mode.
ArmsOf(configs, seeds, mode) ==
  LET pairs == Product(configs, seeds)
  IN  [i \in DOMAIN pairs |-> [config |-> pairs[i][1], seed |-> pairs[i][2], mode |-> mode]]

LEMMA ArmsOfTypes ==
  ASSUME NEW configs \in Seq(STRING), NEW seeds \in Seq(Nat), NEW mode \in Modes \union {Unset}
  PROVE  /\ ArmsOf(configs, seeds, mode) \in Seq(Arm)
         /\ \A i \in 1..Len(ArmsOf(configs, seeds, mode)) : ArmsOf(configs, seeds, mode)[i].mode = mode
<1> DEFINE pairs == Product(configs, seeds)
           n == Len(configs) * Len(seeds)
           arms == ArmsOf(configs, seeds, mode)
<1>1. n \in Nat /\ DOMAIN pairs = 1..n /\ \A i \in DOMAIN pairs : pairs[i] \in STRING \X Nat
  BY ProductTypes
<1> HIDE DEF pairs, n
<1>2. \A i \in 1..n : [config |-> pairs[i][1], seed |-> pairs[i][2], mode |-> mode] \in Arm
  BY <1>1 DEF Arm
<1>3. arms = [i \in 1..n |-> [config |-> pairs[i][1], seed |-> pairs[i][2], mode |-> mode]]
  BY <1>1 DEF ArmsOf, pairs
<1> HIDE DEF arms
<1>4. arms \in Seq(Arm) /\ Len(arms) = n /\ \A i \in 1..n : arms[i].mode = mode
  BY <1>1, <1>2, <1>3
<1> QED
  BY <1>4 DEF arms

LEMMA SeedListTypes ==
  ASSUME NEW s \in Scenarios
  PROVE  /\ s.seeds \in Seq(Nat)
         /\ s.kind \in {"ablation", "retrieval_compare", "agent_count"}
         /\ s.mode \in Modes \union {Unset}
         /\ s.kind = "agent_count" => s.mode = Unset
<1>1. \A n \in 1..Len(Seeds) : SubSeq(Seeds, 1, n) \in Seq(Nat)
  BY ListsAreSequences
<1>2. SeedLists \subseteq Seq(Nat)
  BY <1>1 DEF SeedLists
<1> QED
  BY <1>2 DEF Scenarios

LEMMA PlanTypes ==
  ASSUME NEW s \in Scenarios
  PROVE  /\ Plan(s) \in Seq(Arm)
         /\ \A i \in 1..Len(Plan(s)) : Plan(s)[i].mode = Unset <=> ~SetsMode(s)
<1>1. /\ s.seeds \in Seq(Nat) /\ s.mode \in Modes \union {Unset}
      /\ s.kind \in {"ablation", "retrieval_compare", "agent_count"}
  BY SeedListTypes
<1>2. CASE s.kind = "ablation"
  <2>1. Plan(s) = ArmsOf(Configs, s.seeds, s.mode)
    BY <1>2 DEF Plan, ArmsOf
  <2>2. SetsMode(s) <=> s.mode /= Unset
    BY <1>2 DEF SetsMode
  <2> QED
    BY <1>1, <2>1, <2>2, ArmsOfTypes, ListsAreSequences
<1>3. CASE s.kind = "retrieval_compare"
  <2> DEFINE ks == ArmsOf(MemoryConfigs, s.seeds, "keyword")
             ss == ArmsOf(MemoryConfigs, s.seeds, "semantic")
  <2>1. Plan(s) = ks \o ss
    BY <1>3 DEF Plan, ArmsOf
  <2>2. SetsMode(s) /\ "keyword" \in Modes /\ "semantic" \in Modes
    BY <1>3 DEF SetsMode, Modes
  <2>3. /\ ks \in Seq(Arm) /\ \A i \in 1..Len(ks) : ks[i].mode = "keyword"
        /\ ss \in Seq(Arm) /\ \A i \in 1..Len(ss) : ss[i].mode = "semantic"
    BY <1>1, <2>2, ArmsOfTypes, ListsAreSequences
  <2> HIDE DEF ks, ss
  <2>4. \A i \in 1..Len(ks \o ss) : (ks \o ss)[i].mode \in {"keyword", "semantic"}
    BY <2>3
  <2>5. Unset \notin {"keyword", "semantic"}
    BY DEF Unset
  <2> QED
    BY <2>1, <2>2, <2>3, <2>4, <2>5
<1>4. CASE s.kind = "agent_count"
  <2> DEFINE agents == <<"two agents", "one agent">>
             Agents == {"two agents", "one agent"}
             pairs == Product(s.seeds, agents)
             n == Len(s.seeds) * Len(agents)
  <2>1. agents \in Seq(Agents)
    OBVIOUS
  <2>2. Plan(s) = [i \in DOMAIN pairs |-> [config |-> "D", seed |-> pairs[i][1], mode |-> Unset]]
    BY <1>4 DEF Plan
  <2> HIDE DEF agents, Agents
  <2>3. n \in Nat /\ DOMAIN pairs = 1..n /\ \A i \in DOMAIN pairs : pairs[i] \in Nat \X Agents
    BY <1>1, <2>1, ProductTypes
  <2> HIDE DEF pairs, n
  <2>4. \A i \in 1..n : [config |-> "D", seed |-> pairs[i][1], mode |-> Unset] \in Arm
    BY <2>3 DEF Arm
  <2>5. Plan(s) = [i \in 1..n |-> [config |-> "D", seed |-> pairs[i][1], mode |-> Unset]]
    BY <2>2, <2>3
  <2>6. Plan(s) \in Seq(Arm) /\ Len(Plan(s)) = n /\ \A i \in 1..n : Plan(s)[i].mode = Unset
    BY <2>3, <2>4, <2>5
  <2> QED
    BY <1>4, <2>6 DEF SetsMode
<1> QED
  BY <1>1, <1>2, <1>3, <1>4

-----------------------------------------------------------------------------
(* The steps.                                                               *)
LEMMA InitIInv == Init => IInv
<1> SUFFICES ASSUME Init PROVE IInv
  OBVIOUS
<1>1. Shapes
  BY DEF Init, Shapes
<1>2. run.modes = {} /\ run.mode = Unset /\ env.mode = shell /\ previous = shell /\ pc = "idle"
  BY DEF Init, NoRun
<1> QED
  BY <1>1, <1>2 DEF IInv, ArmsAgree, ModeSoFar, ModePutBack

LEMMA BeginKeeps == ASSUME IInv, NEW s \in Scenarios, Begin(s) PROVE IInv'
<1>1. /\ pc = "idle" /\ pc' \in {"next", "idle"} /\ scenario' = s /\ previous' = env.mode /\ todo' = Plan(s)
      /\ UNCHANGED <<dotenv, shell, run>>
      /\ env' = IF s.bundle THEN [env EXCEPT !.profiles = "bundle"] ELSE env
  BY DEF Begin
<1>2. /\ DOMAIN env' = {"profiles", "mode"} /\ env'.mode = env.mode
      /\ env' = [profiles |-> env'.profiles, mode |-> env'.mode]
  BY <1>1 DEF IInv, Shapes
<1>3. /\ Plan(s) \in Seq(Arm)
      /\ \A i \in 1..Len(Plan(s)) : Plan(s)[i].mode = Unset <=> ~SetsMode(s)
  BY PlanTypes
<1>4. Shapes'
  BY <1>1, <1>2, <1>3 DEF Shapes
<1>5. ArmsAgree'
  BY <1>1, <1>3 DEF ArmsAgree
<1>6. ModeSoFar'
  BY <1>1, <1>2 DEF IInv, ModeSoFar, ModeOf
<1> QED
  BY <1>1, <1>4, <1>5, <1>6 DEF IInv, ModePutBack

LEMMA StartRunKeeps == ASSUME IInv, StartRun PROVE IInv'
<1> DEFINE r == Head(todo)
<1>1. /\ pc = "next" /\ pc' = "task" /\ todo /= << >> /\ todo' = Tail(todo)
      /\ UNCHANGED <<dotenv, shell, scenario, previous>>
      /\ env' = IF r.mode = Unset THEN env ELSE [env EXCEPT !.mode = r.mode]
      /\ run' = [NoRun EXCEPT !.id = RunId(r.config), !.no = Cardinality(taken) + 1,
                              !.seed = r.seed, !.mode = r.mode]
  BY DEF StartRun
<1>2. todo \in Seq(Arm) /\ r = todo[1] /\ 1 \in 1..Len(todo) /\ Tail(todo) \in Seq(Arm)
      /\ \A i \in 1..Len(Tail(todo)) : Tail(todo)[i] = todo[i + 1] /\ i + 1 \in 1..Len(todo)
  BY <1>1 DEF IInv, Shapes
<1>3. run'.mode = r.mode /\ run'.modes = {}
  BY <1>1 DEF NoRun
<1>4. r.mode = Unset <=> ~SetsMode(scenario)
  BY <1>1, <1>2 DEF IInv, ArmsAgree
<1> HIDE DEF r
<1>5. /\ DOMAIN env' = {"profiles", "mode"} /\ env' = [profiles |-> env'.profiles, mode |-> env'.mode]
      /\ env'.mode = IF r.mode = Unset THEN env.mode ELSE r.mode
  BY <1>1 DEF IInv, Shapes
<1>6. Shapes'
  BY <1>1, <1>2, <1>5 DEF Shapes
<1>7. ArmsAgree'
  <2>1. \A i \in 1..Len(Tail(todo)) : Tail(todo)[i].mode = Unset <=> ~SetsMode(scenario)
    BY <1>1, <1>2 DEF IInv, ArmsAgree
  <2> QED
    BY <1>1, <1>3, <1>4, <2>1 DEF ArmsAgree
<1>8. ModeSoFar'
  BY <1>1, <1>3, <1>4, <1>5 DEF IInv, ModeSoFar, ModeOf
<1> QED
  BY <1>1, <1>6, <1>7, <1>8 DEF IInv, ModePutBack

LEMMA RunTaskKeeps == ASSUME IInv, RunTask PROVE IInv'
<1> DEFINE e == IF scenario.dry_run THEN env ELSE Loaded(env)
<1>1. PICK row \in Outcomes :
        /\ env' = e
        /\ run' = [run EXCEPT
                     !.rows = Append(@, row),
                     !.sessions = IF Returned(row)
                                  THEN @ \union {Sample[run.seed][Len(run.rows) + 1]} ELSE @,
                     !.models = IF scenario.dry_run THEN @ ELSE @ \union {e.profiles},
                     !.modes = IF scenario.dry_run THEN @ ELSE @ \union {e.mode}]
  BY DEF RunTask
<1>2. /\ pc = "task" /\ UNCHANGED <<dotenv, shell, pc, scenario, previous, todo>>
  BY DEF RunTask, experiment
<1>3. /\ DOMAIN e = {"profiles", "mode"} /\ e = [profiles |-> e.profiles, mode |-> e.mode]
      /\ "mode" \notin dotenv => e.mode = env.mode
  BY DEF IInv, Shapes, Loaded
<1> HIDE DEF e
<1>4. Shapes'
  BY <1>1, <1>2, <1>3 DEF IInv, Shapes
<1>5. run'.mode = run.mode /\ run'.modes \subseteq run.modes \union {e.mode}
  BY <1>1
<1>6. ArmsAgree'
  BY <1>2, <1>5 DEF IInv, ArmsAgree
<1>7. ModeSoFar'
  BY <1>1, <1>2, <1>3, <1>5 DEF IInv, ModeSoFar, ModeOf
<1> QED
  BY <1>2, <1>4, <1>6, <1>7 DEF IInv, ModePutBack

\* A step within a run that touches no mode.
LEMMA QuietKeeps ==
  ASSUME IInv, pc \notin {"idle", "next"}, pc' /= "idle",
         UNCHANGED <<dotenv, shell, env, scenario, previous, todo>>,
         run'.mode = run.mode, run'.modes = run.modes
  PROVE  IInv'
<1>1. Shapes'
  BY DEF IInv, Shapes
<1>2. ArmsAgree'
  BY DEF IInv, ArmsAgree
<1>3. ModeSoFar'
  BY DEF IInv, ModeSoFar, ModeOf
<1> QED
  BY <1>1, <1>2, <1>3 DEF IInv, ModePutBack

LEMMA QuietSteps ==
  ASSUME IInv, \/ TasksDone \/ WriteTrace \/ WriteManifest \/ AssessRun \/ RunRaises \/ JudgeRun
  PROVE  IInv'
<1>1. CASE TasksDone
  BY <1>1, QuietKeeps DEF TasksDone, experiment
<1>2. CASE WriteTrace
  BY <1>2, QuietKeeps DEF WriteTrace, experiment
<1>3. CASE WriteManifest
  BY <1>3, QuietKeeps DEF WriteManifest, experiment
<1>4. CASE AssessRun
  <2>1. run'.mode = run.mode /\ run'.modes = run.modes
    BY <1>4 DEF AssessRun
  <2> QED
    BY <1>4, <2>1, QuietKeeps DEF AssessRun, experiment
<1>5. CASE RunRaises
  BY <1>5, QuietKeeps DEF RunRaises, experiment
<1>6. CASE JudgeRun
  BY <1>6, QuietKeeps DEF JudgeRun
<1> QED
  BY <1>1, <1>2, <1>3, <1>4, <1>5, <1>6

\* The end of an experiment, and of the process.
LEMMA EndKeeps == ASSUME IInv, Finish \/ Leave \/ Kill PROVE IInv'
<1>1. NoRun.mode = Unset /\ NoRun.modes = {}
  BY DEF NoRun
<1>2. CASE Finish \/ Leave
  <2>1. /\ pc /= "idle" /\ pc' = "idle" /\ run' = NoRun /\ env' = [env EXCEPT !.mode = Restored]
        /\ UNCHANGED <<dotenv, shell, scenario, previous, todo>>
    BY <1>2 DEF Finish, Leave, experiment
  <2>2. /\ DOMAIN env' = {"profiles", "mode"} /\ env'.mode = Restored
        /\ env' = [profiles |-> env'.profiles, mode |-> env'.mode]
    BY <2>1 DEF IInv, Shapes
  <2>3. scenario.kind = "agent_count" => ~SetsMode(scenario)
    BY DEF SetsMode
  <2>4. "mode" \notin dotenv => Restored = shell
    BY <2>1, <2>3 DEF Restored, IInv, ModeSoFar
  <2>5. Shapes' /\ ArmsAgree'
    BY <2>1, <2>2 DEF IInv, Shapes, ArmsAgree
  <2>6. ModeSoFar'
    BY <1>1, <2>1, <2>2, <2>4 DEF IInv, ModeSoFar
  <2>7. ModePutBack'
    BY <2>1, <2>2, <2>4 DEF IInv, ModeSoFar, ModePutBack, Restored
  <2> QED
    BY <2>5, <2>6, <2>7 DEF IInv
<1>3. CASE Kill
  <2>1. /\ pc' = "idle" /\ run' = NoRun /\ env' = [profiles |-> "default", mode |-> shell]
        /\ previous' = shell /\ UNCHANGED <<dotenv, shell, scenario, todo>>
    BY <1>3 DEF Kill
  <2>2. Shapes' /\ ArmsAgree'
    BY <2>1 DEF IInv, Shapes, ArmsAgree
  <2> QED
    BY <1>1, <2>1, <2>2 DEF IInv, ModeSoFar, ModePutBack
<1> QED
  BY <1>2, <1>3

LEMMA StepIInv == IInv /\ [Next]_vars => IInv'
<1> SUFFICES ASSUME IInv, [Next]_vars PROVE IInv'
  OBVIOUS
<1>1. ASSUME NEW s \in Scenarios, Begin(s) PROVE IInv'
  BY <1>1, BeginKeeps
<1>2. CASE StartRun
  BY <1>2, StartRunKeeps
<1>3. CASE RunTask
  BY <1>3, RunTaskKeeps
<1>4. CASE TasksDone \/ WriteTrace \/ WriteManifest \/ AssessRun \/ RunRaises \/ JudgeRun
  BY <1>4, QuietSteps
<1>5. CASE Finish \/ Leave \/ Kill
  BY <1>5, EndKeeps
<1>6. CASE Tick \/ UNCHANGED vars
  <2>1. UNCHANGED <<dotenv, shell, env, pc, scenario, previous, todo, run>>
    BY <1>6 DEF Tick, experiment, vars
  <2> QED
    BY <2>1 DEF IInv, Shapes, ArmsAgree, ModeSoFar, ModeOf, ModePutBack
<1> QED
  BY <1>1, <1>2, <1>3, <1>4, <1>5, <1>6 DEF Next

\* However an experiment ends, the mode is what it was before, and its sessions
\* retrieved in the mode of their arm, unless .env names a mode.
THEOREM ModeIsScoped == Spec => []RetrievalModeScoped
<1>1. IInv => RetrievalModeScoped
  BY DEF IInv, ModeSoFar, ModeOf, ModePutBack, RetrievalModeScoped
<1> QED
  BY <1>1, InitIInv, StepIInv, PTL DEF Spec

-----------------------------------------------------------------------------
(* What may be cited.  The argument is by the numbers of the runs: a number *)
(* is given out once, the files of a run carry its number, and the manifest *)
(* of a number is written after everything it speaks of.  Ids only come in  *)
(* where the readers do, who have nothing else.                             *)
Ids == (STRING \union {"D"}) \X Nat
RowKinds == {"dry_run", "worked", "idle", "failed", "cut off"}

\* The run a file is of.
Key(f) == [id |-> f.id, no |-> f.no]

\* The sessions of the rows that returned.
SessionsOf(seed, rows) == {Sample[seed][i] : i \in {j \in DOMAIN rows : Returned(rows[j])}}

RunShape ==
  /\ clock \in Nat
  /\ pc /= "idle" => scenario \in Scenarios
  /\ run = [id |-> run.id, no |-> run.no, seed |-> run.seed, mode |-> run.mode,
            rows |-> run.rows, sessions |-> run.sessions, models |-> run.models,
            modes |-> run.modes, valid |-> run.valid]
  /\ run.rows \in Seq(RowKinds)
  /\ run.seed \in Nat

\* A number is one run's, and so is every file.
NumbersGiven ==
  /\ IsFiniteSet(taken)
  /\ taken \subseteq [id : Ids, no : 1..Cardinality(taken)]
  /\ \A a, b \in taken : a.no = b.no => a = b
  /\ \A f \in traces \union manifests \union qualities \union decisions : Key(f) \in taken
  /\ pc \notin {"idle", "next"} => Key(run) \in taken

\* The trace is written before the manifest, and each only once.
FilesInOrder ==
  /\ pc \in {"task", "trace"} => \A t \in traces : t.no /= run.no
  /\ pc \in {"task", "trace", "manifest"} => \A m \in manifests : m.no /= run.no
  /\ pc = "manifest" =>
       \A t \in traces : t.no = run.no => t.rows = run.rows /\ t.models = run.models
  /\ pc \in {"trace", "manifest"} => Len(run.rows) = Len(Sample[run.seed])

\* What the manifest is about to say is true of the run.
RunSoFar ==
  pc \in {"task", "trace", "manifest"} =>
    /\ run.models \subseteq {env.profiles}
    /\ "profiles" \in dotenv /\ run.models /= {} => env.profiles = "dotenv"
    /\ run.sessions = SessionsOf(run.seed, run.rows)
    /\ scenario.dry_run => \A d \in decisions : d.no /= run.no

\* And stays so.
ManifestsHold ==
  \A m \in manifests :
    /\ m.decisions_file \/ \A d \in decisions : d.no /= m.no
    /\ \A t \in traces : t.no = m.no =>
         /\ Len(t.rows) = Len(Sample[m.seed])
         /\ t.models \subseteq {m.profiles}
         /\ m.sessions = SessionsOf(m.seed, t.rows)

FilesInv == RunShape /\ NumbersGiven /\ FilesInOrder /\ RunSoFar /\ ManifestsHold

-----------------------------------------------------------------------------
(* What an ablation returns.                                                *)
DoneRuns == [id : Ids, no : Nat, seed : Nat]
Strict(s) == s.kind = "ablation" /\ ~s.dry_run

\* The file left beside a run calls it valid, or is not its own.
Vouched(d) == Shared(d.id) \/ \E q \in qualities : q.no = d.no /\ q.valid

\* Runs of the experiments so far: those that ended are other runs than this one.
Past == {done} \union {r.runs : r \in results}
PastRuns ==
  \A rs \in Past :
    /\ rs \in Seq(DoneRuns)
    /\ \A i \in 1..Len(rs) :
         /\ Key(rs[i]) \in taken
         /\ pc \in {"task", "trace", "manifest", "quality", "judge"} => rs[i].no /= run.no

\* The runs made, the one being made and those to be made are the plan.
Made == Len(done) + (IF pc = "next" THEN 0 ELSE 1)
PlanSoFar ==
  pc /= "idle" =>
    /\ Len(Plan(scenario)) = Made + Len(todo)
    /\ \A i \in 1..Len(todo) : todo[i] = Plan(scenario)[Made + i]
    /\ \A i \in 1..Len(done) : done[i].seed = Plan(scenario)[i].seed
    /\ pc /= "next" => run.seed = Plan(scenario)[Made].seed

VouchedSoFar ==
  /\ pc = "judge" /\ ~scenario.dry_run =>
       \E q \in qualities : q.no = run.no /\ q.valid = run.valid
  /\ pc /= "idle" /\ Strict(scenario) => \A i \in 1..Len(done) : Vouched(done[i])
  /\ \A r \in results : Strict(r.scenario) =>
       /\ [i \in DOMAIN r.runs |-> r.runs[i].seed]
            = [i \in DOMAIN Plan(r.scenario) |-> Plan(r.scenario)[i].seed]
       /\ \A i \in 1..Len(r.runs) : Vouched(r.runs[i])

ResultsInv == PastRuns /\ PlanSoFar /\ VouchedSoFar

-----------------------------------------------------------------------------
(* Ids, numbers and files.                                                  *)
LEMMA PairShares ==
  ASSUME NEW S, IsFiniteSet(S), NEW a \in S, NEW b \in S, a /= b
  PROVE  Cardinality(S) > 1
<1>1. IsFiniteSet({a}) /\ Cardinality({a}) = 1
  BY FS_Singleton
<1>2. IsFiniteSet({a} \union {b}) /\ Cardinality({a} \union {b}) = 2
  BY <1>1, FS_AddElement
<1>3. {a} \union {b} \in SUBSET S
  OBVIOUS
<1>4. Cardinality({a} \union {b}) <= Cardinality(S) /\ Cardinality(S) \in Nat
  BY <1>3, FS_Subset, FS_CardinalityType
<1> QED
  BY <1>2, <1>4

\* Two runs under one id share it.
LEMMA TwoRunsShare ==
  ASSUME IsFiniteSet(taken), NEW a \in taken, NEW b \in taken, a.id = b.id, a /= b
  PROVE  Shared(a.id)
<1> DEFINE S == {t \in taken : t.id = a.id}
<1>1. S \in SUBSET taken /\ a \in S /\ b \in S
  OBVIOUS
<1>2. IsFiniteSet(S)
  BY <1>1, FS_Subset
<1> HIDE DEF S
<1>3. Cardinality(S) > 1
  BY <1>1, <1>2, PairShares
<1> QED
  BY <1>3 DEF S, Shared

\* An id once shared remains so.
LEMMA SharedStays ==
  ASSUME IsFiniteSet(taken'), taken \subseteq taken', NEW id, Shared(id)
  PROVE  Shared(id)'
<1> DEFINE S == {t \in taken : t.id = id}
           T == {t \in taken' : t.id = id}
<1>1. S \in SUBSET T /\ T \in SUBSET taken'
  OBVIOUS
<1>2. IsFiniteSet(T)
  BY <1>1, FS_Subset
<1>3. IsFiniteSet(S) /\ Cardinality(S) <= Cardinality(T) /\ Cardinality(T) \in Nat
      /\ Cardinality(S) \in Nat
  <2> HIDE DEF S, T
  <2> QED
    BY <1>1, <1>2, FS_Subset, FS_CardinalityType
<1>4. Cardinality(S) > 1
  BY DEF Shared
<1>5. Cardinality(T) > 1
  <2> HIDE DEF S, T
  <2> QED
    BY <1>3, <1>4
<1> QED
  BY <1>5 DEF Shared

LEMMA OneRunPerId ==
  ASSUME NumbersGiven, NEW f, NEW g, Key(f) \in taken, Key(g) \in taken,
         f.id = g.id, ~Shared(f.id)
  PROVE  f.no = g.no
<1>1. Key(f).id = f.id /\ Key(g).id = g.id /\ Key(f).no = f.no /\ Key(g).no = g.no
  BY DEF Key
<1>2. Key(f) = Key(g)
  BY <1>1, TwoRunsShare DEF NumbersGiven
<1> QED
  BY <1>1, <1>2

LEMMA FilesOfWrite ==
  ASSUME NEW fs, NEW f
  PROVE  /\ f \in Write(fs, f)
         /\ \A g \in Write(fs, f) : g = f \/ g \in fs
         /\ \A g \in fs : g.id /= f.id => g \in Write(fs, f)
BY DEF Write

\* One row more.
LEMMA SessionsOfAppend ==
  ASSUME NEW seed, NEW rows \in Seq(RowKinds), NEW row \in RowKinds
  PROVE  SessionsOf(seed, Append(rows, row)) =
           IF Returned(row) THEN SessionsOf(seed, rows) \union {Sample[seed][Len(rows) + 1]}
           ELSE SessionsOf(seed, rows)
<1> DEFINE more == Append(rows, row)
<1>1. /\ DOMAIN rows = 1..Len(rows) /\ DOMAIN more = 1..(Len(rows) + 1) /\ Len(rows) \in Nat
      /\ more[Len(rows) + 1] = row /\ \A i \in 1..Len(rows) : more[i] = rows[i]
  OBVIOUS
<1> HIDE DEF more
<1> DEFINE A == {j \in DOMAIN rows : Returned(rows[j])}
           B == {j \in DOMAIN more : Returned(more[j])}
<1>2. B = IF Returned(row) THEN A \union {Len(rows) + 1} ELSE A
  BY <1>1
<1>3. /\ SessionsOf(seed, rows) = {Sample[seed][i] : i \in A}
      /\ SessionsOf(seed, more) = {Sample[seed][i] : i \in B}
  BY DEF SessionsOf
<1> HIDE DEF A, B
<1>4. SessionsOf(seed, more) =
        IF Returned(row) THEN SessionsOf(seed, rows) \union {Sample[seed][Len(rows) + 1]}
        ELSE SessionsOf(seed, rows)
  BY <1>2, <1>3
<1> QED
  BY <1>4 DEF more

-----------------------------------------------------------------------------
(* The steps, for the files.                                                *)
LEMMA InitFilesInv == Init => FilesInv
<1> SUFFICES ASSUME Init PROVE FilesInv
  OBVIOUS
<1>1. /\ pc = "idle" /\ clock = 0 /\ run = NoRun /\ taken = {} /\ traces = {} /\ manifests = {}
      /\ qualities = {} /\ decisions = {}
  BY DEF Init
<1>2. RunShape
  BY <1>1 DEF RunShape, NoRun
<1>3. NumbersGiven
  BY <1>1, FS_EmptySet DEF NumbersGiven
<1> QED
  BY <1>1, <1>2, <1>3 DEF FilesInv, FilesInOrder, RunSoFar, ManifestsHold

\* A step that leaves the files and the numbers alone, and makes no run.
LEMMA FilesLeftAlone ==
  ASSUME FilesInv, UNCHANGED <<traces, manifests, qualities, decisions, taken>>,
         pc' \in {"idle", "next"}
  PROVE  NumbersGiven' /\ FilesInOrder' /\ RunSoFar' /\ ManifestsHold'
<1>1. NumbersGiven'
  BY DEF FilesInv, NumbersGiven, Key
<1>2. ManifestsHold'
  BY DEF FilesInv, ManifestsHold, SessionsOf
<1> QED
  BY <1>1, <1>2 DEF FilesInOrder, RunSoFar

LEMMA BeginKeepsFiles == ASSUME FilesInv, NEW s \in Scenarios, Begin(s) PROVE FilesInv'
<1>1. pc' \in {"next", "idle"} /\ scenario' = s /\ UNCHANGED <<clock, run, traces, manifests, qualities, decisions, taken>>
  BY DEF Begin, files
<1>2. RunShape'
  BY <1>1 DEF FilesInv, RunShape
<1> QED
  BY <1>1, <1>2, FilesLeftAlone DEF FilesInv

LEMMA StartRunKeepsFiles == ASSUME IInv, FilesInv, StartRun PROVE FilesInv'
<1> DEFINE r == Head(todo)
           no == Cardinality(taken) + 1
           key == [id |-> RunId(r.config), no |-> no]
<1>1. /\ pc = "next" /\ pc' = "task" /\ todo /= << >>
      /\ run' = [NoRun EXCEPT !.id = RunId(r.config), !.no = no, !.seed = r.seed, !.mode = r.mode]
      /\ taken' = taken \union {key}
      /\ UNCHANGED <<dotenv, clock, scenario, traces, manifests, qualities, decisions>>
  BY DEF StartRun, files
<1>2. r \in Arm
  BY <1>1 DEF IInv, Shapes
<1>3. RunId(r.config) \in Ids /\ r.seed \in Nat
  BY <1>2 DEF Arm, RunId, Ids, FilesInv, RunShape
<1>4. /\ IsFiniteSet(taken) /\ Cardinality(taken) \in Nat
      /\ \A t \in taken : t.no \in 1..Cardinality(taken) /\ t.id \in Ids /\ t = Key(t)
  BY FS_CardinalityType DEF FilesInv, NumbersGiven, Key
<1> HIDE DEF r
<1>5. key \notin taken /\ \A t \in taken : t.no /= no
  BY <1>4
<1>6. /\ run' = [id |-> RunId(r.config), no |-> no, seed |-> r.seed, mode |-> r.mode, rows |-> << >>,
                 sessions |-> {}, models |-> {}, modes |-> {}, valid |-> TRUE]
      /\ run'.no = no /\ run'.id = RunId(r.config) /\ run'.rows = << >> /\ run'.models = {}
      /\ run'.sessions = {} /\ run'.seed = r.seed
  BY <1>1 DEF NoRun
<1>7. RunShape'
  <2>1. run' = [id |-> run'.id, no |-> run'.no, seed |-> run'.seed, mode |-> run'.mode,
                rows |-> run'.rows, sessions |-> run'.sessions, models |-> run'.models,
                modes |-> run'.modes, valid |-> run'.valid]
    BY <1>6
  <2>2. run'.rows \in Seq(RowKinds) /\ run'.seed \in Nat
    BY <1>3, <1>6
  <2> QED
    BY <1>1, <2>1, <2>2 DEF FilesInv, RunShape
<1>8. NumbersGiven'
  <2>1. IsFiniteSet(taken') /\ Cardinality(taken') = no
    BY <1>1, <1>4, <1>5, FS_AddElement
  <2>2. taken' \subseteq [id : Ids, no : 1..no]
    <3>1. key \in [id : Ids, no : 1..no]
      BY <1>3, <1>4
    <3>2. taken \subseteq [id : Ids, no : 1..Cardinality(taken)]
      BY DEF FilesInv, NumbersGiven
    <3>3. [id : Ids, no : 1..Cardinality(taken)] \subseteq [id : Ids, no : 1..no]
      BY <1>4
    <3> QED
      BY <1>1, <3>1, <3>2, <3>3
  <2>3. \A a, b \in taken' : a.no = b.no => a = b
    BY <1>1, <1>5 DEF FilesInv, NumbersGiven
  <2>4. Key(run)' \in taken'
    BY <1>1, <1>6 DEF Key
  <2>5. \A f \in traces' \union manifests' \union qualities' \union decisions' : Key(f) \in taken'
    BY <1>1 DEF FilesInv, NumbersGiven
  <2> QED
    BY <2>1, <2>2, <2>3, <2>4, <2>5 DEF NumbersGiven, Key
<1>9. \A f \in traces \union manifests \union qualities \union decisions : f.no /= no
  BY <1>5 DEF FilesInv, NumbersGiven, Key
<1>10. FilesInOrder'
  BY <1>1, <1>6, <1>9 DEF FilesInOrder
<1>11. RunSoFar'
  <2>1. SessionsOf(run'.seed, << >>) = {}
    BY DEF SessionsOf
  <2> QED
    BY <1>1, <1>6, <1>9, <2>1 DEF RunSoFar, SessionsOf
<1>12. ManifestsHold'
  BY <1>1 DEF FilesInv, ManifestsHold, SessionsOf
<1> QED
  BY <1>7, <1>8, <1>10, <1>11, <1>12 DEF FilesInv

LEMMA RunTaskKeepsFiles == ASSUME IInv, FilesInv, RunTask PROVE FilesInv'
<1> DEFINE e == IF scenario.dry_run THEN env ELSE Loaded(env)
           task == Sample[run.seed][Len(run.rows) + 1]
           line == [id |-> run.id, no |-> run.no, task |-> task]
<1>1. PICK row \in Outcomes :
        /\ env' = e
        /\ run' = [run EXCEPT
                     !.rows = Append(@, row),
                     !.sessions = IF Returned(row) THEN @ \union {task} ELSE @,
                     !.models = IF scenario.dry_run THEN @ ELSE @ \union {e.profiles},
                     !.modes = IF scenario.dry_run THEN @ ELSE @ \union {e.mode}]
        /\ \/ decisions' = decisions
           \/ Streamed(row) /\ decisions' = decisions \union {line}
  BY DEF RunTask
<1>2. /\ pc = "task" /\ pc' = "task"
      /\ UNCHANGED <<dotenv, clock, scenario, traces, manifests, qualities, taken>>
  BY DEF RunTask, experiment
<1>3. row \in RowKinds /\ (scenario.dry_run => ~Streamed(row))
  BY DEF Outcomes, RowKinds, Streamed
<1>4. /\ e.profiles = IF ~scenario.dry_run /\ "profiles" \in dotenv THEN "dotenv" ELSE env.profiles
  BY DEF IInv, Shapes, Loaded
<1> HIDE DEF e, task
<1>5. /\ run.rows \in Seq(RowKinds)
      /\ run' = [id |-> run.id, no |-> run.no, seed |-> run.seed, mode |-> run.mode,
                 rows |-> Append(run.rows, row),
                 sessions |-> IF Returned(row) THEN run.sessions \union {task} ELSE run.sessions,
                 models |-> IF scenario.dry_run THEN run.models ELSE run.models \union {e.profiles},
                 modes |-> IF scenario.dry_run THEN run.modes ELSE run.modes \union {e.mode},
                 valid |-> run.valid]
  <2>1. run = [id |-> run.id, no |-> run.no, seed |-> run.seed, mode |-> run.mode,
               rows |-> run.rows, sessions |-> run.sessions, models |-> run.models,
               modes |-> run.modes, valid |-> run.valid]
        /\ run.rows \in Seq(RowKinds)
    BY DEF FilesInv, RunShape
  <2> QED
    BY <1>1, <2>1
<1>6. /\ run'.id = run.id /\ run'.no = run.no /\ run'.seed = run.seed
      /\ run'.rows = Append(run.rows, row)
      /\ run'.sessions = IF Returned(row) THEN run.sessions \union {task} ELSE run.sessions
      /\ run'.models = IF scenario.dry_run THEN run.models ELSE run.models \union {e.profiles}
  BY <1>5
<1>7. RunShape'
  <2>1. run' = [id |-> run'.id, no |-> run'.no, seed |-> run'.seed, mode |-> run'.mode,
                rows |-> run'.rows, sessions |-> run'.sessions, models |-> run'.models,
                modes |-> run'.modes, valid |-> run'.valid]
    BY <1>5
  <2>2. run'.rows \in Seq(RowKinds)
    BY <1>3, <1>5, <1>6
  <2> QED
    BY <1>2, <1>6, <2>1, <2>2 DEF FilesInv, RunShape
<1>8. /\ line.no = run.no /\ Key(line) = Key(run) /\ Key(run)' = Key(run) /\ Key(run) \in taken
  BY <1>2, <1>6 DEF Key, FilesInv, NumbersGiven
<1>9. decisions' \subseteq decisions \union {line}
      /\ (scenario.dry_run => decisions' = decisions)
  BY <1>1, <1>3
<1> HIDE DEF line
<1>10. NumbersGiven'
  <2>1. \A f \in traces' \union manifests' \union qualities' \union decisions' : Key(f) \in taken'
    BY <1>2, <1>8, <1>9 DEF FilesInv, NumbersGiven
  <2>2. IsFiniteSet(taken') /\ taken' \subseteq [id : Ids, no : 1..Cardinality(taken')]
        /\ \A a, b \in taken' : a.no = b.no => a = b
    BY <1>2 DEF FilesInv, NumbersGiven
  <2>3. Key(run)' \in taken'
    BY <1>2, <1>8
  <2> QED
    BY <2>1, <2>2, <2>3 DEF NumbersGiven, Key
<1>11. FilesInOrder'
  BY <1>2, <1>6 DEF FilesInv, FilesInOrder
<1>12. RunSoFar'
  <2>1. run'.models \subseteq {env'.profiles}
        /\ ("profiles" \in dotenv' /\ run'.models /= {} => env'.profiles = "dotenv")
    BY <1>1, <1>2, <1>4, <1>6 DEF FilesInv, RunSoFar
  <2>2. SessionsOf(run.seed, run'.rows) =
          IF Returned(row) THEN SessionsOf(run.seed, run.rows) \union {task}
          ELSE SessionsOf(run.seed, run.rows)
    BY <1>3, <1>5, <1>6, SessionsOfAppend DEF task
  <2>3. run'.sessions = SessionsOf(run.seed, run'.rows)
    BY <1>2, <1>6, <2>2 DEF FilesInv, RunSoFar
  <2>4. scenario'.dry_run => \A d \in decisions' : d.no /= run'.no
    BY <1>2, <1>6, <1>9 DEF FilesInv, RunSoFar
  <2> QED
    BY <1>6, <2>1, <2>3, <2>4, Zenon DEF RunSoFar, SessionsOf
<1>13. ManifestsHold'
  <2>1. \A m \in manifests : m.no /= run.no
    BY <1>2 DEF FilesInv, FilesInOrder
  <2> QED
    BY <1>2, <1>8, <1>9, <2>1 DEF FilesInv, ManifestsHold, SessionsOf
<1> QED
  BY <1>7, <1>10, <1>11, <1>12, <1>13 DEF FilesInv

\* A step within a run that leaves the numbers alone, and of the run all but whether
\* it is valid, and writes files of this run only.
LEMMA OwnFilesKeep ==
  ASSUME FilesInv, pc \notin {"idle", "next"}, UNCHANGED <<clock, scenario, taken>>,
         run' = [run EXCEPT !.valid = run'.valid],
         \A f \in traces' \union manifests' \union qualities' \union decisions' :
           f \in traces \union manifests \union qualities \union decisions \/ Key(f) = Key(run)
  PROVE  /\ RunShape' /\ NumbersGiven'
         /\ run'.id = run.id /\ run'.no = run.no /\ run'.seed = run.seed /\ run'.rows = run.rows
         /\ run'.sessions = run.sessions /\ run'.models = run.models
<1>1. run' = [id |-> run.id, no |-> run.no, seed |-> run.seed, mode |-> run.mode,
              rows |-> run.rows, sessions |-> run.sessions, models |-> run.models,
              modes |-> run.modes, valid |-> run'.valid]
  BY DEF FilesInv, RunShape
<1>2. /\ run'.id = run.id /\ run'.no = run.no /\ run'.seed = run.seed /\ run'.rows = run.rows
      /\ run'.sessions = run.sessions /\ run'.models = run.models /\ run'.modes = run.modes
      /\ run'.mode = run.mode
  BY <1>1
<1>3. RunShape'
  BY <1>1, <1>2 DEF FilesInv, RunShape
<1>4. NumbersGiven'
  <2>1. IsFiniteSet(taken') /\ taken' \subseteq [id : Ids, no : 1..Cardinality(taken')]
        /\ \A a, b \in taken' : a.no = b.no => a = b
    BY DEF FilesInv, NumbersGiven
  <2>2. Key(run)' = Key(run) /\ Key(run) \in taken
    BY <1>2 DEF Key, FilesInv, NumbersGiven
  <2>3. \A f \in traces' \union manifests' \union qualities' \union decisions' : Key(f) \in taken'
    BY <2>2 DEF FilesInv, NumbersGiven
  <2> QED
    BY <2>1, <2>2, <2>3 DEF NumbersGiven, Key
<1> QED
  BY <1>2, <1>3, <1>4

LEMMA WriteTraceKeepsFiles == ASSUME FilesInv, WriteTrace PROVE FilesInv'
<1> DEFINE file == [id |-> run.id, no |-> run.no, rows |-> run.rows, models |-> run.models]
<1>1. /\ pc = "trace" /\ pc' = "manifest" /\ traces' = Write(traces, file)
      /\ UNCHANGED <<dotenv, env, clock, scenario, run, manifests, qualities, decisions, taken>>
  BY DEF WriteTrace, experiment
<1>2. /\ Key(file) = Key(run) /\ file.no = run.no /\ file.rows = run.rows
      /\ file.models = run.models
  BY DEF Key
<1> HIDE DEF file
<1>3. file \in traces' /\ \A t \in traces' : t = file \/ t \in traces
  BY <1>1, FilesOfWrite
<1>4. run' = [run EXCEPT !.valid = run'.valid]
  BY <1>1 DEF FilesInv, RunShape
<1>5. RunShape' /\ NumbersGiven'
  BY <1>1, <1>2, <1>3, <1>4, OwnFilesKeep
<1>6. (\A t \in traces : t.no /= run.no) /\ (\A m \in manifests : m.no /= run.no)
      /\ Len(run.rows) = Len(Sample[run.seed])
  BY <1>1 DEF FilesInv, FilesInOrder
<1>7. FilesInOrder'
  BY <1>1, <1>2, <1>3, <1>6 DEF FilesInOrder
<1>8. RunSoFar'
  BY <1>1 DEF FilesInv, RunSoFar, SessionsOf
<1>9. ManifestsHold'
  BY <1>1, <1>2, <1>3, <1>6 DEF FilesInv, ManifestsHold, SessionsOf
<1> QED
  BY <1>5, <1>7, <1>8, <1>9 DEF FilesInv

LEMMA WriteManifestKeepsFiles == ASSUME FilesInv, WriteManifest PROVE FilesInv'
<1> DEFINE file == [id |-> run.id, no |-> run.no, seed |-> run.seed, profiles |-> ProfilesNow,
                    sessions |-> run.sessions, decisions_file |-> ~scenario.dry_run]
<1>1. /\ pc = "manifest" /\ pc' \in {"judge", "quality"} /\ manifests' = Write(manifests, file)
      /\ UNCHANGED <<dotenv, env, clock, scenario, run, traces, qualities, decisions, taken>>
  BY DEF WriteManifest, experiment
<1>2. /\ Key(file) = Key(run) /\ file.no = run.no /\ file.seed = run.seed
      /\ file.profiles = env.profiles /\ file.sessions = run.sessions
      /\ file.decisions_file \/ scenario.dry_run
  BY DEF Key, ProfilesNow
<1> HIDE DEF file
<1>3. \A m \in manifests' : m = file \/ m \in manifests
  BY <1>1, FilesOfWrite
<1>4. run' = [run EXCEPT !.valid = run'.valid]
  BY <1>1 DEF FilesInv, RunShape
<1>5. RunShape' /\ NumbersGiven'
  BY <1>1, <1>2, <1>3, <1>4, OwnFilesKeep
<1>6. /\ Len(run.rows) = Len(Sample[run.seed])
      /\ \A t \in traces : t.no = run.no => t.rows = run.rows /\ t.models = run.models
      /\ run.models \subseteq {env.profiles}
      /\ run.sessions = SessionsOf(run.seed, run.rows)
      /\ scenario.dry_run => \A d \in decisions : d.no /= run.no
  BY <1>1 DEF FilesInv, FilesInOrder, RunSoFar
<1>7. FilesInOrder' /\ RunSoFar'
  BY <1>1 DEF FilesInOrder, RunSoFar
<1>8. ManifestsHold'
  <2> SUFFICES ASSUME NEW m \in manifests'
               PROVE  /\ m.decisions_file \/ \A d \in decisions : d.no /= m.no
                      /\ \A t \in traces : t.no = m.no =>
                           /\ Len(t.rows) = Len(Sample[m.seed])
                           /\ t.models \subseteq {m.profiles}
                           /\ m.sessions = SessionsOf(m.seed, t.rows)
    BY <1>1, Zenon DEF ManifestsHold, SessionsOf
  <2>1. CASE m \in manifests
    BY <2>1 DEF FilesInv, ManifestsHold
  <2>2. CASE m = file
    BY <2>2, <1>2, <1>6
  <2> QED
    BY <1>3, <2>1, <2>2
<1> QED
  BY <1>5, <1>7, <1>8 DEF FilesInv

\* The steps of a run that write neither a trace nor a manifest.
LEMMA OtherStepsKeepFiles ==
  ASSUME FilesInv, TasksDone \/ AssessRun \/ JudgeRun
  PROVE  FilesInv'
<1>1. /\ pc \notin {"idle", "next"}
      /\ UNCHANGED <<dotenv, env, clock, scenario, traces, manifests, decisions, taken>>
      /\ \/ pc' \in {"quality", "judge", "leave", "next"}
         \/ pc = "task" /\ pc' = "trace" /\ run' = run /\ Len(run.rows) = Len(Sample[run.seed])
  <2>1. CASE TasksDone
    BY <2>1 DEF TasksDone, experiment, files
  <2>2. CASE AssessRun
    BY <2>2 DEF AssessRun, experiment
  <2>3. CASE JudgeRun
    BY <2>3 DEF JudgeRun, files
  <2> QED
    BY <2>1, <2>2, <2>3
<1>2. run' = [run EXCEPT !.valid = run'.valid]
  <2>1. CASE UNCHANGED run
    BY <2>1 DEF FilesInv, RunShape
  <2>2. CASE AssessRun
    <3>1. PICK v : run' = [run EXCEPT !.valid = v]
      BY <2>2 DEF AssessRun
    <3>2. run'.valid = v
      BY <3>1 DEF FilesInv, RunShape
    <3> QED
      BY <3>1, <3>2
  <2> QED
    BY <2>1, <2>2 DEF TasksDone, JudgeRun
<1>3. \A q \in qualities' : q \in qualities \/ Key(q) = Key(run)
  <2>1. CASE UNCHANGED qualities
    BY <2>1
  <2>2. CASE AssessRun
    <3>1. PICK v : qualities' = Write(qualities, [id |-> run.id, no |-> run.no, valid |-> v])
      BY <2>2 DEF AssessRun
    <3> QED
      BY <3>1, FilesOfWrite DEF Key
  <2> QED
    BY <2>1, <2>2 DEF TasksDone, JudgeRun, files
<1>4. RunShape' /\ NumbersGiven'
  BY <1>1, <1>2, <1>3, OwnFilesKeep
<1>5. FilesInOrder' /\ RunSoFar'
  BY <1>1 DEF FilesInv, FilesInOrder, RunSoFar, SessionsOf
<1>6. ManifestsHold'
  BY <1>1 DEF FilesInv, ManifestsHold, SessionsOf
<1> QED
  BY <1>4, <1>5, <1>6 DEF FilesInv

\* A trace cut off is this run's, which no manifest is about.
LEMMA CutOffKeepsFiles ==
  ASSUME FilesInv, TraceCutOff, pc /= "idle", pc' \in {"idle", "leave"},
         UNCHANGED <<manifests, qualities, decisions, taken>>,
         pc' = "leave" => pc /= "next" /\ run' = run
  PROVE  NumbersGiven' /\ FilesInOrder' /\ RunSoFar' /\ ManifestsHold'
<1>1. FilesInOrder' /\ RunSoFar'
  BY DEF FilesInOrder, RunSoFar
<1>2. CASE UNCHANGED traces
  <2>1. NumbersGiven'
    BY <1>2 DEF FilesInv, NumbersGiven, Key
  <2>2. ManifestsHold'
    BY <1>2 DEF FilesInv, ManifestsHold, SessionsOf
  <2> QED
    BY <1>1, <2>1, <2>2
<1>3. ASSUME NEW n, pc = "trace",
             traces' = Write(traces, [id |-> run.id, no |-> run.no,
                                      rows |-> SubSeq(run.rows, 1, n), models |-> run.models])
      PROVE  NumbersGiven' /\ ManifestsHold'
  <2> DEFINE file == [id |-> run.id, no |-> run.no, rows |-> SubSeq(run.rows, 1, n),
                      models |-> run.models]
  <2>1. Key(file) = Key(run) /\ file.no = run.no
    BY DEF Key
  <2>2. traces' = Write(traces, file)
    BY <1>3
  <2> HIDE DEF file
  <2>3. \A t \in traces' : t = file \/ t \in traces
    BY <2>2, FilesOfWrite
  <2>4. Key(run) \in taken /\ \A m \in manifests : m.no /= run.no
    BY <1>3 DEF FilesInv, NumbersGiven, FilesInOrder
  <2>5. NumbersGiven'
    BY <1>3, <2>1, <2>3, <2>4 DEF FilesInv, NumbersGiven, Key
  <2>6. ManifestsHold'
    BY <2>1, <2>3, <2>4 DEF FilesInv, ManifestsHold, SessionsOf
  <2> QED
    BY <2>5, <2>6
<1> QED
  BY <1>1, <1>2, <1>3 DEF TraceCutOff

LEMMA EndKeepsFiles == ASSUME FilesInv, Finish \/ Leave \/ Kill \/ RunRaises PROVE FilesInv'
<1>1. CASE Finish \/ Leave
  <2>1. /\ pc' = "idle" /\ run' = NoRun
        /\ UNCHANGED <<clock, traces, manifests, qualities, decisions, taken>>
    BY <1>1 DEF Finish, Leave, experiment, files
  <2>2. RunShape'
    BY <2>1 DEF FilesInv, RunShape, NoRun
  <2> QED
    BY <2>1, <2>2, FilesLeftAlone DEF FilesInv
<1>2. CASE Kill
  <2>1. /\ pc /= "idle" /\ pc' = "idle" /\ run' = NoRun /\ TraceCutOff
        /\ UNCHANGED <<clock, manifests, qualities, decisions, taken>>
    BY <1>2 DEF Kill
  <2>2. RunShape'
    BY <2>1 DEF FilesInv, RunShape, NoRun
  <2> QED
    BY <2>1, <2>2, CutOffKeepsFiles DEF FilesInv
<1>3. CASE RunRaises
  <2>1. /\ pc \notin {"idle", "next"} /\ pc' = "leave" /\ run' = run /\ TraceCutOff
        /\ UNCHANGED <<clock, scenario, manifests, qualities, decisions, taken>>
    BY <1>3 DEF RunRaises, experiment
  <2>2. RunShape'
    BY <2>1 DEF FilesInv, RunShape
  <2> QED
    BY <2>1, <2>2, CutOffKeepsFiles DEF FilesInv
<1> QED
  BY <1>1, <1>2, <1>3

LEMMA StepFilesInv == IInv /\ FilesInv /\ [Next]_vars => FilesInv'
<1> SUFFICES ASSUME IInv, FilesInv, [Next]_vars PROVE FilesInv'
  OBVIOUS
<1>1. ASSUME NEW s \in Scenarios, Begin(s) PROVE FilesInv'
  BY <1>1, BeginKeepsFiles
<1>2. CASE StartRun
  BY <1>2, StartRunKeepsFiles
<1>3. CASE RunTask
  BY <1>3, RunTaskKeepsFiles
<1>4. CASE WriteTrace
  BY <1>4, WriteTraceKeepsFiles
<1>5. CASE WriteManifest
  BY <1>5, WriteManifestKeepsFiles
<1>6. CASE TasksDone \/ AssessRun \/ JudgeRun
  BY <1>6, OtherStepsKeepFiles
<1>7. CASE Finish \/ Leave \/ Kill \/ RunRaises
  BY <1>7, EndKeepsFiles
<1>8. CASE Tick \/ UNCHANGED vars
  <2>1. UNCHANGED <<dotenv, env, pc, scenario, run, traces, manifests, qualities, decisions, taken>>
        /\ clock' \in Nat
    BY <1>8 DEF Tick, experiment, files, vars, FilesInv, RunShape
  <2>2. RunShape'
    BY <2>1 DEF FilesInv, RunShape
  <2>3. NumbersGiven' /\ FilesInOrder'
    BY <2>1 DEF FilesInv, NumbersGiven, FilesInOrder, Key
  <2>4. RunSoFar' /\ ManifestsHold'
    BY <2>1 DEF FilesInv, RunSoFar, ManifestsHold, SessionsOf
  <2> QED
    BY <2>2, <2>3, <2>4 DEF FilesInv
<1> QED
  BY <1>1, <1>2, <1>3, <1>4, <1>5, <1>6, <1>7, <1>8 DEF Next

LEMMA CitationsFollow ==
  ASSUME FilesInv, NEW t \in traces, NEW m \in manifests, t.id = m.id, ~Shared(t.id)
  PROVE  /\ t.no = m.no
         /\ Len(t.rows) = Len(Sample[m.seed])
         /\ t.models \subseteq {m.profiles}
         /\ m.sessions = SessionsOf(m.seed, t.rows)
         /\ (\E d \in decisions : d.no = m.no) => \A d \in Counted(m) : d.no = m.no
<1>1. \A f \in traces \union manifests \union decisions : Key(f) \in taken
  BY DEF FilesInv, NumbersGiven
<1>2. NumbersGiven
  BY DEF FilesInv
<1>3. t.no = m.no
  BY <1>1, <1>2, OneRunPerId
<1>4. /\ Len(t.rows) = Len(Sample[m.seed])
      /\ t.models \subseteq {m.profiles}
      /\ m.sessions = SessionsOf(m.seed, t.rows)
      /\ m.decisions_file \/ \A d \in decisions : d.no /= m.no
  BY <1>3 DEF FilesInv, ManifestsHold
<1>5. ASSUME NEW d \in decisions, d.no = m.no
      PROVE  \A c \in Counted(m) : c.no = m.no
  <2> DEFINE lines == {l \in decisions : l.id = m.id}
             stream == {[no |-> l.no, task |-> l.task] : l \in lines}
  <2>1. d.id = m.id
    <3>1. Key(d) \in taken /\ Key(m) \in taken /\ Key(d).no = d.no /\ Key(m).no = m.no
          /\ Key(d).id = d.id /\ Key(m).id = m.id
      BY <1>1 DEF Key
    <3>2. Key(d) = Key(m)
      BY <1>2, <1>5, <3>1 DEF NumbersGiven
    <3> QED
      BY <3>1, <3>2
  <2>2. d \in lines
    BY <2>1
  <2>3. stream /= {} /\ m.decisions_file
    BY <1>4, <1>5, <2>2
  <2>4. Counted(m) = stream
    BY <2>3 DEF Counted
  <2>5. \A l \in lines : l.no = m.no
    BY <1>1, <1>2, OneRunPerId
  <2> QED
    BY <2>4, <2>5
<1> QED
  BY <1>3, <1>4, <1>5

\* Whatever was killed or failed on the way, what may be cited under an id that is not
\* shared is one whole run, and what the manifest says of it is true.
THEOREM CitedRunsAreWhole == Spec => []CitationsAreSound
<1>1. FilesInv => CitationsAreSound
  <2> SUFFICES ASSUME FilesInv, NEW t \in traces, NEW m \in manifests,
                      Citable(t, m), ~Shared(t.id)
               PROVE  /\ t.no = m.no
                      /\ Len(t.rows) = Len(Sample[m.seed])
                      /\ t.models \subseteq {m.profiles}
                      /\ m.sessions = {Sample[m.seed][i] :
                                         i \in {j \in DOMAIN t.rows : Returned(t.rows[j])}}
                      /\ (\E d \in decisions : d.no = m.no) =>
                           \A d \in Counted(m) : d.no = m.no
    BY DEF CitationsAreSound
  <2>1. t.id = m.id
    BY DEF Citable
  <2> QED
    BY <2>1, CitationsFollow DEF SessionsOf
<1> QED
  BY <1>1, InitIInv, StepIInv, InitFilesInv, StepFilesInv, PTL DEF Spec

-----------------------------------------------------------------------------
(* The steps, for what is returned.                                         *)
LEMMA DoneIsPast == ASSUME PastRuns
                    PROVE  /\ done \in Seq(DoneRuns)
                           /\ \A i \in 1..Len(done) : Key(done[i]) \in taken
                           /\ \A r \in results :
                                /\ r.runs \in Seq(DoneRuns)
                                /\ \A i \in 1..Len(r.runs) : Key(r.runs[i]) \in taken
BY DEF PastRuns, Past

LEMMA InitResultsInv == Init => ResultsInv
<1> SUFFICES ASSUME Init PROVE ResultsInv
  OBVIOUS
<1>1. pc = "idle" /\ done = << >> /\ results = {}
  BY DEF Init
<1>2. PastRuns
  BY <1>1 DEF PastRuns, Past
<1> QED
  BY <1>1, <1>2 DEF ResultsInv, PlanSoFar, VouchedSoFar

\* The runs returned stay what they are while the numbers given out only grow.
LEMMA PastKeeps ==
  ASSUME PastRuns, taken \subseteq taken',
         \A rs \in Past' : rs \in Past \/ rs = << >>,
         pc' \in {"task", "trace", "manifest", "quality", "judge"} =>
           pc \in {"task", "trace", "manifest", "quality", "judge"} /\ run'.no = run.no
  PROVE  PastRuns'
<1> SUFFICES ASSUME NEW rs \in Past'
             PROVE  /\ rs \in Seq(DoneRuns)
                    /\ \A i \in 1..Len(rs) :
                         /\ Key(rs[i]) \in taken'
                         /\ pc' \in {"task", "trace", "manifest", "quality", "judge"} =>
                              rs[i].no /= run'.no
  BY Zenon DEF PastRuns, Key
<1>1. CASE rs \in Past
  BY <1>1 DEF PastRuns
<1>2. CASE rs = << >>
  BY <1>2
<1> QED
  BY <1>1, <1>2

\* A run that was vouched for remains so: only a run of the same id replaces its file.
LEMMA VouchedStays ==
  ASSUME FilesInv, IsFiniteSet(taken'), taken \subseteq taken', NEW d, Vouched(d), Key(d) \in taken,
         \/ qualities' = qualities
         \/ \E f : /\ qualities' = Write(qualities, f)
                   /\ Key(f) \in taken /\ f.no /= d.no
  PROVE  Vouched(d)'
<1>1. CASE Shared(d.id)
  BY <1>1, SharedStays, Zenon DEF Vouched, Shared
<1>2. CASE \E q \in qualities : q.no = d.no /\ q.valid
  <2>1. PICK q \in qualities : q.no = d.no /\ q.valid
    BY <1>2
  <2>2. CASE q \in qualities'
    BY <2>1, <2>2 DEF Vouched
  <2>3. CASE q \notin qualities'
    <3>1. PICK f : qualities' = Write(qualities, f) /\ Key(f) \in taken /\ f.no /= d.no
      BY <2>3
    <3>2. q.id = f.id
      BY <2>3, <3>1, FilesOfWrite
    <3>3. Key(q) \in taken /\ NumbersGiven
      BY DEF FilesInv, NumbersGiven
    <3>4. /\ Key(q).no = q.no /\ Key(d).no = d.no /\ Key(f).no = f.no
          /\ Key(q).id = q.id /\ Key(d).id = d.id /\ Key(f).id = f.id
      BY DEF Key
    <3>5. Key(q) = Key(d)
      BY <2>1, <3>3, <3>4 DEF NumbersGiven
    <3>6. Key(q) /= Key(f)
      BY <2>1, <3>1, <3>4
    <3>7. Shared(d.id)
      BY <3>1, <3>2, <3>3, <3>4, <3>5, <3>6, TwoRunsShare DEF NumbersGiven
    <3> QED
      BY <3>7, SharedStays, Zenon DEF Vouched, Shared
  <2> QED
    BY <2>2, <2>3
<1> QED
  BY <1>1, <1>2 DEF Vouched

\* What was returned stays vouched for: this run's file is not that of an earlier one.
LEMMA ReturnedStayVouched ==
  ASSUME FilesInv, ResultsInv, IsFiniteSet(taken'), taken \subseteq taken',
         \/ qualities' = qualities
         \/ /\ pc = "quality"
            /\ \E v : qualities' = Write(qualities, [id |-> run.id, no |-> run.no, valid |-> v])
  PROVE  \A rs \in Past : \A i \in 1..Len(rs) : Vouched(rs[i]) => Vouched(rs[i])'
<1> SUFFICES ASSUME NEW rs \in Past, NEW i \in 1..Len(rs), Vouched(rs[i])
             PROVE  Vouched(rs[i])'
  OBVIOUS
<1>1. Key(rs[i]) \in taken /\ (pc = "quality" => rs[i].no /= run.no)
  BY DEF ResultsInv, PastRuns
<1>2. pc = "quality" => Key(run) \in taken
  BY DEF FilesInv, NumbersGiven
<1>3. CASE qualities' = qualities
  BY <1>1, <1>3, VouchedStays
<1>4. ASSUME NEW v, pc = "quality",
             qualities' = Write(qualities, [id |-> run.id, no |-> run.no, valid |-> v])
      PROVE  Vouched(rs[i])'
  <2> DEFINE f == [id |-> run.id, no |-> run.no, valid |-> v]
  <2>1. Key(f) = Key(run) /\ f.no = run.no
    BY DEF Key
  <2>2. qualities' = Write(qualities, f)
    BY <1>4
  <2> HIDE DEF f
  <2> QED
    BY <1>1, <1>2, <1>4, <2>1, <2>2, VouchedStays
<1> QED
  BY <1>3, <1>4

LEMMA ResultsVouched ==
  ASSUME FilesInv, ResultsInv, IsFiniteSet(taken'), taken \subseteq taken',
         \/ qualities' = qualities
         \/ /\ pc = "quality"
            /\ \E v : qualities' = Write(qualities, [id |-> run.id, no |-> run.no, valid |-> v])
  PROVE  \A r \in results : Strict(r.scenario) =>
           /\ [i \in DOMAIN r.runs |-> r.runs[i].seed]
                = [i \in DOMAIN Plan(r.scenario) |-> Plan(r.scenario)[i].seed]
           /\ \A i \in 1..Len(r.runs) : Vouched(r.runs[i])'
<1>1. \A r \in results : r.runs \in Past
  BY DEF Past
<1> QED
  BY <1>1, ReturnedStayVouched DEF ResultsInv, VouchedSoFar

\* A step that neither begins nor ends a run, nor judges or assesses it.
LEMMA ResultsLeftAlone ==
  ASSUME FilesInv, ResultsInv, UNCHANGED <<scenario, todo, done, results, qualities, taken>>,
         pc' = "idle" \/ (pc /= "idle" /\ (pc = "next" <=> pc' = "next")
                          /\ run'.seed = run.seed /\ run'.no = run.no),
         pc' \in {"task", "trace", "manifest", "quality", "judge"} =>
           pc \in {"task", "trace", "manifest", "quality", "judge"},
         pc' = "judge" /\ ~scenario.dry_run => pc = "judge" /\ run' = run
  PROVE  ResultsInv'
<1>1. IsFiniteSet(taken) /\ PastRuns
  BY DEF FilesInv, NumbersGiven, ResultsInv
<1>2. Past' = Past
  BY DEF Past
<1>3. PastRuns'
  BY <1>1, <1>2, PastKeeps
<1>4. PlanSoFar'
  BY DEF ResultsInv, PlanSoFar, Made
<1>5. VouchedSoFar'
  BY DEF ResultsInv, VouchedSoFar, Vouched, Shared
<1> QED
  BY <1>3, <1>4, <1>5 DEF ResultsInv

LEMMA BeginKeepsResults ==
  ASSUME FilesInv, ResultsInv, NEW s \in Scenarios, Begin(s)
  PROVE  ResultsInv'
<1>1. /\ pc' \in {"next", "idle"} /\ scenario' = s /\ todo' = Plan(s) /\ done' = << >>
      /\ UNCHANGED <<results, qualities, taken>>
  BY DEF Begin, files
<1>2. PastRuns'
  <2>1. PastRuns /\ \A rs \in Past' : rs \in Past \/ rs = << >>
    BY <1>1 DEF ResultsInv, Past
  <2> QED
    BY <1>1, <2>1, PastKeeps
<1>3. PlanSoFar'
  <2>1. Plan(s) \in Seq(Arm)
    BY PlanTypes
  <2> QED
    BY <1>1, <2>1 DEF PlanSoFar, Made
<1>4. VouchedSoFar'
  BY <1>1 DEF ResultsInv, VouchedSoFar, Vouched, Shared
<1> QED
  BY <1>2, <1>3, <1>4 DEF ResultsInv

LEMMA StartRunKeepsResults ==
  ASSUME IInv, FilesInv, FilesInv', ResultsInv, StartRun
  PROVE  ResultsInv'
<1>1. /\ pc = "next" /\ pc' = "task" /\ todo /= << >> /\ todo' = Tail(todo)
      /\ run'.seed = Head(todo).seed /\ run'.no = Cardinality(taken) + 1 /\ taken \subseteq taken'
      /\ UNCHANGED <<scenario, done, results, qualities>>
  BY DEF StartRun, files, NoRun
<1>2. todo \in Seq(Arm) /\ done \in Seq(DoneRuns) /\ IsFiniteSet(taken') /\ PastRuns
  BY DoneIsPast DEF IInv, Shapes, FilesInv, NumbersGiven, ResultsInv
<1>3. Past' = Past
  BY <1>1 DEF Past
<1>4. PastRuns'
  <2> SUFFICES ASSUME NEW rs \in Past
               PROVE  /\ rs \in Seq(DoneRuns)
                      /\ \A i \in 1..Len(rs) : Key(rs[i]) \in taken' /\ rs[i].no /= run'.no
    BY <1>3, Zenon DEF PastRuns, Key
  <2>1. rs \in Seq(DoneRuns) /\ \A i \in 1..Len(rs) : Key(rs[i]) \in taken
    BY <1>2 DEF PastRuns
  <2>2. \A i \in 1..Len(rs) : rs[i].no \in 1..Cardinality(taken)
    BY <2>1 DEF FilesInv, NumbersGiven, Key
  <2>3. Cardinality(taken) \in Nat
    BY FS_CardinalityType DEF FilesInv, NumbersGiven
  <2> QED
    BY <1>1, <2>1, <2>2, <2>3
<1>5. PlanSoFar'
  <2> DEFINE plan == Plan(scenario)
             n == Len(done)
  <2>1. /\ Len(plan) = n + Len(todo) /\ \A i \in 1..Len(todo) : todo[i] = plan[n + i]
        /\ \A i \in 1..n : done[i].seed = plan[i].seed
        /\ n \in Nat
    BY <1>1, <1>2 DEF ResultsInv, PlanSoFar, Made
  <2> HIDE DEF plan, n
  <2>2. Len(Tail(todo)) + 1 = Len(todo) /\ Len(todo) \in Nat /\ Head(todo) = todo[1]
        /\ \A i \in 1..Len(Tail(todo)) : Tail(todo)[i] = todo[i + 1] /\ i + 1 \in 1..Len(todo)
    BY <1>1, <1>2
  <2>3. /\ Len(plan) = (n + 1) + Len(Tail(todo))
        /\ \A i \in 1..Len(Tail(todo)) : Tail(todo)[i] = plan[(n + 1) + i]
        /\ run'.seed = plan[n + 1].seed
    <3>1. Tail(todo) \in Seq(Arm) /\ Len(Tail(todo)) \in Nat /\ 1 \in 1..Len(todo)
      BY <1>1, <1>2
    <3>2. Len(plan) = (n + 1) + Len(Tail(todo))
      <4> DEFINE k == Len(Tail(todo))
      <4>1. k \in Nat /\ k + 1 = Len(todo)
        BY <2>2, <3>1
      <4> HIDE DEF k
      <4>2. Len(plan) = (n + 1) + k
        <5>1. n \in Nat /\ Len(plan) = n + (k + 1)
          BY <2>1, <4>1
        <5> QED
          BY <4>1, <5>1
      <4> QED
        BY <4>2 DEF k
    <3>3. ASSUME NEW i \in 1..Len(Tail(todo))
          PROVE  Tail(todo)[i] = plan[(n + 1) + i]
      <4>1. Tail(todo)[i] = todo[i + 1] /\ todo[i + 1] = plan[n + (i + 1)]
        BY <2>1, <2>2
      <4>2. n + (i + 1) = (n + 1) + i
        BY <2>1, <3>1
      <4> QED
        BY <4>1, <4>2
    <3>4. run'.seed = plan[n + 1].seed
      BY <1>1, <2>1, <2>2, <3>1
    <3> QED
      BY <3>2, <3>3, <3>4
  <2>4. Made' = n + 1
    BY <1>1 DEF Made, n
  <2> QED
    BY <1>1, <2>1, <2>3, <2>4 DEF PlanSoFar, plan, n
<1>6. VouchedSoFar'
  <2>1. \A r \in results : Strict(r.scenario) =>
          /\ [i \in DOMAIN r.runs |-> r.runs[i].seed]
               = [i \in DOMAIN Plan(r.scenario) |-> Plan(r.scenario)[i].seed]
          /\ \A i \in 1..Len(r.runs) : Vouched(r.runs[i])'
    BY <1>1, <1>2, ResultsVouched
  <2>2. pc /= "idle" /\ Strict(scenario) => \A i \in 1..Len(done) : Vouched(done[i])'
    <3>1. done \in Past
      BY DEF Past
    <3> QED
      BY <1>1, <1>2, <3>1, ReturnedStayVouched DEF ResultsInv, VouchedSoFar
  <2> QED
    BY <1>1, <2>1, <2>2 DEF VouchedSoFar, Vouched, Shared
<1> QED
  BY <1>4, <1>5, <1>6 DEF ResultsInv

LEMMA AssessRunKeepsResults ==
  ASSUME FilesInv, FilesInv', ResultsInv, AssessRun
  PROVE  ResultsInv'
<1>1. PICK v : /\ qualities' = Write(qualities, [id |-> run.id, no |-> run.no, valid |-> v])
               /\ run' = [run EXCEPT !.valid = v]
  BY DEF AssessRun
<1>2. pc = "quality" /\ pc' = "judge" /\ UNCHANGED <<scenario, todo, done, results, taken>>
  BY DEF AssessRun, experiment
<1>3. run'.no = run.no /\ run'.seed = run.seed /\ run'.valid = v
  BY <1>1 DEF FilesInv, RunShape
<1>4. PastRuns'
  <2>1. PastRuns /\ Past' = Past
    BY <1>2 DEF ResultsInv, Past
  <2> QED
    BY <1>2, <1>3, <2>1, PastKeeps
<1>5. PlanSoFar'
  BY <1>2, <1>3 DEF ResultsInv, PlanSoFar, Made
<1>6. VouchedSoFar'
  <2>1. IsFiniteSet(taken')
    BY DEF FilesInv, NumbersGiven
  <2>2. \A r \in results : Strict(r.scenario) =>
          /\ [i \in DOMAIN r.runs |-> r.runs[i].seed]
               = [i \in DOMAIN Plan(r.scenario) |-> Plan(r.scenario)[i].seed]
          /\ \A i \in 1..Len(r.runs) : Vouched(r.runs[i])'
    BY <1>1, <1>2, <2>1, ResultsVouched
  <2>3. pc /= "idle" /\ Strict(scenario) => \A i \in 1..Len(done) : Vouched(done[i])'
    <3>1. done \in Past
      BY DEF Past
    <3> QED
      BY <1>1, <1>2, <2>1, <3>1, ReturnedStayVouched DEF ResultsInv, VouchedSoFar
  <2>4. \E q \in qualities' : q.no = run'.no /\ q.valid = run'.valid
    <3> DEFINE file == [id |-> run.id, no |-> run.no, valid |-> v]
    <3>1. file.no = run'.no /\ file.valid = run'.valid
      BY <1>3
    <3>2. qualities' = Write(qualities, file)
      BY <1>1
    <3> HIDE DEF file
    <3> QED
      BY <3>1, <3>2, FilesOfWrite
  <2> QED
    BY <1>2, <2>2, <2>3, <2>4 DEF VouchedSoFar, Vouched, Shared
<1> QED
  BY <1>4, <1>5, <1>6 DEF ResultsInv

LEMMA JudgeRunKeepsResults ==
  ASSUME FilesInv, FilesInv', ResultsInv, JudgeRun
  PROVE  ResultsInv'
<1> DEFINE d == [id |-> run.id, no |-> run.no, seed |-> run.seed]
<1>1. /\ pc = "judge" /\ UNCHANGED <<scenario, todo, run, results, qualities, taken>>
      /\ \/ Accepts /\ done' = Append(done, d) /\ pc' = "next"
         \/ done' = done /\ pc' = "leave"
  BY DEF JudgeRun, files
<1>2. CASE done' = done /\ pc' = "leave"
  BY <1>1, <1>2, ResultsLeftAlone
<1>3. CASE Accepts /\ done' = Append(done, d) /\ pc' = "next"
  <2>1. Key(run) \in taken /\ Key(d) = Key(run) /\ d.no = run.no /\ d.id = run.id
        /\ d.seed = run.seed /\ IsFiniteSet(taken)
    BY <1>1 DEF Key, FilesInv, NumbersGiven
  <2>2. d \in DoneRuns
    <3>1. Key(run) \in [id : Ids, no : 1..Cardinality(taken)]
      BY <2>1 DEF FilesInv, NumbersGiven
    <3>2. run.id \in Ids /\ run.no \in 1..Cardinality(taken)
      BY <3>1 DEF Key
    <3>3. run.no \in Nat /\ run.seed \in Nat
      BY <2>1, <3>2, FS_CardinalityType DEF FilesInv, RunShape
    <3> QED
      BY <3>2, <3>3 DEF DoneRuns
  <2> HIDE DEF d
  <2>3. done \in Seq(DoneRuns) /\ PastRuns
    BY DoneIsPast DEF ResultsInv
  <2>4. /\ done' \in Seq(DoneRuns) /\ Len(done') = Len(done) + 1 /\ Len(done) \in Nat
        /\ done'[Len(done) + 1] = d
        /\ \A i \in 1..Len(done) : done'[i] = done[i]
    BY <1>3, <2>2, <2>3
  <2>5. \A i \in 1..Len(done') : i \in 1..Len(done) \/ i = Len(done) + 1
    BY <2>4
  <2>6. PastRuns'
    <3>1. \A i \in 1..Len(done') : Key(done'[i]) \in taken
      BY <2>1, <2>3, <2>4, <2>5, DoneIsPast
    <3>2. ASSUME NEW rs \in Past'
          PROVE  rs \in Seq(DoneRuns) /\ \A i \in 1..Len(rs) : Key(rs[i]) \in taken'
      <4>1. CASE rs = done'
        BY <1>1, <2>4, <3>1, <4>1
      <4>2. CASE rs \in {r.runs : r \in results}
        BY <1>1, <2>3, <4>2, DoneIsPast
      <4> QED
        BY <1>1, <4>1, <4>2 DEF Past
    <3> QED
      BY <1>3, <3>2, Zenon DEF PastRuns, Key
  <2>7. PlanSoFar'
    <3>1. Made = Len(done) + 1 /\ Made' = Len(done) + 1 + 0
      BY <1>1, <1>3, <2>4 DEF Made
    <3>2. Made' = Made
      BY <2>4, <3>1
    <3>3. \A i \in 1..Len(done') : done'[i].seed = Plan(scenario)[i].seed
      BY <1>1, <2>1, <2>4, <2>5, <3>1 DEF ResultsInv, PlanSoFar
    <3> QED
      BY <1>1, <1>3, <3>2, <3>3 DEF ResultsInv, PlanSoFar
  <2>8. VouchedSoFar'
    <3>1. Strict(scenario) => Vouched(d)
      BY <1>1, <1>3, <2>1 DEF Strict, Accepts, ResultsInv, VouchedSoFar, Vouched
    <3>2. Strict(scenario) => \A i \in 1..Len(done') : Vouched(done'[i])
      BY <1>1, <2>4, <2>5, <3>1 DEF ResultsInv, VouchedSoFar
    <3> QED
      BY <1>1, <1>3, <3>2 DEF ResultsInv, VouchedSoFar, Vouched, Shared
  <2> QED
    BY <2>6, <2>7, <2>8 DEF ResultsInv
<1> QED
  BY <1>1, <1>2, <1>3

LEMMA FinishKeepsResults ==
  ASSUME FilesInv, FilesInv', ResultsInv, Finish
  PROVE  ResultsInv'
<1> DEFINE new == [scenario |-> scenario, runs |-> done]
           plan == Plan(scenario)
<1>1. /\ pc = "next" /\ pc' = "idle" /\ todo = << >> /\ results' = results \union {new}
      /\ UNCHANGED <<scenario, done, qualities, taken>>
  BY DEF Finish, files
<1>2. PastRuns'
  <2>1. Past' = Past /\ PastRuns
    BY <1>1 DEF Past, ResultsInv
  <2> QED
    BY <1>1, <2>1, PastKeeps
<1>3. VouchedSoFar'
  <2>1. plan \in Seq(Arm) /\ done \in Seq(DoneRuns)
    BY <1>1, PlanTypes, DoneIsPast DEF FilesInv, RunShape, ResultsInv
  <2>2. Len(plan) = Len(done) /\ \A i \in 1..Len(done) : done[i].seed = plan[i].seed
    BY <1>1, <2>1 DEF ResultsInv, PlanSoFar, Made
  <2>3. new.scenario = scenario /\ new.runs = done
    OBVIOUS
  <2>4. Strict(scenario) => \A i \in 1..Len(done) : Vouched(done[i])
    BY <1>1 DEF ResultsInv, VouchedSoFar
  <2> HIDE DEF new, plan
  <2>5. [i \in DOMAIN done |-> done[i].seed] = [i \in DOMAIN plan |-> plan[i].seed]
    BY <2>1, <2>2
  <2>6. \A r \in results' : Strict(r.scenario) =>
          /\ [i \in DOMAIN r.runs |-> r.runs[i].seed]
               = [i \in DOMAIN Plan(r.scenario) |-> Plan(r.scenario)[i].seed]
          /\ \A i \in 1..Len(r.runs) : Vouched(r.runs[i])
    <3> SUFFICES ASSUME NEW r \in results', Strict(r.scenario)
                 PROVE  /\ [i \in DOMAIN r.runs |-> r.runs[i].seed]
                             = [i \in DOMAIN Plan(r.scenario) |-> Plan(r.scenario)[i].seed]
                        /\ \A i \in 1..Len(r.runs) : Vouched(r.runs[i])
      OBVIOUS
    <3>1. CASE r = new
      BY <2>3, <2>4, <2>5, <3>1 DEF plan
    <3>2. CASE r \in results
      BY <3>2 DEF ResultsInv, VouchedSoFar
    <3> QED
      BY <1>1, <3>1, <3>2
  <2> QED
    BY <1>1, <2>6 DEF VouchedSoFar, Vouched, Shared
<1> QED
  BY <1>1, <1>2, <1>3 DEF ResultsInv, PlanSoFar

LEMMA QuietKeepsResults ==
  ASSUME FilesInv, ResultsInv,
         \/ RunTask \/ TasksDone \/ WriteTrace \/ WriteManifest \/ RunRaises \/ Leave \/ Kill
         \/ Tick \/ UNCHANGED vars
  PROVE  ResultsInv'
<1>1. CASE RunTask
  <2>1. /\ pc = "task" /\ pc' = "task"
        /\ UNCHANGED <<scenario, todo, done, results, qualities, taken>>
    BY <1>1 DEF RunTask, experiment
  <2>2. run'.seed = run.seed /\ run'.no = run.no
    BY <1>1 DEF RunTask, FilesInv, RunShape
  <2> QED
    BY <2>1, <2>2, ResultsLeftAlone
<1>2. CASE TasksDone \/ WriteTrace \/ RunRaises
  <2>1. /\ pc \in {"task", "trace", "manifest", "quality"}
        /\ pc' \in {"trace", "manifest", "leave"}
        /\ UNCHANGED <<scenario, todo, done, results, qualities, taken, run>>
    BY <1>2 DEF TasksDone, WriteTrace, RunRaises, experiment, files
  <2> QED
    BY <2>1, ResultsLeftAlone
<1>3. CASE WriteManifest
  <2>1. /\ pc = "manifest" /\ pc' \in {"judge", "quality"} /\ (pc' = "judge" => scenario.dry_run)
        /\ UNCHANGED <<scenario, todo, done, results, qualities, taken, run>>
    BY <1>3 DEF WriteManifest, experiment
  <2> QED
    BY <2>1, ResultsLeftAlone
<1>4. CASE Leave \/ Kill
  <2>1. /\ pc' = "idle" /\ UNCHANGED <<scenario, todo, done, results, qualities, taken>>
    BY <1>4 DEF Leave, Kill, experiment, files
  <2> QED
    BY <2>1, ResultsLeftAlone
<1>5. CASE Tick \/ UNCHANGED vars
  <2>1. UNCHANGED <<pc, scenario, todo, done, results, qualities, taken, run>>
    BY <1>5 DEF Tick, vars, experiment, files
  <2> QED
    BY <2>1, ResultsLeftAlone
<1> QED
  BY <1>1, <1>2, <1>3, <1>4, <1>5

LEMMA StepResultsInv == IInv /\ FilesInv /\ FilesInv' /\ ResultsInv /\ [Next]_vars => ResultsInv'
<1> SUFFICES ASSUME IInv, FilesInv, FilesInv', ResultsInv, [Next]_vars PROVE ResultsInv'
  OBVIOUS
<1>1. ASSUME NEW s \in Scenarios, Begin(s) PROVE ResultsInv'
  BY <1>1, BeginKeepsResults
<1>2. CASE StartRun
  BY <1>2, StartRunKeepsResults
<1>3. CASE AssessRun
  BY <1>3, AssessRunKeepsResults
<1>4. CASE JudgeRun
  BY <1>4, JudgeRunKeepsResults
<1>5. CASE Finish
  BY <1>5, FinishKeepsResults
<1>6. CASE \/ RunTask \/ TasksDone \/ WriteTrace \/ WriteManifest \/ RunRaises \/ Leave \/ Kill
           \/ Tick \/ UNCHANGED vars
  BY <1>6, QuietKeepsResults
<1> QED
  BY <1>1, <1>2, <1>3, <1>4, <1>5, <1>6 DEF Next

\* An ablation that made no dry run returns a run for every configuration and seed, in
\* the order of its plan, and the file beside each of them calls it valid unless another
\* run was begun under its id.
THEOREM OnlyValidRunsReturned == Spec => []OnlyValidRunsAggregated
<1>1. ResultsInv => OnlyValidRunsAggregated
  <2> SUFFICES ASSUME ResultsInv, NEW r \in results, Strict(r.scenario)
               PROVE  /\ [i \in DOMAIN r.runs |-> r.runs[i].seed]
                           = [i \in DOMAIN Plan(r.scenario) |-> Plan(r.scenario)[i].seed]
                      /\ \A i \in DOMAIN r.runs :
                           Shared(r.runs[i].id)
                             \/ \E q \in qualities : q.no = r.runs[i].no /\ q.valid
    BY DEF OnlyValidRunsAggregated, Strict
  <2>1. DOMAIN r.runs = 1..Len(r.runs)
    BY DoneIsPast DEF ResultsInv
  <2> QED
    BY <2>1 DEF ResultsInv, VouchedSoFar, Vouched
<1> QED
  BY <1>1, InitIInv, StepIInv, InitFilesInv, StepFilesInv, InitResultsInv, StepResultsInv, PTL
     DEF Spec
=============================================================================
