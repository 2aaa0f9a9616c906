---------------------------- MODULE MemoryStores ----------------------------
(***************************************************************************)
(* The L2 memory of a session: the stores (memory/stores.py), the backend  *)
(* table they share (memory/backend.py), the message stores               *)
(* (orchestration/messages.py) and the checkpoints of both (memory/checkpoint.py).*)
(*                                                                         *)
(* A store call is not one step: it writes its record and then, in a       *)
(* transaction of its own, the item the retrieval index keeps about it.    *)
(* The process may end in between, as it may between the temporary file of *)
(* a checkpoint and its renaming, or between two rows of a restore.        *)
(* A record is represented by where it is kept, the moment it was first    *)
(* written and its status or kind; its text is left out, and so is the     *)
(* on_append callback, which EvalRun models where it is used.              *)
(***************************************************************************)
EXTENDS Naturals, FiniteSets

CONSTANTS
  Sessions,      \* session ids
  Tasks,         \* subtask ids, the session roots among them
  NoKey,         \* row_key NULL
  Backends,      \* subset of {"sqlite", "redis"}, what MEMORY_BACKEND may select
  Steps,         \* step counts a build may end with
  MaxCalls,      \* bound on the store calls made with each backend
  MaxSaves,      \* bound on the checkpoints taken
  MaxRestores    \* bound on the restores begun

ASSUME BackendsAreKnown == Backends \subseteq {"sqlite", "redis"}
ASSUME StepsAreNat == Steps \subseteq Nat
ASSUME NoKeyIsNoKey == NoKey \notin Tasks \union Sessions \union [session : Sessions, step : Nat]

VARIABLES
  backend,   \* the backend in use
  rows,      \* memory_rows, or the live keys of Redis
  next_id,   \* AUTOINCREMENT: rows are listed in the order of their ids
  stage,     \* the half of a call that is still to come
  subject,   \* item_ref of the record to be indexed
  files,     \* checkpoint files, under their final names
  source,    \* the checkpoint being saved or restored
  todo,      \* its rows that are not restored yet
  fresh,     \* TRUE iff the restore began on an empty memory
  damage,    \* what befell this memory, see Crash, StartRestore and Expire
  calls,
  saves,
  restores

table == <<rows, next_id>>
call == <<stage, subject>>
checkpoint == <<files, source, todo, fresh, saves, restores>>
vars == <<backend, rows, next_id, stage, subject, files, source, todo, fresh, damage,
          calls, saves, restores>>

Statuses == {"open", "in_progress", "done", "abandoned"}
Transitions == {<<"open", "in_progress">>, <<"open", "abandoned">>,
                <<"in_progress", "done">>, <<"in_progress", "abandoned">>}
Kinds == {"action", "reflection"}
LogStores == {"decisions", "results", "tool_results"}
Stages == {"none", "index", "rename", "restore"}
Damages == {"cut", "torn", "merged", "expired"}

\* item_ref of an index row: the store and, there, the key or the log entry.  That of
\* a snapshot names only its step in the code, and here its session as well, so that
\* what an item was written for is not lost.
RefTo(store, key, stamp) == [store |-> store, key |-> key,
                             entry |-> IF key = NoKey THEN stamp ELSE 0]
NoRef == RefTo("none", NoKey, 0)
\* A checkpoint file; memory is history, the rows there were when it was written.
NoFile == [session |-> NoKey, step |-> 0, rows |-> {}, memory |-> {}, damage |-> {}]

Init ==
  /\ backend \in Backends
  /\ rows = {}
  /\ next_id = 1
  /\ stage = "none"
  /\ subject = NoRef
  /\ files = {}
  /\ source = NoFile
  /\ todo = {}
  /\ fresh = FALSE
  /\ damage = {}
  /\ calls = 0
  /\ saves = 0
  /\ restores = 0

-----------------------------------------------------------------------------
(* The backend: write replaces the row of a key by a new row, append adds   *)
(* one without a key.                                                       *)
In(store) == {r \in rows : r.store = store}

\* Mutated: a plain INSERT.
NothingOf(store, key) == {}

Replaced(store, key) == {r \in In(store) : key /= NoKey /\ r.key = key}

Put(store, key, stamp, value, ref) ==
  /\ rows' = (rows \ Replaced(store, key)) \union
             {[id |-> next_id, store |-> store, key |-> key, stamp |-> stamp,
               value |-> value, ref |-> ref]}
  /\ next_id' = next_id + 1

Called ==
  /\ stage = "none"
  /\ calls < MaxCalls[backend]
  /\ calls' = calls + 1

\* The first half of a call of an indexed store, and a call of another store.
PutIndexed(store, key, value) ==
  /\ Called
  /\ Put(store, key, next_id, value, NoRef)
  /\ stage' = "index"
  /\ subject' = RefTo(store, key, next_id)
  /\ UNCHANGED <<backend, damage, checkpoint>>

PutAlone(store, key, value) ==
  /\ Called
  /\ Put(store, key, next_id, value, NoRef)
  /\ UNCHANGED <<backend, call, damage, checkpoint>>

Index ==
  /\ stage = "index"
  /\ Put("retrieval_index", NoKey, next_id, "-", subject)
  /\ stage' = "none"
  /\ subject' = NoRef
  /\ UNCHANGED <<backend, damage, calls, checkpoint>>

-----------------------------------------------------------------------------
(* The stores.                                                              *)
SnapshotKey(s, n) == [session |-> s, step |-> n]

\* Mutated: the step the caller passed (run_turn and run_full_session pass 0).
StepAsPassed(s) == 0

\* The index of a snapshot is the number of those the session already has.
NextStep(s) == Cardinality({r \in In("state") : r.key.session = s})

WriteSnapshot(s) == PutIndexed("state", SnapshotKey(s, NextStep(s)), "-")

Register(t) == PutIndexed("subtasks", t, "open")

SetStatus(t, status) ==
  /\ \E r \in In("subtasks") : r.key = t /\ <<r.value, status>> \in Transitions
  /\ PutIndexed("subtasks", t, status)

\* Reflections and quality failures are kept out of the index.
AppendDecision(kind) ==
  IF kind = "reflection" THEN PutAlone("decisions", NoKey, kind)
                         ELSE PutIndexed("decisions", NoKey, kind)

AppendResult == PutIndexed("results", NoKey, "-")
AppendToolResult == PutAlone("tool_results", NoKey, "-")

\* The latest dispatch of a session; checkpoints do not include it.
SaveDispatch(s) == PutAlone("dispatch_messages", s, "-")

\* The process ends within a call.  What was committed stays.
Crash ==
  /\ stage /= "none"
  /\ stage' = "none"
  /\ subject' = NoRef
  /\ damage' = damage \union (IF stage = "index" THEN {"cut"} ELSE {})
                      \union (IF stage = "restore" THEN {"torn"} ELSE {})
  /\ source' = NoFile
  /\ todo' = {}
  /\ fresh' = FALSE
  /\ UNCHANGED <<backend, table, files, calls, saves, restores>>

\* The next session opens another database.  Bounded to the case that there is
\* something to restore: otherwise this is the initial state again.
Reopen ==
  /\ stage = "none"
  /\ rows /= {}
  /\ files /= {}
  /\ rows' = {}
  /\ damage' = {}
  /\ UNCHANGED <<backend, next_id, call, calls, checkpoint>>

\* Every Redis key lives ttl_seconds from its last write, so the one written
\* first is the first to go.  Bounded to one: nothing is claimed of such a memory.
Expire ==
  /\ backend = "redis"
  /\ "expired" \notin damage
  /\ stage = "none"
  /\ \E r \in rows :
       /\ \A q \in rows : r.id <= q.id
       /\ rows' = rows \ {r}
  /\ damage' = damage \union {"expired"}
  /\ UNCHANGED <<backend, next_id, call, calls, checkpoint>>

-----------------------------------------------------------------------------
(* Checkpoints.                                                             *)
\* Mutated: the tool results are forgotten.
SnapshotOfFive == {r \in rows : r.store \notin {"dispatch_messages", "tool_results"}}

SnapshotMemory == {r \in rows : r.store /= "dispatch_messages"}

\* save_checkpoint writes the whole file under a temporary name, which
\* load_latest_checkpoint does not look at ...
SaveCheckpoint(s, step) ==
  /\ stage = "none"
  /\ saves < MaxSaves
  /\ source' = [session |-> s, step |-> step, rows |-> SnapshotMemory, memory |-> rows,
                damage |-> damage]
  /\ stage' = "rename"
  /\ saves' = saves + 1
  /\ UNCHANGED <<backend, table, subject, files, todo, fresh, damage, calls, restores>>

\* ... and renames it, over an earlier file of that session and step.
RenameCheckpoint ==
  /\ stage = "rename"
  /\ files' = {f \in files : <<f.session, f.step>> /= <<source.session, source.step>>}
                \union {source}
  /\ source' = NoFile
  /\ stage' = "none"
  /\ UNCHANGED <<backend, table, subject, todo, fresh, damage, calls, saves, restores>>

\* The first file in the descending order of names, hence the highest step.  Files are
\* renamed into place, so none is corrupt and skipped, and no session id is taken to
\* begin with another and "_", whose files the glob would find as well.
LatestCheckpoint(s) ==
  {f \in files : f.session = s /\ \A g \in files : g.session = s => g.step <= f.step}

StartRestore(s) ==
  /\ stage = "none"
  /\ restores < MaxRestores
  /\ \E f \in LatestCheckpoint(s) :
       /\ source' = f
       /\ todo' = f.rows
       /\ damage' = damage \union f.damage \union (IF rows = {} THEN {} ELSE {"merged"})
  /\ fresh' = (rows = {})
  /\ stage' = "restore"
  /\ restores' = restores + 1
  /\ UNCHANGED <<backend, table, subject, files, calls, saves>>

\* Mutated: the index is restored before the records.
IndexComesFirst == [state |-> 2, decisions |-> 3, subtasks |-> 4, results |-> 5,
                    tool_results |-> 6, retrieval_index |-> 1]

\* The order of the stores in the dict of _snapshot_memory.
Place == [state |-> 1, decisions |-> 2, subtasks |-> 3, results |-> 4,
          tool_results |-> 5, retrieval_index |-> 6]

\* Redis lists the rows of a store in no particular order.
IsNext(r) ==
  \A q \in todo :
    \/ Place[r.store] < Place[q.store]
    \/ r.store = q.store /\ (r.id <= q.id \/ backend = "redis")

RestoreRow ==
  /\ stage = "restore"
  /\ \E r \in todo :
       /\ IsNext(r)
       /\ Put(r.store, r.key, r.stamp, r.value, r.ref)
       /\ todo' = todo \ {r}
  /\ UNCHANGED <<backend, call, files, source, fresh, damage, calls, saves, restores>>

FinishRestore ==
  /\ stage = "restore"
  /\ todo = {}
  /\ stage' = "none"
  /\ source' = NoFile
  /\ fresh' = FALSE
  /\ UNCHANGED <<backend, table, subject, files, todo, damage, calls, saves, restores>>

Next ==
  \/ \E s \in Sessions : WriteSnapshot(s) \/ SaveDispatch(s) \/ StartRestore(s)
  \/ \E t \in Tasks : Register(t)
  \/ \E t \in Tasks, status \in Statuses : SetStatus(t, status)
  \/ \E kind \in Kinds : AppendDecision(kind)
  \/ AppendResult
  \/ AppendToolResult
  \/ Index
  \/ Crash
  \/ Reopen
  \/ Expire
  \/ \E s \in Sessions, step \in Steps : SaveCheckpoint(s, step)
  \/ RenameCheckpoint
  \/ RestoreRow
  \/ FinishRestore

Spec == Init /\ [][Next]_vars

-----------------------------------------------------------------------------
(* Properties.                                                              *)
Keys == Sessions \union Tasks \union {NoKey} \union [session : Sessions, step : Nat]
Stores == LogStores \union {"state", "subtasks", "retrieval_index", "dispatch_messages"}
Refs == [store : Stores \union {"none"}, key : Keys, entry : Nat]
Rows == [id : Nat, store : Stores, key : Keys, stamp : Nat,
         value : Statuses \union Kinds \union {"-"}, ref : Refs]
Files == [session : Sessions \union {NoKey}, step : Steps \union {0},
          rows : SUBSET Rows, memory : SUBSET Rows, damage : SUBSET Damages]

(* Types; a call in progress is what its stage says, and only a restore has  *)
(* rows to do.                                                              *)
TypeOK ==
  /\ backend \in Backends
  /\ rows \subseteq Rows
  /\ next_id \in Nat
  /\ stage \in Stages
  /\ subject \in Refs
  /\ stage = "index" <=> subject /= NoRef
  /\ files \subseteq Files
  /\ source \in Files
  /\ todo \subseteq source.rows
  /\ fresh \in BOOLEAN
  /\ stage /= "restore" => todo = {} /\ ~fresh
  /\ damage \subseteq Damages
  /\ calls \in Nat
  /\ saves \in Nat
  /\ restores \in Nat

\* A key has one row, whatever writes, restores and crashes there have been.  A
\* log entry has one row too, unless a checkpoint was restored into a memory that
\* was not empty: restore_checkpoint appends the logs a second time.
RecordsKeptOnce ==
  \A r, q \in rows :
    /\ r.id = q.id => r = q
    /\ r.store = q.store /\ r.key = q.key /\ r.key /= NoKey => r = q
    /\ r.store = q.store /\ r.stamp = q.stamp /\ "merged" \notin damage => r = q

RecordRef(r) == RefTo(r.store, r.key, r.stamp)
Indexed(r) ==
  \/ r.store \in {"state", "subtasks", "results"}
  \/ r.store = "decisions" /\ r.value /= "reflection"

\* Record and index item are written in two transactions.  No item ever refers to a
\* record that is not there, not even in the middle of a restore; and every record
\* has its item, but for the one being written and those a crash cut off.
IndexMatchesRecords ==
  LET items == {r.ref : r \in In("retrieval_index")}
      records == {r \in rows : Indexed(r)}
  IN  /\ "expired" \notin damage => items \subseteq {RecordRef(r) : r \in records}
      /\ damage \intersect {"expired", "cut", "torn"} = {} /\ stage /= "restore"
           => {RecordRef(r) : r \in records} \subseteq items \union {subject}

\* StateStore numbers snapshots by counting them, and so never overwrites an
\* existing step, as its docstring says, as long as no row has expired and no
\* restore was interrupted; a memory restored into, or resumed after a crash, keeps
\* the promise too.
SnapshotsNeverOverwritten ==
  [][\A s \in Sessions :
       WriteSnapshot(s) /\ damage \intersect {"expired", "torn"} = {} => rows \subseteq rows']_vars

Content(r) == [key |-> r.key, stamp |-> r.stamp, value |-> r.value, ref |-> r.ref]
\* The rows of a store as query lists them.
Listing(R, store) ==
  LET S == {r \in R : r.store = store}
      Nth(i) == CHOOSE r \in S : Cardinality({q \in S : q.id <= r.id}) = i
  IN  [i \in 1..Cardinality(S) |-> Content(Nth(i))]

\* A checkpoint restored into an empty memory gives every store but the dispatch
\* messages back as it was when the checkpoint was taken: the same records and, with
\* SQLite, in the same order.  The decisions' order decides which of two equal
\* timestamps is the latest, the subtasks' which root is the session's anchor.
RestoreIsFaithful ==
  [][FinishRestore /\ fresh =>
       \A store \in Stores \ {"dispatch_messages"} :
         /\ {Content(r) : r \in In(store)}
              = {Content(r) : r \in {q \in source.memory : q.store = store}}
         /\ backend = "sqlite" => Listing(rows, store) = Listing(source.memory, store)]_vars
=============================================================================
