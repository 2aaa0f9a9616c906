------------------------- MODULE MemoryStoresProofs -------------------------
(***************************************************************************)
(* Theorems about the stores and their checkpoints, for any sessions,      *)
(* subtasks and bounds: what is kept is kept once, and the index and the   *)
(* records agree, through crashes, expiry and restores, and a restore into *)
(* an empty memory gives back what was saved.                              *)
(***************************************************************************)
EXTENDS MemoryStores, FiniteSetTheorems, TLAPS

-----------------------------------------------------------------------------
(* What holds of a set of rows, be it the table or a checkpoint.            *)
IsItem(r) == r.store = "retrieval_index"

KeyedOnce(R) == \A r, q \in R : r.store = q.store /\ r.key = q.key /\ r.key /= NoKey => r = q

StampedOnce(R) == \A r, q \in R : r.store = q.store /\ r.stamp = q.stamp => r = q

\* Log entries and index items have no key, hence are never replaced.
LogsHaveNoKey(R) == \A r \in R : r.store \in {"decisions", "retrieval_index"} => r.key = NoKey

\* Each item refers to a record, and each record has an item.
ItemsRefer(R) == \A i \in R : IsItem(i) => \E r \in R : Indexed(r) /\ i.ref = RecordRef(r)
HasItem(r, S) == \E i \in S : IsItem(i) /\ i.ref = RecordRef(r)

Cut(d) == d \intersect {"expired", "cut", "torn"} /= {}

-----------------------------------------------------------------------------
(* The parts of the invariant.                                              *)
\* The table.
TableIsSound ==
  /\ IsFiniteSet(rows)
  /\ \A r \in rows : r.id < next_id /\ r.stamp < next_id
  /\ \A r, q \in rows : r.id = q.id => r = q
  /\ KeyedOnce(rows)
  /\ LogsHaveNoKey(rows)
  /\ "merged" \notin damage => StampedOnce(rows)
  /\ "expired" \notin damage => ItemsRefer(rows)

\* What is to be indexed is there; the rest is indexed, unless it was cut off.
WorkIsIndexed ==
  /\ stage = "index" => \E r \in rows : Indexed(r) /\ subject = RecordRef(r)
  /\ ~Cut(damage) /\ stage /= "restore" =>
       \A r \in rows : Indexed(r) => HasItem(r, rows) \/ subject = RecordRef(r)

FileIsSound(f) ==
  /\ \A r \in f.rows : r.stamp < next_id
  /\ KeyedOnce(f.rows)
  /\ LogsHaveNoKey(f.rows)
  /\ "merged" \notin f.damage => StampedOnce(f.rows)
  /\ "expired" \notin f.damage => ItemsRefer(f.rows)
  /\ ~Cut(f.damage) => \A r \in f.rows : Indexed(r) => HasItem(r, f.rows)

FilesAreSound == FileIsSound(source) /\ \A f \in files : FileIsSound(f)

\* A row of the table stands for a row of the checkpoint.
StandsFor(r, q) ==
  /\ r.store = q.store
  /\ RecordRef(r) = RecordRef(q)
  /\ Indexed(q) => Indexed(r)
  /\ IsItem(q) => r.ref = q.ref

\* A restore under way: what was restored is in the table, with nothing else in it
\* unless it was merged, and the items that lack are among the rows to come.
RestoreSoFar ==
  stage = "restore" =>
    /\ source.damage \subseteq damage
    /\ \A q \in source.rows \ todo : \E r \in rows : StandsFor(r, q)
    /\ "merged" \notin damage =>
         \A r \in rows : \E q \in source.rows \ todo : q.store = r.store /\ q.stamp = r.stamp
    /\ ~Cut(damage) => \A r \in rows : Indexed(r) => HasItem(r, rows \union todo)

IInv == TypeOK /\ TableIsSound /\ WorkIsIndexed /\ FilesAreSound /\ RestoreSoFar

-----------------------------------------------------------------------------
(* Putting a row.                                                           *)
ReplacedBy(r, store, key) == r.store = store /\ r.key = key /\ key /= NoKey

\* n is the row that a write or an append of these values adds.
Adds(n, store, key, stamp, value, ref) ==
  /\ n \in Rows /\ n \in rows'
  /\ n.id = next_id /\ n.store = store /\ n.key = key /\ n.stamp = stamp
  /\ n.value = value /\ n.ref = ref
  /\ next_id' = next_id + 1
  /\ \A r \in rows' : r = n \/ (r \in rows /\ ~ReplacedBy(r, store, key))
  /\ \A r \in rows : r \in rows' \/ ReplacedBy(r, store, key)

LEMMA PutAdds ==
  ASSUME rows \subseteq Rows, next_id \in Nat, TableIsSound,
         NEW store \in Stores, NEW key \in Keys, NEW stamp \in Nat,
         NEW value \in Statuses \union Kinds \union {"-"}, NEW ref \in Refs,
         Put(store, key, stamp, value, ref)
  PROVE  /\ rows' \subseteq Rows /\ IsFiniteSet(rows') /\ next_id' \in Nat
         /\ \E n : Adds(n, store, key, stamp, value, ref)
<1> DEFINE n == [id |-> next_id, store |-> store, key |-> key, stamp |-> stamp,
                 value |-> value, ref |-> ref]
           kept == rows \ Replaced(store, key)
<1>1. n \in Rows
  BY DEF Rows
<1>2. rows' = kept \union {n} /\ next_id' = next_id + 1
  BY DEF Put
<1>3. IsFiniteSet(kept)
  BY FS_Subset DEF TableIsSound
<1>4. IsFiniteSet(kept \union {n})
  BY <1>3, FS_AddElement
<1>5. \A r \in rows : r \in Replaced(store, key) <=> ReplacedBy(r, store, key)
  BY DEF Replaced, In, ReplacedBy
<1>6. n.id = next_id /\ n.store = store /\ n.key = key /\ n.stamp = stamp /\ n.value = value
      /\ n.ref = ref
  OBVIOUS
<1> HIDE DEF n
<1>7. Adds(n, store, key, stamp, value, ref)
  BY <1>1, <1>2, <1>5, <1>6 DEF Adds
<1>8. rows' \subseteq Rows /\ IsFiniteSet(rows') /\ next_id' \in Nat
  BY <1>1, <1>2, <1>4
<1> QED
  BY <1>7, <1>8

\* What a put replaces, the new row stands for.
LEMMA AddedStands ==
  ASSUME rows \subseteq Rows, LogsHaveNoKey(rows),
         NEW n, NEW store, NEW key, NEW stamp, NEW value, NEW ref,
         Adds(n, store, key, stamp, value, ref)
  PROVE  \A r \in rows : \E q \in rows' : StandsFor(q, r)
<1> SUFFICES ASSUME NEW r \in rows PROVE \E q \in rows' : StandsFor(q, r)
  OBVIOUS
<1>1. CASE r \in rows'
  <2>1. StandsFor(r, r)
    BY DEF StandsFor
  <2> QED
    BY <1>1, <2>1
<1>2. CASE ReplacedBy(r, store, key)
  <2>1. n \in rows' /\ n.store = store /\ n.key = key
    BY DEF Adds
  <2>2. r.store \notin {"decisions", "retrieval_index"}
    BY <1>2 DEF ReplacedBy, LogsHaveNoKey
  <2>3. n.store = r.store /\ n.key = r.key /\ r.key /= NoKey
    BY <1>2, <2>1 DEF ReplacedBy
  <2>4. RecordRef(n) = RecordRef(r)
    BY <2>3 DEF RecordRef, RefTo
  <2>5. Indexed(r) => Indexed(n)
    BY <2>2, <2>3 DEF Indexed
  <2>6. StandsFor(n, r)
    BY <2>2, <2>3, <2>4, <2>5 DEF StandsFor, IsItem
  <2> QED
    BY <2>1, <2>6
<1> QED
  BY <1>1, <1>2 DEF Adds

\* A put keeps the table sound if what it adds is new and, an item, refers to a record.
LEMMA AddedKeepsTable ==
  ASSUME rows \subseteq Rows, next_id \in Nat, TableIsSound,
         NEW n, NEW store, NEW key, NEW stamp \in Nat, NEW value, NEW ref,
         Adds(n, store, key, stamp, value, ref), rows' \subseteq Rows, IsFiniteSet(rows'),
         stamp <= next_id,
         store \in {"decisions", "retrieval_index"} => key = NoKey,
         damage' = damage,
         "merged" \notin damage => \A r \in rows : ~(r.store = store /\ r.stamp = stamp),
         "expired" \notin damage /\ store = "retrieval_index" =>
           \E r \in rows : Indexed(r) /\ ref = RecordRef(r)
  PROVE  TableIsSound'
<1>1. \A r \in rows' : r = n \/ (r \in rows /\ ~ReplacedBy(r, store, key))
  BY DEF Adds
<1>2. /\ n.id = next_id /\ n.store = store /\ n.key = key /\ n.stamp = stamp /\ n.ref = ref
      /\ next_id' = next_id + 1
  BY DEF Adds
<1>3. \A r \in rows : r.id \in Nat /\ r.stamp \in Nat /\ r.id < next_id /\ r.stamp < next_id
  BY DEF TableIsSound, Rows
<1>4. (\A r \in rows : r.id < next_id /\ r.stamp < next_id)'
  BY <1>1, <1>2, <1>3
<1>5. (\A r, q \in rows : r.id = q.id => r = q)'
  BY <1>1, <1>2, <1>3 DEF TableIsSound
<1>6. KeyedOnce(rows')
  BY <1>1, <1>2 DEF TableIsSound, KeyedOnce, ReplacedBy
<1>7. LogsHaveNoKey(rows')
  BY <1>1, <1>2 DEF TableIsSound, LogsHaveNoKey
<1>8. "merged" \notin damage => StampedOnce(rows')
  BY <1>1, <1>2 DEF TableIsSound, StampedOnce
<1>9. ASSUME "expired" \notin damage PROVE ItemsRefer(rows')
  <2> SUFFICES ASSUME NEW i \in rows', IsItem(i)
               PROVE  \E r \in rows' : Indexed(r) /\ i.ref = RecordRef(r)
    BY DEF ItemsRefer
  <2>1. \E r \in rows : Indexed(r) /\ i.ref = RecordRef(r)
    BY <1>1, <1>2, <1>9 DEF TableIsSound, ItemsRefer, IsItem
  <2>2. \A r \in rows : \E q \in rows' : StandsFor(q, r)
    BY AddedStands DEF TableIsSound
  <2> QED
    BY <2>1, <2>2 DEF StandsFor
<1> QED
  BY <1>4, <1>5, <1>6, <1>7, <1>8, <1>9 DEF TableIsSound

\* A file stays as sound as it was.
LEMMA FilesKeep ==
  ASSUME next_id \in Nat, next_id' \in Nat, next_id <= next_id',
         NEW f \in Files, FileIsSound(f)
  PROVE  FileIsSound(f)'
<1>1. \A r \in f.rows : r.stamp \in Nat
  BY DEF Files, Rows
<1>2. (\A r \in f.rows : r.stamp < next_id)'
  BY <1>1 DEF FileIsSound
<1> QED
  BY <1>2 DEF FileIsSound

LEMMA AllFilesKeep ==
  ASSUME files \subseteq Files, source \in Files, FilesAreSound,
         next_id \in Nat, next_id' \in Nat, next_id <= next_id',
         files' = files, source' = source
  PROVE  FilesAreSound'
<1>1. FileIsSound(source)'
  BY FilesKeep DEF FilesAreSound
<1>2. \A f \in files : FileIsSound(f)'
  BY FilesKeep DEF FilesAreSound
<1> QED
  BY <1>1, <1>2 DEF FilesAreSound

LEMMA NoRecordIsNoRef == ASSUME NEW r, Indexed(r) PROVE RecordRef(r) /= NoRef
  BY DEF Indexed, RecordRef, NoRef, RefTo

\* Items have no key and stay.
LEMMA ItemsStay ==
  ASSUME LogsHaveNoKey(rows), NEW n, NEW store, NEW key, NEW stamp, NEW value, NEW ref,
         Adds(n, store, key, stamp, value, ref), NEW i \in rows, IsItem(i)
  PROVE  i \in rows'
  BY DEF Adds, LogsHaveNoKey, ReplacedBy, IsItem

-----------------------------------------------------------------------------
(* The calls of the stores.                                                 *)
LEMMA RefTypes ==
  ASSUME NEW store \in Stores, NEW key \in Keys, NEW stamp \in Nat
  PROVE  RefTo(store, key, stamp) \in Refs /\ RefTo(store, key, stamp) /= NoRef
  BY DEF RefTo, Refs, NoRef, Stores, LogStores

LEMMA NoRefTypes == NoRef \in Refs
  BY DEF NoRef, RefTo, Refs, Keys

LEMMA PutIndexedKeeps ==
  ASSUME IInv, NEW store \in {"state", "subtasks", "decisions", "results"},
         NEW key \in Keys, NEW value \in Statuses \union Kinds \union {"-"},
         store = "decisions" => key = NoKey /\ value /= "reflection",
         PutIndexed(store, key, value)
  PROVE  IInv'
<1>1. /\ stage = "none" /\ stage' = "index" /\ calls' = calls + 1
      /\ subject' = RefTo(store, key, next_id)
      /\ UNCHANGED <<backend, damage, files, source, todo, fresh, saves, restores>>
      /\ Put(store, key, next_id, value, NoRef)
  BY DEF PutIndexed, Called, checkpoint
<1>2. rows \subseteq Rows /\ next_id \in Nat /\ files \subseteq Files /\ source \in Files
      /\ TableIsSound /\ FilesAreSound /\ WorkIsIndexed /\ LogsHaveNoKey(rows)
  BY DEF IInv, TypeOK, TableIsSound
<1>3. store \in Stores /\ NoRef \in Refs
  BY NoRefTypes DEF Stores, LogStores
<1>4. /\ rows' \subseteq Rows /\ IsFiniteSet(rows') /\ next_id' \in Nat
      /\ \E n : Adds(n, store, key, next_id, value, NoRef)
  BY <1>1, <1>2, <1>3, PutAdds
<1>5. PICK n : Adds(n, store, key, next_id, value, NoRef)
  BY <1>4
<1>6. next_id' = next_id + 1 /\ n \in rows' /\ n.store = store /\ n.key = key
      /\ n.stamp = next_id /\ n.value = value
  BY <1>5 DEF Adds
<1>7. TypeOK'
  <2>1. subject' \in Refs /\ subject' /= NoRef
    BY <1>1, <1>2, <1>3, RefTypes
  <2> QED
    BY <1>1, <1>4, <2>1 DEF IInv, TypeOK, Stages
<1>8. TableIsSound'
  <2>1. \A r \in rows : ~(r.store = store /\ r.stamp = next_id)
    BY <1>2 DEF TableIsSound, Rows
  <2> QED
    BY <1>1, <1>2, <1>4, <1>5, <2>1, AddedKeepsTable
<1>9. FilesAreSound'
  BY <1>1, <1>2, <1>4, <1>6, AllFilesKeep
<1>10. WorkIsIndexed'
  <2>1. Indexed(n) /\ subject' = RecordRef(n)
    BY <1>1, <1>6 DEF Indexed, RecordRef
  <2>2. ASSUME ~Cut(damage), NEW r \in rows', Indexed(r)
        PROVE  HasItem(r, rows') \/ subject' = RecordRef(r)
    <3>1. CASE r = n
      BY <2>1, <3>1
    <3>2. CASE r \in rows
      <4>1. subject = NoRef
        BY <1>1 DEF IInv, TypeOK
      <4>2. HasItem(r, rows)
        BY <1>1, <1>2, <2>2, <3>2, <4>1, NoRecordIsNoRef DEF WorkIsIndexed
      <4> QED
        BY <1>2, <1>5, <4>2, ItemsStay DEF HasItem
    <3> QED
      BY <1>5, <3>1, <3>2 DEF Adds
  <2> QED
    BY <1>1, <1>6, <2>1, <2>2 DEF WorkIsIndexed
<1>11. RestoreSoFar'
  BY <1>1 DEF RestoreSoFar
<1> QED
  BY <1>7, <1>8, <1>9, <1>10, <1>11 DEF IInv

LEMMA PutAloneKeeps ==
  ASSUME IInv, NEW store \in {"decisions", "tool_results", "dispatch_messages"},
         NEW key \in Keys, NEW value \in Kinds \union {"-"},
         store = "decisions" => key = NoKey /\ value = "reflection",
         PutAlone(store, key, value)
  PROVE  IInv'
<1>1. /\ stage = "none" /\ stage' = stage /\ subject' = subject /\ calls' = calls + 1
      /\ UNCHANGED <<backend, damage, files, source, todo, fresh, saves, restores>>
      /\ Put(store, key, next_id, value, NoRef)
  BY DEF PutAlone, Called, checkpoint, call
<1>2. rows \subseteq Rows /\ next_id \in Nat /\ files \subseteq Files /\ source \in Files
      /\ TableIsSound /\ FilesAreSound /\ WorkIsIndexed /\ LogsHaveNoKey(rows)
  BY DEF IInv, TypeOK, TableIsSound
<1>3. store \in Stores /\ NoRef \in Refs
  BY NoRefTypes DEF Stores, LogStores
<1>4. /\ rows' \subseteq Rows /\ IsFiniteSet(rows') /\ next_id' \in Nat
      /\ \E n : Adds(n, store, key, next_id, value, NoRef)
  BY <1>1, <1>2, <1>3, PutAdds
<1>5. PICK n : Adds(n, store, key, next_id, value, NoRef)
  BY <1>4
<1>6. next_id' = next_id + 1 /\ n.store = store /\ n.value = value
  BY <1>5 DEF Adds
<1>7. TypeOK'
  BY <1>1, <1>4 DEF IInv, TypeOK
<1>8. TableIsSound'
  <2>1. \A r \in rows : ~(r.store = store /\ r.stamp = next_id)
    BY <1>2 DEF TableIsSound, Rows
  <2> QED
    BY <1>1, <1>2, <1>4, <1>5, <2>1, AddedKeepsTable
<1>9. FilesAreSound'
  BY <1>1, <1>2, <1>4, <1>6, AllFilesKeep
<1>10. WorkIsIndexed'
  <2>1. ASSUME ~Cut(damage), NEW r \in rows', Indexed(r)
        PROVE  HasItem(r, rows') \/ subject' = RecordRef(r)
    <3>1. r /= n
      BY <1>6, <2>1 DEF Indexed
    <3>2. r \in rows
      BY <1>5, <3>1 DEF Adds
    <3>3. subject = NoRef
      BY <1>1 DEF IInv, TypeOK
    <3>4. HasItem(r, rows)
      BY <1>1, <1>2, <2>1, <3>2, <3>3, NoRecordIsNoRef DEF WorkIsIndexed
    <3> QED
      BY <1>2, <1>5, <3>4, ItemsStay DEF HasItem
  <2> QED
    BY <1>1, <2>1 DEF WorkIsIndexed
<1>11. RestoreSoFar'
  BY <1>1 DEF RestoreSoFar
<1> QED
  BY <1>7, <1>8, <1>9, <1>10, <1>11 DEF IInv

LEMMA IndexKeeps == ASSUME IInv, Index PROVE IInv'
<1>1. /\ stage = "index" /\ stage' = "none" /\ subject' = NoRef
      /\ UNCHANGED <<backend, damage, calls, files, source, todo, fresh, saves, restores>>
      /\ Put("retrieval_index", NoKey, next_id, "-", subject)
  BY DEF Index, checkpoint
<1>2. rows \subseteq Rows /\ next_id \in Nat /\ files \subseteq Files /\ source \in Files
      /\ TableIsSound /\ FilesAreSound /\ WorkIsIndexed /\ LogsHaveNoKey(rows)
      /\ subject \in Refs
  BY DEF IInv, TypeOK, TableIsSound
<1>3. "retrieval_index" \in Stores /\ NoRef \in Refs /\ NoKey \in Keys
  BY NoRefTypes DEF Stores, LogStores, Keys
<1>4. /\ rows' \subseteq Rows /\ IsFiniteSet(rows') /\ next_id' \in Nat
      /\ \E n : Adds(n, "retrieval_index", NoKey, next_id, "-", subject)
  BY <1>1, <1>2, <1>3, PutAdds
<1>5. PICK n : Adds(n, "retrieval_index", NoKey, next_id, "-", subject)
  BY <1>4
<1>6. next_id' = next_id + 1 /\ n \in rows' /\ n.store = "retrieval_index" /\ n.ref = subject
  BY <1>5 DEF Adds
<1>7. TypeOK'
  BY <1>1, <1>3, <1>4 DEF IInv, TypeOK, Stages
<1>8. TableIsSound'
  <2>1. \A r \in rows : ~(r.store = "retrieval_index" /\ r.stamp = next_id)
    BY <1>2 DEF TableIsSound, Rows
  <2>2. \E r \in rows : Indexed(r) /\ subject = RecordRef(r)
    BY <1>1, <1>2 DEF WorkIsIndexed
  <2> QED
    BY <1>1, <1>2, <1>4, <1>5, <2>1, <2>2, AddedKeepsTable
<1>9. FilesAreSound'
  BY <1>1, <1>2, <1>4, <1>6, AllFilesKeep
<1>10. WorkIsIndexed'
  <2>1. ASSUME ~Cut(damage), NEW r \in rows', Indexed(r) PROVE HasItem(r, rows')
    <3>1. r \in rows
      BY <1>5, <1>6, <2>1 DEF Adds, Indexed
    <3>2. CASE HasItem(r, rows)
      BY <1>2, <1>5, <3>2, ItemsStay DEF HasItem
    <3>3. CASE subject = RecordRef(r)
      BY <1>6, <3>3 DEF HasItem, IsItem
    <3> QED
      BY <1>1, <1>2, <2>1, <3>1, <3>2, <3>3 DEF WorkIsIndexed
  <2> QED
    BY <1>1, <2>1 DEF WorkIsIndexed
<1>11. RestoreSoFar'
  BY <1>1 DEF RestoreSoFar
<1> QED
  BY <1>7, <1>8, <1>9, <1>10, <1>11 DEF IInv

\* The key of a snapshot is typed because the snapshots of a session can be counted.
LEMMA StoreCallsKeep ==
  ASSUME IInv,
         \/ \E s \in Sessions : WriteSnapshot(s) \/ SaveDispatch(s)
         \/ \E t \in Tasks : Register(t)
         \/ \E t \in Tasks, status \in Statuses : SetStatus(t, status)
         \/ \E kind \in Kinds : AppendDecision(kind)
         \/ AppendResult
         \/ AppendToolResult
  PROVE  IInv'
<1>1. ASSUME NEW s \in Sessions, WriteSnapshot(s) PROVE IInv'
  <2>1. IsFiniteSet({r \in In("state") : r.key.session = s})
    BY FS_Subset DEF IInv, TableIsSound, In
  <2>2. NextStep(s) \in Nat
    BY <2>1, FS_CardinalityType DEF NextStep
  <2>3. SnapshotKey(s, NextStep(s)) \in Keys
    BY <2>2 DEF SnapshotKey, Keys
  <2> QED
    BY <1>1, <2>3, PutIndexedKeeps DEF WriteSnapshot
<1>2. ASSUME NEW s \in Sessions, SaveDispatch(s) PROVE IInv'
  BY <1>2, PutAloneKeeps DEF SaveDispatch, Keys
<1>3. ASSUME NEW t \in Tasks, Register(t) PROVE IInv'
  BY <1>3, PutIndexedKeeps DEF Register, Keys, Statuses
<1>4. ASSUME NEW t \in Tasks, NEW status \in Statuses, SetStatus(t, status) PROVE IInv'
  BY <1>4, PutIndexedKeeps DEF SetStatus, Keys
<1>5. ASSUME NEW kind \in Kinds, AppendDecision(kind) PROVE IInv'
  <2>1. NoKey \in Keys
    BY DEF Keys
  <2>2. CASE kind = "reflection"
    BY <1>5, <2>1, <2>2, PutAloneKeeps DEF AppendDecision
  <2>3. CASE kind /= "reflection"
    BY <1>5, <2>1, <2>3, PutIndexedKeeps DEF AppendDecision
  <2> QED
    BY <2>2, <2>3
<1>6. ASSUME AppendResult PROVE IInv'
  BY <1>6, PutIndexedKeeps DEF AppendResult, Keys
<1>7. ASSUME AppendToolResult PROVE IInv'
  BY <1>7, PutAloneKeeps DEF AppendToolResult, Keys
<1> QED
  BY <1>1, <1>2, <1>3, <1>4, <1>5, <1>6, <1>7

-----------------------------------------------------------------------------
(* What befalls the memory.                                                 *)
LEMMA NoFileIsSound == NoFile \in Files /\ FileIsSound(NoFile) /\ NoFile.rows = {}
<1>1. NoFile.rows = {} /\ NoFile.damage = {}
  BY DEF NoFile
<1>2. NoFile \in Files
  BY DEF NoFile, Files
<1>3. FileIsSound(NoFile)
  BY <1>1 DEF FileIsSound, KeyedOnce, LogsHaveNoKey, StampedOnce, ItemsRefer
<1> QED
  BY <1>1, <1>2, <1>3

LEMMA CrashKeeps == ASSUME IInv, Crash PROVE IInv'
<1>1. /\ stage' = "none" /\ subject' = NoRef /\ source' = NoFile /\ todo' = {} /\ fresh' = FALSE
      /\ UNCHANGED <<backend, rows, next_id, files, calls, saves, restores>>
      /\ damage \subseteq damage' /\ damage' \subseteq damage \union {"cut", "torn"}
      /\ stage = "index" => "cut" \in damage'
      /\ stage = "restore" => "torn" \in damage'
      /\ stage /= "none"
  BY DEF Crash, table
<1>2. TypeOK'
  BY <1>1, NoRefTypes, NoFileIsSound DEF IInv, TypeOK, Stages, Damages
<1>3. TableIsSound'
  BY <1>1 DEF IInv, TableIsSound, KeyedOnce, LogsHaveNoKey, StampedOnce, ItemsRefer, RecordRef
<1>4. FilesAreSound'
  BY <1>1, NoFileIsSound DEF IInv, FilesAreSound, FileIsSound
<1>5. WorkIsIndexed'
  <2>1. ASSUME ~Cut(damage') PROVE stage = "rename" /\ subject = NoRef /\ ~Cut(damage)
    BY <1>1, <2>1 DEF Cut, IInv, TypeOK, Stages
  <2> QED
    BY <1>1, <2>1 DEF IInv, WorkIsIndexed
<1>6. RestoreSoFar'
  BY <1>1 DEF RestoreSoFar
<1> QED
  BY <1>2, <1>3, <1>4, <1>5, <1>6 DEF IInv

LEMMA ReopenKeeps == ASSUME IInv, Reopen PROVE IInv'
<1>1. /\ stage = "none" /\ rows' = {} /\ damage' = {}
      /\ UNCHANGED <<backend, next_id, stage, subject, calls>>
      /\ UNCHANGED <<files, source, todo, fresh, saves, restores>>
  BY DEF Reopen, call, checkpoint
<1>2. TypeOK'
  BY <1>1 DEF IInv, TypeOK
<1>3. TableIsSound'
  BY <1>1, FS_EmptySet DEF TableIsSound, KeyedOnce, LogsHaveNoKey, StampedOnce, ItemsRefer
<1>4. FilesAreSound'
  BY <1>1 DEF IInv, FilesAreSound, FileIsSound
<1>5. WorkIsIndexed' /\ RestoreSoFar'
  BY <1>1 DEF WorkIsIndexed, RestoreSoFar
<1> QED
  BY <1>2, <1>3, <1>4, <1>5 DEF IInv

LEMMA ExpireKeeps == ASSUME IInv, Expire PROVE IInv'
<1>1. /\ stage = "none" /\ rows' \subseteq rows /\ damage' = damage \union {"expired"}
      /\ UNCHANGED <<backend, next_id, stage, subject, calls>>
      /\ UNCHANGED <<files, source, todo, fresh, saves, restores>>
  BY DEF Expire, call, checkpoint
<1>2. TypeOK'
  BY <1>1 DEF IInv, TypeOK, Damages
<1>3. IsFiniteSet(rows')
  BY <1>1, FS_Subset DEF IInv, TableIsSound
<1>4. TableIsSound'
  BY <1>1, <1>3 DEF IInv, TableIsSound, KeyedOnce, LogsHaveNoKey, StampedOnce
<1>5. FilesAreSound'
  BY <1>1 DEF IInv, FilesAreSound, FileIsSound
<1>6. WorkIsIndexed' /\ RestoreSoFar'
  BY <1>1 DEF WorkIsIndexed, RestoreSoFar, Cut
<1> QED
  BY <1>2, <1>4, <1>5, <1>6 DEF IInv

-----------------------------------------------------------------------------
(* Checkpoints.                                                             *)
LEMMA SaveKeeps ==
  ASSUME IInv, NEW s \in Sessions, NEW step \in Steps, SaveCheckpoint(s, step)
  PROVE  IInv'
<1> DEFINE f == [session |-> s, step |-> step, rows |-> SnapshotMemory, memory |-> rows,
                 damage |-> damage]
<1>1. /\ stage = "none" /\ stage' = "rename" /\ source' = f /\ saves' = saves + 1
      /\ UNCHANGED <<backend, rows, next_id, subject, files, todo, fresh, damage, calls, restores>>
  BY DEF SaveCheckpoint, table
<1>2. SnapshotMemory \subseteq rows /\ f.rows = SnapshotMemory /\ f.damage = damage
  BY DEF SnapshotMemory
<1>3. f \in Files
  BY <1>2 DEF IInv, TypeOK, Files
<1>4. todo = {} /\ subject = NoRef /\ ~fresh
  BY <1>1 DEF IInv, TypeOK
<1>5. \A r \in rows : Indexed(r) \/ IsItem(r) => r \in SnapshotMemory
  BY DEF SnapshotMemory, Indexed, IsItem
<1>6. FileIsSound(f)
  <2>1. \A r \in f.rows : r.stamp < next_id
    BY <1>2 DEF IInv, TableIsSound
  <2>2. KeyedOnce(f.rows) /\ LogsHaveNoKey(f.rows) /\ ("merged" \notin f.damage => StampedOnce(f.rows))
    BY <1>2 DEF IInv, TableIsSound, KeyedOnce, LogsHaveNoKey, StampedOnce
  <2>3. "expired" \notin f.damage => ItemsRefer(f.rows)
    BY <1>2, <1>5 DEF IInv, TableIsSound, ItemsRefer
  <2>4. ~Cut(f.damage) => \A r \in f.rows : Indexed(r) => HasItem(r, rows)
    BY <1>1, <1>2, <1>4, NoRecordIsNoRef DEF IInv, WorkIsIndexed
  <2>5. ~Cut(f.damage) => \A r \in f.rows : Indexed(r) => HasItem(r, f.rows)
    BY <1>2, <1>5, <2>4 DEF HasItem
  <2> QED
    BY <2>1, <2>2, <2>3, <2>5 DEF FileIsSound
<1> HIDE DEF f
<1>7. TypeOK'
  BY <1>1, <1>3, <1>4 DEF IInv, TypeOK, Stages
<1>8. TableIsSound'
  BY <1>1 DEF IInv, TableIsSound
<1>9. FilesAreSound'
  BY <1>1, <1>6 DEF IInv, FilesAreSound, FileIsSound
<1>10. WorkIsIndexed' /\ RestoreSoFar'
  BY <1>1 DEF IInv, WorkIsIndexed, RestoreSoFar
<1> QED
  BY <1>7, <1>8, <1>9, <1>10 DEF IInv

LEMMA RenameKeeps == ASSUME IInv, RenameCheckpoint PROVE IInv'
<1>1. /\ stage = "rename" /\ stage' = "none" /\ source' = NoFile
      /\ files' \subseteq files \union {source}
      /\ UNCHANGED <<backend, rows, next_id, subject, todo, fresh, damage, calls, saves, restores>>
  BY DEF RenameCheckpoint, table
<1>2. todo = {} /\ subject = NoRef
  BY <1>1 DEF IInv, TypeOK
<1>3. TypeOK'
  BY <1>1, <1>2, NoFileIsSound DEF IInv, TypeOK, Stages
<1>4. TableIsSound'
  BY <1>1 DEF IInv, TableIsSound
<1>5. FilesAreSound'
  BY <1>1, NoFileIsSound DEF IInv, FilesAreSound, FileIsSound
<1>6. WorkIsIndexed' /\ RestoreSoFar'
  BY <1>1 DEF IInv, WorkIsIndexed, RestoreSoFar
<1> QED
  BY <1>3, <1>4, <1>5, <1>6 DEF IInv

LEMMA StartRestoreKeeps == ASSUME IInv, NEW s \in Sessions, StartRestore(s) PROVE IInv'
<1>1. PICK f \in files :
        /\ source' = f /\ todo' = f.rows
        /\ damage' = damage \union f.damage \union (IF rows = {} THEN {} ELSE {"merged"})
  BY DEF StartRestore, LatestCheckpoint
<1>2. /\ stage = "none" /\ stage' = "restore" /\ fresh' \in BOOLEAN /\ restores' = restores + 1
      /\ UNCHANGED <<backend, rows, next_id, subject, files, calls, saves>>
  BY DEF StartRestore, table
<1>3. f \in Files /\ f.damage \subseteq Damages /\ subject = NoRef
  BY <1>2 DEF IInv, TypeOK, Files
<1>4. damage \subseteq damage' /\ f.damage \subseteq damage' /\ damage' \subseteq Damages
      /\ ("merged" \notin damage' => rows = {})
  BY <1>1, <1>3 DEF IInv, TypeOK, Damages
<1>5. TypeOK'
  BY <1>1, <1>2, <1>3, <1>4 DEF IInv, TypeOK, Stages
<1>6. TableIsSound'
  BY <1>2, <1>4 DEF IInv, TableIsSound
<1>7. FilesAreSound'
  BY <1>1, <1>2 DEF IInv, FilesAreSound, FileIsSound
<1>8. WorkIsIndexed'
  BY <1>2 DEF WorkIsIndexed
<1>9. RestoreSoFar'
  <2>1. ~Cut(damage') => ~Cut(damage)
    BY <1>4 DEF Cut
  <2>2. ~Cut(damage') => \A r \in rows : Indexed(r) => HasItem(r, rows)
    BY <1>2, <1>3, <2>1, NoRecordIsNoRef DEF IInv, WorkIsIndexed
  <2>3. ~Cut(damage') => \A r \in rows : Indexed(r) => HasItem(r, rows \union f.rows)
    BY <2>2 DEF HasItem
  <2> QED
    BY <1>1, <1>2, <1>4, <2>3 DEF RestoreSoFar
<1> QED
  BY <1>5, <1>6, <1>7, <1>8, <1>9 DEF IInv

LEMMA FinishRestoreKeeps == ASSUME IInv, FinishRestore PROVE IInv'
<1>1. /\ stage = "restore" /\ stage' = "none" /\ todo = {} /\ source' = NoFile /\ fresh' = FALSE
      /\ UNCHANGED <<backend, rows, next_id, subject, files, todo, damage, calls, saves, restores>>
  BY DEF FinishRestore, table
<1>2. TypeOK'
  BY <1>1, NoFileIsSound DEF IInv, TypeOK, Stages
<1>3. TableIsSound'
  BY <1>1 DEF IInv, TableIsSound
<1>4. FilesAreSound'
  BY <1>1, NoFileIsSound DEF IInv, FilesAreSound, FileIsSound
<1>5. WorkIsIndexed'
  <2>1. rows \union todo = rows
    BY <1>1
  <2>2. ~Cut(damage) => \A r \in rows : Indexed(r) => HasItem(r, rows)
    BY <1>1, <2>1 DEF IInv, RestoreSoFar
  <2> QED
    BY <1>1, <2>2 DEF WorkIsIndexed
<1>6. RestoreSoFar'
  BY <1>1 DEF RestoreSoFar
<1> QED
  BY <1>2, <1>3, <1>4, <1>5, <1>6 DEF IInv

\* An item is restored after the records of its checkpoint.
LEMMA RecordsComeFirst ==
  ASSUME todo \subseteq source.rows, NEW r \in todo, IsItem(r), IsNext(r),
         NEW q \in source.rows, Indexed(q)
  PROVE  q \notin todo
<1>1. Place["retrieval_index"] = 6 /\ Place["state"] = 1 /\ Place["decisions"] = 2
      /\ Place["subtasks"] = 3 /\ Place["results"] = 4
  BY DEF Place
<1>2. q.store \in {"state", "decisions", "subtasks", "results"}
  BY DEF Indexed
<1>3. SUFFICES ASSUME q \in todo PROVE FALSE
  OBVIOUS
<1>4. Place[r.store] < Place[q.store] \/ r.store = q.store
  BY <1>3 DEF IsNext
<1> QED
  BY <1>1, <1>2, <1>4 DEF IsItem

LEMMA RestoreRowKeeps == ASSUME IInv, RestoreRow PROVE IInv'
<1>1. PICK r \in todo :
        /\ IsNext(r) /\ Put(r.store, r.key, r.stamp, r.value, r.ref)
        /\ todo' = todo \ {r}
  BY DEF RestoreRow
<1>2. /\ stage = "restore" /\ stage' = stage /\ subject' = subject
      /\ UNCHANGED <<backend, files, source, fresh, damage, calls, saves, restores>>
  BY DEF RestoreRow, call
<1>3. rows \subseteq Rows /\ next_id \in Nat /\ files \subseteq Files /\ source \in Files
      /\ TableIsSound /\ FilesAreSound /\ RestoreSoFar /\ LogsHaveNoKey(rows)
      /\ FileIsSound(source) /\ todo \subseteq source.rows
  BY DEF IInv, TypeOK, TableIsSound, FilesAreSound
<1>4. r \in source.rows /\ r \in Rows
  BY <1>1, <1>3 DEF Files
<1>5. r.store \in Stores /\ r.key \in Keys /\ r.stamp \in Nat /\ r.ref \in Refs
      /\ r.value \in Statuses \union Kinds \union {"-"}
  BY <1>4 DEF Rows
<1>6. /\ rows' \subseteq Rows /\ IsFiniteSet(rows') /\ next_id' \in Nat
      /\ \E n : Adds(n, r.store, r.key, r.stamp, r.value, r.ref)
  BY <1>1, <1>3, <1>5, PutAdds
<1>7. PICK n : Adds(n, r.store, r.key, r.stamp, r.value, r.ref)
  BY <1>6
<1>8. next_id' = next_id + 1 /\ n \in rows' /\ n.store = r.store /\ n.key = r.key
      /\ n.stamp = r.stamp /\ n.value = r.value /\ n.ref = r.ref
      /\ \A p \in rows' : p = n \/ p \in rows
  BY <1>7 DEF Adds
<1>9. source.damage \subseteq damage
  BY <1>2, <1>3 DEF RestoreSoFar
<1>10. TypeOK'
  BY <1>1, <1>2, <1>6 DEF IInv, TypeOK
<1>11. TableIsSound'
  <2>1. r.stamp <= next_id
    BY <1>3, <1>4, <1>5 DEF FileIsSound
  <2>2. r.store \in {"decisions", "retrieval_index"} => r.key = NoKey
    BY <1>3, <1>4 DEF FileIsSound, LogsHaveNoKey
  <2>3. ASSUME "merged" \notin damage, NEW p \in rows, p.store = r.store, p.stamp = r.stamp
        PROVE  FALSE
    <3>1. PICK q \in source.rows \ todo : q.store = p.store /\ q.stamp = p.stamp
      BY <1>2, <1>3, <2>3 DEF RestoreSoFar
    <3>2. StampedOnce(source.rows)
      BY <1>3, <1>9, <2>3 DEF FileIsSound
    <3>3. q = r
      BY <1>4, <2>3, <3>1, <3>2 DEF StampedOnce
    <3> QED
      BY <3>1, <3>3
  <2>4. ASSUME "expired" \notin damage, r.store = "retrieval_index"
        PROVE  \E p \in rows : Indexed(p) /\ r.ref = RecordRef(p)
    <3>1. PICK q \in source.rows : Indexed(q) /\ r.ref = RecordRef(q)
      BY <1>3, <1>4, <1>9, <2>4 DEF FileIsSound, ItemsRefer, IsItem
    <3>2. q \notin todo
      BY <1>1, <1>3, <2>4, <3>1, RecordsComeFirst DEF IsItem
    <3>3. PICK p \in rows : StandsFor(p, q)
      BY <1>2, <1>3, <3>2 DEF RestoreSoFar
    <3> QED
      BY <3>1, <3>3 DEF StandsFor
  <2> QED
    BY <1>2, <1>3, <1>5, <1>6, <1>7, <2>1, <2>2, <2>3, <2>4, AddedKeepsTable
<1>12. FilesAreSound'
  BY <1>2, <1>3, <1>6, <1>8, AllFilesKeep
<1>13. WorkIsIndexed'
  BY <1>2 DEF WorkIsIndexed
<1>14. RestoreSoFar'
  <2>1. ASSUME NEW q \in source.rows \ todo' PROVE \E p \in rows' : StandsFor(p, q)
    <3>1. CASE q = r
      <4>1. StandsFor(n, r)
        BY <1>8 DEF StandsFor, RecordRef, Indexed
      <4> QED
        BY <1>8, <3>1, <4>1
    <3>2. CASE q /= r
      <4>1. PICK p \in rows : StandsFor(p, q)
        BY <1>1, <1>2, <1>3, <2>1, <3>2 DEF RestoreSoFar
      <4>2. PICK o \in rows' : StandsFor(o, p)
        BY <1>3, <1>7, AddedStands
      <4>3. StandsFor(o, q)
        BY <4>1, <4>2 DEF StandsFor, IsItem
      <4> QED
        BY <4>3
    <3> QED
      BY <3>1, <3>2
  <2>2. ASSUME "merged" \notin damage, NEW p \in rows'
        PROVE  \E q \in source.rows \ todo' : q.store = p.store /\ q.stamp = p.stamp
    <3>1. CASE p = n
      BY <1>1, <1>4, <1>8, <3>1
    <3>2. CASE p \in rows
      BY <1>1, <1>2, <1>3, <2>2, <3>2 DEF RestoreSoFar
    <3> QED
      BY <1>8, <3>1, <3>2
  <2>3. ASSUME ~Cut(damage), NEW p \in rows', Indexed(p) PROVE HasItem(p, rows' \union todo')
    <3>1. ASSUME NEW i \in rows \union todo, IsItem(i)
          PROVE  i \in rows' \union todo' \/ (i = r /\ IsItem(n) /\ n.ref = i.ref)
      <4>1. CASE i \in rows
        BY <1>3, <1>7, <3>1, <4>1, ItemsStay
      <4>2. CASE i \in todo
        BY <1>1, <1>8, <3>1, <4>2 DEF IsItem
      <4> QED
        BY <3>1, <4>1, <4>2
    <3>2. HasItem(p, rows \union todo)
      <4>1. CASE p = n
        <5>1. Indexed(r) /\ RecordRef(r) = RecordRef(p)
          BY <1>8, <2>3, <4>1 DEF Indexed, RecordRef
        <5>2. ~Cut(source.damage)
          BY <1>9, <2>3 DEF Cut
        <5>3. PICK i \in source.rows : IsItem(i) /\ i.ref = RecordRef(p)
          BY <1>3, <1>4, <5>1, <5>2 DEF FileIsSound, HasItem
        <5>4. CASE i \in todo
          BY <5>3, <5>4 DEF HasItem
        <5>5. CASE i \notin todo
          <6>1. PICK j \in rows : StandsFor(j, i)
            BY <1>2, <1>3, <5>5 DEF RestoreSoFar
          <6>2. IsItem(j) /\ j.ref = RecordRef(p)
            BY <5>3, <6>1 DEF StandsFor, IsItem
          <6> QED
            BY <6>2 DEF HasItem
        <5> QED
          BY <5>4, <5>5
      <4>2. CASE p \in rows
        BY <1>2, <1>3, <2>3, <4>2 DEF RestoreSoFar
      <4> QED
        BY <1>8, <4>1, <4>2
    <3> QED
      BY <1>8, <3>1, <3>2 DEF HasItem
  <2> QED
    BY <1>2, <1>9, <2>1, <2>2, <2>3 DEF RestoreSoFar
<1> QED
  BY <1>10, <1>11, <1>12, <1>13, <1>14 DEF IInv

-----------------------------------------------------------------------------
(* The invariant and what follows from it.                                  *)
LEMMA InitIInv == Init => IInv
<1> SUFFICES ASSUME Init PROVE IInv
  OBVIOUS
<1>1. TypeOK
  BY NoFileIsSound, NoRefTypes DEF Init, TypeOK, Stages
<1>2. TableIsSound
  BY FS_EmptySet DEF Init, TableIsSound, KeyedOnce, LogsHaveNoKey, StampedOnce, ItemsRefer
<1>3. FilesAreSound
  BY NoFileIsSound DEF Init, FilesAreSound
<1>4. WorkIsIndexed /\ RestoreSoFar
  BY DEF Init, WorkIsIndexed, RestoreSoFar
<1> QED
  BY <1>1, <1>2, <1>3, <1>4 DEF IInv

LEMMA StepIInv == IInv /\ [Next]_vars => IInv'
<1> SUFFICES ASSUME IInv, [Next]_vars PROVE IInv'
  OBVIOUS
<1>1. CASE \/ \E s \in Sessions : WriteSnapshot(s) \/ SaveDispatch(s)
           \/ \E t \in Tasks : Register(t)
           \/ \E t \in Tasks, status \in Statuses : SetStatus(t, status)
           \/ \E kind \in Kinds : AppendDecision(kind)
           \/ AppendResult
           \/ AppendToolResult
  BY <1>1, StoreCallsKeep
<1>2. ASSUME NEW s \in Sessions, StartRestore(s) PROVE IInv'
  BY <1>2, StartRestoreKeeps
<1>3. CASE Index
  BY <1>3, IndexKeeps
<1>4. CASE Crash
  BY <1>4, CrashKeeps
<1>5. CASE Reopen
  BY <1>5, ReopenKeeps
<1>6. CASE Expire
  BY <1>6, ExpireKeeps
<1>7. ASSUME NEW s \in Sessions, NEW step \in Steps, SaveCheckpoint(s, step) PROVE IInv'
  BY <1>7, SaveKeeps
<1>8. CASE RenameCheckpoint
  BY <1>8, RenameKeeps
<1>9. CASE RestoreRow
  BY <1>9, RestoreRowKeeps
<1>10. CASE FinishRestore
  BY <1>10, FinishRestoreKeeps
<1>11. CASE UNCHANGED vars
  <2>1. /\ UNCHANGED <<backend, rows, next_id, stage, subject, files, source, todo, fresh>>
        /\ UNCHANGED <<damage, calls, saves, restores>>
    BY <1>11 DEF vars
  <2>2. TypeOK'
    BY <2>1 DEF IInv, TypeOK
  <2>3. TableIsSound' /\ WorkIsIndexed'
    BY <2>1 DEF IInv, TableIsSound, WorkIsIndexed
  <2>4. FilesAreSound' /\ RestoreSoFar'
    BY <2>1 DEF IInv, FilesAreSound, FileIsSound, RestoreSoFar
  <2> QED
    BY <2>2, <2>3, <2>4 DEF IInv
<1> QED
  BY <1>1, <1>2, <1>3, <1>4, <1>5, <1>6, <1>7, <1>8, <1>9, <1>10, <1>11 DEF Next

LEMMA AlwaysIInv == Spec => []IInv
  BY InitIInv, StepIInv, PTL DEF Spec

\* The stores, the checkpoints and a call in progress have their shapes.
THEOREM TypeCorrect == Spec => []TypeOK
<1>1. IInv => TypeOK
  BY DEF IInv
<1> QED
  BY <1>1, AlwaysIInv, PTL

\* No interleaving of calls, crashes and restores gives a key two rows, or a log
\* entry two unless a checkpoint was restored on top of rows.
THEOREM KeptOnce == Spec => []RecordsKeptOnce
<1>1. IInv => RecordsKeptOnce
  BY DEF IInv, TableIsSound, KeyedOnce, StampedOnce, RecordsKeptOnce
<1> QED
  BY <1>1, AlwaysIInv, PTL

\* The index never refers to a record that is not there, and lacks none but the one
\* being written and those that a crash cut off.
THEOREM IndexAgrees == Spec => []IndexMatchesRecords
<1>1. ASSUME IInv PROVE IndexMatchesRecords
  <2> DEFINE items == {r.ref : r \in In("retrieval_index")}
             records == {r \in rows : Indexed(r)}
  <2>1. "expired" \notin damage => items \subseteq {RecordRef(r) : r \in records}
    BY <1>1 DEF IInv, TableIsSound, ItemsRefer, IsItem, In
  <2>2. damage \intersect {"expired", "cut", "torn"} = {} /\ stage /= "restore"
          => {RecordRef(r) : r \in records} \subseteq items \union {subject}
    BY <1>1 DEF IInv, WorkIsIndexed, Cut, HasItem, IsItem, In
  <2> QED
    BY <2>1, <2>2 DEF IndexMatchesRecords
<1> QED
  BY <1>1, AlwaysIInv, PTL

-----------------------------------------------------------------------------
(* Snapshots are numbered from 0 without a gap, unless rows have expired or *)
(* were not all restored; hence their count is a number that is free.       *)
IsSnapshot(r) == r.store = "state"

Lost(d) == d \intersect {"expired", "torn"} /= {}

Numbered(R) == \A r \in R : IsSnapshot(r) => r.key \in [session : Sessions, step : Nat]

NoGap(R) ==
  \A r \in R : IsSnapshot(r) =>
    \A k \in 0..(r.key.step - 1) :
      \E q \in R : IsSnapshot(q) /\ q.key = SnapshotKey(r.key.session, k)

FileIsNumbered(f) == Numbered(f.rows) /\ (~Lost(f.damage) => NoGap(f.rows))

\* In the middle of a restore the rows to come fill the gaps.
SnapshotsSoFar ==
  /\ Numbered(rows)
  /\ ~Lost(damage) => NoGap(rows \union todo)
  /\ FileIsNumbered(source)
  /\ \A f \in files : FileIsNumbered(f)

\* A set of numbers without a gap is counted by the first number it lacks.
LEMMA CountIsFree ==
  ASSUME NEW T \in SUBSET Nat, IsFiniteSet(T), \A t \in T : \A k \in 0..(t - 1) : k \in T
  PROVE  Cardinality(T) \notin T /\ \A k \in 0..(Cardinality(T) - 1) : k \in T
<1> DEFINE c == Cardinality(T)
<1>1. c \in Nat
  BY FS_CardinalityType
<1>2. ASSUME c \in T PROVE FALSE
  <2>1. 0..c \subseteq T
    BY <1>1, <1>2
  <2>2. Cardinality(0..c) = c + 1
    BY <1>1, FS_Interval
  <2>3. Cardinality(0..c) <= c
    BY <2>1, FS_Subset
  <2> QED
    BY <1>1, <2>2, <2>3
<1>3. ASSUME NEW k \in 0..(c - 1), k \notin T PROVE FALSE
  <2>1. k \in Nat /\ k < c
    BY <1>1, <1>3
  <2>2. T \subseteq 0..(k - 1)
    BY <1>3, <2>1
  <2>3. Cardinality(0..(k - 1)) = k /\ IsFiniteSet(0..(k - 1))
    BY <2>1, FS_Interval
  <2>4. Cardinality(T) <= Cardinality(0..(k - 1))
    BY <2>2, <2>3, FS_Subset, Zenon
  <2> QED
    BY <1>1, <2>1, <2>3, <2>4
<1> QED
  BY <1>2, <1>3

\* The snapshots of a session are as many as their numbers.
LEMMA NextStepIsFree ==
  ASSUME IInv, Numbered(rows), NoGap(rows), NEW s \in Sessions
  PROVE  /\ NextStep(s) \in Nat
         /\ \A r \in rows : ~(IsSnapshot(r) /\ r.key = SnapshotKey(s, NextStep(s)))
         /\ \A k \in 0..(NextStep(s) - 1) :
              \E r \in rows : IsSnapshot(r) /\ r.key = SnapshotKey(s, k)
<1> DEFINE S == {r \in In("state") : r.key.session = s}
           T == {r.key.step : r \in S}
           number == [r \in S |-> r.key.step]
<1>1. IsFiniteSet(S) /\ NextStep(s) = Cardinality(S)
  BY FS_Subset DEF IInv, TableIsSound, In, NextStep
<1>2. \A r \in S : r \in rows /\ IsSnapshot(r) /\ r.key.step \in Nat
                  /\ r.key = SnapshotKey(s, r.key.step)
  BY DEF In, IsSnapshot, Numbered, SnapshotKey
<1>3. number \in Injection(S, T) /\ number \in Surjection(S, T)
  <2>1. \A r, q \in S : r.key.step = q.key.step => r = q
    <3> SUFFICES ASSUME NEW r \in S, NEW q \in S, r.key.step = q.key.step PROVE r = q
      OBVIOUS
    <3>1. r.key = q.key /\ r.store = q.store
      BY <1>2 DEF IsSnapshot
    <3>2. r.key /= NoKey
      BY <1>2, NoKeyIsNoKey DEF Numbered
    <3> QED
      BY <1>2, <3>1, <3>2 DEF IInv, TableIsSound, KeyedOnce
  <2>2. number \in [S -> T] /\ \A r \in S : number[r] = r.key.step
    OBVIOUS
  <2>3. \A t \in T : \E r \in S : number[r] = t
    OBVIOUS
  <2>4. \A r, q \in S : number[r] = number[q] => r = q
    BY <2>1, <2>2
  <2> HIDE DEF number, S, T
  <2> QED
    BY <2>2, <2>3, <2>4 DEF Injection, IsInjective, Surjection
<1>4. IsFiniteSet(T) /\ Cardinality(T) = Cardinality(S)
  BY <1>1, <1>3, FS_Surjection
<1>5. T \in SUBSET Nat
  BY <1>2
<1>6. \A t \in T : \A k \in 0..(t - 1) : k \in T
  <2> SUFFICES ASSUME NEW r \in S, NEW k \in 0..(r.key.step - 1) PROVE k \in T
    OBVIOUS
  <2>1. r.key.session = s
    OBVIOUS
  <2>2. PICK q \in rows : IsSnapshot(q) /\ q.key = SnapshotKey(s, k)
    BY <1>2, <2>1 DEF NoGap
  <2>3. q \in S /\ q.key.step = k
    BY <2>2 DEF In, IsSnapshot, SnapshotKey
  <2> QED
    BY <2>3
<1> HIDE DEF T
<1>7. Cardinality(T) \notin T /\ \A k \in 0..(Cardinality(T) - 1) : k \in T
  BY <1>4, <1>5, <1>6, CountIsFree
<1>8. NextStep(s) \in Nat /\ NextStep(s) = Cardinality(T)
  BY <1>1, <1>4, FS_CardinalityType
<1> USE DEF T
<1>9. \A r \in rows : ~(IsSnapshot(r) /\ r.key = SnapshotKey(s, NextStep(s)))
  <2> SUFFICES ASSUME NEW r \in rows, IsSnapshot(r), r.key = SnapshotKey(s, NextStep(s))
               PROVE  FALSE
    OBVIOUS
  <2>1. r \in S /\ r.key.step = NextStep(s)
    BY DEF In, IsSnapshot, SnapshotKey
  <2>2. NextStep(s) \in T
    BY <2>1
  <2> QED
    BY <1>7, <1>8, <2>2
<1>10. \A k \in 0..(NextStep(s) - 1) : \E r \in rows : IsSnapshot(r) /\ r.key = SnapshotKey(s, k)
  BY <1>2, <1>7, <1>8
<1> QED
  BY <1>8, <1>9, <1>10

\* Rows of the other stores come and go without touching the snapshots.
LEMMA OtherPutsKeepSnapshots ==
  ASSUME IInv, SnapshotsSoFar, NEW store \in Stores \ {"state"}, NEW key \in Keys,
         NEW stamp \in Nat, NEW value \in Statuses \union Kinds \union {"-"}, NEW ref \in Refs,
         Put(store, key, stamp, value, ref), UNCHANGED <<damage, todo, source, files>>
  PROVE  SnapshotsSoFar'
<1>1. PICK n : Adds(n, store, key, stamp, value, ref)
  BY PutAdds DEF IInv, TypeOK
<1>2. \A r \in rows' : IsSnapshot(r) => r \in rows
  BY <1>1 DEF Adds, IsSnapshot
<1>3. \A r \in rows : IsSnapshot(r) => r \in rows'
  BY <1>1 DEF Adds, ReplacedBy, IsSnapshot
<1>4. Numbered(rows')
  BY <1>2 DEF SnapshotsSoFar, Numbered
<1>5. NoGap(rows \union todo) => NoGap(rows' \union todo)
  BY <1>2, <1>3 DEF NoGap
<1> QED
  BY <1>4, <1>5 DEF SnapshotsSoFar, FileIsNumbered

LEMMA WriteSnapshotKeepsSnapshots ==
  ASSUME IInv, SnapshotsSoFar, NEW s \in Sessions, WriteSnapshot(s)
  PROVE  /\ SnapshotsSoFar'
         /\ ~Lost(damage) => rows \subseteq rows'
<1> DEFINE key == SnapshotKey(s, NextStep(s))
<1>1. /\ Put("state", key, next_id, "-", NoRef)
      /\ UNCHANGED <<damage, todo, source, files>> /\ stage = "none"
  BY DEF WriteSnapshot, PutIndexed, Called, checkpoint
<1>2. todo = {} /\ rows \union todo = rows
  BY <1>1 DEF IInv, TypeOK
<1>3. NextStep(s) \in Nat
  <2>1. IsFiniteSet({r \in In("state") : r.key.session = s})
    BY FS_Subset DEF IInv, TableIsSound, In
  <2> QED
    BY <2>1, FS_CardinalityType DEF NextStep
<1>4. key \in [session : Sessions, step : Nat] /\ key.session = s /\ key.step = NextStep(s)
  BY <1>3 DEF SnapshotKey
<1> HIDE DEF key
<1>5. "state" \in Stores /\ NoRef \in Refs /\ key \in Keys
  BY <1>4, NoRefTypes DEF Stores, Keys
<1>6. PICK n : Adds(n, "state", key, next_id, "-", NoRef)
  BY <1>1, <1>5, PutAdds DEF IInv, TypeOK
<1>7. n \in rows' /\ n.store = "state" /\ n.key = key /\ \A r \in rows' : r = n \/ r \in rows
  BY <1>6 DEF Adds
<1>8. Numbered(rows')
  BY <1>4, <1>7 DEF SnapshotsSoFar, Numbered, IsSnapshot
<1>9. ASSUME ~Lost(damage) PROVE rows \subseteq rows' /\ NoGap(rows')
  <2>1. NoGap(rows) /\ Numbered(rows)
    BY <1>2, <1>9 DEF SnapshotsSoFar
  <2>2. /\ \A r \in rows : ~(IsSnapshot(r) /\ r.key = key)
        /\ \A k \in 0..(NextStep(s) - 1) :
             \E r \in rows : IsSnapshot(r) /\ r.key = SnapshotKey(s, k)
    BY <2>1, NextStepIsFree DEF key
  <2>3. rows \subseteq rows'
    BY <1>6, <2>2 DEF Adds, ReplacedBy, IsSnapshot
  <2>4. ASSUME NEW r \in rows', IsSnapshot(r), NEW k \in 0..(r.key.step - 1)
        PROVE  \E q \in rows' : IsSnapshot(q) /\ q.key = SnapshotKey(r.key.session, k)
    <3>1. CASE r = n
      BY <1>4, <1>7, <2>2, <2>3, <2>4, <3>1
    <3>2. CASE r \in rows
      BY <2>1, <2>3, <2>4, <3>2 DEF NoGap
    <3> QED
      BY <1>7, <3>1, <3>2
  <2> QED
    BY <2>3, <2>4 DEF NoGap
<1>10. rows' \union todo' = rows'
  BY <1>1, <1>2
<1> QED
  BY <1>1, <1>8, <1>9, <1>10 DEF SnapshotsSoFar, FileIsNumbered

LEMMA RestoreRowKeepsSnapshots ==
  ASSUME IInv, SnapshotsSoFar, RestoreRow
  PROVE  SnapshotsSoFar'
<1>1. PICK r \in todo :
        Put(r.store, r.key, r.stamp, r.value, r.ref) /\ todo' = todo \ {r}
  BY DEF RestoreRow
<1>2. UNCHANGED <<damage, source, files>>
  BY DEF RestoreRow
<1>3. r \in source.rows /\ r \in Rows
  BY <1>1 DEF IInv, TypeOK, Files
<1>4. r.store \in Stores /\ r.key \in Keys /\ r.stamp \in Nat /\ r.ref \in Refs
      /\ r.value \in Statuses \union Kinds \union {"-"}
  BY <1>3 DEF Rows
<1>5. PICK n : Adds(n, r.store, r.key, r.stamp, r.value, r.ref)
  BY <1>1, <1>4, PutAdds DEF IInv, TypeOK
<1>6. n \in rows' /\ n.store = r.store /\ n.key = r.key /\ \A p \in rows' : p = n \/ p \in rows
  BY <1>5 DEF Adds
<1>7. Numbered(rows')
  BY <1>3, <1>6 DEF SnapshotsSoFar, FileIsNumbered, Numbered, IsSnapshot
<1>8. \A p \in rows' \union todo' : \E q \in rows \union todo : q.store = p.store /\ q.key = p.key
  BY <1>1, <1>6
<1>9. \A p \in rows \union todo : \E q \in rows' \union todo' : q.store = p.store /\ q.key = p.key
  BY <1>1, <1>5, <1>6 DEF Adds, ReplacedBy
<1>10. NoGap(rows \union todo) => NoGap(rows' \union todo')
  <2> SUFFICES ASSUME NoGap(rows \union todo), NEW p \in rows' \union todo', IsSnapshot(p),
                      NEW k \in 0..(p.key.step - 1)
               PROVE  \E q \in rows' \union todo' :
                        IsSnapshot(q) /\ q.key = SnapshotKey(p.key.session, k)
    BY DEF NoGap
  <2>1. PICK o \in rows \union todo : o.store = p.store /\ o.key = p.key
    BY <1>8
  <2>2. PICK q \in rows \union todo : IsSnapshot(q) /\ q.key = SnapshotKey(p.key.session, k)
    BY <2>1 DEF NoGap, IsSnapshot
  <2> QED
    BY <1>9, <2>2 DEF IsSnapshot
<1> QED
  BY <1>2, <1>7, <1>10 DEF SnapshotsSoFar, FileIsNumbered

\* Checkpoints, crashes and expiry.
LEMMA RestKeepsSnapshots ==
  ASSUME IInv, SnapshotsSoFar,
         \/ \E s \in Sessions : StartRestore(s)
         \/ \E s \in Sessions, step \in Steps : SaveCheckpoint(s, step)
         \/ RenameCheckpoint \/ FinishRestore \/ Crash \/ Reopen \/ Expire
  PROVE  SnapshotsSoFar'
<1>1. ASSUME NEW s \in Sessions, StartRestore(s) PROVE SnapshotsSoFar'
  <2>1. PICK f \in files :
          /\ source' = f /\ todo' = f.rows
          /\ damage \subseteq damage' /\ f.damage \subseteq damage'
    BY <1>1 DEF StartRestore, LatestCheckpoint
  <2>2. UNCHANGED <<rows, files>> /\ todo = {}
    BY <1>1 DEF StartRestore, table, IInv, TypeOK
  <2>3. ASSUME ~Lost(damage') PROVE NoGap(rows \union f.rows)
    <3>1. NoGap(rows) /\ NoGap(f.rows)
      <4>1. rows \union todo = rows
        BY <2>2
      <4> QED
        BY <2>1, <2>3, <4>1 DEF SnapshotsSoFar, FileIsNumbered, Lost
    <3> QED
      BY <3>1 DEF NoGap
  <2> QED
    BY <2>1, <2>2, <2>3 DEF SnapshotsSoFar, FileIsNumbered
<1>2. ASSUME NEW s \in Sessions, NEW step \in Steps, SaveCheckpoint(s, step) PROVE SnapshotsSoFar'
  <2>1. /\ source'.rows = SnapshotMemory /\ source'.damage = damage
        /\ UNCHANGED <<rows, files, todo, damage>> /\ todo = {}
    BY <1>2 DEF SaveCheckpoint, table, IInv, TypeOK
  <2>2. SnapshotMemory \subseteq rows /\ \A r \in rows : IsSnapshot(r) => r \in SnapshotMemory
    BY DEF SnapshotMemory, IsSnapshot
  <2>3. Numbered(SnapshotMemory)
    BY <2>2 DEF SnapshotsSoFar, Numbered
  <2>4. rows \union todo = rows
    BY <2>1
  <2>5. ~Lost(damage) => NoGap(SnapshotMemory)
    BY <2>2, <2>4 DEF SnapshotsSoFar, NoGap
  <2> QED
    BY <2>1, <2>3, <2>5 DEF SnapshotsSoFar, FileIsNumbered
<1>3. NoFile.rows = {} /\ FileIsNumbered(NoFile)
  BY NoFileIsSound DEF FileIsNumbered, Numbered, NoGap
<1>4. CASE RenameCheckpoint
  <2>1. /\ UNCHANGED <<rows, todo, damage>> /\ source' = NoFile
        /\ files' \subseteq files \union {source}
    BY <1>4 DEF RenameCheckpoint, table
  <2> QED
    BY <1>3, <2>1 DEF SnapshotsSoFar, FileIsNumbered
<1>5. CASE FinishRestore
  <2>1. UNCHANGED <<rows, todo, damage, files>> /\ source' = NoFile
    BY <1>5 DEF FinishRestore, table
  <2> QED
    BY <1>3, <2>1 DEF SnapshotsSoFar, FileIsNumbered
<1>6. CASE Crash
  <2>1. /\ UNCHANGED <<rows, files>> /\ source' = NoFile /\ todo' = {} /\ damage \subseteq damage'
        /\ stage = "restore" => "torn" \in damage'
    BY <1>6 DEF Crash, table
  <2>2. ~Lost(damage') => todo = {} /\ ~Lost(damage)
    BY <2>1 DEF Lost, IInv, TypeOK
  <2> QED
    BY <1>3, <2>1, <2>2 DEF SnapshotsSoFar, FileIsNumbered
<1>7. CASE Reopen
  <2>1. UNCHANGED <<files, source, todo>> /\ rows' = {} /\ todo = {}
    BY <1>7 DEF Reopen, checkpoint, IInv, TypeOK
  <2>2. Numbered(rows') /\ NoGap(rows' \union todo')
    BY <2>1 DEF Numbered, NoGap
  <2> QED
    BY <2>1, <2>2 DEF SnapshotsSoFar, FileIsNumbered
<1>8. CASE Expire
  <2>1. UNCHANGED <<files, source, todo>> /\ rows' \subseteq rows /\ Lost(damage')
    BY <1>8 DEF Expire, checkpoint, Lost
  <2> QED
    BY <2>1 DEF SnapshotsSoFar, FileIsNumbered, Numbered
<1> QED
  BY <1>1, <1>2, <1>4, <1>5, <1>6, <1>7, <1>8

LEMMA InitSnapshots == Init => SnapshotsSoFar
<1> SUFFICES ASSUME Init PROVE SnapshotsSoFar
  OBVIOUS
<1>1. rows = {} /\ todo = {} /\ files = {} /\ source = NoFile /\ source.rows = {}
  BY NoFileIsSound DEF Init
<1> QED
  BY <1>1 DEF SnapshotsSoFar, FileIsNumbered, Numbered, NoGap

LEMMA StepSnapshots == IInv /\ SnapshotsSoFar /\ [Next]_vars => SnapshotsSoFar'
<1> SUFFICES ASSUME IInv, SnapshotsSoFar, [Next]_vars PROVE SnapshotsSoFar'
  OBVIOUS
<1>1. NoKey \in Keys /\ NoRef \in Refs /\ next_id \in Nat /\ subject \in Refs
      /\ Sessions \subseteq Keys /\ Tasks \subseteq Keys
  BY NoRefTypes DEF Keys, IInv, TypeOK
<1>2. ASSUME NEW store \in Stores \ {"state"}, NEW key \in Keys,
             NEW value \in Statuses \union Kinds \union {"-"},
             PutIndexed(store, key, value) \/ PutAlone(store, key, value)
      PROVE  SnapshotsSoFar'
  BY <1>1, <1>2, OtherPutsKeepSnapshots DEF PutIndexed, PutAlone, checkpoint
<1>3. ASSUME NEW s \in Sessions, WriteSnapshot(s) PROVE SnapshotsSoFar'
  BY <1>3, WriteSnapshotKeepsSnapshots
<1>4. ASSUME NEW s \in Sessions, SaveDispatch(s) PROVE SnapshotsSoFar'
  BY <1>1, <1>2, <1>4 DEF SaveDispatch, Stores
<1>5. ASSUME NEW t \in Tasks, Register(t) \/ \E status \in Statuses : SetStatus(t, status)
      PROVE  SnapshotsSoFar'
  BY <1>1, <1>2, <1>5 DEF Register, SetStatus, Stores, Statuses
<1>6. ASSUME NEW kind \in Kinds, AppendDecision(kind) PROVE SnapshotsSoFar'
  BY <1>1, <1>2, <1>6 DEF AppendDecision, Stores, LogStores
<1>7. CASE AppendResult \/ AppendToolResult
  BY <1>1, <1>2, <1>7 DEF AppendResult, AppendToolResult, Stores, LogStores
<1>8. CASE Index
  BY <1>1, <1>8, OtherPutsKeepSnapshots DEF Index, Stores, checkpoint
<1>9. CASE RestoreRow
  BY <1>9, RestoreRowKeepsSnapshots
<1>10. CASE \/ \E s \in Sessions : StartRestore(s)
            \/ \E s \in Sessions, step \in Steps : SaveCheckpoint(s, step)
            \/ RenameCheckpoint \/ FinishRestore \/ Crash \/ Reopen \/ Expire
  BY <1>10, RestKeepsSnapshots
<1>11. CASE UNCHANGED vars
  BY <1>11 DEF vars, SnapshotsSoFar, FileIsNumbered
<1> QED
  BY <1>3, <1>4, <1>5, <1>6, <1>7, <1>8, <1>9, <1>10, <1>11 DEF Next

\* However often the process crashed and checkpoints were restored, on top of rows or
\* not, the count of a session's snapshots is a number none of them has.
THEOREM NeverOverwritten == Spec => SnapshotsNeverOverwritten
<1> DEFINE Inv == IInv /\ SnapshotsSoFar
           Kept == \A s \in Sessions :
                     WriteSnapshot(s) /\ damage \intersect {"expired", "torn"} = {} => rows \subseteq rows'
<1>1. Init => Inv
  BY InitIInv, InitSnapshots
<1>2. Inv /\ [Next]_vars => Inv'
  BY StepIInv, StepSnapshots
<1>3. Inv /\ [Next]_vars => [Kept]_vars
  BY WriteSnapshotKeepsSnapshots DEF Lost
<1> QED
  BY <1>1, <1>2, <1>3, PTL DEF Spec, SnapshotsNeverOverwritten

-----------------------------------------------------------------------------
(* What a restore into an empty memory gives back.  The rows restored so    *)
(* far list as the rows of the checkpoint that they are, because each comes *)
(* after those of its store in both.                                        *)
Ordered(R) ==
  /\ IsFiniteSet(R)
  /\ \A r \in R : r.id \in Nat
  /\ \A r, q \in R : r.id = q.id => r = q

OfStore(R, store) == {r \in R : r.store = store}
Contents(S) == {Content(r) : r \in S}

\* The parts of Listing, of the rows of one store.
UpTo(S, r) == {q \in S : q.id <= r.id}
Nth(S, i) == CHOOSE r \in S : Cardinality(UpTo(S, r)) = i
Listed(S) == [i \in 1..Cardinality(S) |-> Content(Nth(S, i))]

\* A checkpoint has all rows there were but the dispatch messages.
FileIsWhole(f) ==
  /\ Ordered(f.memory)
  /\ f.rows = {r \in f.memory : r.store /= "dispatch_messages"}

Back == source.rows \ todo
BackSoFar ==
  stage = "restore" /\ fresh =>
    \A store \in Stores :
      /\ Contents(OfStore(rows, store)) = Contents(OfStore(Back, store))
      /\ backend = "sqlite" =>
           /\ Listed(OfStore(rows, store)) = Listed(OfStore(Back, store))
           /\ \A r \in OfStore(Back, store), q \in OfStore(todo, store) : r.id < q.id

RestoresHold == FileIsWhole(source) /\ (\A f \in files : FileIsWhole(f)) /\ BackSoFar

LEMMA UpToInRange ==
  ASSUME NEW S, Ordered(S), NEW r \in S
  PROVE  /\ IsFiniteSet(UpTo(S, r)) /\ Cardinality(S) \in Nat
         /\ Cardinality(UpTo(S, r)) \in 1..Cardinality(S)
<1>1. UpTo(S, r) \in SUBSET S /\ r \in UpTo(S, r)
  BY DEF UpTo, Ordered
<1>2. IsFiniteSet(UpTo(S, r)) /\ Cardinality(UpTo(S, r)) <= Cardinality(S)
  BY <1>1, FS_Subset DEF Ordered
<1>3. Cardinality(UpTo(S, r)) \in Nat /\ Cardinality(S) \in Nat
  BY <1>2, FS_CardinalityType DEF Ordered
<1>4. Cardinality(UpTo(S, r)) /= 0
  BY <1>1, <1>2, FS_EmptySet
<1> QED
  BY <1>2, <1>3, <1>4

\* No two rows have the same place.
LEMMA PlacesDiffer ==
  ASSUME NEW S, Ordered(S), NEW r \in S, NEW q \in S,
         Cardinality(UpTo(S, r)) = Cardinality(UpTo(S, q))
  PROVE  r = q
<1>1. ASSUME NEW a \in S, NEW b \in S, a.id < b.id,
             Cardinality(UpTo(S, a)) = Cardinality(UpTo(S, b))
      PROVE  FALSE
  <2>1. UpTo(S, a) \in SUBSET UpTo(S, b)
    BY <1>1 DEF UpTo, Ordered
  <2>2. b \in UpTo(S, b) /\ b \notin UpTo(S, a)
    BY <1>1 DEF UpTo, Ordered
  <2>3. IsFiniteSet(UpTo(S, b))
    BY UpToInRange
  <2>4. UpTo(S, a) = UpTo(S, b)
    BY <1>1, <2>1, <2>3, FS_Subset
  <2> QED
    BY <2>2, <2>4
<1>2. r.id \in Nat /\ q.id \in Nat /\ (r.id = q.id => r = q)
  BY DEF Ordered
<1>3. ~(r.id < q.id) /\ ~(q.id < r.id)
  BY <1>1
<1> QED
  BY <1>2, <1>3

\* And every place has a row.
LEMMA NthIsThere ==
  ASSUME NEW S, Ordered(S), NEW i \in 1..Cardinality(S)
  PROVE  Nth(S, i) \in S /\ Cardinality(UpTo(S, Nth(S, i))) = i
<1> DEFINE n == Cardinality(S)
           place == [r \in S |-> Cardinality(UpTo(S, r))]
<1>1. IsFiniteSet(S) /\ n \in Nat
  BY FS_CardinalityType DEF Ordered
<1>2. IsFiniteSet(1..n) /\ Cardinality(1..n) = n
  BY <1>1, FS_Interval
<1>3. place \in [S -> 1..n]
  BY UpToInRange
<1>4. \A r, q \in S : place[r] = place[q] => r = q
  BY PlacesDiffer
<1>5. place \in Injection(S, 1..n)
  <2> HIDE DEF place, n
  <2> QED
    BY <1>3, <1>4 DEF Injection, IsInjective
<1>6. place \in Surjection(S, 1..n)
  <2> HIDE DEF place
  <2> QED
    BY <1>2, <1>5, FS_Injection
<1>7. \E r \in S : Cardinality(UpTo(S, r)) = i
  BY <1>6 DEF Surjection
<1> QED
  BY <1>7 DEF Nth

\* A row above all others is listed last.
LEMMA ListedAppends ==
  ASSUME NEW S, Ordered(S), NEW m, m.id \in Nat, \A r \in S : r.id < m.id
  PROVE  /\ Ordered(S \union {m})
         /\ Listed(S \union {m}) =
              [i \in 1..(Cardinality(S) + 1) |->
                 IF i = Cardinality(S) + 1 THEN Content(m) ELSE Listed(S)[i]]
<1> DEFINE T == S \union {m}
           n == Cardinality(S)
<1>1. n \in Nat
  BY FS_CardinalityType DEF Ordered
<1>2. m \notin S
  BY DEF Ordered
<1>3. IsFiniteSet(T) /\ Cardinality(T) = n + 1
  BY <1>2, FS_AddElement DEF Ordered
<1>4. Ordered(T)
  <2>1. \A r \in T : r.id \in Nat
    BY DEF Ordered
  <2>2. \A r, q \in T : r.id = q.id => r = q
    BY DEF Ordered
  <2> QED
    BY <1>3, <2>1, <2>2 DEF Ordered
<1>5. \A r \in S : UpTo(T, r) = UpTo(S, r)
  BY DEF UpTo, Ordered
<1>6. UpTo(T, m) = T
  BY DEF UpTo, Ordered
<1>7. m \in T /\ S \subseteq T
  OBVIOUS
<1> HIDE DEF T
<1>8. Nth(T, n + 1) = m
  <2>1. n + 1 \in 1..Cardinality(T)
    BY <1>1, <1>3
  <2>2. Nth(T, n + 1) \in T /\ Cardinality(UpTo(T, Nth(T, n + 1))) = Cardinality(UpTo(T, m))
    BY <1>3, <1>4, <1>6, <2>1, NthIsThere
  <2> QED
    BY <1>4, <1>7, <2>2, PlacesDiffer
<1>9. \A i \in 1..n : Nth(T, i) = Nth(S, i)
  <2> SUFFICES ASSUME NEW i \in 1..n PROVE Nth(T, i) = Nth(S, i)
    OBVIOUS
  <2>1. Nth(S, i) \in S /\ Cardinality(UpTo(S, Nth(S, i))) = i
    BY NthIsThere
  <2>2. i \in 1..Cardinality(T)
    BY <1>1, <1>3
  <2>3. Nth(T, i) \in T /\ Cardinality(UpTo(T, Nth(T, i))) = i
    BY <1>4, <2>2, NthIsThere
  <2>4. Cardinality(UpTo(T, Nth(S, i))) = i
    BY <1>5, <2>1
  <2> QED
    BY <1>4, <1>7, <2>1, <2>3, <2>4, PlacesDiffer
<1>10. Listed(T) = [i \in 1..(n + 1) |-> IF i = n + 1 THEN Content(m) ELSE Listed(S)[i]]
  <2>1. \A i \in 1..(n + 1) :
          Content(Nth(T, i)) = IF i = n + 1 THEN Content(m) ELSE Listed(S)[i]
    <3> SUFFICES ASSUME NEW i \in 1..(n + 1)
                 PROVE  Content(Nth(T, i)) = IF i = n + 1 THEN Content(m) ELSE Listed(S)[i]
      OBVIOUS
    <3>1. CASE i = n + 1
      BY <1>8, <3>1
    <3>2. CASE i \in 1..n
      <4>1. i /= n + 1
        BY <1>1, <3>2
      <4>2. Listed(S)[i] = Content(Nth(S, i))
        BY <3>2 DEF Listed
      <4> QED
        BY <1>9, <3>2, <4>1, <4>2
    <3> QED
      BY <1>1, <3>1, <3>2
  <2> QED
    BY <1>3, <2>1 DEF Listed
<1> QED
  BY <1>4, <1>10 DEF T

\* So two lists that agree still do when each gets a row of the same content.
LEMMA BothAppend ==
  ASSUME NEW S, NEW T, Ordered(S), Ordered(T), Listed(S) = Listed(T),
         NEW m, NEW n, m.id \in Nat, n.id \in Nat, Content(m) = Content(n),
         \A r \in S : r.id < m.id, \A r \in T : r.id < n.id
  PROVE  Listed(S \union {m}) = Listed(T \union {n})
<1>1. Cardinality(S) \in Nat /\ Cardinality(T) \in Nat
  BY FS_CardinalityType DEF Ordered
<1>2. 1..Cardinality(S) = 1..Cardinality(T)
  BY DEF Listed
<1>3. Cardinality(S) = Cardinality(T)
  <2>1. \A a, b \in Nat : 1..a = 1..b => a = b
    <3> SUFFICES ASSUME NEW a \in Nat, NEW b \in Nat, 1..a = 1..b PROVE a = b
      OBVIOUS
    <3>1. IsFiniteSet(1..a) /\ Cardinality(1..a) = a /\ Cardinality(1..b) = b
      BY FS_Interval
    <3> QED
      BY <3>1
  <2> QED
    BY <1>1, <1>2, <2>1
<1>4. Listed(S \union {m}) =
        [i \in 1..(Cardinality(S) + 1) |->
           IF i = Cardinality(S) + 1 THEN Content(m) ELSE Listed(S)[i]]
  BY ListedAppends
<1>5. Listed(T \union {n}) =
        [i \in 1..(Cardinality(T) + 1) |->
           IF i = Cardinality(T) + 1 THEN Content(n) ELSE Listed(T)[i]]
  BY ListedAppends
<1> QED
  BY <1>3, <1>4, <1>5, Zenon

LEMMA PartIsOrdered == ASSUME NEW R, Ordered(R), NEW S \in SUBSET R PROVE Ordered(S)
<1>1. IsFiniteSet(S)
  BY FS_Subset DEF Ordered
<1> QED
  BY <1>1 DEF Ordered

LEMMA TableIsOrdered == ASSUME IInv PROVE Ordered(rows)
  BY DEF IInv, TypeOK, TableIsSound, Ordered, Rows

\* A row restored on top of what was restored before it.
LEMMA RestoreRowRestores == ASSUME IInv, RestoresHold, RestoreRow PROVE RestoresHold'
<1>1. PICK r \in todo :
        /\ IsNext(r)
        /\ Put(r.store, r.key, r.stamp, r.value, r.ref)
        /\ todo' = todo \ {r}
  BY DEF RestoreRow
<1>2. stage = "restore" /\ UNCHANGED <<backend, stage, files, source, fresh>>
  BY DEF RestoreRow, call
<1>3. /\ r \in source.rows /\ r \in Rows /\ source.rows \subseteq source.memory
      /\ r.store /= "dispatch_messages" /\ KeyedOnce(source.rows) /\ todo \subseteq source.rows
  BY <1>1 DEF IInv, TypeOK, Files, RestoresHold, FileIsWhole, FilesAreSound, FileIsSound
<1>4. r.store \in Stores /\ r.key \in Keys /\ r.stamp \in Nat /\ r.ref \in Refs
      /\ r.value \in Statuses \union Kinds \union {"-"} /\ r.id \in Nat
  BY <1>3 DEF Rows
<1>5. PICK n : Adds(n, r.store, r.key, r.stamp, r.value, r.ref)
  BY <1>1, <1>4, PutAdds DEF IInv, TypeOK
<1>6. n \in rows' /\ n.id = next_id /\ n.store = r.store /\ Content(n) = Content(r)
      /\ next_id \in Nat
  BY <1>5 DEF Adds, Content, IInv, TypeOK
<1>7. Ordered(rows) /\ Ordered(source.rows) /\ \A p \in rows : p.id < next_id
  BY <1>3, TableIsOrdered, PartIsOrdered DEF RestoresHold, FileIsWhole, IInv, TableIsSound
<1>8. Back' = Back \union {r}
  BY <1>1, <1>2, <1>3 DEF Back
<1>9. ASSUME fresh PROVE rows' = rows \union {n}
  <2>1. ASSUME NEW p \in rows, ReplacedBy(p, r.store, r.key) PROVE FALSE
    <3>1. Content(p) \in Contents(OfStore(rows, r.store))
      BY <2>1 DEF ReplacedBy, Contents, OfStore
    <3>2. PICK q \in OfStore(Back, r.store) : Content(q) = Content(p)
      BY <1>2, <1>4, <1>9, <3>1 DEF RestoresHold, BackSoFar, Contents
    <3>3. q.key = p.key
      BY <3>2 DEF Content
    <3>4. q \in source.rows /\ q \notin todo /\ q.store = r.store /\ q.key = r.key /\ r.key /= NoKey
      BY <2>1, <3>2, <3>3 DEF OfStore, Back, ReplacedBy
    <3> QED
      BY <1>1, <1>3, <3>4 DEF KeyedOnce
  <2> QED
    BY <1>5, <2>1 DEF Adds
<1>10. BackSoFar'
  <2> SUFFICES ASSUME fresh, NEW store \in Stores
               PROVE  /\ Contents(OfStore(rows', store)) = Contents(OfStore(Back', store))
                      /\ backend = "sqlite" =>
                           /\ Listed(OfStore(rows', store)) = Listed(OfStore(Back', store))
                           /\ \A p \in OfStore(Back', store), q \in OfStore(todo', store) :
                                p.id < q.id
    BY <1>2, Zenon DEF BackSoFar, Contents, OfStore, Listed, Nth, UpTo, Content, Back
  <2> DEFINE S == OfStore(rows, store)
             T == OfStore(Back, store)
  <2>1. /\ Contents(S) = Contents(T)
        /\ backend = "sqlite" =>
             /\ Listed(S) = Listed(T)
             /\ \A p \in T, q \in OfStore(todo, store) : p.id < q.id
    BY <1>2, Zenon DEF RestoresHold, BackSoFar
  <2>2. CASE store /= r.store
    <3>1. OfStore(rows', store) = S /\ OfStore(Back', store) = T
      BY <1>6, <1>8, <1>9, <2>2 DEF OfStore
    <3>2. OfStore(todo', store) \subseteq OfStore(todo, store)
      BY <1>1 DEF OfStore
    <3> QED
      BY <2>1, <3>1, <3>2
  <2>3. CASE store = r.store
    <3>1. OfStore(rows', store) = S \union {n} /\ OfStore(Back', store) = T \union {r}
      BY <1>6, <1>8, <1>9, <2>3 DEF OfStore
    <3>2. S \in SUBSET rows /\ T \in SUBSET source.rows
      BY DEF OfStore, Back
    <3>3. Ordered(S) /\ Ordered(T) /\ \A p \in S : p.id < n.id
      BY <1>6, <1>7, <3>2, PartIsOrdered
    <3>4. OfStore(todo', store) = OfStore(todo, store) \ {r} /\ r \in OfStore(todo, store)
      BY <1>1, <2>3 DEF OfStore
    <3> HIDE DEF S, T
    <3>5. Contents(S \union {n}) = Contents(T \union {r})
      BY <1>6, <2>1 DEF Contents
    <3>6. ASSUME backend = "sqlite"
          PROVE  Listed(S \union {n}) = Listed(T \union {r})
      <4>1. \A p \in T : p.id < r.id
        BY <2>1, <3>4, <3>6
      <4> QED
        BY <1>4, <1>6, <2>1, <3>3, <3>6, <4>1, BothAppend
    <3>7. ASSUME backend = "sqlite", NEW p \in T \union {r}, NEW q \in OfStore(todo, store) \ {r}
          PROVE  p.id < q.id
      <4>1. CASE p \in T
        BY <2>1, <3>7, <4>1
      <4>2. CASE p = r
        <5>1. q \in todo /\ q.store = r.store /\ q /= r
          BY <2>3, <3>7 DEF OfStore
        <5>2. Place[r.store] \in Nat
          BY <1>3, <1>4 DEF Place, Stores, LogStores
        <5>3. r.id <= q.id
          BY <1>1, <3>7, <5>1, <5>2 DEF IsNext
        <5>4. q.id \in Nat /\ q.id /= r.id
          BY <1>3, <1>7, <5>1 DEF Ordered
        <5> QED
          BY <1>4, <4>2, <5>3, <5>4
      <4> QED
        BY <3>7, <4>1, <4>2
    <3> QED
      BY <3>1, <3>4, <3>5, <3>6, <3>7
  <2> QED
    BY <2>2, <2>3
<1>11. FileIsWhole(source)' /\ \A f \in files' : FileIsWhole(f)
  BY <1>2 DEF RestoresHold, FileIsWhole, Ordered
<1> QED
  BY <1>10, <1>11 DEF RestoresHold, FileIsWhole, Ordered

LEMMA NoFileIsWhole == FileIsWhole(NoFile)
  BY FS_EmptySet DEF FileIsWhole, NoFile, Ordered

LEMMA InitRestores == Init => RestoresHold
<1> SUFFICES ASSUME Init PROVE RestoresHold
  OBVIOUS
<1>1. stage = "none" /\ files = {} /\ source = NoFile
  BY DEF Init
<1> QED
  BY <1>1, NoFileIsWhole DEF RestoresHold, BackSoFar

\* The steps that are no part of a restore.
LEMMA OutsideRestores ==
  ASSUME RestoresHold, stage' /= "restore",
         \A f \in files' \union {source'} : f \in files \union {source, NoFile}
  PROVE  RestoresHold'
<1>1. \A f \in files' \union {source'} : FileIsWhole(f)
  BY NoFileIsWhole DEF RestoresHold
<1>2. FileIsWhole(source)' /\ (\A f \in files : FileIsWhole(f))'
  BY <1>1, Zenon DEF FileIsWhole, Ordered
<1> QED
  BY <1>2 DEF RestoresHold, BackSoFar

LEMMA SaveRestores ==
  ASSUME IInv, RestoresHold, NEW s \in Sessions, NEW step \in Steps, SaveCheckpoint(s, step)
  PROVE  RestoresHold'
<1> DEFINE f == [session |-> s, step |-> step, rows |-> SnapshotMemory, memory |-> rows,
                 damage |-> damage]
<1>1. stage' = "rename" /\ files' = files /\ source' = f
  BY DEF SaveCheckpoint
<1>2. f.memory = rows /\ f.rows = SnapshotMemory
  OBVIOUS
<1> HIDE DEF f
<1>3. FileIsWhole(f)
  BY <1>2, TableIsOrdered DEF FileIsWhole, SnapshotMemory
<1>4. FileIsWhole(source)' /\ (\A g \in files : FileIsWhole(g))'
  BY <1>1, <1>3, Zenon DEF RestoresHold, FileIsWhole, Ordered
<1> QED
  BY <1>1, <1>4 DEF RestoresHold, BackSoFar

LEMMA StartRestoreRestores ==
  ASSUME IInv, RestoresHold, NEW s \in Sessions, StartRestore(s)
  PROVE  RestoresHold'
<1>1. PICK f \in files : source' = f /\ todo' = f.rows
  BY DEF StartRestore, LatestCheckpoint
<1>2. fresh' = (rows = {}) /\ UNCHANGED <<rows, files, backend>>
  BY DEF StartRestore, table
<1>3. FileIsWhole(source)' /\ (\A g \in files : FileIsWhole(g))'
  BY <1>1, <1>2, Zenon DEF RestoresHold, FileIsWhole, Ordered
<1>4. BackSoFar'
  <2> SUFFICES ASSUME fresh', NEW store \in Stores
               PROVE  /\ OfStore(rows', store) = {} /\ OfStore(Back', store) = {}
    BY DEF BackSoFar, Contents, OfStore, Listed, Nth, UpTo, Content, Back
  <2> QED
    BY <1>1, <1>2 DEF OfStore, Back
<1> QED
  BY <1>3, <1>4 DEF RestoresHold

LEMMA StepRestores == IInv /\ RestoresHold /\ [Next]_vars => RestoresHold'
<1> SUFFICES ASSUME IInv, RestoresHold, [Next]_vars PROVE RestoresHold'
  OBVIOUS
<1>1. ASSUME NEW store, NEW key, NEW value, PutIndexed(store, key, value) \/ PutAlone(store, key, value)
      PROVE  RestoresHold'
  <2>1. stage' /= "restore" /\ files' = files /\ source' = source
    BY <1>1 DEF PutIndexed, PutAlone, Called, call, checkpoint
  <2> QED
    BY <2>1, OutsideRestores
<1>2. CASE \/ \E s \in Sessions : WriteSnapshot(s) \/ SaveDispatch(s)
           \/ \E t \in Tasks : Register(t)
           \/ \E t \in Tasks, status \in Statuses : SetStatus(t, status)
           \/ \E kind \in Kinds : AppendDecision(kind)
           \/ AppendResult \/ AppendToolResult
  BY <1>1, <1>2 DEF WriteSnapshot, SaveDispatch, Register, SetStatus, AppendDecision,
                    AppendResult, AppendToolResult
<1>3. CASE Index \/ Crash \/ Reopen \/ Expire \/ RenameCheckpoint \/ FinishRestore
  <2>1. /\ stage' = "none"
        /\ \A f \in files' \union {source'} : f \in files \union {source, NoFile}
    BY <1>3 DEF Index, Crash, Reopen, Expire, RenameCheckpoint, FinishRestore, call, checkpoint
  <2> QED
    BY <2>1, OutsideRestores
<1>4. ASSUME NEW s \in Sessions, NEW step \in Steps, SaveCheckpoint(s, step)
      PROVE  RestoresHold'
  BY <1>4, SaveRestores
<1>5. ASSUME NEW s \in Sessions, StartRestore(s) PROVE RestoresHold'
  BY <1>5, StartRestoreRestores
<1>6. CASE RestoreRow
  BY <1>6, RestoreRowRestores
<1>7. CASE UNCHANGED vars
  <2>1. UNCHANGED <<backend, rows, stage, files, source, todo, fresh>>
    BY <1>7 DEF vars
  <2>2. FileIsWhole(source)' /\ (\A f \in files : FileIsWhole(f))'
    BY <2>1, Zenon DEF RestoresHold, FileIsWhole, Ordered
  <2>3. Back' = Back
    BY <2>1 DEF Back
  <2>4. BackSoFar'
    <3> SUFFICES ASSUME stage = "restore" /\ fresh, NEW store \in Stores
                 PROVE  /\ Contents(OfStore(rows', store)) = Contents(OfStore(Back', store))
                        /\ backend = "sqlite" =>
                             /\ Listed(OfStore(rows', store)) = Listed(OfStore(Back', store))
                             /\ \A r \in OfStore(Back', store), q \in OfStore(todo', store) :
                                  r.id < q.id
      BY <2>1, Zenon DEF BackSoFar, Contents, OfStore, Listed, Nth, UpTo, Content, Back
    <3> QED
      BY <2>1, <2>3 DEF RestoresHold, BackSoFar
  <2> QED
    BY <2>2, <2>4 DEF RestoresHold
<1> QED
  BY <1>2, <1>3, <1>4, <1>5, <1>6, <1>7 DEF Next

\* What Listing says of a store is what was listed of its rows.
LEMMA ListingIsListed ==
  ASSUME NEW R, NEW store
  PROVE  Listing(R, store) = Listed(OfStore(R, store))
  BY Zenon DEF Listing, Listed, Nth, UpTo, OfStore

LEMMA FinishIsFaithful ==
  ASSUME IInv, RestoresHold, FinishRestore, fresh, NEW store \in Stores \ {"dispatch_messages"}
  PROVE  /\ {Content(r) : r \in In(store)}
              = {Content(r) : r \in {q \in source.memory : q.store = store}}
         /\ backend = "sqlite" => Listing(rows, store) = Listing(source.memory, store)
<1>1. stage = "restore" /\ todo = {}
  BY DEF FinishRestore
<1>2. Back = source.rows
  BY <1>1 DEF Back
<1>3. OfStore(Back, store) = OfStore(source.memory, store)
  BY <1>2 DEF OfStore, RestoresHold, FileIsWhole
<1>4. /\ Contents(OfStore(rows, store)) = Contents(OfStore(source.memory, store))
      /\ backend = "sqlite" =>
           Listed(OfStore(rows, store)) = Listed(OfStore(source.memory, store))
  BY <1>1, <1>3 DEF RestoresHold, BackSoFar
<1> QED
  BY <1>4, ListingIsListed DEF Contents, OfStore, In

\* A restore into an empty memory that comes to its end gives every store back as the
\* checkpoint found it, whatever crashed, was lost or was overwritten before, and with
\* SQLite in the same order.
THEOREM RestoresAreFaithful == Spec => RestoreIsFaithful
<1> DEFINE Inv == IInv /\ RestoresHold
           Given == FinishRestore /\ fresh =>
                      \A store \in Stores \ {"dispatch_messages"} :
                        /\ {Content(r) : r \in In(store)}
                             = {Content(r) : r \in {q \in source.memory : q.store = store}}
                        /\ backend = "sqlite" =>
                             Listing(rows, store) = Listing(source.memory, store)
<1>1. Init => Inv
  BY InitIInv, InitRestores
<1>2. Inv /\ [Next]_vars => Inv'
  BY StepIInv, StepRestores
<1>3. Inv /\ [Next]_vars => [Given]_vars
  BY FinishIsFaithful
<1> QED
  BY <1>1, <1>2, <1>3, PTL DEF Spec, RestoreIsFaithful
=============================================================================
