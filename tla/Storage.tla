------------------------------ MODULE Storage ------------------------------
(* The storage engine of one node (crates/engine): the state in memory, the   *)
(* segmented write-ahead log, the snapshot file and the manifest.  An         *)
(* operation that touches several files is a sequence of steps, and the       *)
(* process may stop, or an I/O call may fail, between any two of them.        *)
EXTENDS Integers, Sequences, FiniteSets, SequencesExt

CONSTANTS Key,      \* keys
          Torn,     \* a record that was cut while it was written
          NoFile,   \* the snapshot or the manifest does not exist
          Setups    \* configurations, workloads and bounds: see SetupType

(* What a behaviour has a budget of.                                          *)
Budget == {"appends", "snapshots", "installs", "replaces", "crashes",
           "restarts", "failures"}

(* Mutations of a key: Set, Delete and the like write it whatever it held,    *)
(* CheckInteger (INCR, DECR) adds to what it finds.                           *)
Mutation == [kind : {"set", "add"}, key : Key]

SetupType == [sync : {"buffered", "flush", "sync"},   \* VAYLIX_WAL_SYNC
              retain : Nat,        \* wal_retain_segments
              size : Nat,          \* wal_segment_size_bytes, in records; 0: none
              used : BOOLEAN,      \* a snapshot was taken before the first write
              batches : SUBSET Seq(Mutation),
              left : [Budget -> Nat]]

ASSUME StorageAssumption == /\ Setups \subseteq SetupType
                            /\ Torn # NoFile

VARIABLES setup,     \* EngineOptions and workload, fixed at the start
          left,      \* what is left of the budget
          phase,     \* "up", "down", or "refused" when recovery returned an error
          mem,       \* Engine.state: last_applied_sequence and data
          cache,     \* Engine.wal_entries
          writer,    \* WalWriter: whether it has its file, which, and file_len
          op,        \* the call in progress
          wal,       \* the files of the WAL directory
          synced,    \* records of the active segment that sync_data has covered
          snapshot,  \* the snapshot file
          manifest,  \* the manifest: the snapshot it describes
          stamps,    \* snapshots saved so far, in place of their time stamps
          history,   \* the entries the engine has confirmed to its callers
          pending,   \* histories an interrupted call may leave instead
          cut        \* a call has returned an error, or a crash has cut one
                     \* and the storage was not opened since

memVars == <<mem, cache, writer>>
diskVars == <<wal, synced, snapshot, manifest, stamps>>
ghostVars == <<history, pending, cut>>
vars == <<setup, left, phase, memVars, op, diskVars, ghostVars>>

Entry == [seq : Nat, term : Nat, mutation : Mutation]

(* "active-<start>.wal" has no end in its name.                               *)
IsActive(f) == f.end = 0

Idle == [kind |-> "none", step |-> "", todo |-> <<>>, entries |-> <<>>,
         prefix |-> 0]

Spend(kind) == left[kind] > 0 /\ left' = [left EXCEPT ![kind] = @ - 1]

----------------------------------------------------------------------------
(* State and entries.                                                         *)

EmptyState == [seq |-> 0, data |-> [k \in Key |-> [by |-> <<>>, plus |-> 0]]]

(* apply_operation: a write leaves the identity of its entry, an increment    *)
(* counts on top of what is there.                                            *)
ApplyOperation(value, e) ==
  IF e.mutation.kind = "set" THEN [by |-> <<e.seq, e.term>>, plus |-> 0]
  ELSE [value EXCEPT !.plus = @ + 1]

(* apply_entry, for entries of one operation.                                 *)
ApplyEntry(state, e) ==
  [seq |-> e.seq,
   data |-> [state.data EXCEPT ![e.mutation.key] = ApplyOperation(@, e)]]

Replayed(state, es) == FoldLeft(ApplyEntry, state, es)

(* The state a history of confirmed entries stands for.                       *)
StateOf(h) == Replayed(EmptyState, h)

(* The entries of a batch, numbered from the end of what is there.            *)
Numbered(from, term, batch) ==
  [i \in 1 .. Len(batch) |-> [seq |-> from + i, term |-> term,
                              mutation |-> batch[i]]]

(* The terms of this node's writes and of those of another leader.            *)
OwnTerm == 1
OtherTerm == 2

----------------------------------------------------------------------------
(* WAL files.                                                                 *)

Segments(w) ==
  SetToSortSeq(w, LAMBDA f, g : \/ f.start < g.start
                                \/ f.start = g.start /\ ~IsActive(f) /\ IsActive(g))

SegmentEntries(w) == FlattenSeq([i \in 1 .. Cardinality(w) |-> Segments(w)[i].records])

Whole(f) == \A i \in DOMAIN f.records : f.records[i] # Torn

Contiguous(es) == \A i \in 1 .. Len(es) - 1 : es[i + 1].seq = es[i].seq + 1

(* replay_segments returns no error.                                          *)
Readable(w) ==
  /\ Cardinality({f \in w : IsActive(f)}) <= 1
  /\ \A f \in w :
       /\ Whole(f)
       /\ f.records = <<>> => IsActive(f)
       /\ f.records # <<>> => f.records[1].seq = f.start
       /\ ~IsActive(f) => Last(f.records).seq = f.end
  /\ Contiguous(SegmentEntries(w))

ActiveSegment(w) == CHOOSE f \in w :
  IsActive(f) /\ \A g \in w : IsActive(g) => f.start <= g.start

HasActive(w) == \E f \in w : IsActive(f)

NewSegment(start) == [start |-> start, end |-> 0, records |-> <<>>]

(* create_active_segment, and WalWriter::open, which keeps an active segment. *)
WithActive(w, start) == IF HasActive(w) THEN w ELSE w \cup {NewSegment(start)}

CreateActive(w, start) ==
  IF \E f \in w : IsActive(f) /\ f.start = start THEN w ELSE w \cup {NewSegment(start)}

OpenWriter(w) == [open |-> TRUE, start |-> ActiveSegment(w).start,
                  len |-> Len(ActiveSegment(w).records)]

Closed == [writer EXCEPT !.open = FALSE]

(* WalWriter.active, and the directory with another record in that file.      *)
WriterFile(w) == CHOOSE f \in w : IsActive(f) /\ f.start = writer.start

Appended(w, r) ==
  (w \ {WriterFile(w)}) \cup {[WriterFile(w) EXCEPT !.records = Append(@, r)]}

(* Renaming a segment to "<start>-<end>.wal" replaces a file of that name.    *)
Sealed(w, f, end) ==
  {g \in w \ {f} : g.start # f.start \/ g.end # end} \cup {[f EXCEPT !.end = end]}

SealedSegments(w) == {f \in w : ~IsActive(f)}

----------------------------------------------------------------------------
(* Snapshot, manifest and recovery.                                           *)

Image == [seq |-> mem.seq, data |-> mem.data, stamp |-> stamps + 1]

Baseline == IF snapshot = NoFile THEN EmptyState
            ELSE [seq |-> snapshot.seq, data |-> snapshot.data]

(* Mutant: recovery does not compare snapshot and manifest.                   *)
ManifestIgnored == TRUE

(* validate_manifest_snapshot: size, checksum and sequence are those of the   *)
(* snapshot the manifest was written for.                                     *)
ManifestFits == manifest # NoFile => snapshot = manifest

Opens == ManifestFits /\ Readable(wal)

(* from_paths_with_options replays every retained entry on the snapshot.      *)
RecoveredState == Replayed(Baseline, SegmentEntries(wal))

----------------------------------------------------------------------------
Init ==
  /\ setup \in Setups
  /\ left = setup.left
  /\ phase = "up"
  /\ mem = EmptyState
  /\ cache = <<>>
  /\ writer = [open |-> TRUE, start |-> 1, len |-> 0]
  /\ op = Idle
  /\ wal = {NewSegment(1)}
  /\ synced = 0
  /\ snapshot = IF setup.used THEN [seq |-> 0, data |-> EmptyState.data, stamp |-> 0]
                ELSE NoFile
  /\ manifest = snapshot
  /\ stamps = 0
  /\ history = <<>>
  /\ pending = {}
  /\ cut = FALSE

Ready == phase = "up" /\ op = Idle

In(kinds, step) == phase = "up" /\ op.kind \in kinds /\ op.step = step

Goto(step) == op' = [op EXCEPT !.step = step]

(* append_and_apply, execute_transaction, execute_command_batch and           *)
(* apply_replication_entries give the writer a batch that continues the log.  *)
(* With a closed writer the call returns an error and changes nothing.        *)
BeginAppend(batch) ==
  /\ Ready
  /\ writer.open
  /\ Spend("appends")
  /\ LET es == Numbered(mem.seq, OwnTerm, batch)
     IN /\ op' = [Idle EXCEPT !.kind = "append", !.step = "write",
                              !.todo = es, !.entries = es]
        /\ pending' = {history \o SubSeq(es, 1, i) : i \in 1 .. Len(es)}
  /\ UNCHANGED <<setup, phase, memVars, diskVars, history, cut>>

(* One record of append_batch, then the check of the segment size.            *)
WriteRecord ==
  /\ In({"append", "replace"}, "write")
  /\ op.todo # <<>>
  /\ wal' = Appended(wal, Head(op.todo))
  /\ writer' = [writer EXCEPT !.len = @ + 1]
  /\ LET full == setup.size > 0 /\ writer.len + 1 >= setup.size
     IN /\ op' = [op EXCEPT !.todo = Tail(@), !.step = IF full THEN "rotate" ELSE @]
        /\ synced' = IF full THEN Len(WriterFile(wal').records) ELSE synced
  /\ UNCHANGED <<setup, left, phase, mem, cache, snapshot, manifest, stamps, ghostVars>>

(* Mutant: the segment is named after the next sequence.                      *)
NextToWrite == op.entries[Len(op.entries) - Len(op.todo)].seq + 1

LastWritten == op.entries[Len(op.entries) - Len(op.todo)].seq

(* rotate_after: the full segment is renamed after its last record ...        *)
RotateRename ==
  /\ In({"append", "replace"}, "rotate")
  /\ wal' = Sealed(wal, WriterFile(wal), LastWritten)
  /\ writer' = Closed
  /\ synced' = 0
  /\ Goto("reopen")
  /\ UNCHANGED <<setup, left, phase, mem, cache, snapshot, manifest, stamps, ghostVars>>

(* ... and the next one is created.                                           *)
RotateReopen ==
  /\ In({"append", "replace"}, "reopen")
  /\ wal' = CreateActive(wal, LastWritten + 1)
  /\ writer' = [open |-> TRUE, start |-> LastWritten + 1, len |-> 0]
  /\ Goto("write")
  /\ UNCHANGED <<setup, left, phase, mem, cache, synced, snapshot, manifest, stamps,
                 ghostVars>>

(* Mutant: the batch is confirmed before its last records are synced.         *)
SyncSkipped == synced' = IF writer'.len = 0 THEN 0 ELSE synced

SyncAll == synced' = Len(ActiveSegment(wal').records)

(* The last sync_file, then state, cache and the answer to the caller.        *)
FinishAppend ==
  /\ In({"append"}, "write")
  /\ op.todo = <<>>
  /\ mem' = Replayed(mem, op.entries)
  /\ cache' = cache \o op.entries
  /\ history' = history \o op.entries
  /\ pending' = {}
  /\ op' = Idle
  /\ UNCHANGED <<setup, left, phase, writer, wal, snapshot, manifest, stamps, cut>>
  /\ SyncAll

----------------------------------------------------------------------------
(* snapshot                                                                   *)

SaveSnapshot ==
  /\ snapshot' = Image
  /\ stamps' = stamps + 1

BeginSnapshot ==
  /\ Ready
  /\ Spend("snapshots")
  /\ SaveSnapshot
  /\ op' = [Idle EXCEPT !.kind = "snapshot", !.step = "seal"]
  /\ UNCHANGED <<setup, phase, memVars, wal, synced, manifest, ghostVars>>

(* close_active and seal_active: an empty segment is removed.                 *)
SealActive ==
  /\ In({"snapshot"}, "seal")
  /\ HasActive(wal) => Whole(ActiveSegment(wal))
  /\ wal' = IF ~HasActive(wal) THEN wal
            ELSE LET f == ActiveSegment(wal)
                 IN IF f.records = <<>> THEN wal \ {f}
                    ELSE Sealed(wal, f, Last(f.records).seq)
  /\ writer' = Closed
  /\ synced' = 0
  /\ Goto("create")
  /\ UNCHANGED <<setup, left, phase, mem, cache, snapshot, manifest, stamps, ghostVars>>

CreateSegment ==
  /\ In({"snapshot", "install"}, "create")
  /\ wal' = CreateActive(wal, mem.seq + 1)
  /\ writer' = OpenWriter(wal')
  /\ synced' = 0
  /\ cache' = IF op.kind = "install" THEN <<>> ELSE cache
  /\ Goto(IF op.kind = "install" THEN "manifest" ELSE "prune")
  /\ UNCHANGED <<setup, left, phase, mem, snapshot, manifest, stamps, ghostVars>>

(* prune_sealed_segments removes the oldest files, one at a time.             *)
PruneSegment ==
  /\ In({"snapshot"}, "prune")
  /\ Cardinality(SealedSegments(wal)) > setup.retain
  /\ wal' = wal \ {CHOOSE f \in SealedSegments(wal) :
                     \A g \in SealedSegments(wal) : f.start <= g.start}
  /\ UNCHANGED <<setup, left, phase, memVars, op, synced, snapshot, manifest, stamps,
                 ghostVars>>

PruneDone ==
  /\ In({"snapshot"}, "prune")
  /\ Cardinality(SealedSegments(wal)) <= setup.retain
  /\ Goto("manifest")
  /\ UNCHANGED <<setup, left, phase, memVars, diskVars, ghostVars>>

SaveManifest ==
  /\ In({"snapshot", "install"}, "manifest")
  /\ manifest' = snapshot
  /\ IF op.kind = "install" THEN op' = Idle /\ pending' = {}
     ELSE Goto("reload") /\ UNCHANGED pending
  /\ UNCHANGED <<setup, left, phase, memVars, wal, synced, snapshot, stamps, history, cut>>

(* Mutant: the cache is not reloaded after pruning.                           *)
CacheKept ==
  /\ In({"snapshot"}, "reload")
  /\ op' = Idle
  /\ UNCHANGED <<setup, left, phase, memVars, diskVars, ghostVars>>

(* The cache is read back from the retained segments.                         *)
ReloadCache ==
  /\ In({"snapshot"}, "reload")
  /\ Readable(wal)
  /\ cache' = SegmentEntries(wal)
  /\ op' = Idle
  /\ UNCHANGED <<setup, left, phase, mem, writer, diskVars, ghostVars>>

----------------------------------------------------------------------------
(* apply_replication_snapshot: the state in memory changes before any file.   *)

BeginInstall(h) ==
  /\ Ready
  /\ Spend("installs")
  /\ mem' = StateOf(h)
  /\ history' = h
  /\ pending' = {history}
  /\ op' = [Idle EXCEPT !.kind = "install", !.step = "save"]
  /\ UNCHANGED <<setup, phase, cache, writer, diskVars, cut>>

SaveInstalled ==
  /\ In({"install"}, "save")
  /\ SaveSnapshot
  /\ Goto("remove")
  /\ UNCHANGED <<setup, left, phase, memVars, wal, synced, manifest, ghostVars>>

(* close_active and remove_dir_all, which removes the files in any order.     *)
RemoveWal ==
  /\ In({"install", "replace"}, "remove")
  /\ writer' = Closed
  /\ synced' = 0
  /\ \/ \E f \in wal : wal' = wal \ {f} /\ UNCHANGED op
     \/ /\ wal = {}
        /\ Goto(IF op.kind = "install" THEN "create" ELSE "open")
        /\ UNCHANGED wal
  /\ UNCHANGED <<setup, left, phase, mem, cache, snapshot, manifest, stamps, ghostVars>>

----------------------------------------------------------------------------
(* replace_replication_suffix                                                 *)

Retained(prefix) == SelectSeq(cache, LAMBDA e : e.seq <= prefix)

(* Its checks: the prefix is not older than the snapshot and ends the         *)
(* retained entries, or is the snapshot.                                      *)
MayReplace(prefix) ==
  /\ prefix >= Baseline.seq
  /\ IF Retained(prefix) = <<>> THEN prefix = Baseline.seq
     ELSE Last(Retained(prefix)).seq = prefix

BeginReplace(prefix, batch) ==
  /\ Ready
  /\ MayReplace(prefix)
  /\ Spend("replaces")
  /\ LET es == Numbered(prefix, OtherTerm, batch)
         kept == Retained(prefix) \o es
     IN /\ op' = [Idle EXCEPT !.kind = "replace", !.step = "remove", !.todo = kept,
                              !.entries = kept, !.prefix = prefix]
        /\ pending' = {SubSeq(history, 1, prefix) \o SubSeq(es, 1, i) : i \in 0 .. Len(es)}
  /\ UNCHANGED <<setup, phase, memVars, diskVars, history, cut>>

(* write_entries opens a writer of its own; without entries only an empty     *)
(* segment is created.                                                        *)
OpenRewrite ==
  /\ In({"replace"}, "open")
  /\ wal' = {NewSegment(IF op.todo = <<>> THEN Baseline.seq + 1 ELSE Head(op.todo).seq)}
  /\ writer' = OpenWriter(wal')
  /\ Goto("write")
  /\ UNCHANGED <<setup, left, phase, mem, cache, synced, snapshot, manifest, stamps,
                 ghostVars>>

FinishReplace ==
  /\ In({"replace"}, "write")
  /\ op.todo = <<>>
  /\ mem' = Replayed(Baseline, op.entries)
  /\ cache' = op.entries
  /\ writer' = OpenWriter(wal)
  /\ history' = SubSeq(history, 1, op.prefix)
                  \o SelectSeq(op.entries, LAMBDA e : e.seq > op.prefix)
  /\ pending' = {}
  /\ op' = Idle
  /\ UNCHANGED <<setup, left, phase, wal, snapshot, manifest, stamps, cut>>
  /\ SyncAll

----------------------------------------------------------------------------
(* Failures, crashes and recovery.                                            *)

Writing == op.kind \in {"append", "replace"} /\ op.step = "write" /\ op.todo # <<>>

(* close_active and rotate_after let go of the file before anything can fail, *)
(* and the writer of write_entries is dropped with the call.                  *)
FailedWriter ==
  CASE op.kind = "replace" \/ op.step \in {"seal", "remove"} -> {Closed}
    [] op.kind = "append" /\ op.step = "rotate" -> {writer, Closed}
    [] OTHER -> {writer}

(* A call returns an error; what it did to the files stays.                   *)
Abandon ==
  /\ op' = Idle
  /\ cut' = TRUE
  /\ writer' \in FailedWriter
  /\ UNCHANGED <<setup, phase, mem, cache, synced, snapshot, manifest, stamps,
                 history, pending>>

(* An I/O error, which may leave part of a record, or a new segment that the  *)
(* writer was not reset to.                                                   *)
Fail ==
  /\ phase = "up"
  /\ op # Idle
  /\ Spend("failures")
  /\ wal' \in {wal} \cup (IF Writing THEN {Appended(wal, Torn)} ELSE {})
                   \cup (IF op.step = "create" THEN {CreateActive(wal, mem.seq + 1)} ELSE {})
  /\ Abandon

(* seal_active or replay meets a damaged log.                                 *)
RefuseDamaged ==
  /\ \/ In({"snapshot"}, "seal") /\ HasActive(wal) /\ ~Whole(ActiveSegment(wal))
     \/ In({"snapshot"}, "reload") /\ ~Readable(wal)
  /\ UNCHANGED <<wal, left>>
  /\ Abandon

(* What a crash leaves of the active segment: with sync a host crash may take *)
(* any record sync_data has not covered; otherwise only the process stops.    *)
Leftover ==
  IF ~HasActive(wal) THEN {wal}
  ELSE LET f == ActiveSegment(wal)
           kept == IF setup.sync = "sync" THEN synced .. Len(f.records)
                   ELSE {Len(f.records)}
           shrunk(rs) == (wal \ {f}) \cup {[f EXCEPT !.records = rs]}
       IN {shrunk(SubSeq(f.records, 1, i)) : i \in kept}
            \cup {shrunk(Append(SubSeq(f.records, 1, i), Torn)) :
                    i \in {j \in kept : j < Len(f.records) \/ Writing}}

Crash ==
  /\ phase = "up"
  /\ Spend("crashes") \/ (op = Idle /\ Spend("restarts"))
  /\ phase' = "down"
  /\ wal' \in Leftover
  /\ synced' = 0
  /\ mem' = EmptyState
  /\ cache' = <<>>
  /\ writer' = [open |-> FALSE, start |-> 0, len |-> 0]
  /\ cut' = (cut \/ op # Idle)
  /\ op' = Idle
  /\ UNCHANGED <<setup, snapshot, manifest, stamps, history, pending>>

Recover ==
  /\ phase = "down"
  /\ Opens
  /\ phase' = "up"
  /\ mem' = RecoveredState
  /\ cache' = SegmentEntries(wal)
  /\ wal' = WithActive(wal, mem'.seq + 1)
  /\ writer' = OpenWriter(wal')
  /\ SyncAll
  /\ cut' = (left.failures < setup.left.failures)
  /\ pending' = {}
  /\ LET fits == {h \in pending \cup {history} : StateOf(h) = mem'}
     IN history' = IF fits = {} THEN history ELSE CHOOSE h \in fits : TRUE
  /\ UNCHANGED <<setup, left, op, snapshot, manifest, stamps>>

RecoveryFails ==
  /\ phase = "down"
  /\ ~Opens
  /\ phase' = "refused"
  /\ UNCHANGED <<setup, left, memVars, op, diskVars, ghostVars>>

Next ==
  \/ \E batch \in setup.batches : BeginAppend(batch)
  \/ WriteRecord \/ RotateRename \/ RotateReopen \/ FinishAppend
  \/ BeginSnapshot \/ SealActive \/ CreateSegment \/ PruneSegment \/ PruneDone
  \/ SaveManifest \/ ReloadCache
  \/ \E batch \in setup.batches : BeginInstall(Numbered(0, OtherTerm, batch))
  \/ SaveInstalled \/ RemoveWal
  \/ \E prefix \in 0 .. mem.seq, batch \in setup.batches \cup {<<>>} :
        BeginReplace(prefix, batch)
  \/ OpenRewrite \/ FinishReplace
  \/ Fail \/ RefuseDamaged \/ Crash \/ Recover \/ RecoveryFails

Spec == Init /\ [][Next]_vars

----------------------------------------------------------------------------
(* restore_to_point by sequence: what it accepts, and the state it restores.  *)
UpTo(seq) == SelectSeq(SegmentEntries(wal), LAMBDA e : e.seq <= seq)

RestoreAccepts(seq) ==
  /\ Opens
  /\ seq >= (IF manifest = NoFile THEN 0 ELSE manifest.seq)
  /\ seq <= (IF UpTo(seq) = <<>> THEN (IF manifest = NoFile THEN 0 ELSE manifest.seq)
             ELSE Last(UpTo(seq)).seq)

RestoredState(seq) == Replayed(Baseline, UpTo(seq))

(* The variables keep their types.                                            *)
StorageTypeOK ==
  /\ setup \in Setups
  /\ left \in [Budget -> Nat]
  /\ phase \in {"up", "down", "refused"}
  /\ writer \in [open : BOOLEAN, start : Nat, len : Nat]
  /\ \A i \in DOMAIN cache : cache[i] \in Entry
  /\ \A f \in wal : /\ f.start \in Nat \ {0}
                    /\ f.end \in Nat
                    /\ \A i \in DOMAIN f.records : f.records[i] \in Entry \cup {Torn}
  /\ synced \in Nat
  /\ writer.open => \E f \in wal : IsActive(f) /\ f.start = writer.start

(* A running engine shows the entries it has confirmed and no others: a       *)
(* failed call changes nothing in memory, and a recovery that opens the files *)
(* after a crash at any step brings back everything that was confirmed,       *)
(* alone or with what the interrupted call had written.                       *)
MemoryIsHistory == phase = "up" => mem = StateOf(history)

(* Between calls, unless one was cut short, the cache that feeds replication  *)
(* is what recovery would read from the WAL directory.                        *)
CacheIsWal == Ready /\ ~cut => Readable(wal) /\ cache = SegmentEntries(wal)

(* from_paths_with_options refuses the files only when a crash or an error    *)
(* has cut a call short: finished calls always leave files that open.         *)
RefusedOnlyAfterCut == phase = "refused" => cut

(* Between calls, while the manifest describes the snapshot, every sequence   *)
(* restore_to_point accepts is restored to the state the engine had when it   *)
(* confirmed that sequence.  A first snapshot that was cut before its         *)
(* manifest leaves a baseline restore_to_point does not know of.              *)
RestorePoints ==
  Ready /\ ~cut /\ manifest = snapshot =>
    \A seq \in 1 .. mem.seq :
      RestoreAccepts(seq) => RestoredState(seq) = StateOf(SubSeq(history, 1, seq))

(* The engine implements the store of module DurableStore: the many file      *)
(* operations of an append, a snapshot, an installation or a replacement, and *)
(* a crash between any two of them, look like calls that happen at once or    *)
(* not at all, in an order, and recovery loses nothing that was confirmed.    *)
Store == INSTANCE DurableStore WITH shown <- mem, log <- history, maybe <- pending,
                                    status <- phase

StoreSpec == Store!Spec

=============================================================================
