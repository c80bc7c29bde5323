------------------------------- MODULE Engine -------------------------------
(* The engine of a node as its clients see it: commands, batches and          *)
(* transactions change the key space in memory and log operations, keys       *)
(* expire by the clock, which nothing logs, and three other copies of the key *)
(* space follow the log: the one recovery rebuilds (from the last snapshot),  *)
(* the committed read index of the server, and a follower.                    *)
EXTENDS Commands

CONSTANTS Workloads    \* a sequence: what clients may do, and how often

(* Budget of a behaviour.                                                     *)
Budget == {"entries", "failures", "ticks", "sweeps", "snapshots", "restarts",
           "backups", "replays", "applies"}

VARIABLES work,      \* the number of the workload
          left,      \* what is left of its budget
          phase,     \* "up", or "refused" when recovery returned an error
          now,       \* the clock, in milliseconds
          store,     \* EngineState.store
          log,       \* the WAL: operations and created_at_ms of every entry
          base,      \* the snapshot, and the first sequence the WAL retains
          dump,      \* the last logical backup, or None
          index,     \* CommittedReadIndex: its entries and sequence
          replica,   \* a follower's state and sequence
          spoiled    \* the ways the copies came apart so far: see Spoil

engineVars == <<store, log>>
copyVars == <<base, dump, index, replica>>
vars == <<work, left, phase, now, engineVars, copyVars, spoiled>>

(* "revived": INCR or DECR was logged for a key that had expired in memory,   *)
(* and that a copy of the log still holds.  "misrolled": a failed batch       *)
(* cleared the key space after another command of it.  "overtaken": the       *)
(* follower dropped an expired key before an entry about it arrived.          *)
(* "recounted": a restart counted again what the snapshot had counted.        *)
Spoil == {"revived", "misrolled", "overtaken", "recounted"}

Load == Workloads[work]

Spend(b) == left[b] > 0 /\ left' = [left EXCEPT ![b] = @ - 1]

SpoilIf(how, condition) == spoiled' = IF condition THEN spoiled \cup {how} ELSE spoiled

----------------------------------------------------------------------------
(* Copies of the log.                                                         *)

Replay(from, entries) ==
  LET step(r, e) == IF ~r.ok THEN r ELSE ApplyEntry(r.store, e.ops)
  IN FoldLeft(step, [ok |-> TRUE, store |-> from], entries)

(* Every entry that the WAL retains is applied to the snapshot, also those it *)
(* covers.                                                                    *)
Recovered == Replay(base.store, SubSeq(log, base.first, Len(log)))

(* Among them is one that adds to the value it finds.                         *)
Recounts ==
  \E i \in base.first .. base.seq : \E o \in Range(log[i].ops) : o.op = "add"

(* ReadEntry keeps no version.                                                *)
ReadEntries(s) ==
  [k \in DOMAIN s |-> [value |-> s[k].value, expires |-> s[k].expires]]

(* Mutant: a counter starts again from the value its operation adds.          *)
IndexOperationFromZero(entries, o) ==
  CASE o.op = "set" -> InsertEntry(entries, o.key, [value |-> o.value, expires |-> None])
    [] o.op = "delete" -> Without(entries, o.key)
    [] o.op = "expire" -> SetExpiration(entries, o.key, o.at)
    [] o.op = "persist" -> ClearExpiration(entries, o.key)
    [] o.op = "clear" -> EmptyStore
    [] o.op = "add" -> InsertEntry(entries, o.key, [value |-> o.delta, expires |-> None])

(* apply_operation of read_index.rs.                                          *)
IndexOperation(entries, o) ==
  CASE o.op = "set" -> InsertEntry(entries, o.key, [value |-> o.value, expires |-> None])
    [] o.op = "delete" -> Without(entries, o.key)
    [] o.op = "expire" -> SetExpiration(entries, o.key, o.at)
    [] o.op = "persist" -> ClearExpiration(entries, o.key)
    [] o.op = "clear" -> EmptyStore
    [] o.op = "add" ->
         InsertEntry(entries, o.key, [value |-> NumberAt(Lookup(entries, o.key)) + o.delta,
                                      expires |-> None])

(* apply_entries: an operation that is rejected ends it, in the middle of its *)
(* entry.                                                                     *)
IndexApplied(idx, n) ==
  LET step(r, o) == IF ~r.ok \/ Rejected(r.entries, o) THEN [r EXCEPT !.ok = FALSE]
                    ELSE [r EXCEPT !.entries = IndexOperation(r.entries, o)]
      entry(r, i) ==
        LET done == FoldLeft(step, r, log[i].ops)
        IN IF i <= r.seq \/ ~r.ok THEN r
           ELSE [done EXCEPT !.seq = IF done.ok THEN i ELSE r.seq]
      all == FoldLeft(entry, [ok |-> TRUE, entries |-> idx.entries, seq |-> idx.seq],
                      [i \in 1 .. n |-> i])
  IN [entries |-> all.entries, seq |-> all.seq]

(* read_command, for the commands is_fast_path_read names.                    *)
FastPath == {"get", "mget", "exists", "ttl"}

IndexRead(c) ==
  LET live(k) == IF k \in DOMAIN index.entries /\ ~Expired(index.entries[k], now)
                 THEN index.entries[k] ELSE None
  IN CASE c.cmd = "get" -> ValueOrNotFound(live(c.key))
       [] c.cmd = "mget" -> <<"strings", [i \in DOMAIN c.keys |->
                                            ValueOrNotFound(live(c.keys[i]))]>>
       [] c.cmd = "exists" -> Boolean(live(c.key) # None)
       [] c.cmd = "ttl" ->
            Integer(CASE live(c.key) = None -> -2
                      [] live(c.key) # None /\ live(c.key).expires = None -> -1
                      [] OTHER -> (live(c.key).expires - now + Second - 1) \div Second)

(* An operation counts on a key that had expired when it was logged, and that *)
(* nothing in its entry replaced before.                                      *)
CountsOnExpired(raw, ops) ==
  \E i \in DOMAIN ops :
    /\ ops[i].op = "add" /\ ops[i].key \in DOMAIN raw
    /\ Expired(raw[ops[i].key], now)
    /\ \A j \in 1 .. i - 1 : ops[j].op # "clear" /\ ops[j].key # ops[i].key

Touches(ops, k) == \E i \in DOMAIN ops : ops[i].op = "clear" \/ ops[i].key = k

----------------------------------------------------------------------------
(* Commands.                                                                  *)

Entry(ops) == [ops |-> ops, at |-> now]

(* Everything the log ever said, expired keys included.                       *)
Raw == Replay(EmptyStore, log).store

Revives(ops) == SpoilIf("revived", CountsOnExpired(Raw, ops))

(* append_and_apply, on the state s; next_entry numbers the entry.            *)
AppendAndApply(s, ops) ==
  /\ Spend("entries")
  /\ log' = Append(log, Entry(ops))
  /\ store' = ApplyEntry(s, ops).store
  /\ Revives(ops)

(* The WAL append returned an error.                                          *)
AppendFails == Spend("failures") /\ UNCHANGED <<log, spoiled>>

(* process_single_execute: a command that is not a batchable write, through   *)
(* the StorageEngine trait.                                                   *)
Execute(c) ==
  LET d == Direct(store, now, c)
  IN /\ phase = "up" /\ ~Batchable(c)
     /\ \/ /\ d.ok /\ d.ops # <<>> /\ AppendAndApply(d.store, d.ops)
        \/ /\ d.ok /\ d.ops # <<>> /\ AppendFails /\ store' = d.store
        \/ /\ ~d.ok \/ d.ops = <<>>
           /\ d.store # store
           /\ store' = d.store
           /\ UNCHANGED <<left, log, spoiled>>
     /\ UNCHANGED <<work, phase, now, copyVars>>

(* append_noop: the first entry of a leader's term.                           *)
AppendNoop ==
  /\ phase = "up" /\ Load.noop
  /\ AppendAndApply(store, <<>>)
  /\ UNCHANGED <<work, phase, now, copyVars>>

(* remember_command.                                                          *)
RememberCommand(rb, s, c) ==
  LET remember(r, k) == RememberKey(r, s, k)
  IN CASE c.cmd = "clear" -> RememberClear(rb, s)
       [] c.cmd = "mset" -> FoldLeft(remember, rb, [i \in DOMAIN c.entries |-> c.entries[i][1]])
       [] c.cmd \in {"delete", "mget"} -> FoldLeft(remember, rb, c.keys)
       [] c.cmd \in {"rename", "renamenx"} ->
            FoldLeft(remember, rb, <<c.source, c.destination>>)
       [] c.cmd \in ReadCommands \ {"mget"} -> rb
       [] OTHER -> RememberKey(rb, s, c.key)

(* execute_command_batch up to the append: every command on the state the one *)
(* before it left, one entry for each that changed something.                 *)
BatchEvaluated(s, cs) ==
  LET step(r, c) ==
        LET e == Evaluate(r.store, now, c)
        IN IF ~r.ok THEN r
           ELSE [ok |-> e.ok, store |-> e.store,
                 entries |-> IF e.ops = <<>> THEN r.entries ELSE Append(r.entries, Entry(e.ops)),
                 rb |-> RememberCommand(r.rb, r.store, c)]
  IN FoldLeft(step, [ok |-> TRUE, store |-> s, entries |-> <<>>, rb |-> NoRollback], cs)

Batch(cs) ==
  LET b == BatchEvaluated(Purge(store, now), cs)
  IN /\ phase = "up"
     /\ b.ok
     /\ b.entries # <<>> \/ b.store # store
     /\ left.entries >= Len(b.entries)
     /\ left' = [left EXCEPT !.entries = @ - Len(b.entries)]
     /\ log' = log \o b.entries
     /\ store' = b.store
     /\ UNCHANGED <<work, phase, now, copyVars, spoiled>>

(* process_write_batch runs a batchable write alone when nothing else waits,  *)
(* and process_explicit_write_batch those the coordinator gathered.           *)
Batches == Load.batches \cup {<<c>> : c \in {x \in Load.single : Batchable(x)}}

(* A command or the append fails, and the batch is rolled back.               *)
BatchFails(cs) ==
  LET b == BatchEvaluated(Purge(store, now), cs)
      back == RolledBack(b.rb, b.store)
  IN /\ phase = "up"
     /\ b.ok => b.entries # <<>>
     /\ Spend("failures")
     /\ store' = back
     /\ SpoilIf("misrolled", back # Purge(store, now))
     /\ UNCHANGED <<work, phase, now, log, copyVars>>

(* execute_transaction: evaluated on a copy, logged as one entry, which is    *)
(* then applied to the state itself.                                          *)
Transaction(cs) ==
  LET s == Purge(store, now)
      step(r, c) == LET e == Evaluate(r.store, now, c)
                    IN IF ~r.ok THEN r
                       ELSE [ok |-> e.ok, store |-> e.store, ops |-> r.ops \o e.ops]
      t == FoldLeft(step, [ok |-> TRUE, store |-> s, ops |-> <<>>], cs)
  IN /\ phase = "up"
     /\ \/ t.ok /\ t.ops # <<>> /\ AppendAndApply(s, t.ops)
        \/ t.ok /\ t.ops # <<>> /\ AppendFails /\ store' = s
        \/ /\ ~t.ok \/ t.ops = <<>>
           /\ s # store
           /\ store' = s
           /\ UNCHANGED <<left, log, spoiled>>
     /\ UNCHANGED <<work, phase, now, copyVars>>

----------------------------------------------------------------------------
(* Time, snapshots, backups.                                                  *)

Tick ==
  /\ Spend("ticks") /\ now' = now + 1
  /\ UNCHANGED <<work, phase, engineVars, copyVars, spoiled>>

(* The background sweeper of the server.                                      *)
SweepExpired ==
  /\ phase = "up" /\ Purge(store, now) # store
  /\ Spend("sweeps")
  /\ store' = Purge(store, now)
  /\ UNCHANGED <<work, phase, now, log, copyVars, spoiled>>

(* The size of the segments and wal_retain_segments decide how much of the    *)
(* log is pruned.                                                             *)
Snapshot ==
  /\ phase = "up" /\ Spend("snapshots")
  /\ store' = Purge(store, now)
  /\ \E first \in base.first .. Len(log) + 1 :
       base' = [seq |-> Len(log), store |-> Purge(store, now), first |-> first]
  /\ UNCHANGED <<work, phase, now, log, dump, index, replica, spoiled>>

(* Engine::open and rebuild_from_engine_state, or a server that does not      *)
(* start.                                                                     *)
Restart ==
  /\ phase = "up" /\ Spend("restarts")
  /\ \/ /\ Recovered.ok
        /\ store' = Recovered.store
        /\ index' = [entries |-> ReadEntries(Recovered.store), seq |-> Len(log)]
        /\ phase' = phase
     \/ /\ ~Recovered.ok
        /\ phase' = "refused"
        /\ UNCHANGED <<store, index>>
  /\ SpoilIf("recounted", Recounts)
  /\ UNCHANGED <<work, now, log, base, dump, replica>>

LogicalBackup ==
  /\ phase = "up" /\ Spend("backups")
  /\ store' = Purge(store, now)
  /\ dump' = Purge(store, now)
  /\ UNCHANGED <<work, phase, now, log, base, index, replica, spoiled>>

(* parse_logical_backup: a dump of version 1 has no versions.                 *)
ParsedBackup(legacy) ==
  [k \in DOMAIN dump |-> IF legacy THEN [dump[k] EXCEPT !.version = 1] ELSE dump[k]]

RestoreOps(entries) ==
  LET live == SortedKeys(Purge(entries, now))
      restored(k) == <<SetOp(k, entries[k].value, Max({entries[k].version, 1}))>>
                       \o IF entries[k].expires = None THEN <<>>
                          ELSE <<ExpireOp(k, entries[k].expires)>>
  IN <<ClearOp>> \o FlattenSeq([i \in DOMAIN live |-> restored(live[i])])

RestoreLogicalBackup(legacy) ==
  /\ phase = "up" /\ dump # None
  /\ AppendAndApply(store, RestoreOps(ParsedBackup(legacy)))
  /\ UNCHANGED <<work, phase, now, copyVars>>

----------------------------------------------------------------------------
(* The copies follow.                                                         *)

(* advance_read_index_to, up to a committed entry.                            *)
AdvanceReadIndex(n) ==
  /\ phase = "up" /\ n > index.seq
  /\ Spend("replays")
  /\ index' = IndexApplied(index, n)
  /\ UNCHANGED <<work, phase, now, engineVars, base, dump, replica, spoiled>>

(* Mutant: the follower purges before it applies, as commands do.             *)
ReplicaAppliesPurging ==
  /\ replica.seq < Len(log)
  /\ Spend("applies")
  /\ LET r == ApplyEntry(Purge(replica.store, now), log[replica.seq + 1].ops)
     IN /\ r.ok
        /\ replica' = [store |-> r.store, seq |-> replica.seq + 1]
  /\ UNCHANGED <<work, phase, now, engineVars, base, dump, index, spoiled>>

(* apply_replication_entries on the follower.                                 *)
ReplicaApplies ==
  /\ replica.seq < Len(log)
  /\ Spend("applies")
  /\ LET r == ApplyEntry(replica.store, log[replica.seq + 1].ops)
     IN /\ r.ok
        /\ replica' = [store |-> r.store, seq |-> replica.seq + 1]
  /\ UNCHANGED <<work, phase, now, engineVars, base, dump, index, spoiled>>

(* The follower's sweeper, and every command it reads with, use its clock.    *)
ReplicaSweeps ==
  LET kept == Purge(replica.store, now)
      dropped == DOMAIN replica.store \ DOMAIN kept
  IN /\ dropped # {}
     /\ Spend("sweeps")
     /\ replica' = [replica EXCEPT !.store = kept]
     /\ SpoilIf("overtaken", \E k \in dropped, i \in replica.seq + 1 .. Len(log) :
                               Touches(log[i].ops, k))
     /\ UNCHANGED <<work, phase, now, engineVars, base, dump, index>>

Init ==
  /\ work \in DOMAIN Workloads
  /\ left = Load.left
  /\ phase = "up"
  /\ now = 0
  /\ store = EmptyStore /\ log = <<>>
  /\ base = [seq |-> 0, store |-> EmptyStore, first |-> 1]
  /\ dump = None
  /\ index = [entries |-> EmptyStore, seq |-> 0]
  /\ replica = [store |-> EmptyStore, seq |-> 0]
  /\ spoiled = {}

Next ==
  \/ \E c \in Load.single : Execute(c)
  \/ AppendNoop
  \/ \E cs \in Batches : Batch(cs) \/ BatchFails(cs)
  \/ \E cs \in Load.transactions : Transaction(cs)
  \/ Tick \/ SweepExpired \/ Snapshot \/ Restart
  \/ LogicalBackup
  \/ \E legacy \in BOOLEAN : RestoreLogicalBackup(legacy)
  \/ \E n \in DOMAIN log : AdvanceReadIndex(n)
  \/ ReplicaApplies \/ ReplicaSweeps

Spec == Init /\ [][Next]_vars

----------------------------------------------------------------------------
(* Properties.                                                                *)

Keys == {1, 2}

Live(s) == Purge(s, now)

(* Type invariant.                                                            *)
EngineTypeOK ==
  /\ phase \in {"up", "refused"} /\ now \in Nat /\ spoiled \subseteq Spoil
  /\ \A s \in {store, base.store, replica.store} :
       \A k \in DOMAIN s : s[k].version \in Nat \ {0}
                          /\ (s[k].expires = None \/ s[k].expires \in 0 .. TimeMax)
  /\ base.seq \in 0 .. Len(log) /\ base.first \in 1 .. base.seq + 1 /\ index.seq \in 0 .. Len(log)
  /\ replica.seq \in 0 .. Len(log)

(* What recovery would rebuild from the snapshot and the retained WAL is, at  *)
(* every moment, the live key space in memory: values, expirations and        *)
(* versions.  It may well apply entries that the snapshot covers once more:   *)
(* sets, deletions, expirations and clears arrive at the same keys again.     *)
(* Purges, which nothing logs, and restored backups make no difference        *)
(* either.  What does is left out: an INCR or DECR that the snapshot covers   *)
(* and the WAL retains, which counts twice or is refused, a counter that was  *)
(* revived, and a failed batch that was misrolled.                            *)
RebuiltUnlessSpoiled ==
  spoiled \cap {"revived", "misrolled", "recounted"} = {} /\ ~Recounts =>
    /\ phase = "up" /\ Recovered.ok
    /\ Live(Recovered.store) = Live(store)

(* A read index that has applied the whole log answers GET, MGET, EXISTS and  *)
(* TTL as the engine would at the same moment.                                *)
IndexAnswersAsEngine ==
  (phase = "up" /\ index.seq = Len(log) /\ spoiled \cap {"revived", "misrolled"} = {}) =>
    \A c \in {[cmd |-> "ttl", key |-> k] : k \in Keys} \cup
             {[cmd |-> "get", key |-> k] : k \in Keys} \cup
             {[cmd |-> "exists", key |-> k] : k \in Keys} \cup
             {[cmd |-> "mget", keys |-> <<1, 2, 1>>]} :
      IndexRead(c) = ReadResult(Live(store), now, c)

(* A follower that has applied the whole log holds the leader's live keys,    *)
(* unless it dropped an expired key before an entry about that key arrived,   *)
(* or the leader's own copy is spoiled.                                       *)
FollowerConverges ==
  (replica.seq = Len(log) /\ spoiled = {}) => Live(replica.store) = Live(store)

(* The two paths of a command answer alike and leave the same live values and *)
(* expirations.  They differ in the version that a RENAME of a key to itself  *)
(* and an MSET over an expired key give, and in what DELETE counts when it    *)
(* names a key twice.                                                         *)
PathsAgree ==
  \A c \in Load.single :
    LET d == Direct(store, now, c)
        e == Evaluate(store, now, c)
        after == ApplyEntry(d.store, d.ops).store
        same == c.cmd \in {"rename", "renamenx"} /\ c.source = c.destination
        twice == c.cmd = "delete" /\ Cardinality(Range(c.keys)) < Len(c.keys)
    IN /\ d.ok = e.ok
       /\ ReadEntries(Live(after)) = ReadEntries(e.store)
       /\ ~same /\ c.cmd # "mset" => Live(after) = e.store
       /\ ~twice => d.res = e.res

(* Pages of SCAN, each started where the one before ended, list every live    *)
(* key once and in order, whatever the size of the pages.                     *)
ScanListsAll ==
  \A n \in 0 .. 3 :
    LET page(cursor) == ScanPage(Live(store), [matches |-> None, cursor |-> cursor, count |-> n])
        step(r, i) == IF r.done THEN r
                      ELSE [keys |-> r.keys \o page(r.cursor)[3], cursor |-> page(r.cursor)[2],
                            done |-> page(r.cursor)[2] = 0]
    IN FoldLeft(step, [keys |-> <<>>, cursor |-> 0, done |-> FALSE], <<1, 2, 3, 4>>)
         = [keys |-> SortedKeys(Live(store)), cursor |-> 0, done |-> TRUE]

(* A batch that fails leaves the live key space as it found it, unless it     *)
(* cleared the key space after another of its commands had changed it.        *)
FailedBatchUndone ==
  [][\A cs \in Batches : BatchFails(cs) =>
       \/ Purge(store', now) = Live(store)
       \/ \E i \in 2 .. Len(cs) : cs[i].cmd = "clear"]_vars

(* RESTORE leaves exactly the entries of the dump that have not expired.      *)
RestoreIsDump ==
  [][\A legacy \in BOOLEAN : RestoreLogicalBackup(legacy) =>
       store' = Live(ParsedBackup(legacy))]_vars

=============================================================================
