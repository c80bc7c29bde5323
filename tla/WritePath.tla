----------------------------- MODULE WritePath -----------------------------
(* How writes run inside one server process: the tasks of the clients, the    *)
(* thread that owns the engine and its queue (engine_worker.rs), the write    *)
(* coordinator of a leader (ha_write_coordinator.rs), the lock they share     *)
(* with replication, the read index, and what each of them does when the node *)
(* loses its role, the engine fails or the acknowledgement does not arrive.   *)
(* What happens between nodes is in module Cluster; here followers            *)
(* acknowledge, and a new leader appends, when they like.                     *)
EXTENDS Integers, Sequences, FiniteSets, FiniteSetsExt, Functions

CONSTANTS Client,      \* connections with a request each
          None,        \* Option::None
          Failed,      \* Err(_)
          Scenes       \* a sequence: roles, requests, bounds

ASSUME ClientAssumption ==
  Client \cap {None, "coordinator", "replica", "election"} = {}

ASSUME NoneAssumption == None \notin {"ok", "error"}

ASSUME SceneAssumption ==
  \A i \in DOMAIN Scenes :
    /\ Scenes[i].role \in {"standalone", "leader", "follower"}
    /\ Scenes[i].limit \in Nat \ {0}

Coordinator == "coordinator"
Replica == "replica"      \* the handler of ReplicationAppend
Election == "election"    \* run_election_round, once it has won
Task == Client \cup {Coordinator, Replica, Election}

VARIABLES scene,       \* the number of the scene
          left,        \* its budget: failures, changes of role, appends, snapshots
          role, term, published, commit,     \* ReplicationState
          log, base,   \* the entries of the engine; its snapshot's sequence
          abroad,      \* the entries other nodes may hold, with their places
          queue, pending, collected,         \* the engine thread
          reply,       \* what the engine answered each task, or None
          lock,        \* replication_apply_lock: its holder, then who waits
          waiting,     \* the queue of the coordinator
          task,        \* where each task is
          index,       \* CommittedReadIndex: its sequence and its entries
          answered,    \* what each client was told, or None
          spoiled      \* see Spoil

nodeVars == <<role, term, published, commit>>
engineVars == <<log, base, abroad, queue, pending, collected, reply>>
taskVars == <<lock, waiting, task, answered>>
vars == <<scene, left, nodeVars, engineVars, taskVars, index, spoiled>>

(* "regressed": a late writer of a standalone node set the commit index back. *)
(* "raced": a rollback cut entries that were committed after it had read the  *)
(* commit index.  "unlocked": RESTORE FROM ran on a leader, which does not    *)
(* take the lock.  "outrun": entries were replaced that the read index had    *)
(* already applied, as a follower applies whole batches.                      *)
Spoil == {"regressed", "raced", "unlocked", "outrun"}

Here == Scenes[scene]

Kind(c) == Here.kind[c]

(* The classification is_batchable_engine_write and                           *)
(* is_ha_write_coordinator_command agree on.  "same" is a write that finds    *)
(* nothing to change.                                                         *)
Batchable == {"set", "same"}

Changes(c) == Kind(c) # "same"

Spend(b) == left[b] > 0 /\ left' = [left EXCEPT ![b] = @ - 1]

SpoilIf(how, condition) == spoiled' = IF condition THEN spoiled \cup {how} ELSE spoiled

----------------------------------------------------------------------------
(* The engine thread.                                                         *)

Request(t, kind, clients, prefix, entries) ==
  [kind |-> kind, from |-> t, term |-> term, clients |-> clients,
   prefix |-> prefix, entries |-> entries]

(* Sender::send waits while the channel is full.                              *)
Send(t, kind, clients, prefix, entries) ==
  /\ Len(queue) < Here.capacity
  /\ queue' = Append(queue, Request(t, kind, clients, prefix, entries))
  /\ reply' = [reply EXCEPT ![t] = None]
  /\ UNCHANGED <<log, base, abroad, pending, collected>>

Batched(r) == r.kind = "execute" /\ Kind(r.from) \in Batchable

(* Mutant: the request that is set aside stays in the channel too.            *)
DrainedTwice(q, p, batch) ==
  LET room == Here.limit - Len(batch)
      joins(i) == Batched(q[i]) /\ q[i].term = batch[1].term
      n == Max({k \in 0 .. Min({room, Len(q)}) : \A i \in 1 .. k : joins(i)})
      rest == SubSeq(q, n + 1, Len(q))
      stops == n < room /\ rest # <<>>
  IN [batch |-> batch \o SubSeq(q, 1, n),
      queue |-> rest,
      pending |-> IF stops THEN Append(p, Head(rest)) ELSE p]

(* drain_write_batch: what the channel holds, up to a request that does not   *)
(* belong in the batch, which is set aside.                                   *)
Drained(q, p, batch) ==
  LET room == Here.limit - Len(batch)
      joins(i) == Batched(q[i]) /\ q[i].term = batch[1].term
      n == Max({k \in 0 .. Min({room, Len(q)}) : \A i \in 1 .. k : joins(i)})
      rest == SubSeq(q, n + 1, Len(q))
      stops == n < room /\ rest # <<>>
  IN [batch |-> batch \o SubSeq(q, 1, n),
      queue |-> IF stops THEN Tail(rest) ELSE rest,
      pending |-> IF stops THEN Append(p, Head(rest)) ELSE p]

(* execute_command_batch: the sequence each client's result carries, and the  *)
(* entries, one for each client that changes something.                       *)
Rank(clients, i) == Cardinality({j \in 1 .. i : Changes(clients[j])})

Sequences(clients) == [i \in DOMAIN clients |-> Len(log) + Rank(clients, i)]

Entries(clients, t) ==
  [k \in 1 .. Rank(clients, Len(clients)) |->
     LET i == CHOOSE i \in DOMAIN clients : Changes(clients[i]) /\ Rank(clients, i) = k
     IN [from |-> clients[i], term |-> t]]

Reply(t, r) == reply' = [reply EXCEPT ![t] = r]

(* What a leader has in its log, committed or not, the next heartbeat sends   *)
(* to the followers, which may keep it whatever becomes of it here.           *)
Ships(leads, entries) ==
  abroad' = abroad \cup
    IF leads THEN {[at |-> i, entry |-> entries[i]] : i \in DOMAIN entries} ELSE {}

(* The clients of a batch are answered one by one; when it fails, the first   *)
(* gets the error and the others EngineWorkerClosed.                          *)
RunBatch(batch) ==
  LET clients == [i \in DOMAIN batch |-> batch[i].from]
      place(c) == CHOOSE i \in DOMAIN clients : clients[i] = c
      answer(r) == [t \in Task |-> IF t \in Range(clients) THEN r[place(t)] ELSE reply[t]]
  IN \/ /\ log' = log \o Entries(clients, batch[1].term)
        /\ Ships(role = "leader", log')
        /\ reply' = answer(Sequences(clients))
        /\ UNCHANGED left
     \/ /\ Spend("failures")
        /\ reply' = answer([i \in DOMAIN clients |-> Failed])
        /\ UNCHANGED <<log, abroad>>

NextRequest == IF pending # <<>> THEN Head(pending) ELSE Head(queue)

Waits == collected = <<>> /\ (pending # <<>> \/ queue # <<>>)

Takes ==
  IF pending # <<>> THEN pending' = Tail(pending) /\ queue' = queue
  ELSE queue' = Tail(queue) /\ pending' = pending

engineKept == <<scene, nodeVars, taskVars, index, spoiled>>

(* process_write_batch, up to the window in which it waits for more.          *)
TakeBatch ==
  LET q == IF pending # <<>> THEN queue ELSE Tail(queue)
      p == IF pending # <<>> THEN Tail(pending) ELSE pending
      d == Drained(q, p, <<NextRequest>>)
  IN /\ Waits /\ Batched(NextRequest)
     /\ queue' = d.queue /\ pending' = d.pending
     /\ \/ /\ Here.sync /\ Len(d.batch) < Here.limit
           /\ collected' = d.batch
           /\ UNCHANGED <<left, log, abroad, reply>>
        \/ /\ ~(Here.sync /\ Len(d.batch) < Here.limit)
           /\ RunBatch(d.batch)
           /\ UNCHANGED collected
     /\ UNCHANGED <<engineKept, base>>

(* Mutant: what arrived in the window is taken from the channel and dropped.  *)
EndWindowDropping ==
  LET d == Drained(queue, pending, collected)
  IN /\ collected # <<>>
     /\ queue' = d.queue /\ pending' = d.pending
     /\ RunBatch(collected)
     /\ collected' = <<>>
     /\ UNCHANGED <<engineKept, base>>

EndWindow ==
  LET d == Drained(queue, pending, collected)
  IN /\ collected # <<>>
     /\ queue' = d.queue /\ pending' = d.pending
     /\ RunBatch(d.batch)
     /\ collected' = <<>>
     /\ UNCHANGED <<engineKept, base>>

(* process_single_execute, ExecuteBatch, process_explicit_write_batch and     *)
(* AppendNoop.                                                                *)
ServeWrite ==
  LET r == NextRequest
      entries == IF r.kind = "noop" THEN r.entries ELSE Entries(r.clients, r.term)
  IN /\ Waits /\ ~Batched(r) /\ r.kind \in {"execute", "transaction", "writes", "noop"}
     /\ Takes
     /\ \/ /\ log' = log \o entries
           /\ Ships(role = "leader", log')
           /\ Reply(r.from, IF r.kind = "writes" THEN Sequences(r.clients)
                            ELSE Len(log) + Len(entries))
           /\ UNCHANGED left
        \/ Spend("failures") /\ Reply(r.from, Failed) /\ UNCHANGED <<log, abroad>>
     /\ UNCHANGED <<engineKept, base, collected>>

(* LastAppliedState, WalEntriesSince and ReplaceReplicationSuffix.            *)
ServeLast ==
  /\ Waits /\ NextRequest.kind = "last"
  /\ Takes
  /\ Reply(NextRequest.from, Len(log))
  /\ UNCHANGED <<engineKept, left, log, base, abroad, collected>>

ServeSince ==
  LET r == NextRequest
  IN /\ Waits /\ r.kind = "since"
     /\ Takes
     /\ Reply(r.from, [after |-> r.prefix, entries |-> SubSeq(log, r.prefix + 1, Len(log))])
     /\ UNCHANGED <<engineKept, left, log, base, abroad, collected>>

ServeReplace ==
  LET r == NextRequest
      fits == base <= r.prefix /\ r.prefix <= Len(log)
      after == SubSeq(log, 1, r.prefix) \o r.entries
      kept == [raced |-> commit, outrun |-> index.seq]
  IN /\ Waits /\ r.kind = "replace"
     /\ Takes
     /\ log' = IF fits THEN after ELSE log
     /\ Ships(role = "leader", log')
     /\ Reply(r.from, IF fits THEN Len(after) ELSE Failed)
     /\ spoiled' = spoiled \cup {s \in {"raced", "outrun"} : fits /\ r.prefix < kept[s]}
     /\ UNCHANGED <<scene, nodeVars, taskVars, index, left, base, collected>>

(* spawn_snapshotter: another request of the engine.                          *)
Snapshot ==
  /\ collected = <<>> /\ base < Len(log)
  /\ Spend("snapshots")
  /\ base' = Len(log)
  /\ UNCHANGED <<engineKept, log, abroad, queue, pending, collected, reply>>

EngineStep ==
  TakeBatch \/ EndWindow \/ ServeWrite \/ ServeLast \/ ServeSince \/ ServeReplace

----------------------------------------------------------------------------
(* Tasks.                                                                     *)

AcceptsWrites == role \in {"standalone", "leader"}

(* write_window_available.                                                    *)
WindowOpen == Here.ack = "local" \/ published - commit < Here.window

Holds(t) == lock # <<>> /\ Head(lock) = t

Goes(t, pc) == task' = [task EXCEPT ![t].pc = pc]

(* The end of a task: its clients are answered, and its guard is dropped.     *)
Answer(t, verdict) ==
  LET clients == Range(task[t].clients)
      over == [task[t] EXCEPT !.pc = "idle", !.clients = <<>>]
  IN /\ answered' = [c \in Client |-> IF c \in clients THEN verdict ELSE answered[c]]
     /\ task' = [task EXCEPT ![t] = over]
     /\ lock' = IF Holds(t) THEN Tail(lock) ELSE lock
     /\ UNCHANGED waiting

Asks(t, pc, kind, clients, prefix) ==
  /\ Send(t, kind, clients, prefix, <<>>)
  /\ Goes(t, pc)
  /\ UNCHANGED <<lock, waiting, answered>>

(* process_command for a write: refused, handed to the coordinator, executed  *)
(* without the lock, or made to wait for the lock.                            *)
Unlocked(c) == Kind(c) = "restore" \/ (role = "standalone" /\ Kind(c) # "exec")

Arrive(c) ==
  /\ task[c].pc = "start" /\ Kind(c) # "none"
  /\ \/ /\ ~(AcceptsWrites /\ WindowOpen)
        /\ Answer(c, "error")
        /\ UNCHANGED <<engineVars, spoiled>>
     \/ /\ AcceptsWrites /\ WindowOpen
        /\ role = "leader" /\ Kind(c) \in Batchable
        /\ waiting' = Append(waiting, c)
        /\ Goes(c, "coordinated")
        /\ UNCHANGED <<engineVars, lock, answered, spoiled>>
     \/ /\ AcceptsWrites /\ WindowOpen /\ Unlocked(c)
        /\ Send(c, "execute", <<c>>, 0, <<>>)
        /\ task' = [task EXCEPT ![c].pc = "executing", ![c].term = term]
        /\ SpoilIf("unlocked", role = "leader")
        /\ UNCHANGED <<lock, waiting, answered>>
     \/ /\ AcceptsWrites /\ WindowOpen /\ ~Unlocked(c)
        /\ ~(role = "leader" /\ Kind(c) \in Batchable)
        /\ lock' = Append(lock, c)
        /\ Goes(c, "locking")
        /\ UNCHANGED <<engineVars, waiting, answered, spoiled>>
  /\ UNCHANGED <<scene, left, nodeVars, index>>

(* run_ha_write_coordinator: what waits, and what arrives in the window.      *)
Gather ==
  LET t == task[Coordinator]
      n == Min({Here.limit - Len(t.clients), Len(waiting)})
  IN /\ t.pc \in {"idle", "gathering"} /\ n > 0
     /\ task' = [task EXCEPT ![Coordinator].pc = "gathering",
                             ![Coordinator].clients = @ \o SubSeq(waiting, 1, n)]
     /\ waiting' = SubSeq(waiting, n + 1, Len(waiting))
     /\ UNCHANGED <<scene, left, nodeVars, engineVars, lock, answered, index, spoiled>>

Gathered ==
  /\ task[Coordinator].pc = "gathering"
  /\ waiting = <<>> \/ Len(task[Coordinator].clients) = Here.limit
  /\ lock' = Append(lock, Coordinator)
  /\ Goes(Coordinator, "locking")
  /\ UNCHANGED <<scene, left, nodeVars, engineVars, waiting, answered, index, spoiled>>

(* With the lock, the role and the window are looked at again.                *)
Locked(t) ==
  LET refused == ~WindowOpen \/ (IF t = Coordinator THEN role # "leader" ELSE ~AcceptsWrites)
      kind == CASE t = Coordinator -> "writes"
                [] t # Coordinator /\ Kind(t) = "exec" -> "transaction"
                [] OTHER -> "execute"
  IN /\ task[t].pc = "locking" /\ Holds(t) /\ t \in Client \cup {Coordinator}
     /\ \/ /\ refused
           /\ Answer(t, "error")
           /\ UNCHANGED engineVars
        \/ /\ ~refused
           /\ Send(t, kind, task[t].clients, 0, <<>>)
           /\ task' = [task EXCEPT ![t].pc = "executing", ![t].term = term]
           /\ UNCHANGED <<lock, waiting, answered>>
     /\ UNCHANGED <<scene, left, nodeVars, index, spoiled>>

(* set_local_last_applied_state.                                              *)
Published(n) ==
  /\ published' = n
  /\ commit' = IF role = "standalone" THEN n ELSE commit
  /\ SpoilIf("regressed", role = "standalone" /\ n < commit)
  /\ UNCHANGED <<role, term>>

Publish(t, n) ==
  /\ Published(n)
  /\ task' = [task EXCEPT ![t].pc = "committing", ![t].seq = n]
  /\ UNCHANGED <<lock, waiting, answered, engineVars>>

Deposed(t) == role # "leader" \/ term # task[t].term

(* The engine has answered.  The coordinator rolls back when it is no longer  *)
(* the leader of the term; the locked path of a single command only returns   *)
(* an error, and only if it leads another term; EXEC asks for the state the   *)
(* engine is in.                                                              *)
Executed(t) ==
  LET r == reply[t]
      moved == t # Coordinator /\ ~Unlocked(t) /\ Kind(t) # "exec"
                 /\ role = "leader" /\ Deposed(t)
      frontier == IF t = Coordinator THEN Max(Range(r)) ELSE r
  IN /\ task[t].pc = "executing" /\ r # None
     /\ \/ /\ r = Failed \/ (r # Failed /\ moved)
           /\ Answer(t, "error")
           /\ UNCHANGED <<nodeVars, engineVars, spoiled>>
        \/ /\ r # Failed /\ t = Coordinator /\ Deposed(t)
           /\ Goes(t, "failing")
           /\ UNCHANGED <<nodeVars, engineVars, lock, waiting, answered, spoiled>>
        \/ /\ r # Failed /\ t # Coordinator /\ Kind(t) = "exec"
           /\ Asks(t, "lasting", "last", <<>>, 0)
           /\ UNCHANGED <<nodeVars, spoiled>>
        \/ /\ r # Failed /\ ~moved
           /\ IF t = Coordinator THEN ~Deposed(t) ELSE Kind(t) # "exec"
           /\ Publish(t, frontier)
     /\ UNCHANGED <<scene, left, index>>

Lasted(t) ==
  /\ task[t].pc = "lasting" /\ reply[t] # None
  /\ Publish(t, reply[t])
  /\ UNCHANGED <<scene, left, index>>

(* Mutant: the answer does not wait for the commit index.                     *)
CommittedEarly(t) ==
  /\ task[t].pc = "committing"
  /\ IF index.seq >= task[t].seq THEN Answer(t, "ok") /\ UNCHANGED engineVars
     ELSE Asks(t, "indexing", "since", <<>>, index.seq)
  /\ UNCHANGED <<scene, left, nodeVars, index, spoiled>>

(* drive_write_commit returns Ok, and advance_read_index_to begins.           *)
Committed(t) ==
  /\ task[t].pc = "committing"
  /\ Here.ack = "local" \/ commit >= task[t].seq
  /\ IF index.seq >= task[t].seq THEN Answer(t, "ok") /\ UNCHANGED engineVars
     ELSE Asks(t, "indexing", "since", <<>>, index.seq)
  /\ UNCHANGED <<scene, left, nodeVars, index, spoiled>>

(* drive_write_commit gives up: at once when the node does not lead,          *)
(* otherwise when the deadline has passed.                                    *)
Uncommitted(t) ==
  /\ task[t].pc = "committing"
  /\ Here.ack # "local" /\ commit < task[t].seq
  /\ Goes(t, "failing")
  /\ UNCHANGED <<scene, left, nodeVars, engineVars, lock, waiting, answered, index, spoiled>>

(* rollback_uncommitted_tail begins by reading the commit index, which may    *)
(* have moved since the check that failed.                                    *)
StartRollback(t) ==
  /\ task[t].pc = "failing"
  /\ Send(t, "last", <<>>, 0, <<>>)
  /\ task' = [task EXCEPT ![t].pc = "rollback", ![t].commit = commit]
  /\ UNCHANGED <<scene, left, nodeVars, lock, waiting, answered, index, spoiled>>

RollsBack(t) ==
  /\ task[t].pc = "rollback" /\ reply[t] # None
  /\ IF reply[t] <= task[t].commit THEN Answer(t, "error") /\ UNCHANGED engineVars
     ELSE Asks(t, "replacing", "replace", <<>>, task[t].commit)
  /\ UNCHANGED <<scene, left, nodeVars, index, spoiled>>

RolledBack(t) ==
  /\ task[t].pc = "replacing" /\ reply[t] # None /\ t # Replica
  /\ Answer(t, "error")
  /\ IF reply[t] = Failed THEN UNCHANGED <<nodeVars, spoiled>> ELSE Published(reply[t])
  /\ UNCHANGED <<scene, left, engineVars, index>>

(* apply_entries skips what the index already has.                            *)
Applied(r) ==
  LET fresh == SubSeq(r.entries, index.seq - r.after + 1, Len(r.entries))
      last == r.after + Len(r.entries)
  IN IF last <= index.seq THEN index
     ELSE [seq |-> last, entries |-> index.entries \o fresh]

(* Mutant: the client is answered while the index is still behind.            *)
IndexedLater(t) ==
  /\ task[t].pc = "indexing" /\ reply[t] # None
  /\ Answer(t, "ok")
  /\ UNCHANGED <<scene, left, nodeVars, engineVars, spoiled, index>>

Indexed(t) ==
  /\ task[t].pc = "indexing" /\ reply[t] # None
  /\ index' = Applied(reply[t])
  /\ IF reply[t].entries = <<>> \/ index'.seq >= task[t].seq
     THEN Answer(t, "ok") /\ UNCHANGED engineVars
     ELSE Asks(t, "indexing", "since", <<>>, index'.seq)
  /\ UNCHANGED <<scene, left, nodeVars, spoiled>>

----------------------------------------------------------------------------
(* The rest of the group.                                                     *)

(* Followers acknowledge what was published.                                  *)
FollowersAck ==
  /\ role = "leader"
  /\ \E n \in commit + 1 .. published : commit' = n
  /\ UNCHANGED <<scene, left, role, term, published, engineVars, taskVars, index, spoiled>>

(* A response carries a higher term.  The lock is not needed for this.        *)
StepDown ==
  /\ role = "leader" /\ Spend("roles")
  /\ role' = "follower" /\ term' = term + 1
  /\ UNCHANGED <<scene, published, commit, engineVars, taskVars, index, spoiled>>

(* finalize_election, and the no-op of the term, for which the lock is held   *)
(* until it is committed or the deadline has passed.                          *)
Elected ==
  /\ role = "follower" /\ task[Election].pc = "idle" /\ Spend("roles")
  /\ role' = "leader" /\ term' = term + 1
  /\ lock' = Append(lock, Election)
  /\ task' = [task EXCEPT ![Election].pc = "locking", ![Election].term = term + 1]
  /\ Ships(TRUE, log)
  /\ UNCHANGED <<scene, published, commit, log, base, queue, pending, collected, reply,
                 waiting, answered, index, spoiled>>

NoopLocked ==
  /\ task[Election].pc = "locking" /\ Holds(Election)
  /\ \/ /\ Deposed(Election)
        /\ Answer(Election, "error") /\ UNCHANGED engineVars
     \/ /\ ~Deposed(Election)
        /\ Send(Election, "noop", <<>>, 0, <<[from |-> None, term |-> term]>>)
        /\ Goes(Election, "noop")
        /\ UNCHANGED <<lock, waiting, answered>>
  /\ UNCHANGED <<scene, left, nodeVars, index, spoiled>>

NoopAppended ==
  LET n == reply[Election]
  IN /\ task[Election].pc = "noop" /\ n # None
     /\ \/ /\ n = Failed
           /\ Answer(Election, "error") /\ UNCHANGED <<nodeVars, spoiled>>
        \/ /\ n # Failed
           /\ Published(n) /\ Goes(Election, "catchup")
           /\ UNCHANGED <<lock, waiting, answered>>
     /\ UNCHANGED <<scene, left, engineVars, index>>

NoopDone ==
  /\ task[Election].pc = "catchup"
  /\ Answer(Election, "ok")
  /\ UNCHANGED <<scene, left, nodeVars, engineVars, index, spoiled>>

(* ReplicationAppend: with the lock, the suffix that the leader of the term   *)
(* does not have is replaced; it never reaches below what is committed.  That *)
(* leader sends its own entry, one that it had from this node, or both.       *)
Sent(prefix) ==
  LET own == [from |-> None, term |-> term]
      had == {p \in abroad : /\ p.at = prefix + 1 /\ p.entry.term < term
                             /\ p.entry \notin Range(SubSeq(log, 1, prefix))}
  IN {<<own>>} \cup {<<p.entry>> : p \in had} \cup {<<p.entry, own>> : p \in had}

AppendArrives ==
  /\ role = "follower" /\ task[Replica].pc = "idle" /\ Spend("appends")
  /\ lock' = Append(lock, Replica)
  /\ task' = [task EXCEPT ![Replica].pc = "locking", ![Replica].term = term]
  /\ UNCHANGED <<scene, nodeVars, engineVars, waiting, answered, index, spoiled>>

AppendLocked ==
  /\ task[Replica].pc = "locking" /\ Holds(Replica)
  /\ \/ /\ term > task[Replica].term
        /\ Answer(Replica, "ok") /\ UNCHANGED engineVars
     \/ /\ term = task[Replica].term
        /\ \E prefix \in Min({commit, Len(log)}) .. Len(log) :
             \E entries \in Sent(prefix) :
               Send(Replica, "replace", <<>>, prefix, entries)
        /\ Goes(Replica, "replacing")
        /\ UNCHANGED <<lock, waiting, answered>>
  /\ UNCHANGED <<scene, left, nodeVars, index, spoiled>>

AppendApplied ==
  LET n == reply[Replica]
  IN /\ task[Replica].pc = "replacing" /\ n # None
     /\ \/ /\ n = Failed
           /\ Answer(Replica, "error") /\ UNCHANGED <<nodeVars, engineVars>>
        \/ /\ n # Failed
           /\ published' = n
           /\ \E k \in Min({commit, n}) .. n :
                /\ commit' = Max({commit, k})
                /\ IF index.seq >= k THEN Answer(Replica, "ok") /\ UNCHANGED engineVars
                   ELSE /\ Send(Replica, "since", <<>>, index.seq, <<>>)
                        /\ task' = [task EXCEPT ![Replica].pc = "indexing", ![Replica].seq = k]
                        /\ UNCHANGED <<lock, waiting, answered>>
           /\ UNCHANGED <<role, term>>
     /\ UNCHANGED <<scene, left, index, spoiled>>

----------------------------------------------------------------------------
Start(c) == [pc |-> "start", term |-> 0, seq |-> 0, commit |-> 0, clients |-> <<c>>]

Init ==
  /\ scene \in DOMAIN Scenes
  /\ left = Here.left
  /\ role = Here.role /\ term = 1 /\ published = 0 /\ commit = 0
  /\ log = <<>> /\ base = 0 /\ abroad = {}
  /\ queue = <<>> /\ pending = <<>> /\ collected = <<>>
  /\ reply = [t \in Task |-> None]
  /\ lock = <<>> /\ waiting = <<>>
  /\ task = [t \in Task |-> IF t \in Client THEN Start(t)
                            ELSE [Start(t) EXCEPT !.pc = "idle", !.clients = <<>>]]
  /\ index = [seq |-> 0, entries |-> <<>>]
  /\ answered = [c \in Client |-> None]
  /\ spoiled = {}

TaskStep(t) ==
  \/ Locked(t) \/ Executed(t) \/ Lasted(t) \/ Committed(t) \/ Uncommitted(t)
  \/ StartRollback(t) \/ RollsBack(t) \/ RolledBack(t) \/ Indexed(t)

CoordinatorStep == Gather \/ Gathered \/ TaskStep(Coordinator)

ReplicaStep == AppendLocked \/ AppendApplied \/ TaskStep(Replica)

ElectionStep == NoopLocked \/ NoopAppended \/ NoopDone

Next ==
  \/ EngineStep \/ Snapshot
  \/ \E c \in Client : Arrive(c) \/ TaskStep(c)
  \/ CoordinatorStep
  \/ AppendArrives \/ ReplicaStep \/ ElectionStep
  \/ FollowersAck \/ StepDown \/ Elected

(* The engine's thread and the tasks run: a thread that has a request takes   *)
(* it, tokio polls a task that can go on, its mutex is first come first       *)
(* served, and deadlines pass.  Nothing is assumed of clients that have not   *)
(* called, of other nodes, of failures or of snapshots.                       *)
Fairness ==
  /\ WF_vars(EngineStep) /\ WF_vars(CoordinatorStep)
  /\ WF_vars(ReplicaStep) /\ WF_vars(ElectionStep)
  /\ \A c \in Client : WF_vars(TaskStep(c))

Spec == Init /\ [][Next]_vars /\ Fairness

----------------------------------------------------------------------------
(* Properties.                                                                *)

InLog(c) == \E i \in DOMAIN log : log[i].from = c

Told(c, verdict) == answered[c] = verdict

(* Type invariant.                                                            *)
WritePathTypeOK ==
  /\ role \in {"standalone", "leader", "follower"} /\ spoiled \subseteq Spoil
  /\ base \in 0 .. Len(log) /\ published \in Nat /\ commit \in Nat
  /\ Len(queue) <= Here.capacity /\ Len(collected) < Here.limit
  /\ Len(task[Coordinator].clients) <= Here.limit
  /\ \A c \in Client : answered[c] \in {None, "ok", "error"}

(* A write whose client was told OK stays in the log, unless a rollback of    *)
(* another write raced with a commit or a late writer set the commit index of *)
(* a standalone node back.                                                    *)
AckedKeptUnlessSpoiled ==
  Here.ack # "local" /\ spoiled \subseteq {"outrun"} =>
    \A c \in Client : Told(c, "ok") /\ Changes(c) => InLog(c)

(* A client that was told OK finds its write with the fast path: the read     *)
(* index has it by then, unless what it held was replaced under it.           *)
AckedVisible ==
  spoiled = {} =>
    \A c \in Client : Told(c, "ok") /\ Changes(c) =>
      \E i \in DOMAIN index.entries : index.entries[i].from = c

(* On a node that has led since it started and acknowledges with its          *)
(* followers, the read index never has an entry that is not committed, and    *)
(* never one that the log lost.                                               *)
IndexCommitted ==
  (Here.ack # "local" /\ role = "leader" /\ term = 1 /\ spoiled = {}) =>
    /\ index.seq <= commit
    /\ index.seq <= Len(log) /\ index.entries = SubSeq(log, 1, index.seq)

(* The uncommitted tail of a leader is never longer than the window and one   *)
(* batch, as each batch is committed or rolled back before the lock is free.  *)
TailBounded ==
  (role = "leader" /\ term = 1 /\ Here.ack # "local" /\ spoiled = {}) =>
    Len(log) - commit <= Here.window + Here.limit - 1

(* A write that was reported as failed and is not in the log comes back only  *)
(* from the group: by the append of another leader, to which this node had    *)
(* sent it before it failed.  This node itself never runs it later: nobody    *)
(* is told of a failure while the request is still on its way.                *)
FailedNotRunLater ==
  [][\A c \in Client : Told(c, "error") /\ ~InLog(c) /\ InLog(c)' =>
       /\ NextRequest.from = Replica
       /\ \E p \in abroad : p.entry.from = c]_vars

(* Every client that called is answered, whatever fails, and nobody keeps the *)
(* lock.                                                                      *)
EveryoneAnswered ==
  /\ \A c \in Client : (task[c].pc # "start") ~> (answered[c] # None)
  /\ []<>(lock = <<>>)

=============================================================================
