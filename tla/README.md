# TLA+ specifications of Vaylix

Vaylix is a key/value database: a server answers clients over TLS, an engine
keeps the data in memory behind a segmented write-ahead log (WAL), snapshots and
a manifest, and several servers form a replicated group with elections in the
style of Raft. This directory holds TLA+ models of the parts whose correctness
depends on the order of events, the configurations that model-check them, and
machine-checked proofs about them. Paths below are relative to `src/crates/`.

## The parts of the system

| part | where | state | what changes it |
|---|---|---|---|
| leader election | `server/src/replication/mod.rs`, `quorum.rs`, `timing.rs`, `persistence.rs` | term, vote, role, known leader, member list; written to a state file | election timeout, vote requests and replies, heartbeats, `PROMOTE FOLLOWER`, `CLUSTER JOIN`/`REMOVE`, restart |
| log replication | `server/src/server/mod.rs`, `replication/mod.rs` | match and next index of each peer, commit index, fan-out in progress | append requests and answers, snapshot installation, liveness heartbeats, the polling loop of a follower |
| write path | `server/src/server/ha_write_coordinator.rs`, `server/mod.rs` | the batch being committed, its deadline | client writes, commit, timeout, rollback |
| committed read index | `server/src/server/read_index.rs` | copy of the data up to the commit index | commit, rebuild after a restart |
| engine worker | `server/src/server/engine_worker.rs` | queue of engine jobs | every engine call goes through it, one at a time |
| storage engine | `engine/src/engine/core.rs`, `engine/src/store/*.rs` | memory state, WAL segments, snapshot file, manifest, WAL cache | append, snapshot, rotation and pruning, suffix replacement, snapshot installation, restore, crash and recovery |
| engine commands | `engine/src/engine/*.rs` | keys, values, expirations, versions | commands, batches, transactions, the clock, logical backups |
| users and roles | `server/src/auth/*.rs` | users, roles, grants; saved to a file | RBAC commands, the start with a configured administrator |
| sessions | `server/src/server/session.rs`, `transactions.rs`, `authorization.rs`, `validation.rs`, `server/mod.rs` | a connection's identity, transaction, rate limiter | every request |
| lockout, maintenance, audit, backup | `server/src/runtime_state.rs`, `audit.rs`, `backup.rs` | failed logins, maintenance flag and sentinel, hash chain, backup files | logins, operators, every audited command |
| wire protocol, client, peer pool | `transport`, `client`, `server/src/server/replication_client.rs` | connections, negotiated limits, workers and their queues | requests, answers, retries, timeouts |
| language, cryptography, TLS, configuration, benchmark | `command`, `bench`, and others | none that the others depend on | |

How they interact. A client write on the leader goes to the write coordinator,
which has the engine worker append it to the local WAL, publishes the new end of
the log to the replication state, and then drives fan-outs of append requests
until the commit index covers the write or its deadline passes; on a deadline the
log is truncated to the commit index. Followers take entries from the append
handler and, at the same time, from their own polling loop; both move their
commit index, and so do heartbeats. Elections compare the last log term and
index of the engine, and the term and vote survive in a state file. The commit
index and the read index live in memory only.

Inside a server, every connection is a task; it passes rate limit,
authentication, maintenance, role and authorization checks, may wait for a lock
or the engine between any two of them, writes its answer and then its audit
event. Replication calls go through a pool with one worker and one connection
for each peer, and are tried again in two layers.

What makes it hard: every request may be lost, delayed or answered after the
sender has moved on; heartbeats do not take the lock appends take; a restart
forgets the commit index; the WAL cache the leader replicates from is pruned by
snapshots; role checks and the steps they guard are separate.

What has to be right: a term has one leader, a vote is given once, an
acknowledged write is never lost and is what it was, logs that agree at a point
agree before it, a commit index never moves back nor past the log, the leader's
progress table says what followers hold, reads on a leader show committed data.
`PROJECT.json` lists the main hazards with the line where they bite.

## Modules

`Election` — terms, votes, claims. One variable per field of the replication
state that elections use (`role`, `currentTerm`, `votedFor`, `leaderNode`,
`members`, the running `round` with its granted votes), and `voteRequests`, `voteReplies`,
`claims` for messages on the wire. The last log position of a node is an
abstract pair that any step may move (`LogMoves`), because Election must hold
whatever the log does. The actions are the handlers: starting an election, the
vote handler, counting a reply, accepting a leader (heartbeat or append),
observing a higher term, promotion by hand (its two role checks are two
actions), adding and removing a member, crash and restart. Clocks are
left out: any timeout may fire, and the voter's lease check is a free Boolean of
the vote handler. `ElectionSpec` has all of it; `GroupSpec` leaves out what
operators do, promotions and edits of the member list.

`Cluster` — EXTENDS `Election` and gives the log its meaning: the log of every
engine with its snapshot point and pruned prefix, commit index, read index
(`served`), match and next index, the task that holds the apply lock (`task`),
its fan-out (`fan`), the round of pre-votes (`probe`), the polling loop (`pull`),
late requests and heartbeats on the wire, and the set of acknowledged writes.
Every critical section of the code is one action; whatever the code does after
releasing a lock or awaiting a call is another: a pre-vote is asked of one peer at
a time, and an append is handled at the follower (`Deliver`) before its answer is
looked at (`Answered`). A request may outlive its caller in two ways. A late one
waits in the queue of the peer's worker, which sends it before what comes after
it; a repeated one, which a broken connection leaves behind, comes in any order. `ElectionSpec` is checked as a property of
`Cluster`: elections that run with the real log are steps of the abstract ones.

`Storage` — the engine of one node and its files. Memory is `mem` (state),
`cache` (`wal_entries`) and `writer` (`WalWriter`); the disk is `wal` (segments
with their names and records), `snapshot` and `manifest`. A call that touches
several files is a chain of actions, one per file operation, with the call in
progress in `op`: appends with rotation, `snapshot` with sealing and pruning,
`apply_replication_snapshot`, `replace_replication_suffix`. `Fail` is an I/O error
of any of them, `Crash` stops the process between any two, `Recover` and
`RecoveryFails` are `from_paths_with_options`. `history` remembers what was
confirmed to callers and `pending` what a call cut by a crash or an error may leave
instead (a failed append may reappear after a restart); both only observe. A value is the identity of the entry that set it and the
number of increments since, so that replaying an entry twice shows. With
`VAYLIX_WAL_SYNC=sync` a crash may take every record `sync_data` has not covered;
in the other modes only the process stops. Renames and removals are taken as
durable. `restore_to_point` reads the files of a stopped engine and is a pair of
operators.

`DurableStore` — what storage promises, without files: a log, the state it stands
for, and calls that happen at once or not at all. `StoreSpec` in `Storage` is this
specification under the mapping `shown <- mem`, `log <- history`,
`maybe <- pending`, `status <- phase`.

`KeyStore`, `Commands`, `Engine` — the key space. `KeyStore` has the store and what
a WAL operation does to it, with saturating times and checked integers of a small
width; `Commands` every data command on its two paths (`Evaluate` for batches and
transactions, `Direct` for single commands); `Engine` runs them as the engine worker
does, batchable writes always in batches and the others directly, with a clock,
failing appends, snapshots, restarts, backups, and the copies that follow the log:
recovery, read index, follower. A snapshot prunes any part of the log, and a
restart applies every retained entry to it, those it covers as well.

`WritePath` — one server process from the inside: client tasks, the engine's
thread and bounded queue, the write coordinator's window, the apply lock, the
read index, EXEC and RESTORE, lost and regained roles, appends of another leader.
Other nodes are free: followers acknowledge when they like. `abroad` has the
entries this node may have sent to them; the append of a later leader brings its
own entry, one of those, or both. A writer whose deadline has passed starts its
rollback in one step and reads the commit index in another.

`Auth`, `Patterns`, `Policy`, `Lockouts`, `Audit`, `Sessions` — the server's front.
`Auth` is the user store in memory and on disk, changed first and saved
afterwards. `Patterns` has the engine's globs and the grants' patterns, `Policy` the
tables of `authorization.rs` and `validation.rs`, `Lockouts` and `Audit` the data of
their files. `Sessions` EXTENDS them: each connection goes through the phases of
`handle_client`, sharing store, maintenance switch, lockouts, audit log and backups.

`Wire`, `Messages`, `Link` — the protocol. A body is a sequence of cells, numbers
are digits to a small base so that widths, cuts and largest lengths exist. What
one end writes and the other reads are separate tables. `Link` has connections,
the command line client, and the peer pool with its retries.

`MC...` — instances for TLC. Their configurations choose a set of settings,
scenes or workloads, each with its own bounds; the initial state picks one.

`ElectionProofs`, `AuthProofs` — TLAPS proofs about `Election` and `Auth`.

## Model checking

| run | instance | checks |
|---|---|---|
| `MCElection` | 3 voters, 2 terms, 1 crash, symmetric | one leader in a term, and `ElectionInv`, the inductive invariant of the proofs |
| `MCCluster` | 3 nodes, 2 terms, a write with a late append or a heartbeat | acknowledged writes survive the handover and sit on a quorum, commit index within the log, match indexes are real, leader reads, refinement of `ElectionSpec` |
| `MCClusterFaults` | 3 nodes, 1 term, six settings | acknowledged writes, committed entries and matching logs when a poll, a timed out write, pruning, a late or a repeated append, or a repeated one with a heartbeat interfere |
| `MCClusterRestarts` | 2 nodes, 3 terms, 1 crash, 1 promotion, 2 membership edits | who stands or leads holds its own vote, commit index monotone but for the crash, refinement of `ElectionSpec` |
| `MCStorage` | two keys, segments of two records, seven setups | memory is what was confirmed, after recovery too; the cache is the log; recovery refuses only after an interrupted call; refinement of `DurableStore` |
| `MCEngine` | two keys, integers -1..2, times to 6, five workloads | a restart rebuilds memory, both paths of a command agree, read index and follower agree with the engine, failed batches are undone |
| `MCWritePath` | three clients, batches of two, six scenes | acknowledged writes stay and are visible, the index is committed, a failed write is not run later and comes back only from the group, everyone is answered |
| `MCServer` | two connections, two users, twenty-two scenes | what is applied was allowed, scans stay within grants, transactions run whole, an administrator remains, failed logins are bounded, the audit chain verifies, the sentinel is what the flag says, only GETEX writes in maintenance mode |
| `MCLink` | every command and answer, limits on both ends, one or two calls through the pool | frames fit, commands arrive, a call gets its own answer and returns |
| `MCClusterLostByRollback` | violation of `AckedWritesKept` | a new leader's rollback removes a write its predecessor acknowledged |
| `MCServerMaintenance` | violation of `MaintenanceQuiet` | a GETEX that sets an expiration writes in maintenance mode, which the documents call read-only |
| `MCStorageCounted` | violation of `MemoryIsHistory` | an increment covered by a snapshot is replayed on top of it |

The modules state more properties than the runs list. On the same instances these
hold as well, and a configuration checks them when they are added to it: the
type invariants; `TermWonOnce`, `VotesRemembered` and `TermsNeverRegress` (`MCElection`);
`LogMatching` and `CommitNeverRegresses` (`MCCluster`); `CommitNeverRegresses`
(`MCClusterFaults`); `TermsNeverRegress` (`MCClusterRestarts`); `RestorePoints`;
`ScanListsAll`, `RestoreIsDump`; `TailBounded`; `RolesExist`, `SemanticAudited`,
`BackupVerifies`, `PromotedOnlyInRace`; `PayloadsUnambiguous`, `AnswersReadable`,
`DeliveriesBounded`, `WorkersEnd`. `MCElection` with `ElectionSpec` and two membership
edits, without the crash, keeps `OneLeaderPerTerm` in 2.5 million states.

Bounds. Two terms are the least in which a handover happens, three the least in
which a candidate meets an older and a newer one. Three nodes are the least with
a majority that is not everyone; two are used where crashes and edits multiply
the states. A log of three entries holds the no-op of each leader and a write
between them. Faults come one kind at a time: combinations beyond the listed
settings, three terms with three nodes and a log, and message loss across two
terms in a three-node group are not covered by a passing run. `InTurn` gives each
term of `Cluster` its own candidate. In `MCStorage` three batches fill two segments
and begin a third, two snapshots prune what the first sealed, and two crashes
allow one during the work after a recovery. `MCEngine` has integers and times small
enough to overflow and saturate. In `MCWritePath` two requests fill the queue and a
batch, and the third waits. Each scene of `MCServer` is about one shared thing,
with just the requests that contend for it; the limits of failed logins go up to
three, the first at which a window admits more failures than its limit, and the
grants have a question mark, a star at the end and one at both ends. `MCLink` writes numbers to the base 4,
so a short text is already too long for its length field. `CHECK_DEADLOCK FALSE`
stands where scripts and bounds end every behaviour.

Fairness. `WritePath` assumes weak fairness of the engine's thread, the
coordinator, the append handler, the election task and each client's task: a
thread with a request takes it, tokio polls a task that can go on, its mutex is
first come first served, and deadlines pass. Nothing is assumed of clients that
have not called, of followers, of failures or of snapshots. `Link` assumes that
some task moves as long as one can, and nothing of faults and timeouts.
`EveryCallReturns` therefore says nothing of a peer that accepts and stays silent:
connections answer, fail or close in the model, and the worker has no timeout. The
other specifications state no fairness and are checked for safety only.

### Where a property stops holding

Several properties are checked only where they hold. Each failure below was
found with these modules and a configuration that differs only in its bounds and
settings; the hazards in `PROJECT.json` give the lines of most.

* `AckedWritesKept` fails in two terms with a repeated append (one that waits in
  its worker's queue does no harm), with a lost append and a snapshot, or with one
  poll; `AckedOnQuorum` with batches of one entry.
* `CommittedAgree` fails in two terms when a heartbeat meets a divergent entry,
  `LogMatching` when the polling loop does.
* `CommitWithinApplied` fails when a pruned leader sends an empty append;
  `MatchIsHeld` fails after a rollback, and in mode `all` a write is then
  acknowledged that not every voter has.
* `LeaderReadsCommitted` fails when a node restarts and is elected again.
* `OneLeaderPerTerm` fails with a promotion by hand and three terms.
* `MemoryIsHistory` fails for increments under a snapshot (`MCStorageCounted`), for
  a crash inside `replace_replication_suffix`, when a snapshot prunes after a failed
  append, and when the first snapshot ever installed is cut before its manifest.
  After an I/O error `CacheIsWal`, `RefusedOnlyAfterCut` and `RestorePoints` claim
  nothing.
* An acknowledged write is lost on a standalone node with `write_ack_mode` replica,
  the default, three concurrent SETs and no fault: a late writer sets the commit
  index back, and another rolls the log back to it. `AckedKeptUnlessSpoiled` leaves
  the case out.
* A write reported as failed may return: its entry went to followers before the
  deadline, and one of them, elected, sends it back. `FailedNotRunLater` says
  that nothing else brings it back.
* A grant is read by three rules. `ScansWithinGrants` compares what `pattern_covers`
  lets a session scan with the grant as a glob, and holds. `allows_key`, which
  decides on single keys, has no question mark and reads one star only: with a
  grant on `a?` a session lists `ab` but may not read it, and `a*b*` admits other keys
  than the glob does. `LLM.md:268` calls patterns "glob-like over keys".
* `MaintenanceQuiet` fails for GETEX (`MCServerMaintenance`); `OnlyGetExWrites` is
  what holds.
* In `Engine` and `WritePath` the variable `spoiled` names the cases an invariant
  leaves out: a counter under a snapshot that a restart counts again, a counter
  revived from an expired value, a CLEAR inside a failed batch, a follower that purged too early; a commit index set back, a rollback
  that raced with a commit, RESTORE FROM without the lock.
* `Sessions` remembers in `seen` the cases left out there: two MAINTENANCE commands
  at once, two BACKUP TO the same files at once, a torn audit line.

## Proofs

`ElectionProofs`, for every set of nodes and all bounds:

* `TypeCorrect`, `TermsMonotone`: types, and no step moves a node to an earlier
  term, crashes, edits and promotions included.
* `StandingHoldsVote`: who stands or leads holds its own vote, with any promotions,
  edits and restarts, if no node starts as a configured leader (`Seed = {}`). It is
  inductive with the types; one lemma says what becoming a follower, another what
  standing does to role and vote.
* `ElectionInvariant`, and its consequences `OneLeader` and `VotesAreRemembered`,
  when the member list is not edited and nobody is promoted (`StaticGroup`).
  `OneLeaderPerTerm` is not inductive; `ElectionInv` adds that a vote on the wire
  or in a round was given in that term, that a node gave one vote in a term, that
  whoever claims a term has won it with a quorum, and that quorums intersect,
  which is proved from the cardinality theorems of the library.

`AuthProofs`, for any users, roles, permissions and patterns:

* `AuthSound`: `AuthInv`, that memory and file, where there is one, are well typed,
  have an administrator and only roles that exist. The three are inductive
  together: dropping a role is safe because admin is protected, revoking one
  because the last administrator is counted over well typed users.
* `AdminAlwaysRemains` and `RolesAlwaysExist` follow from it.

The theorems are about `ElectionSpec` and `AuthSpec`. That the replicated log takes
only steps of `ElectionSpec` is checked by TLC in two runs. `Sessions` uses the
mutations of `Auth` with connections around them and `AdminRemains` is
checked there; that it implements `AuthSpec` is not checked.

Model-checked only: everything about the other modules, both refinements, and
elections during edits and promotions beyond what is named above. Liveness is
outside the prover's reach and stays with TLC.

## Not modelled

The command grammar turns text into commands without state. Cryptography, key
rotation, TLS, checksums and password hashing are comparisons at most: a damaged
frame or record is recognised. Migration of the legacy log, inspection of files,
restore points by time, configuration, metrics, health checks, the accept loop's
connection limit, graceful shutdown and the benchmark are left out, and so are
path checks of backups, failed writes of the replication state file, paused
followers and non-voting members. Renames and removals are taken as durable.
Whether a lagging follower eventually catches up and a stable leader commits is
not checked: `Cluster` ends at its bounds.
