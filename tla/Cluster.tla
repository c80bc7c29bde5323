------------------------------- MODULE Cluster -------------------------------
(* The replicated log of one group: election with its pre-vote, the no-op of  *)
(* a new leader, client writes and their rollback, append fan-out, snapshot   *)
(* installation, liveness heartbeats, the polling loop of followers, the      *)
(* committed read index, restarts.                                            *)
(*                                                                            *)
(* Every handler of replicated state runs under replication_apply_lock; task  *)
(* says who holds it at each node.  The liveness heartbeats, the polling loop *)
(* and the acknowledgements it sends do not take the lock.                    *)
EXTENDS Election, Sequences, FiniteSetsExt

CONSTANTS Settings,  \* what a behaviour may be configured with, and its bounds
          Stands     \* bound: in which term whose election timer runs out

(* The bounds: how many client writes, failed writes, fan-outs of an idle     *)
(* leader, lost requests or answers, requests that outlive their caller,      *)
(* requests repeated on another connection, liveness heartbeats, polls of a   *)
(* leader and snapshots a behaviour may have.                                 *)
Bounded == {"writes", "failures", "rounds", "lost", "late", "repeats", "beats",
            "pulls", "snapshots"}

ASSUME ClusterAssumption ==
  /\ Node \subseteq Nat
  /\ Settings \subseteq [mode : {"local", "replica", "all"},
                          batch : Nat \ {0}, left : [Bounded -> Nat]]
  /\ Stands \subseteq Node \X Nat
  /\ MaxLogTerm >= MaxTerm

VARIABLES
  log,       \* the engine's entries: snapshot, then retained WAL
  snap,      \* sequence of the newest snapshot
  pruned,    \* entries up to here are no longer in the WAL cache
  commit,    \* ReplicationState.commit_sequence
  target,    \* ReplicationState.leader_target_sequence
  phase,     \* ReplicationState.follower_phase
  match,     \* FollowerProgress.match_index (0 when absent)
  next,      \* FollowerProgress.next_sequence (1 when absent)
  probe,     \* locals of run_election_round before begin_election
  task,      \* the holder of replication_apply_lock and its locals
  fan,       \* the append fan-out in progress: requests and answers of peers
  noopTerm,  \* the term won whose no-op is still to be appended (0: none)
  pull,      \* locals of run_replication_round_from
  late,      \* requests in the network for whose answer nobody waits
  beats,     \* liveness heartbeats sent
  served,    \* CommittedReadIndex: its sequence and the entries behind it
  acked,     \* writes acknowledged to clients
  mode,      \* write_ack_mode: "local", "replica" or "all"
  batch,     \* fetch_batch_size
  left       \* how much of each bound is left

engineVars == <<log, snap, pruned>>
runtimeVars == <<commit, target, phase, match, next>>
taskVars == <<probe, task, fan, noopTerm, pull>>
wireVars == <<late, beats>>
clientVars == <<served, acked>>
settingVars == <<mode, batch, left>>
clusterVars == <<engineVars, runtimeVars, taskVars, wireVars, clientVars,
                 settingVars>>
vars == <<electionVars, clusterVars>>

(* Value 0 is the no-op; a write carries its number.                          *)
Entry == [term : Term, val : Nat]

(* No entry of a log has term 0.                                              *)
NoEntry == [term |-> 0, val |-> 0]

(* "ready" stands for the phases in which election_due lets a follower stand:  *)
(* none, bootstrap, streaming and stale.                                      *)
Phase == {"ready", "catching_up"}

IdleTask == [kind |-> "idle", seq |-> 0, term |-> 0]
IdleFan == [out |-> <<>>, seq |-> 0, term |-> 0]
IdleProbe == [stage |-> "idle"]
IdlePull == [stage |-> "idle"]

NoProgress(k) == [m \in Node |-> k]

(* One of each of the bounds in kinds is used up; the settings stay.          *)
Spend(kinds) ==
  /\ \A k \in kinds : left[k] > 0
  /\ left' = [k \in Bounded |-> IF k \in kinds THEN left[k] - 1 ELSE left[k]]
  /\ UNCHANGED <<mode, batch>>

-----------------------------------------------------------------------------
(* The engine's log                                                           *)

(* wal_entry_term and wal_entry_checksum look only into the WAL cache.        *)
CachedEntry(l, cut, i) == IF i > cut /\ i <= Len(l) THEN l[i] ELSE NoEntry

(* last_applied_state.                                                        *)
Position(l, cut) ==
  [term |-> CachedEntry(l, cut, Len(l)).term, index |-> Len(l)]

(* wal_entries_since: where the cached entries after a sequence begin, and    *)
(* the entries, at most limit of them.                                        *)
FirstSince(n, after) == Max({after, pruned[n]}) + 1

EntriesSince(n, after, limit) ==
  LET first == FirstSince(n, after)
  IN SubSeq(log[n], first, Min({Len(log[n]), first + limit - 1}))

(* How many voters must hold an entry.                                        *)
VotersNeeded(n) == IF mode = "all" THEN Cardinality(members[n])
                   ELSE QuorumSize(Cardinality(members[n]))

(* Mutant: the leader commits what it holds itself.                           *)
LeaderCommitAlone(n, index, row) == Max({commit[n], index})

(* recompute_commit_sequence at a leader whose log ends at index, for the     *)
(* match indexes row.                                                         *)
LeaderCommit(n, index, row) ==
  LET reached(i) == {m \in members[n] : (IF m = n THEN index ELSE row[m]) >= i}
      covered == {i \in 1..index : \/ mode = "local"
                                   \/ /\ members[n] # {}
                                      /\ Cardinality(reached(i)) >= VotersNeeded(n)}
  IN Max({commit[n]} \union covered)

(* set_local_last_applied_state: a leader recomputes its commit index.        *)
PublishLog(n, l, cut) ==
  /\ lastLog' = [lastLog EXCEPT ![n] = Position(l, cut)]
  /\ commit' = [commit EXCEPT ![n] =
       IF role[n] = "leader" THEN LeaderCommit(n, Len(l), match[n]) ELSE @]

(* advance_read_index_to: whole batches of cached entries are applied until   *)
(* the target is covered, entries beyond the target included.                 *)
AdvanceReads(index, l, cut, goal) ==
  LET base == Max({index.seq, cut})
      batches == Max({1, (goal - base + batch - 1) \div batch})
      last == Min({Len(l), base + batches * batch})
  IN IF index.seq >= goal \/ last <= base THEN index
     ELSE [seq |-> last, entries |-> index.entries \o SubSeq(l, base + 1, last)]

-----------------------------------------------------------------------------
Init ==
  /\ ElectionInit
  /\ log = [n \in Node |-> <<>>]
  /\ snap = [n \in Node |-> 0]
  /\ pruned = [n \in Node |-> 0]
  /\ commit = [n \in Node |-> 0]
  /\ target = [n \in Node |-> 0]
  /\ phase = [n \in Node |-> "ready"]
  /\ match = [n \in Node |-> NoProgress(0)]
  /\ next = [n \in Node |-> NoProgress(1)]
  /\ probe = [n \in Node |-> IdleProbe]
  /\ task = [n \in Node |-> IdleTask]
  /\ fan = [n \in Node |-> IdleFan]
  /\ noopTerm = [n \in Node |-> 0]
  /\ pull = [n \in Node |-> IdlePull]
  /\ late = {}
  /\ beats = {}
  /\ served = [n \in Node |-> [seq |-> 0, entries |-> <<>>]]
  /\ acked = {}
  /\ \E x \in Settings : mode = x.mode /\ batch = x.batch /\ left = x.left

-----------------------------------------------------------------------------
(* run_election_round, step by step                                           *)

(* The consensus loop runs one thing at a time: a heartbeat round, a fan-out, *)
(* or an election with its no-op.                                             *)
LoopIdle(n) == /\ probe[n] = IdleProbe
               /\ round[n] = IdleRound
               /\ noopTerm[n] = 0
               /\ task[n].kind \notin {"noop", "beat"}

(* election_due: the timers may have run out; the phase and the leader's       *)
(* frontier decide.                                                           *)
Due(n) == /\ <<n, currentTerm[n] + 1>> \in Stands
          /\ ElectionDue(n)
          /\ \/ role[n] = "candidate"
             \/ phase[n] = "ready"
          /\ lastLog[n].index >= target[n]
          /\ currentTerm[n] < MaxTerm

Peers(n) == members[n] \ {n}

(* followers.clear(), and leader_target_sequence = 0 where the code says so.   *)
ForgetFollowers(n) ==
  /\ match' = [match EXCEPT ![n] = NoProgress(0)]
  /\ next' = [next EXCEPT ![n] = NoProgress(1)]

ForgetGroup(n) == ForgetFollowers(n) /\ target' = [target EXCEPT ![n] = 0]

(* election_due holds and election_probe reads the next term, the members and *)
(* the end of the log.                                                        *)
StartProbe(n) ==
  /\ LoopIdle(n)
  /\ Due(n)
  /\ probe' = [probe EXCEPT ![n] =
       [stage |-> "asking", term |-> currentTerm[n] + 1, log |-> lastLog[n],
        voters |-> members[n], granted |-> {n}]]
  /\ UNCHANGED <<electionVars, engineVars, runtimeVars, task, fan, noopTerm,
                 pull, wireVars, clientVars, settingVars>>

(* The pre-vote branch of handle_vote_request at m, for the probe p of n.      *)
PreVoteGranted(m, n, p, recent) ==
  LET equalLogs == p.log = lastLog[m]
      standing == role[m] = "candidate" /\ votedFor[m] = m
  IN /\ task[m] = IdleTask
     /\ n \in members[m]
     /\ p.term >= currentTerm[m]
     /\ UpToDate(p.log, lastLog[m])
     /\ ~(role[m] = "leader" /\ leaderNode[m] # n)
     /\ standing /\ currentTerm[m] >= p.term
        => currentTerm[m] = p.term /\ (equalLogs => n > m)
     /\ ~(p.term > 1 /\ equalLogs /\ n < m)
     /\ ~(recent /\ LeaseMayRun(leaderNode[m], n))

(* A peer grants its pre-vote, which changes nothing at the peer.  One that is *)
(* refused or lost changes nothing at all, and once there are enough the      *)
(* others do not matter.                                                      *)
PreVote(n, m, recent) ==
  LET p == probe[n]
      granted == p.granted \union {m}
  IN /\ p.stage = "asking"
     /\ m \in p.voters \ p.granted
     /\ PreVoteGranted(m, n, p, recent)
     /\ probe' = [probe EXCEPT ![n] =
          IF HasQuorum(granted, p.voters) THEN [stage |-> "won"]
          ELSE [p EXCEPT !.granted = granted]]
     /\ UNCHANGED <<electionVars, engineVars, runtimeVars, task, fan, noopTerm,
                    pull, wireVars, clientVars, settingVars>>

(* The pre-vote is lost, or election_due no longer holds after it.            *)
EndProbe(n) ==
  /\ probe[n].stage = "asking" \/ (probe[n].stage = "won" /\ ~Due(n))
  /\ probe' = [probe EXCEPT ![n] = IdleProbe]
  /\ UNCHANGED <<electionVars, engineVars, runtimeVars, task, fan, noopTerm,
                 pull, wireVars, clientVars, settingVars>>

(* The pre-vote is won; election_due is asked again before begin_election,    *)
(* which reads the term, the members and the log afresh.                      *)
Escalate(n) ==
  /\ probe[n].stage = "won"
  /\ Due(n)
  /\ probe' = [probe EXCEPT ![n] = IdleProbe]
  /\ BeginElection(n)
  /\ ForgetGroup(n)
  /\ UNCHANGED <<engineVars, commit, phase, task, fan, noopTerm, pull, wireVars,
                 clientVars, settingVars>>

(* A voter answers while the candidate waits for it; requests that arrive      *)
(* later are the subject of module Election.                                  *)
VoteArrives(m, q, recent) ==
  /\ round[q.cand].term = q.term
  /\ m \in round[q.cand].peers \ round[q.cand].granted
  /\ task[m] = IdleTask
  /\ HandleVoteRequest(m, q, recent)
  /\ IF currentTerm'[m] > currentTerm[m] THEN ForgetFollowers(m)
     ELSE UNCHANGED <<match, next>>
  /\ UNCHANGED <<engineVars, commit, target, phase, taskVars, wireVars,
                 clientVars, settingVars>>

VoteCounted(n, r) ==
  /\ CountVote(n, r)
  /\ IF currentTerm'[n] > currentTerm[n] THEN ForgetGroup(n)
     ELSE UNCHANGED <<match, next, target>>
  /\ UNCHANGED <<engineVars, commit, phase, taskVars, wireVars, clientVars,
                 settingVars>>

EndRound(n) ==
  /\ FinalizeElection(n)
  /\ IF role'[n] = "leader" /\ role[n] # "leader"
     THEN ForgetGroup(n) /\ noopTerm' = [noopTerm EXCEPT ![n] = round[n].term]
     ELSE UNCHANGED <<match, next, target, noopTerm>>
  /\ UNCHANGED <<engineVars, commit, phase, task, fan, probe, pull, wireVars,
                 clientVars, settingVars>>

(* append_noop, once the apply lock is free and if the node still leads.      *)
AppendNoop(n) ==
  LET l == Append(log[n], [term |-> noopTerm[n], val |-> 0])
  IN /\ noopTerm[n] # 0
     /\ task[n] = IdleTask
     /\ noopTerm' = [noopTerm EXCEPT ![n] = 0]
     /\ IF role[n] = "leader" /\ currentTerm[n] = noopTerm[n]
        THEN /\ Len(l) <= MaxIndex
             /\ log' = [log EXCEPT ![n] = l]
             /\ PublishLog(n, l, pruned[n])
             /\ task' = [task EXCEPT ![n] = [kind |-> "noop", seq |-> Len(l),
                                             term |-> noopTerm[n]]]
        ELSE UNCHANGED <<log, lastLog, commit, task>>
     /\ UNCHANGED <<role, currentTerm, votedFor, leaderNode, members, round,
                    netVars, elections, promoting, countVars, snap, pruned,
                    target, phase, match, next, fan, probe, pull, wireVars,
                    clientVars, settingVars>>

(* The catch-up loop ends: committed, deposed or out of time.                 *)
NoopDone(n) ==
  /\ task[n].kind = "noop"
  /\ fan[n] = IdleFan
  /\ task' = [task EXCEPT ![n] = IdleTask]
  /\ UNCHANGED <<electionVars, engineVars, runtimeVars, fan, probe, noopTerm,
                 pull, wireVars, clientVars, settingVars>>

-----------------------------------------------------------------------------
(* Append fan-out: send_cluster_appends_locked                                *)

ClaimOf(n, msg) == [term |-> msg.term, leader |-> n, members |-> msg.members]

(* The request planned for peer m: entries after next - 1, or the whole state *)
(* when the entry before them has left the WAL cache.                         *)
RequestFor(n, m) ==
  LET prev == next[n][m] - 1
      prevEntry == CachedEntry(log[n], pruned[n], prev)
      snapshot == prev # 0 /\ prevEntry = NoEntry
  IN [kind |-> IF snapshot THEN "snapshot" ELSE "append",
      term |-> currentTerm[n],
      members |-> members[n],
      commit |-> commit'[n],
      frontier |-> Max({Len(log[n]), commit'[n]}),
      prev |-> IF snapshot THEN 0 ELSE prev,
      prevEntry |-> prevEntry,
      first |-> IF snapshot THEN 1 ELSE FirstSince(n, prev),
      entries |-> IF snapshot THEN log[n] ELSE EntriesSince(n, prev, batch)]

(* Mutant: the role is not looked at.                                         *)
LeadsUnchecked(n) == TRUE

(* What ReplicationRuntime::role says before a leader acts as one.            *)
Leads(n) == role[n] = "leader"

(* A task that holds the lock fans out until its entry is committed; an idle  *)
(* leader does so now and then.                                               *)
StartFan(n) ==
  /\ fan[n] = IdleFan
  /\ Leads(n)
  /\ \/ /\ task[n].kind \in {"noop", "commit"}
        /\ commit[n] < task[n].seq \/ mode = "local"
        /\ Spend({})
        /\ UNCHANGED task
     \/ /\ task[n] = IdleTask
        /\ LoopIdle(n)
        /\ Spend({"rounds"})
        /\ task' = [task EXCEPT ![n].kind = "beat"]
  /\ PublishLog(n, log[n], pruned[n])
  /\ claims' = claims \union {[term |-> currentTerm[n], leader |-> n,
                               members |-> members[n]]}
  /\ fan' = [fan EXCEPT ![n] = [out |-> [m \in Peers(n) |-> RequestFor(n, m)],
                                seq |-> Len(log[n]), term |-> currentTerm[n]]]
  /\ UNCHANGED <<role, currentTerm, votedFor, leaderNode, members, round,
                 voteRequests, voteReplies, elections, promoting, countVars,
                 engineVars, target, phase, match, next, probe, noopTerm, pull,
                 wireVars, clientVars>>

(* The peers of a fan-out that are still to answer once m is done.            *)
OutWithout(n, m) == [p \in DOMAIN fan[n].out \ {m} |-> fan[n].out[p]]

(* The fan-out goes on with the requests out, or ends.                        *)
FanGoesOn(n, out, done) ==
  /\ fan' = [fan EXCEPT ![n] = IF done THEN IdleFan ELSE [@ EXCEPT !.out = out]]
  /\ task' = [task EXCEPT ![n] = IF done /\ @.kind = "beat" THEN IdleTask
                                 ELSE @]

(* The peers whose request is on its way or waits in the queue of the peer's  *)
(* worker.                                                                    *)
Unheard(n) == {m \in DOMAIN fan[n].out : fan[n].out[m].kind # "answer"}

(* One of the requests to peers may be handled after its sender has given up  *)
(* or gone on.  The worker of the peer still sends it, ahead of the requests  *)
(* that come after it in its queue; what a broken connection leaves behind,   *)
(* or a snapshot on its own connection, comes in any order.                   *)
MayComeLate(n, peers, how, spent) ==
  \/ Spend(spent) /\ UNCHANGED late
  \/ /\ Spend(spent \union {how})
     /\ \E m \in peers :
          late' = late \union
            {[from |-> n, to |-> m, msg |-> fan[n].out[m],
              queued |-> how = "late" /\ fan[n].out[m].kind = "append"]}

(* The worker of m is not busy with an earlier request of n.                  *)
InOrder(n, m) ==
  \A x \in late : ~(x.queued /\ x.from = n /\ x.to = m)

(* Peer m has not answered by the deadline.                                   *)
GiveUpPeer(n, m) ==
  LET out == OutWithout(n, m)
  IN /\ m \in Unheard(n)
     /\ FanGoesOn(n, out, out = <<>>)
     /\ MayComeLate(n, {m}, "late", {"lost"})
     /\ UNCHANGED <<electionVars, engineVars, runtimeVars, probe, noopTerm, pull,
                    beats, clientVars>>

(* Mutant: the replacement need not meet the prefix.                          *)
ReplaceableWithGap(m, prefix, rest, first) ==
  snap[m] <= prefix /\ prefix <= Len(log[m])

(* replace_replication_suffix fails when the prefix ends before the newest    *)
(* snapshot, or after the log, or does not meet the replacement.              *)
Replaceable(m, prefix, rest, first) ==
  /\ snap[m] <= prefix
  /\ prefix <= Len(log[m])
  /\ rest = <<>> \/ first = prefix + 1

(* Mutant: only the term of the predecessor is compared, not its checksum.    *)
PrevTermMatches(m, msg) ==
  CachedEntry(log[m], pruned[m], msg.prev).term = msg.prevEntry.term

(* The entry before the sent ones is the same here as at the leader.          *)
PrevMatches(m, msg) == CachedEntry(log[m], pruned[m], msg.prev) = msg.prevEntry

(* Mutant: entries that are already present are taken to be the same.         *)
NoClash(m, msg, i) == FALSE

(* Entry i of the request differs from the one at m.                          *)
Clash(m, msg, i) ==
  CachedEntry(log[m], pruned[m], i) # msg.entries[i - msg.first + 1]

(* What the append handler does to the log of m: the entries it shares with    *)
(* the request are kept, everything after them is replaced.                   *)
AppendToLog(m, msg) ==
  LET current == Len(log[m])
      last == msg.first + Len(msg.entries) - 1
      clashes == {i \in msg.first..Min({current, last}) : Clash(m, msg, i)}
      keep == IF clashes # {} THEN Min(clashes) - 1
              ELSE IF msg.entries = <<>> \/ msg.first > current THEN msg.prev
              ELSE Min({current, last})
      first == Max({msg.first, keep + 1})
      rest == SubSeq(msg.entries, first - msg.first + 1, Len(msg.entries))
      extends == /\ clashes = {}
                 /\ \/ rest = <<>> /\ current <= keep
                    \/ rest # <<>> /\ first = current + 1
      prefix == IF extends THEN current ELSE keep
  IN [result |-> IF ~PrevMatches(m, msg) THEN "reject"
                 ELSE IF extends \/ Replaceable(m, keep, rest, first)
                 THEN "accept"
                 ELSE "error",
      log |-> SubSeq(log[m], 1, prefix) \o rest]

(* Mutant: the leader's commit index is taken as it is.                       *)
FollowCommitUnbounded(m, c, index) == Max({commit[m], c})

(* Mutant: the follower's own commit index is forgotten.                      *)
FollowCommitAfresh(m, c, index) == Min({c, index})

(* What a follower does with the leader's commit index and frontier           *)
(* (handle_heartbeat, observe_leader_status, note_leader_frontier).           *)
FollowCommit(m, c, index) == Max({commit[m], Min({c, index})})

FollowTarget(m, frontier) == Max({target[m], frontier})

FollowPhase(m, goal) ==
  IF lastLog[m].index # goal THEN "catching_up" ELSE "ready"

(* What the handlers of ReplicationAppend and ReplicationInstallSnapshot make *)
(* of a request from n that is not of an earlier term.                        *)
AppendOutcome(n, m, msg) ==
  LET a == AppendToLog(m, msg)
      last == Max({msg.commit} \union
                  (IF msg.entries = <<>> THEN {}
                   ELSE {msg.first + Len(msg.entries) - 1}))
      goal == FollowTarget(m, Max({msg.frontier, msg.commit, last}))
      heard == FollowCommit(m, msg.commit, lastLog[m].index)
      accepted == a.result = "accept"
      applied == IF accepted THEN Len(a.log) ELSE Len(log[m])
      committed == Max({heard, Min({msg.commit, applied})})
  IN IF n \notin members[m]
     THEN [result |-> "reject", match |-> lastLog[m].index, log |-> log[m],
           snap |-> snap[m], pruned |-> pruned[m], commit |-> commit[m],
           target |-> target[m], phase |-> phase[m], served |-> served[m]]
     ELSE [result |-> a.result,
           match |-> IF accepted THEN applied
                     ELSE IF msg.prev = 0 THEN 0 ELSE msg.prev - 1,
           log |-> IF accepted THEN a.log ELSE log[m],
           snap |-> snap[m],
           pruned |-> pruned[m],
           commit |-> IF accepted THEN committed ELSE heard,
           target |-> goal,
           phase |-> IF accepted /\ applied >= last THEN "ready"
                     ELSE IF Len(log[m]) < last THEN "catching_up"
                     ELSE FollowPhase(m, goal),
           served |-> IF ~accepted THEN served[m]
                      ELSE AdvanceReads(served[m], a.log, pruned[m],
                                        Min({committed, applied}))]

(* The state is installed even when the heartbeat inside was refused, and it  *)
(* leaves nothing in the WAL cache.                                           *)
SnapshotOutcome(n, m, msg) ==
  LET known == n \in members[m]
      applied == Len(msg.entries)
      heard == IF known THEN FollowCommit(m, msg.commit, lastLog[m].index)
               ELSE commit[m]
      goal == IF known THEN FollowTarget(m, msg.commit) ELSE target[m]
  IN [result |-> "accept",
      match |-> applied,
      log |-> msg.entries,
      snap |-> applied,
      pruned |-> applied,
      commit |-> IF ~known /\ role[m] = "leader"
                 THEN LeaderCommit(m, applied, match[m])
                 ELSE Max({heard, Min({msg.commit, applied})}),
      target |-> goal,
      phase |-> IF known THEN FollowPhase(m, goal) ELSE phase[m],
      served |-> [seq |-> applied, entries |-> msg.entries]]

Outcome(n, m, msg) == IF msg.kind = "append" THEN AppendOutcome(n, m, msg)
                      ELSE SnapshotOutcome(n, m, msg)

(* Everything the request does at m except to commit, match and next.         *)
TakeRequest(n, m, msg, o) ==
  /\ log' = [log EXCEPT ![m] = o.log]
  /\ snap' = [snap EXCEPT ![m] = o.snap]
  /\ pruned' = [pruned EXCEPT ![m] = o.pruned]
  /\ lastLog' = [lastLog EXCEPT ![m] =
       IF o.result = "accept" THEN Position(o.log, o.pruned) ELSE @]
  /\ target' = [target EXCEPT ![m] = o.target]
  /\ phase' = [phase EXCEPT ![m] = o.phase]
  /\ served' = [served EXCEPT ![m] = o.served]
  /\ IF n \in members[m] THEN HandleHeartbeat(m, ClaimOf(n, msg))
     ELSE UNCHANGED <<role, currentTerm, votedFor, leaderNode, members, round,
                      netVars, elections, promoting, countVars>>

(* handle_heartbeat clears the followers of a node that enters a new term.    *)
Enters(n, m, msg) == n \in members[m] /\ msg.term > currentTerm[m]

(* The handler at m, with the lock.  A request of an earlier term changes     *)
(* nothing.                                                                   *)
Handled(n, m, msg) ==
  LET o == Outcome(n, m, msg)
  IN /\ task[m] = IdleTask
     /\ IF msg.term < currentTerm[m]
        THEN UNCHANGED <<electionVars, engineVars, runtimeVars, served>>
        ELSE /\ TakeRequest(n, m, msg, o)
             /\ commit' = [commit EXCEPT ![m] = o.commit]
             /\ IF Enters(n, m, msg) THEN ForgetFollowers(m)
                ELSE UNCHANGED <<match, next>>

(* What it answers.                                                           *)
AnswerTo(n, m, msg) ==
  LET o == Outcome(n, m, msg)
  IN IF msg.term < currentTerm[m]
     THEN [kind |-> "answer", term |-> currentTerm[m], result |-> "reject",
           match |-> 0]
     ELSE [kind |-> "answer", term |-> msg.term, result |-> o.result,
           match |-> o.match]

(* The request for m is handled; the answer may be lost, and an error is not  *)
(* looked at.                                                                 *)
Deliver(n, m, answered) ==
  LET msg == fan[n].out[m]
      a == AnswerTo(n, m, msg)
      out == IF answered /\ a.result # "error" THEN [fan[n].out EXCEPT ![m] = a]
             ELSE OutWithout(n, m)
  IN /\ m \in Unheard(n)
     /\ msg.kind = "append" => InOrder(n, m)
     /\ Handled(n, m, msg)
     /\ FanGoesOn(n, out, out = <<>>)
     /\ MayComeLate(n, {m}, "repeats", IF answered THEN {} ELSE {"lost"})
     /\ UNCHANGED <<probe, noopTerm, pull, beats, acked>>

(* The answer of m goes through record_append_result at n.  In mode replica   *)
(* the fan-out ends as soon as the log is committed, and so do the callers of *)
(* the other requests.                                                        *)
Answered(n, m) ==
  LET a == fan[n].out[m]
      counts == role[n] = "leader" /\ currentTerm[n] = fan[n].term
      row == IF counts /\ a.result = "accept"
             THEN [match[n] EXCEPT ![m] = Max({@, a.match})] ELSE match[n]
      back == Min({Max({next[n][m] - 1, 1}), a.match + 1})
      committed == IF counts THEN LeaderCommit(n, lastLog[n].index, row)
                   ELSE commit[n]
      out == OutWithout(n, m)
      done == out = <<>> \/ (mode = "replica" /\ committed >= fan[n].seq)
  IN /\ m \in DOMAIN fan[n].out \ Unheard(n)
     /\ a.term = fan[n].term
     /\ commit' = [commit EXCEPT ![n] = committed]
     /\ match' = [match EXCEPT ![n] = row]
     /\ next' = [next EXCEPT ![n] =
          IF ~counts THEN @
          ELSE [@ EXCEPT ![m] =
                  IF a.result = "accept" THEN row[m] + 1 ELSE back]]
     /\ FanGoesOn(n, out, done)
     /\ MayComeLate(n, IF done THEN Unheard(n) ELSE {}, "late", {})
     /\ UNCHANGED <<electionVars, engineVars, target, phase, probe, noopTerm,
                    pull, beats, clientVars>>

(* An answer of a later term ends the fan-out.                                *)
AnsweredLaterTerm(n, m) ==
  LET a == fan[n].out[m]
  IN /\ m \in DOMAIN fan[n].out \ Unheard(n)
     /\ a.term > fan[n].term
     /\ IF a.term > currentTerm[n]
        THEN ObserveRemoteTerm(n, m, a.term) /\ ForgetGroup(n)
        ELSE UNCHANGED <<electionVars, match, next, target>>
     /\ FanGoesOn(n, <<>>, TRUE)
     /\ MayComeLate(n, Unheard(n), "late", {})
     /\ UNCHANGED <<engineVars, commit, phase, probe, noopTerm, pull, beats,
                    clientVars>>

(* A late request; its answer reaches nobody.                                 *)
DeliverLate(x) ==
  /\ Handled(x.from, x.to, x.msg)
  /\ late' = late \ {x}
  /\ UNCHANGED <<taskVars, beats, acked, settingVars>>

-----------------------------------------------------------------------------
(* send_cluster_liveness_heartbeats: sent without the apply lock              *)

SendBeat(n) ==
  /\ Leads(n)
  /\ LoopIdle(n)
  /\ Spend({"beats"})
  /\ PublishLog(n, log[n], pruned[n])
  /\ claims' = claims \union {[term |-> currentTerm[n], leader |-> n,
                               members |-> members[n]]}
  /\ beats' = beats \union
       {[term |-> currentTerm[n], leader |-> n, members |-> members[n],
         commit |-> commit'[n], frontier |-> Max({Len(log[n]), commit'[n]})]}
  /\ UNCHANGED <<role, currentTerm, votedFor, leaderNode, members, round,
                 voteRequests, voteReplies, elections, promoting, countVars,
                 engineVars, target, phase, match, next, taskVars, late,
                 clientVars>>

TakeBeat(m, b) ==
  LET goal == FollowTarget(m, Max({b.frontier, b.commit}))
  IN /\ task[m] = IdleTask
     /\ lastLog' = lastLog
     /\ HandleHeartbeat(m, ClaimOf(b.leader, b))
     /\ commit' = [commit EXCEPT ![m] =
                      FollowCommit(m, b.commit, lastLog[m].index)]
     /\ target' = [target EXCEPT ![m] = goal]
     /\ phase' = [phase EXCEPT ![m] = FollowPhase(m, goal)]
     /\ IF b.term > currentTerm[m] THEN ForgetFollowers(m)
        ELSE UNCHANGED <<match, next>>
     /\ UNCHANGED <<engineVars, taskVars, wireVars, clientVars, settingVars>>

(* The answer to a heartbeat of an earlier term reaches the leader, whoever   *)
(* holds its apply lock.                                                      *)
BeatRefused(n, m, t) ==
  /\ \E b \in beats : b.leader = n /\ b.term < t
  /\ LoopIdle(n)
  /\ ObserveRemoteTerm(n, m, t)
  /\ ForgetGroup(n)
  /\ UNCHANGED <<engineVars, commit, phase, taskVars, wireVars, clientVars,
                 settingVars>>

-----------------------------------------------------------------------------
(* A client write: process_batch of the write coordinator, with a batch of one *)

(* The role, write_window_available and the term are read under the apply     *)
(* lock, and the entry is written to the WAL and applied to the engine.       *)
WriteLocal(n) ==
  /\ Spend({"writes"})
  /\ Len(log[n]) < MaxIndex
  /\ task[n] = IdleTask
  /\ Leads(n)
  /\ lastLog[n].index - commit[n] < batch
  /\ log' = [log EXCEPT ![n] =
               Append(@, [term |-> currentTerm[n], val |-> left.writes])]
  /\ task' = [task EXCEPT ![n] = [kind |-> "written", seq |-> Len(log[n]) + 1,
                                  term |-> currentTerm[n]]]
  /\ UNCHANGED <<electionVars, snap, pruned, runtimeVars, fan, probe, noopTerm,
                 pull, wireVars, clientVars>>

(* The leadership is checked again, then the new end of the log is published. *)
PublishWrite(n) ==
  /\ task[n].kind = "written"
  /\ IF role[n] = "leader" /\ currentTerm[n] = task[n].term
     THEN /\ PublishLog(n, log[n], pruned[n])
          /\ task' = [task EXCEPT ![n].kind = "commit"]
          /\ Spend({})
     ELSE /\ Spend({"failures"})
          /\ task' = [task EXCEPT ![n].kind = "failed"]
          /\ UNCHANGED <<lastLog, commit>>
  /\ UNCHANGED <<role, currentTerm, votedFor, leaderNode, members, round,
                 netVars, elections, promoting, countVars, engineVars, target,
                 phase, match, next, fan, probe, noopTerm, pull, wireVars,
                 clientVars>>

(* drive_write_commit succeeds as soon as the commit index covers the entry;  *)
(* the read index is advanced and the client answered.                        *)
AckWrite(n) ==
  LET seq == task[n].seq
  IN /\ task[n].kind = "commit"
     /\ fan[n] = IdleFan
     /\ commit[n] >= seq \/ mode = "local"
     /\ acked' = acked \union {[seq |-> seq, entry |-> log[n][seq]]}
     /\ served' = [served EXCEPT ![n] =
                     AdvanceReads(@, log[n], pruned[n], seq)]
     /\ task' = [task EXCEPT ![n] = IdleTask]
     /\ UNCHANGED <<electionVars, engineVars, runtimeVars, fan, probe, noopTerm,
                    pull, wireVars, settingVars>>

(* drive_write_commit gives up: the node no longer leads, or the deadline has *)
(* passed, whether or not any request of the fan-out reached a peer.          *)
GiveUpWrite(n) ==
  /\ task[n].kind = "commit"
  /\ fan[n] = IdleFan
  /\ commit[n] < task[n].seq
  /\ mode # "local"
  /\ Spend({"failures"})
  /\ task' = [task EXCEPT ![n].kind = "failed"]
  /\ UNCHANGED <<electionVars, engineVars, runtimeVars, fan, probe, noopTerm,
                 pull, wireVars, clientVars>>

(* Mutant: the rollback goes one entry too far.                               *)
RollbackTooFar(n) == IF commit[n] = 0 THEN 0 ELSE commit[n] - 1

(* Where the tail begins that a failed write leaves behind.                   *)
RollbackPoint(n) == commit[n]

(* rollback_uncommitted_tail reads the commit index ...                       *)
ReadRollback(n) ==
  /\ task[n].kind = "failed"
  /\ task' = [task EXCEPT ![n] =
       IF Len(log[n]) <= commit[n] THEN IdleTask
       ELSE [kind |-> "rollback", seq |-> RollbackPoint(n), term |-> 0]]
  /\ UNCHANGED <<electionVars, engineVars, runtimeVars, fan, probe, noopTerm,
                 pull, wireVars, clientVars, settingVars>>

(* ... and truncates the log to it, unless a snapshot has gone further.       *)
Rollback(n) ==
  LET l == SubSeq(log[n], 1, task[n].seq)
  IN /\ task[n].kind = "rollback"
     /\ task' = [task EXCEPT ![n] = IdleTask]
     /\ IF Replaceable(n, task[n].seq, <<>>, 0)
        THEN log' = [log EXCEPT ![n] = l] /\ PublishLog(n, l, pruned[n])
        ELSE UNCHANGED <<log, lastLog, commit>>
     /\ UNCHANGED <<role, currentTerm, votedFor, leaderNode, members, round,
                    netVars, elections, promoting, countVars, snap, pruned,
                    target, phase, match, next, fan, probe, noopTerm, pull,
                    wireVars, clientVars, settingVars>>

-----------------------------------------------------------------------------
(* The polling loop of a follower: run_replication_round_from                 *)

SetPhase(m, p) == phase' = [phase EXCEPT ![m] = p]

(* The status of a leader, read without any lock.                             *)
PullStatus(m, n) ==
  /\ pull[m] = IdlePull
  /\ role[m] = "follower"
  /\ n \in members[m] \ {m}
  /\ Spend({"pulls"})
  /\ lastLog' = lastLog
  /\ AnnounceLeader(n)
  /\ pull' = [pull EXCEPT ![m] =
       [stage |-> "status", from |-> n, term |-> currentTerm[n],
        members |-> members[n], commit |-> commit[n],
        last |-> lastLog[n].index, first |-> 0, entries |-> <<>>]]
  /\ UNCHANGED <<engineVars, runtimeVars, task, fan, probe, noopTerm, wireVars,
                 clientVars>>

Ahead(m, p) == Len(log[m]) > p.commit \/ Len(log[m]) > p.last

(* observe_leader_status, also without the lock; a status of an earlier term  *)
(* is ignored, but the round goes on.  A log longer than the leader's commit  *)
(* index ends it.                                                             *)
PullObserve(m) ==
  LET p == pull[m]
      goal == FollowTarget(m, Max({p.last, p.commit}))
      counts == p.term >= currentTerm[m]
  IN /\ p.stage = "status"
     /\ IF counts
        THEN /\ ObserveLeaderStatus(m, ClaimOf(p.from, p))
             /\ commit' = [commit EXCEPT ![m] =
                             FollowCommit(m, p.commit, lastLog[m].index)]
             /\ target' = [target EXCEPT ![m] = goal]
        ELSE UNCHANGED <<electionVars, commit, target>>
     /\ IF p.term > currentTerm[m] THEN ForgetFollowers(m)
        ELSE UNCHANGED <<match, next>>
     /\ IF Ahead(m, p)
        THEN pull' = [pull EXCEPT ![m] = IdlePull] /\ SetPhase(m, "catching_up")
        ELSE /\ pull' = [pull EXCEPT ![m].stage = "fetch",
                                     ![m].first = Len(log[m])]
             /\ SetPhase(m, IF counts THEN FollowPhase(m, goal) ELSE phase[m])
     /\ UNCHANGED <<engineVars, task, fan, probe, noopTerm, wireVars,
                    clientVars, settingVars>>

(* ReplicationFetch at the polled node, which need not lead any more.         *)
PullFetch(m) ==
  LET p == pull[m]
  IN /\ p.stage = "fetch"
     /\ pull' = [pull EXCEPT ![m].stage = "apply",
                             ![m].first = FirstSince(p.from, p.first),
                             ![m].entries =
                               EntriesSince(p.from, p.first, batch)]
     /\ UNCHANGED <<electionVars, engineVars, runtimeVars, task, fan, probe,
                    noopTerm, wireVars, clientVars, settingVars>>

(* The entries beyond the local log and within the leader's commit index are  *)
(* applied under the lock.  Their predecessor is not compared.                *)
PullApply(m) ==
  LET p == pull[m]
      current == Len(log[m])
      first == Max({p.first, current + 1})
      last == Min({p.commit, p.first + Len(p.entries) - 1})
      fresh == SubSeq(p.entries, first - p.first + 1, last - p.first + 1)
      l == log[m] \o fresh
  IN /\ p.stage = "apply"
     /\ task[m] = IdleTask
     /\ IF Ahead(m, p)
        THEN /\ pull' = [pull EXCEPT ![m] = IdlePull]
             /\ SetPhase(m, "catching_up")
             /\ UNCHANGED <<log, lastLog, commit>>
        ELSE IF fresh # <<>> /\ first # current + 1
        THEN /\ pull' = [pull EXCEPT ![m] = IdlePull]
             /\ SetPhase(m, "ready")
             /\ UNCHANGED <<log, lastLog, commit>>
        ELSE /\ pull' = [pull EXCEPT ![m].stage = "ack", ![m].last = Len(l)]
             /\ log' = [log EXCEPT ![m] = l]
             /\ IF fresh # <<>> THEN PublishLog(m, l, pruned[m])
                ELSE UNCHANGED <<lastLog, commit>>
             /\ UNCHANGED phase
     /\ UNCHANGED <<role, currentTerm, votedFor, leaderNode, members, round,
                    netVars, elections, promoting, countVars, snap, pruned,
                    target, match, next, task, fan, probe, noopTerm, wireVars,
                    clientVars, settingVars>>

(* register_follower_ack at the polled node, without its lock.                *)
PullAck(m) ==
  LET p == pull[m]
      n == p.from
      row == [match[n] EXCEPT ![m] = p.last]
  IN /\ p.stage = "ack"
     /\ IF role[n] = "leader" /\ currentTerm[n] = p.term
        THEN /\ match' = [match EXCEPT ![n] = row]
             /\ next' = [next EXCEPT ![n][m] = p.last + 1]
             /\ commit' = [commit EXCEPT ![n] =
                             LeaderCommit(n, lastLog[n].index, row)]
        ELSE UNCHANGED <<match, next, commit>>
     /\ pull' = [pull EXCEPT ![m] = IdlePull]
     /\ SetPhase(m, IF p.last >= p.commit THEN "ready" ELSE "catching_up")
     /\ UNCHANGED <<electionVars, engineVars, target, task, fan, probe, noopTerm,
                    wireVars, clientVars, settingVars>>

(* No leader answers, or the connection breaks.                               *)
PullFail(m) ==
  /\ \/ pull[m] # IdlePull
     \/ role[m] = "follower" /\ phase[m] = "catching_up"
  /\ Peers(m) # {}
  /\ pull' = [pull EXCEPT ![m] = IdlePull]
  /\ SetPhase(m, "ready")
  /\ UNCHANGED <<electionVars, engineVars, commit, target, match, next, task,
                 fan, probe, noopTerm, wireVars, clientVars, settingVars>>

-----------------------------------------------------------------------------
(* Snapshots, crashes and operators                                           *)

(* Engine::snapshot; how much of the WAL it prunes depends on the segments and *)
(* on wal_retain_segments, which may be 0.                                    *)
TakeSnapshot(n) ==
  /\ Spend({"snapshots"})
  /\ snap[n] < Len(log[n])
  /\ snap' = [snap EXCEPT ![n] = Len(log[n])]
  /\ \E p \in pruned[n]..Len(log[n]) : pruned' = [pruned EXCEPT ![n] = p]
  /\ UNCHANGED <<electionVars, log, runtimeVars, taskVars, wireVars, clientVars>>

(* The engine recovers its log; the commit index starts at 0 again, and the   *)
(* read index is rebuilt from everything the engine recovered.                *)
Crash(n) ==
  /\ lastLog' = [lastLog EXCEPT ![n] = Position(log[n], pruned[n])]
  /\ Restart(n)
  /\ commit' = [commit EXCEPT ![n] =
                  IF role'[n] = "leader" THEN Len(log[n]) ELSE 0]
  /\ ForgetGroup(n)
  /\ SetPhase(n, IF Cardinality(members[n] \union {n}) > 1 THEN "catching_up"
                 ELSE "ready")
  /\ probe' = [probe EXCEPT ![n] = IdleProbe]
  /\ task' = [task EXCEPT ![n] = IdleTask]
  /\ fan' = [fan EXCEPT ![n] = IdleFan]
  /\ MayComeLate(n, Unheard(n), "repeats", {})
  /\ noopTerm' = [noopTerm EXCEPT ![n] = 0]
  /\ pull' = [pull EXCEPT ![n] = IdlePull]
  /\ served' = [served EXCEPT ![n] = [seq |-> Len(log[n]),
                                      entries |-> log[n]]]
  /\ UNCHANGED <<engineVars, beats, acked>>

Promote(n) ==
  /\ PromoteFollower(n)
  /\ phase' = [phase EXCEPT ![n] = IF role'[n] = role[n] THEN @ ELSE "ready"]
  /\ UNCHANGED <<engineVars, commit, target, match, next, taskVars, wireVars,
                 clientVars, settingVars>>

AskPromotion(n) == CheckPromotion(n) /\ UNCHANGED clusterVars

Join(n, m) == AddMember(n, m) /\ UNCHANGED clusterVars

Remove(n, m) ==
  /\ RemoveMember(n, m)
  /\ match' = [match EXCEPT ![n][m] = 0]
  /\ next' = [next EXCEPT ![n][m] = 1]
  /\ UNCHANGED <<engineVars, commit, target, phase, taskVars, wireVars,
                 clientVars, settingVars>>

Next ==
  \/ \E n \in Node : \/ StartProbe(n) \/ EndProbe(n) \/ Escalate(n)
                     \/ EndRound(n) \/ AppendNoop(n) \/ NoopDone(n)
                     \/ StartFan(n) \/ SendBeat(n)
                     \/ WriteLocal(n) \/ PublishWrite(n)
                     \/ AckWrite(n) \/ GiveUpWrite(n)
                     \/ ReadRollback(n) \/ Rollback(n)
                     \/ PullObserve(n) \/ PullFetch(n) \/ PullApply(n)
                     \/ PullAck(n) \/ PullFail(n)
                     \/ TakeSnapshot(n) \/ Crash(n)
                     \/ AskPromotion(n) \/ Promote(n)
  \/ \E n \in Node, m \in Node :
        \/ \E t \in Term : BeatRefused(n, m, t)
        \/ \E recent \in BOOLEAN : PreVote(n, m, recent)
        \/ GiveUpPeer(n, m) \/ Answered(n, m) \/ AnsweredLaterTerm(n, m)
        \/ PullStatus(n, m) \/ Join(n, m) \/ Remove(n, m)
        \/ \E answered \in BOOLEAN : Deliver(n, m, answered)
  \/ \E m \in Node, q \in voteRequests, recent \in BOOLEAN :
        VoteArrives(m, q, recent)
  \/ \E n \in Node, r \in voteReplies : VoteCounted(n, r)
  \/ \E m \in Node, b \in beats : TakeBeat(m, b)
  \/ \E x \in late : DeliverLate(x)

Spec == Init /\ [][Next]_vars

-----------------------------------------------------------------------------
(* Correctness                                                                *)

LogOK(l) == Len(l) <= MaxIndex /\ \A i \in DOMAIN l : l[i] \in Entry

(* Every piece of replicated state keeps the shape the code gives it.         *)
TypeOK ==
  /\ ElectionTypeOK
  /\ \A n \in Node : /\ LogOK(log[n])
                     /\ pruned[n] <= snap[n]
  /\ commit \in [Node -> 0..MaxIndex]
  /\ target \in [Node -> 0..MaxIndex]
  /\ phase \in [Node -> Phase]
  /\ match \in [Node -> [Node -> 0..MaxIndex]]
  /\ next \in [Node -> [Node -> 1..MaxIndex + 1]]
  /\ noopTerm \in [Node -> Term]

(* A write acknowledged to its client is in the log of every node that leads  *)
(* a term at least as late as the write's, at the sequence where it was        *)
(* acknowledged.                                                              *)
AckedWritesKept ==
  \A n \in Node, a \in acked :
    role[n] = "leader" /\ currentTerm[n] >= a.entry.term
    => a.seq <= Len(log[n]) /\ log[n][a.seq] = a.entry

(* "successful writes are tied to replicated durable position": a write stays *)
(* in the logs of a quorum once it is acknowledged.                           *)
AckedOnQuorum ==
  \A a \in acked :
    HasQuorum({m \in Node : a.seq <= Len(log[m]) /\ log[m][a.seq] = a.entry},
              Node)

(* Two logs that hold the same entry at a sequence are the same up to it: the *)
(* append handler's comparison with the previous entry must guarantee it.     *)
LogMatching ==
  \A a, b \in Node : \A i \in 1..Min({Len(log[a]), Len(log[b])}) :
    log[a][i] = log[b][i] => SubSeq(log[a], 1, i) = SubSeq(log[b], 1, i)

(* What a leader counts as held by a follower of its term                     *)
(* (FollowerProgress.match_index) is a prefix of both their logs.             *)
MatchIsHeld ==
  \A n, m \in Node :
    role[n] = "leader" /\ currentTerm[m] = currentTerm[n] =>
      /\ match[n][m] <= Min({Len(log[n]), Len(log[m])})
      /\ SubSeq(log[m], 1, match[n][m]) = SubSeq(log[n], 1, match[n][m])

(* "commit index exceeded local applied index": the assertion                 *)
(* assert_runtime_invariants makes after every change.                        *)
CommitWithinApplied == \A n \in Node : commit[n] <= lastLog[n].index

(* Two nodes never hold different entries below both their commit indexes     *)
(* ("state machine safety violated at sequence").                             *)
CommittedAgree ==
  \A a, b \in Node : \A i \in 1..Min({commit[a], commit[b],
                                       Len(log[a]), Len(log[b])}) :
    log[a][i] = log[b][i]

(* "leader reads never observe an uncommitted local tail": a write that the    *)
(* read index of a leader shows is in the logs of a quorum.                   *)
LeaderReadsCommitted ==
  \A n \in Node : role[n] = "leader" =>
    \A i \in DOMAIN served[n].entries :
      LET entry == served[n].entries[i]
      IN entry.val # 0 =>
           HasQuorum({m \in Node : i <= Len(log[m]) /\ log[m][i] = entry}, Node)

(* A running node never moves its commit index back.                          *)
CommitNeverRegresses ==
  [][\A n \in Node : commit'[n] < commit[n] => restarts' > restarts]_vars

=============================================================================
