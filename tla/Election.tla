------------------------------ MODULE Election ------------------------------
(* Leader election between the voting nodes of one replication group: terms,  *)
(* votes, leader claims (heartbeats and polled leader status), restarts from  *)
(* the persisted state, manual promotion and membership edits.                *)
(*                                                                            *)
(* The log is seen only through its last position.  What the log does is left *)
(* open here (MoveLog), and so is the pre-vote that precedes an election;     *)
(* module Cluster adds both and is shown to implement this module.  Clocks    *)
(* are left open as well: a lease may be running whenever a leader is known,  *)
(* and a timeout may fire at any time.                                        *)
EXTENDS Naturals, FiniteSets

CONSTANTS Node,           \* node ids
          None,           \* Option::None
          Seed,           \* nodes started with --replication-role leader
          MaxTerm,        \* bound: highest term a node may start
          MaxIndex,       \* bound: longest log
          MaxLogTerm,     \* bound: highest term of a last log entry
          MaxRestarts,    \* bound: crashes
          MaxPromotions,  \* bound: PROMOTE FOLLOWER commands
          MaxChanges      \* bound: CLUSTER JOIN and CLUSTER REMOVE commands

ASSUME NodeAssumption == /\ IsFiniteSet(Node)
                         /\ Node # {}
                         /\ None \notin Node
                         /\ Seed \subseteq Node

ASSUME BoundAssumption == /\ MaxTerm \in Nat
                          /\ MaxIndex \in Nat
                          /\ MaxLogTerm \in Nat
                          /\ MaxRestarts \in Nat
                          /\ MaxPromotions \in Nat
                          /\ MaxChanges \in Nat

VARIABLES
  role,          \* ReplicationState.role
  currentTerm,   \* ReplicationState.current_term (persisted)
  votedFor,      \* ReplicationState.voted_for (persisted)
  leaderNode,    \* ReplicationState.leader_node_id
  members,       \* ReplicationState.members (persisted); every member votes
  lastLog,       \* local_last_applied_term and local_last_applied_sequence
  round,         \* local variables of run_election_round
  voteRequests,  \* every vote request sent; any of them may still arrive
  voteReplies,   \* every vote reply that can matter to its candidate
  claims,        \* every (term, leader, members) a leader has announced
  elections,     \* the leader_elected audit events
  promoting,     \* nodes between the two role checks of PROMOTE FOLLOWER
  restarts, promotions, changes

nodeVars == <<role, currentTerm, votedFor, leaderNode, members, lastLog>>
netVars == <<voteRequests, voteReplies, claims>>
countVars == <<restarts, promotions, changes>>
electionVars == <<nodeVars, round, netVars, elections, promoting, countVars>>

Term == 0..MaxTerm

Role == {"follower", "candidate", "leader"}

(* None is term 0 wherever the election compares log terms.                   *)
LogPosition == [term : 0..MaxLogTerm, index : 0..MaxIndex]

VoteRequest == [term : Term, cand : Node, log : LogPosition]

VoteReply == [voter : Node, cand : Node, term : Term,
              granted : BOOLEAN, voterTerm : Term]

Claim == [term : Term, leader : Node, members : SUBSET Node]

Round == [term : Term, peers : SUBSET Node, granted : SUBSET Node]

(* Terms that are voted on are positive, so term 0 means no round is running. *)
IdleRound == [term |-> 0, peers |-> {}, granted |-> {}]

(* Mutant: half of the voters, rounded down, is enough.                       *)
QuorumSizeHalf(k) == k \div 2

QuorumSize(k) == (k \div 2) + 1

HasQuorum(granted, peers) ==
  Cardinality(granted) >= QuorumSize(Cardinality(peers))

-----------------------------------------------------------------------------
(* Comparing logs                                                             *)

(* up_to_date in handle_vote_request: the candidate's log is at least as new. *)
UpToDate(theirs, mine) ==
  \/ theirs.term > mine.term
  \/ theirs.term = mine.term /\ theirs.index >= mine.index

(* The vote may be refused because of a recent heartbeat only when a leader   *)
(* other than the candidate is known.                                         *)
LeaseMayRun(known, cand) == known # None /\ known # cand

(* set_local_last_applied_state, with whatever the log has become.            *)
LogMoves(n) ==
  \E p \in LogPosition : lastLog' = [lastLog EXCEPT ![n] = p]

-----------------------------------------------------------------------------
(* The role ReplicationRuntime::new gives a node: one that knows no other      *)
(* voter takes the role it was configured with.                               *)
InitialRole(n, known) ==
  IF known \subseteq {n} /\ n \in Seed THEN "leader" ELSE "follower"

ElectionInit ==
  /\ role = [n \in Node |-> InitialRole(n, Node)]
  /\ currentTerm = [n \in Node |-> 0]
  /\ votedFor = [n \in Node |-> None]
  /\ leaderNode = [n \in Node |-> None]
  /\ members = [n \in Node |-> Node]
  /\ lastLog = [n \in Node |-> [term |-> 0, index |-> 0]]
  /\ round = [n \in Node |-> IdleRound]
  /\ voteRequests = {}
  /\ voteReplies = {}
  /\ claims = {}
  /\ elections = {}
  /\ promoting = {}
  /\ restarts = 0
  /\ promotions = 0
  /\ changes = 0

-----------------------------------------------------------------------------
(* run_election_round at node n                                               *)

(* election_due, as far as roles decide it; the consensus loop skips a node    *)
(* without peers.                                                             *)
ElectionDue(n) == /\ role[n] \in {"follower", "candidate"}
                  /\ Cardinality(members[n]) > 1

(* begin_election, and the vote requests of the round.                        *)
BeginElection(n) ==
  /\ round[n] = IdleRound
  /\ ElectionDue(n)
  /\ currentTerm[n] < MaxTerm
  /\ role' = [role EXCEPT ![n] = "candidate"]
  /\ currentTerm' = [currentTerm EXCEPT ![n] = @ + 1]
  /\ votedFor' = [votedFor EXCEPT ![n] = n]
  /\ leaderNode' = [leaderNode EXCEPT ![n] = None]
  /\ round' = [round EXCEPT ![n] =
       [term |-> currentTerm[n] + 1, peers |-> members[n], granted |-> {n}]]
  /\ voteRequests' = voteRequests \union
       {[term |-> currentTerm[n] + 1, cand |-> n, log |-> lastLog[n]]}
  /\ UNCHANGED <<members, lastLog, voteReplies, claims, elections,
                 promoting, countVars>>

(* observe_remote_term: a higher term seen in a reply is adopted.             *)
AdoptTerm(n, t) ==
  /\ role' = [role EXCEPT ![n] = "follower"]
  /\ currentTerm' = [currentTerm EXCEPT ![n] = t]
  /\ votedFor' = [votedFor EXCEPT ![n] = None]
  /\ leaderNode' = [leaderNode EXCEPT ![n] = None]

(* A vote reply reaches the round that asked for it.                          *)
CountVote(n, r) ==
  /\ r.cand = n
  /\ round[n] # IdleRound
  /\ r.term = round[n].term
  /\ r.voter \in round[n].peers
  /\ IF r.voterTerm > r.term
     THEN /\ round' = [round EXCEPT ![n] = IdleRound]
          /\ IF r.voterTerm > currentTerm[n]
             THEN AdoptTerm(n, r.voterTerm)
             ELSE UNCHANGED <<role, currentTerm, votedFor, leaderNode>>
     ELSE /\ r.granted
          /\ round' = [round EXCEPT ![n].granted = @ \union {r.voter}]
          /\ UNCHANGED <<role, currentTerm, votedFor, leaderNode>>
  /\ UNCHANGED <<members, lastLog, netVars, elections, promoting, countVars>>

(* finalize_election at the end of the round, won or lost.                    *)
FinalizeElection(n) ==
  /\ round[n] # IdleRound
  /\ round' = [round EXCEPT ![n] = IdleRound]
  /\ IF /\ currentTerm[n] = round[n].term
        /\ role[n] = "candidate"
        /\ HasQuorum(round[n].granted, round[n].peers)
     THEN /\ role' = [role EXCEPT ![n] = "leader"]
          /\ leaderNode' = [leaderNode EXCEPT ![n] = n]
          /\ elections' = elections \union
               {[term |-> round[n].term, leader |-> n,
                 voters |-> round[n].granted]}
     ELSE UNCHANGED <<role, leaderNode, elections>>
  /\ UNCHANGED <<currentTerm, votedFor, members, lastLog, netVars,
                 promoting, countVars>>

-----------------------------------------------------------------------------
(* handle_vote_request at node m, for a real (not pre-) vote                  *)

VoteAnswer(m, q, granted, t) ==
  [voter |-> m, cand |-> q.cand, term |-> q.term, granted |-> granted,
   voterTerm |-> t]

(* A refusal is kept only when it carries a term the candidate must adopt.    *)
HandleVoteRequest(m, q, recent) ==
  LET adopt == q.term > currentTerm[m]
      voted == IF adopt THEN None ELSE votedFor[m]
      known == IF adopt THEN None ELSE leaderNode[m]
      grant == /\ ~(recent /\ LeaseMayRun(known, q.cand))
               /\ UpToDate(q.log, lastLog[m])
               /\ voted \in {None, q.cand}
      valid == q.cand \in members[m] /\ q.term >= currentTerm[m]
  IN /\ q.cand # m
     /\ IF valid
        THEN /\ currentTerm' = [currentTerm EXCEPT ![m] = q.term]
             /\ votedFor' = [votedFor EXCEPT ![m] =
                               IF grant THEN q.cand ELSE voted]
             /\ role' = [role EXCEPT ![m] =
                           IF adopt \/ grant THEN "follower" ELSE @]
             /\ leaderNode' = [leaderNode EXCEPT ![m] = known]
        ELSE UNCHANGED <<role, currentTerm, votedFor, leaderNode>>
     /\ voteReplies' = voteReplies \union
          (IF valid /\ grant THEN {VoteAnswer(m, q, TRUE, q.term)}
           ELSE IF currentTerm[m] > q.term
           THEN {VoteAnswer(m, q, FALSE, currentTerm[m])} ELSE {})
     /\ UNCHANGED <<members, lastLog, round, voteRequests, claims, elections,
                    promoting, countVars>>

-----------------------------------------------------------------------------
(* Leaders                                                                    *)

(* leader_heartbeat_payload, for which the end of the log is published first,  *)
(* and the status a leader answers to a poll.                                 *)
AnnounceLeader(n) ==
  /\ role[n] = "leader"
  /\ claims' = claims \union
       {[term |-> currentTerm[n], leader |-> n, members |-> members[n]]}
  /\ LogMoves(n)
  /\ UNCHANGED <<role, currentTerm, votedFor, leaderNode, members, round,
                 voteRequests, voteReplies, elections, promoting, countVars>>

(* Mutant: a candidate stays one.                                             *)
AcceptLeaderKeepsRole(m, c) ==
  /\ c.term >= currentTerm[m]
  /\ currentTerm' = [currentTerm EXCEPT ![m] = c.term]
  /\ votedFor' = [votedFor EXCEPT ![m] = c.leader]
  /\ leaderNode' = [leaderNode EXCEPT ![m] = c.leader]
  /\ members' = [members EXCEPT ![m] = c.members]
  /\ UNCHANGED role

(* What handle_heartbeat and observe_leader_status have in common.            *)
AcceptLeader(m, c) ==
  /\ c.term >= currentTerm[m]
  /\ role' = [role EXCEPT ![m] = "follower"]
  /\ currentTerm' = [currentTerm EXCEPT ![m] = c.term]
  /\ votedFor' = [votedFor EXCEPT ![m] = c.leader]
  /\ leaderNode' = [leaderNode EXCEPT ![m] = c.leader]
  /\ members' = [members EXCEPT ![m] = c.members]

(* handle_heartbeat: the sender must be a member of m's configuration.  The    *)
(* append handler calls it too and changes the log before it lets go of m.     *)
HandleHeartbeat(m, c) ==
  /\ c.leader # m
  /\ c.leader \in members[m]
  /\ AcceptLeader(m, c)
  /\ LogMoves(m)
  /\ UNCHANGED <<round, netVars, elections, promoting, countVars>>

(* observe_leader_status: the polled node need not be a member; an empty      *)
(* member list keeps the old one.                                             *)
ObserveLeaderStatus(m, c) ==
  /\ c.leader # m
  /\ AcceptLeader(m, [c EXCEPT !.members =
                        IF c.members = {} THEN members[m] ELSE c.members])
  /\ UNCHANGED <<lastLog, round, netVars, elections, promoting, countVars>>

(* A higher term in the answer to a heartbeat or an append, which m may have   *)
(* left since.  The sender of the request led when it sent it and may follow  *)
(* by the time it has the answer.                                             *)
ObserveRemoteTerm(n, m, t) ==
  /\ \E c \in claims : c.leader = n
  /\ t > currentTerm[n]
  /\ t <= currentTerm[m]
  /\ AdoptTerm(n, t)
  /\ UNCHANGED <<members, lastLog, round, netVars, elections, promoting,
                 countVars>>

-----------------------------------------------------------------------------
(* Operators, crashes and the log                                             *)

(* PROMOTE FOLLOWER is a write command: process_command first demands that    *)
(* the node accepts writes ...                                                *)
CheckPromotion(n) ==
  /\ promotions < MaxPromotions
  /\ role[n] = "leader"
  /\ promoting' = promoting \union {n}
  /\ promotions' = promotions + 1
  /\ UNCHANGED <<nodeVars, round, netVars, elections, restarts, changes>>

(* ... and promote_follower then demands a follower, after which the node     *)
(* leads the next term without asking for votes.                              *)
PromoteFollower(n) ==
  /\ n \in promoting
  /\ promoting' = promoting \ {n}
  /\ IF role[n] = "follower" /\ currentTerm[n] < MaxTerm
     THEN /\ role' = [role EXCEPT ![n] = "leader"]
          /\ currentTerm' = [currentTerm EXCEPT ![n] = @ + 1]
          /\ votedFor' = [votedFor EXCEPT ![n] = n]
          /\ leaderNode' = [leaderNode EXCEPT ![n] = n]
     ELSE UNCHANGED <<role, currentTerm, votedFor, leaderNode>>
  /\ UNCHANGED <<members, lastLog, round, netVars, elections, countVars>>

(* CLUSTER JOIN and CLUSTER REMOVE at a leader edit its own member list;      *)
(* the others learn of it from its next heartbeat.                            *)
AddMember(n, m) ==
  /\ changes < MaxChanges
  /\ role[n] = "leader"
  /\ m \notin members[n]
  /\ members' = [members EXCEPT ![n] = @ \union {m}]
  /\ changes' = changes + 1
  /\ UNCHANGED <<role, currentTerm, votedFor, leaderNode, lastLog, round,
                 netVars, elections, promoting, restarts, promotions>>

RemoveMember(n, m) ==
  /\ changes < MaxChanges
  /\ role[n] = "leader"
  /\ m \in members[n]
  /\ members' = [members EXCEPT ![n] = @ \ {m}]
  /\ changes' = changes + 1
  /\ UNCHANGED <<role, currentTerm, votedFor, leaderNode, lastLog, round,
                 netVars, elections, promoting, restarts, promotions>>

(* A crash followed by ReplicationRuntime::new: the term, the vote and the    *)
(* members come back from the state file, the log position from the engine,   *)
(* everything else is lost.  The code puts the node itself back into the list. *)
Restart(n) ==
  /\ restarts < MaxRestarts
  /\ restarts' = restarts + 1
  /\ members' = [members EXCEPT ![n] = @ \union {n}]
  /\ role' = [role EXCEPT ![n] = InitialRole(n, members[n])]
  /\ leaderNode' = [leaderNode EXCEPT ![n] = None]
  /\ round' = [round EXCEPT ![n] = IdleRound]
  /\ promoting' = promoting \ {n}
  /\ LogMoves(n)
  /\ UNCHANGED <<currentTerm, votedFor, netVars, elections, promotions,
                 changes>>

(* The log changes outside the handlers above.                                *)
MoveLog(n) ==
  /\ LogMoves(n)
  /\ UNCHANGED <<role, currentTerm, votedFor, leaderNode, members, round,
                 netVars, elections, promoting, countVars>>

(* What the nodes of a group do by themselves ...                             *)
GroupNext ==
  \/ \E n \in Node : \/ BeginElection(n)
                     \/ FinalizeElection(n)
                     \/ AnnounceLeader(n)
                     \/ Restart(n)
                     \/ MoveLog(n)
  \/ \E n \in Node, m \in Node, t \in Term : ObserveRemoteTerm(n, m, t)
  \/ \E n \in Node, r \in voteReplies : CountVote(n, r)
  \/ \E m \in Node, q \in voteRequests, recent \in BOOLEAN :
        HandleVoteRequest(m, q, recent)
  \/ \E m \in Node, c \in claims : \/ HandleHeartbeat(m, c)
                                   \/ ObserveLeaderStatus(m, c)

(* ... and what its operators do.                                             *)
OperatorNext ==
  \E n \in Node : \/ CheckPromotion(n)
                  \/ PromoteFollower(n)
                  \/ \E m \in Node : AddMember(n, m) \/ RemoveMember(n, m)

ElectionNext == GroupNext \/ OperatorNext

ElectionSpec == ElectionInit /\ [][ElectionNext]_electionVars

(* The same without operators, as ElectionSpec is when their bounds are 0.    *)
GroupSpec == ElectionInit /\ [][GroupNext]_electionVars

-----------------------------------------------------------------------------
(* Correctness                                                                *)

(* Every variable of ReplicationState that takes part in elections keeps the  *)
(* shape the code gives it.                                                   *)
ElectionTypeOK ==
  /\ role \in [Node -> Role]
  /\ currentTerm \in [Node -> Term]
  /\ votedFor \in [Node -> Node \union {None}]
  /\ leaderNode \in [Node -> Node \union {None}]
  /\ members \in [Node -> SUBSET Node]
  /\ lastLog \in [Node -> LogPosition]
  /\ round \in [Node -> Round]
  /\ voteRequests \subseteq VoteRequest
  /\ voteReplies \subseteq VoteReply
  /\ claims \subseteq Claim
  /\ elections \subseteq [term : Term, leader : Node, voters : SUBSET Node]
  /\ promoting \subseteq Node
  /\ restarts \in Nat
  /\ promotions \in 0..MaxPromotions
  /\ changes \in 0..MaxChanges

(* The nodes that won the election of term t.                                 *)
Elected(t) == {e.leader : e \in {x \in elections : x.term = t}}

(* The candidates that hold a vote of node v in term t: itself when it stood  *)
(* for election, and every candidate it answered with vote_granted.           *)
Stood(v, t) == \E q \in voteRequests : q.cand = v /\ q.term = t

VoteSent(v, c, t) ==
  \E r \in voteReplies : r.granted /\ r.voter = v /\ r.cand = c /\ r.term = t

Votes(v, t) == {c \in Node : VoteSent(v, c, t) \/ (c = v /\ Stood(v, t))}

(* No term ever has two nodes in the leader role at once (the assertion       *)
(* "term had multiple leaders" of the replication tests), whatever the order  *)
(* of vote requests, replies, heartbeats and restarts.                        *)
OneLeaderPerTerm ==
  \A a, b \in Node :
    role[a] = "leader" /\ role[b] = "leader" /\ currentTerm[a] = currentTerm[b]
    => a = b

(* No term is won twice, not even by a leader that has crashed or stepped     *)
(* down by the time of the second election.                                   *)
TermWonOnce ==
  \A e, f \in elections : e.term = f.term => e.leader = f.leader

(* handle_heartbeat overwrites voted_for with the sender.  What a node has     *)
(* voted in its current term is nevertheless what voted_for says, across      *)
(* crashes too, until a leader that has already won the term overwrites it.   *)
VotesRemembered ==
  \A v \in Node :
    \/ votedFor[v] \in Elected(currentTerm[v])
    \/ Votes(v, currentTerm[v]) = {votedFor[v]} \ {None}

(* While a node stands for election or leads, its vote of that term is its own *)
(* ("candidate must record its vote for the active term"): handle_heartbeat,  *)
(* which overwrites voted_for, always ends the candidacy, also when nodes are  *)
(* promoted by hand or the member list is edited.                              *)
StandingKeepsVote ==
  \A n \in Node : role[n] \in {"candidate", "leader"} => votedFor[n] = n

(* Neither a step nor a restart moves a node back to an earlier term.         *)
TermsNeverRegress ==
  [][\A n \in Node : currentTerm'[n] >= currentTerm[n]]_electionVars

-----------------------------------------------------------------------------
(* Why a term has one leader: the inductive invariant                         *)

(* Nobody edits the member list and nobody is promoted by hand.               *)
StaticGroup == /\ MaxPromotions = 0
               /\ MaxChanges = 0
               /\ Cardinality(Node) > 1

(* Every node and every message then speaks of the same voters.               *)
FixedMembers ==
  /\ \A n \in Node : members[n] = Node
  /\ \A n \in Node : round[n] # IdleRound => round[n].peers = Node
  /\ \A c \in claims : c.members = Node
  /\ promoting = {}

(* No message or election speaks of a term its author has not reached.        *)
TermsReached ==
  /\ \A q \in voteRequests : q.term <= currentTerm[q.cand]
  /\ \A r \in voteReplies : r.granted => r.term <= currentTerm[r.voter]
  /\ \A e \in elections : e.term <= currentTerm[e.leader]

(* A node has at most one vote per term that did not go to the winner.        *)
OneVotePerTerm ==
  \A v \in Node, t \in Term :
    \A c, d \in Votes(v, t) \ Elected(t) : c = d

(* A running round has counted only votes that were cast for it.              *)
RoundsBacked ==
  \A n \in Node :
    round[n] # IdleRound =>
      /\ Stood(n, round[n].term)
      /\ \A v \in round[n].granted : n \in Votes(v, round[n].term)

(* A candidate stands in its term and has not won it; leaders, and the        *)
(* leaders that messages announce, have won theirs.                           *)
LeadersElected ==
  /\ \A n \in Node : role[n] = "candidate" =>
       /\ Stood(n, currentTerm[n])
       /\ votedFor[n] = n
       /\ n \notin Elected(currentTerm[n])
  /\ \A n \in Node : role[n] = "leader" => n \in Elected(currentTerm[n])
  /\ \A c \in claims : c.leader \in Elected(c.term)

(* A won election has a quorum behind it, and no voter of that quorum has     *)
(* voted for anyone else in that term.                                        *)
ElectionsBacked ==
  \A e \in elections :
    /\ HasQuorum(e.voters, Node)
    /\ \A v \in e.voters : /\ e.leader \in Votes(v, e.term)
                            /\ Votes(v, e.term) \subseteq Elected(e.term)

(* The strengthening that makes OneLeaderPerTerm inductive: the votes of      *)
(* handle_vote_request, the rounds of run_election_round and the elections    *)
(* they end in all account for each other.                                    *)
ElectionInv ==
  /\ FixedMembers
  /\ TermsReached
  /\ VotesRemembered
  /\ OneVotePerTerm
  /\ RoundsBacked
  /\ LeadersElected
  /\ ElectionsBacked
  /\ TermWonOnce

=============================================================================
