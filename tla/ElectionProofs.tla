--------------------------- MODULE ElectionProofs ---------------------------
(* Proofs about Election, for every set of nodes and every bound.             *)
EXTENDS Election, FiniteSetTheorems, TLAPS

-----------------------------------------------------------------------------
(* Types                                                                      *)

(* Every step of an election handler keeps the shape of the replication       *)
(* state: no term leaves its range and no list names an unknown node.         *)
LEMMA TypeStep ==
  ElectionTypeOK /\ [ElectionNext]_electionVars => ElectionTypeOK'
<1>0. SUFFICES ASSUME ElectionTypeOK, ElectionNext PROVE ElectionTypeOK'
  BY DEF ElectionTypeOK, electionVars, nodeVars, netVars, countVars
<1> USE BoundAssumption
<1> USE DEF ElectionTypeOK, nodeVars, netVars, countVars, Role, Term,
            LogMoves, LogPosition, AdoptTerm, AcceptLeader
<1>1. ASSUME NEW n \in Node, BeginElection(n) PROVE ElectionTypeOK'
  BY <1>0, <1>1 DEF BeginElection, Round, VoteRequest
<1>2. ASSUME NEW n \in Node, FinalizeElection(n) PROVE ElectionTypeOK'
  <2>1. round' \in [Node -> Round]
    BY <1>0, <1>2 DEF FinalizeElection, Round, IdleRound
  <2>2. /\ round[n].term \in Term
        /\ round[n].granted \in SUBSET Node
    BY <1>0 DEF Round
  <2>3. elections' \subseteq [term : Term, leader : Node, voters : SUBSET Node]
    BY <1>0, <1>2, <2>2 DEF FinalizeElection
  <2>4. role' \in [Node -> Role] /\ leaderNode' \in [Node -> Node \union {None}]
    <3>1. \/ role' = [role EXCEPT ![n] = "leader"]
             /\ leaderNode' = [leaderNode EXCEPT ![n] = n]
          \/ role' = role /\ leaderNode' = leaderNode
      BY <1>2, Zenon DEF FinalizeElection
    <3>2. role \in [Node -> Role] /\ leaderNode \in [Node -> Node \union {None}]
      BY <1>0
    <3> QED BY <3>1, <3>2
  <2> QED
    BY <1>0, <1>2, <2>1, <2>3, <2>4 DEF FinalizeElection
<1>3. ASSUME NEW n \in Node, AnnounceLeader(n) PROVE ElectionTypeOK'
  BY <1>0, <1>3 DEF AnnounceLeader, Claim
<1>4. ASSUME NEW n \in Node, CheckPromotion(n) PROVE ElectionTypeOK'
  BY <1>0, <1>4, SMTT(60), ZenonT(60) DEF CheckPromotion
<1>5. ASSUME NEW n \in Node, PromoteFollower(n) PROVE ElectionTypeOK'
  <2>1. CASE role[n] = "follower" /\ currentTerm[n] < MaxTerm
    <3>1. /\ role' = [role EXCEPT ![n] = "leader"]
          /\ currentTerm' = [currentTerm EXCEPT ![n] = @ + 1]
          /\ votedFor' = [votedFor EXCEPT ![n] = n]
          /\ leaderNode' = [leaderNode EXCEPT ![n] = n]
      BY <1>5, <2>1, Zenon DEF PromoteFollower
    <3>2. currentTerm[n] + 1 \in Term
      BY <1>0, <2>1
    <3> QED BY <1>0, <1>5, <3>1, <3>2 DEF PromoteFollower
  <2>2. CASE ~(role[n] = "follower" /\ currentTerm[n] < MaxTerm)
    <3>1. UNCHANGED <<role, currentTerm, votedFor, leaderNode>>
      BY <1>5, <2>2, ZenonT(60) DEF PromoteFollower
    <3> QED BY <1>0, <1>5, <3>1 DEF PromoteFollower
  <2> QED BY <2>1, <2>2
<1>6. ASSUME NEW n \in Node, Restart(n) PROVE ElectionTypeOK'
  BY <1>0, <1>6 DEF Restart, InitialRole, Round, IdleRound
<1>7. ASSUME NEW n \in Node, MoveLog(n) PROVE ElectionTypeOK'
  BY <1>0, <1>7 DEF MoveLog
<1>8. ASSUME NEW n \in Node, NEW m \in Node, NEW t \in Term,
             ObserveRemoteTerm(n, m, t)
      PROVE  ElectionTypeOK'
  BY <1>0, <1>8 DEF ObserveRemoteTerm
<1>9. ASSUME NEW n \in Node, NEW m \in Node, AddMember(n, m)
      PROVE  ElectionTypeOK'
  BY <1>0, <1>9 DEF AddMember
<1>10. ASSUME NEW n \in Node, NEW m \in Node, RemoveMember(n, m)
       PROVE  ElectionTypeOK'
  BY <1>0, <1>10 DEF RemoveMember
<1>11. ASSUME NEW n \in Node, NEW r \in voteReplies, CountVote(n, r)
       PROVE  ElectionTypeOK'
  <2>1. r \in VoteReply
    BY <1>0
  <2>2. round' \in [Node -> Round]
    <3>1. \/ round' = [round EXCEPT ![n] = IdleRound]
          \/ round' = [round EXCEPT ![n].granted = @ \union {r.voter}]
      BY <1>11, ZenonT(60) DEF CountVote
    <3>2. r.voter \in Node /\ round \in [Node -> Round] /\ IdleRound \in Round
      BY <1>0, <2>1 DEF VoteReply, Round, IdleRound
    <3> QED BY <3>1, <3>2 DEF Round
  <2>3. CASE r.voterTerm > r.term /\ r.voterTerm > currentTerm[n]
    <3>1. AdoptTerm(n, r.voterTerm)
      BY <1>11, <2>3, Zenon DEF CountVote
    <3> QED BY <1>0, <1>11, <2>1, <2>2, <3>1 DEF CountVote, VoteReply
  <2>4. CASE ~(r.voterTerm > r.term /\ r.voterTerm > currentTerm[n])
    <3>1. UNCHANGED <<role, currentTerm, votedFor, leaderNode>>
      BY <1>11, <2>4, ZenonT(60) DEF CountVote
    <3> QED BY <1>0, <1>11, <2>2, <3>1 DEF CountVote
  <2> QED BY <2>3, <2>4
<1>12. ASSUME NEW m \in Node, NEW q \in voteRequests, NEW recent \in BOOLEAN,
              HandleVoteRequest(m, q, recent)
       PROVE  ElectionTypeOK'
  <2>1. q.term \in Term /\ q.cand \in Node
    BY <1>0 DEF VoteRequest
  <2> DEFINE valid == q.cand \in members[m] /\ q.term >= currentTerm[m]
  <2>2. voteReplies' \subseteq VoteReply
    <3>1. ASSUME NEW r \in voteReplies', r \notin voteReplies
          PROVE  \E g \in BOOLEAN, t \in {q.term, currentTerm[m]} :
                   r = VoteAnswer(m, q, g, t)
      BY <1>12, <3>1, Zenon DEF HandleVoteRequest
    <3> QED BY <1>0, <2>1, <3>1 DEF VoteReply, VoteAnswer
  <2>3. CASE valid
    <3>1. PICK x \in {None, votedFor[m], q.cand},
               y \in {"follower", role[m]},
               z \in {None, leaderNode[m]} :
            /\ currentTerm' = [currentTerm EXCEPT ![m] = q.term]
            /\ votedFor' = [votedFor EXCEPT ![m] = x]
            /\ role' = [role EXCEPT ![m] = y]
            /\ leaderNode' = [leaderNode EXCEPT ![m] = z]
      BY <1>12, <2>3, ZenonT(60) DEF HandleVoteRequest
    <3>2. /\ x \in Node \union {None}
          /\ y \in Role
          /\ z \in Node \union {None}
      BY <1>0, <2>1, <3>1, ZenonT(60)
    <3> QED BY <1>0, <1>12, <2>1, <2>2, <3>1, <3>2, ZenonT(60)
      DEF HandleVoteRequest
  <2>4. CASE ~valid
    <3>1. UNCHANGED <<role, currentTerm, votedFor, leaderNode>>
      BY <1>12, <2>4, ZenonT(60) DEF HandleVoteRequest
    <3> QED BY <1>0, <1>12, <2>2, <3>1, Zenon DEF HandleVoteRequest
  <2> QED BY <2>3, <2>4
<1>13. ASSUME NEW m \in Node, NEW c \in claims, HandleHeartbeat(m, c)
       PROVE  ElectionTypeOK'
  BY <1>0, <1>13, SMTT(60), ZenonT(60) DEF HandleHeartbeat, Claim
<1>14. ASSUME NEW m \in Node, NEW c \in claims, ObserveLeaderStatus(m, c)
       PROVE  ElectionTypeOK'
  BY <1>0, <1>14 DEF ObserveLeaderStatus, Claim
<1> QED
  BY <1>0, <1>1, <1>2, <1>3, <1>4, <1>5, <1>6, <1>7, <1>8, <1>9, <1>10,
     <1>11, <1>12, <1>13, <1>14, SMTT(60), ZenonT(60)
  DEF ElectionNext, GroupNext, OperatorNext

(* The replication state of every node keeps its shape in every run of the    *)
(* handlers, whatever messages are lost, repeated or delayed.                 *)
THEOREM TypeCorrect == ElectionSpec => []ElectionTypeOK
<1>1. ElectionInit => ElectionTypeOK
  BY NodeAssumption, BoundAssumption, SMTT(60), ZenonT(60)
  DEF ElectionInit, ElectionTypeOK, InitialRole, Role, Term, LogPosition,
      Round, IdleRound
<1> QED
  BY <1>1, TypeStep, PTL DEF ElectionSpec

-----------------------------------------------------------------------------
(* Terms                                                                      *)

(* No handler moves a node to an earlier term.                                *)
LEMMA TermStep ==
  ASSUME ElectionTypeOK, ElectionNext
  PROVE  \A x \in Node : currentTerm'[x] >= currentTerm[x]
<1> SUFFICES ASSUME NEW x \in Node PROVE currentTerm'[x] >= currentTerm[x]
  OBVIOUS
<1>0. currentTerm \in [Node -> Nat]
  BY BoundAssumption DEF ElectionTypeOK, Term
<1>1. CASE currentTerm' = currentTerm
  BY <1>0, <1>1
<1>2. ASSUME NEW n \in Node, NEW t \in Nat, t >= currentTerm[n],
             currentTerm' = [currentTerm EXCEPT ![n] = t]
      PROVE  currentTerm'[x] >= currentTerm[x]
  BY <1>0, <1>2
<1>3. ASSUME NEW n \in Node, BeginElection(n) \/ PromoteFollower(n)
      PROVE  currentTerm'[x] >= currentTerm[x]
  <2>1. \/ currentTerm' = [currentTerm EXCEPT ![n] = currentTerm[n] + 1]
        \/ currentTerm' = currentTerm
    BY <1>3, Zenon DEF BeginElection, PromoteFollower
  <2>2. currentTerm[n] + 1 \in Nat /\ currentTerm[n] + 1 >= currentTerm[n]
    BY <1>0
  <2> QED BY <1>1, <1>2, <2>1, <2>2
<1>4. ASSUME NEW n \in Node, NEW r \in voteReplies, CountVote(n, r)
      PROVE  currentTerm'[x] >= currentTerm[x]
  <2>1. \/ /\ r.voterTerm > currentTerm[n]
           /\ currentTerm' = [currentTerm EXCEPT ![n] = r.voterTerm]
        \/ currentTerm' = currentTerm
    BY <1>4, Zenon DEF CountVote, AdoptTerm
  <2>2. r.voterTerm \in Nat
    BY BoundAssumption DEF ElectionTypeOK, VoteReply, Term
  <2> QED BY <1>0, <1>1, <1>2, <2>1, <2>2
<1>5. ASSUME NEW n \in Node, NEW m \in Node, NEW t \in Term,
             ObserveRemoteTerm(n, m, t)
      PROVE  currentTerm'[x] >= currentTerm[x]
  BY <1>0, <1>5, SMTT(30) DEF ObserveRemoteTerm, AdoptTerm, Term
<1>6. ASSUME NEW m \in Node, NEW q \in voteRequests, NEW recent \in BOOLEAN,
             HandleVoteRequest(m, q, recent)
      PROVE  currentTerm'[x] >= currentTerm[x]
  <2>1. \/ /\ q.term >= currentTerm[m]
           /\ currentTerm' = [currentTerm EXCEPT ![m] = q.term]
        \/ currentTerm' = currentTerm
    BY <1>6, Zenon DEF HandleVoteRequest
  <2>2. q.term \in Nat
    BY BoundAssumption DEF ElectionTypeOK, VoteRequest, Term
  <2> QED BY <1>1, <1>2, <2>1, <2>2
<1>7. ASSUME NEW m \in Node, NEW c \in claims,
             HandleHeartbeat(m, c) \/ ObserveLeaderStatus(m, c)
      PROVE  currentTerm'[x] >= currentTerm[x]
  <2>1. c.term \in Nat /\ c \in Claim
    BY BoundAssumption DEF ElectionTypeOK, Claim, Term
  <2>2. /\ c.term >= currentTerm[m]
        /\ currentTerm' = [currentTerm EXCEPT ![m] = c.term]
    BY <1>7, <2>1, ZenonT(60)
    DEF HandleHeartbeat, ObserveLeaderStatus, AcceptLeader, Claim
  <2> QED BY <1>2, <2>1, <2>2, Zenon
<1>8. ASSUME NEW n \in Node, FinalizeElection(n) \/ AnnounceLeader(n) \/
             CheckPromotion(n) \/ Restart(n) \/ MoveLog(n)
      PROVE  currentTerm'[x] >= currentTerm[x]
  BY <1>1, <1>8, ZenonT(60)
  DEF FinalizeElection, AnnounceLeader, CheckPromotion, Restart,
                    MoveLog, nodeVars
<1>9. ASSUME NEW n \in Node, NEW m \in Node,
             AddMember(n, m) \/ RemoveMember(n, m)
      PROVE  currentTerm'[x] >= currentTerm[x]
  BY <1>1, <1>9 DEF AddMember, RemoveMember
<1> QED
  BY <1>3, <1>4, <1>5, <1>6, <1>7, <1>8, <1>9, ZenonT(60)
  DEF ElectionNext, GroupNext, OperatorNext

(* A node's term never goes back: not when it steps down, loses an election,  *)
(* is promoted by hand or restarts from the persisted state.                  *)
THEOREM TermsMonotone == ElectionSpec => TermsNeverRegress
<1>1. ElectionTypeOK /\ [ElectionNext]_electionVars =>
        [\A n \in Node : currentTerm'[n] >= currentTerm[n]]_electionVars
  BY TermStep
<1> QED
  BY <1>1, TypeCorrect, PTL DEF ElectionSpec, TermsNeverRegress

-----------------------------------------------------------------------------
(* Votes and elections                                                        *)

(* Two quorums of the same group share a voter.                               *)
LEMMA QuorumsIntersect ==
  ASSUME NEW S \in SUBSET Node, NEW T \in SUBSET Node,
         HasQuorum(S, Node), HasQuorum(T, Node)
  PROVE  S \intersect T # {}
<1>1. Cardinality(Node) \in Nat
  BY NodeAssumption, FS_CardinalityType
<1>2. Cardinality(S) \in Nat /\ Cardinality(T) \in Nat
  BY NodeAssumption, FS_Subset, FS_CardinalityType
<1>3. Cardinality(S) + Cardinality(T) > Cardinality(Node)
  BY <1>1, <1>2 DEF HasQuorum, QuorumSize
<1> QED
  BY NodeAssumption, <1>3, FS_MajoritiesIntersect

(* Votes and wins are read off the messages and the elections alone.          *)
LEMMA VotesKept ==
  ASSUME voteRequests' = voteRequests,
         voteReplies \subseteq voteReplies',
         \A r \in voteReplies' : r.granted => r \in voteReplies
  PROVE  \A v, t : Votes(v, t)' = Votes(v, t) /\ (Stood(v, t)' <=> Stood(v, t))
BY DEF Votes, Stood, VoteSent

(* The winners of a term change only with the elections.                      *)
LEMMA ElectedKept ==
  ASSUME elections' = elections
  PROVE  \A t : Elected(t)' = Elected(t)
BY DEF Elected

(* Terms are natural numbers, and what the order on them gives.               *)
LEMMA TermsAreNat == Term \subseteq Nat
BY BoundAssumption DEF Term

LEMMA NatOrder ==
  /\ \A a \in Nat : a <= a
  /\ \A a, b \in Nat : (a = b \/ a > b \/ a >= b) => a >= b
  /\ \A a, b \in Nat : (a >= b /\ ~(a > b)) => a = b
BY SMT

(* The fields of a node, for leaves that need no other part of the type.      *)
LEMMA NodeTypes ==
  ASSUME ElectionTypeOK
  PROVE  /\ role \in [Node -> Role]
         /\ currentTerm \in [Node -> Term]
         /\ votedFor \in [Node -> Node \union {None}]
         /\ members \in [Node -> SUBSET Node]
         /\ round \in [Node -> Round]
         /\ \A n \in Node : currentTerm[n] \in Nat
BY BoundAssumption DEF ElectionTypeOK, Term

(* Messages and elections name nodes and terms.                               *)
LEMMA MessageTypes ==
  ASSUME ElectionTypeOK
  PROVE  /\ \A q \in voteRequests : q.cand \in Node /\ q.term \in Nat
         /\ \A r \in voteReplies : r.voter \in Node /\ r.term \in Nat
         /\ \A e \in elections : e.leader \in Node /\ e.term \in Nat
<1>1. \A q \in voteRequests : q.cand \in Node /\ q.term \in Nat
  BY BoundAssumption DEF ElectionTypeOK, VoteRequest, Term
<1>2. \A r \in voteReplies : r.voter \in Node /\ r.term \in Nat
  BY BoundAssumption DEF ElectionTypeOK, VoteReply, Term
<1>3. \A e \in elections : e.leader \in Node /\ e.term \in Nat
  BY BoundAssumption DEF ElectionTypeOK, Term
<1> QED
  BY <1>1, <1>2, <1>3

(* Terms that only grow stay ahead of the messages already sent.              *)
LEMMA TermsGrow ==
  ASSUME ElectionTypeOK, TermsReached,
         \A x \in Node : currentTerm'[x] \in Nat /\ currentTerm'[x] >= currentTerm[x]
  PROVE  /\ \A q \in voteRequests : q.term <= currentTerm'[q.cand]
         /\ \A r \in voteReplies : r.granted => r.term <= currentTerm'[r.voter]
         /\ \A e \in elections : e.term <= currentTerm'[e.leader]
<1>1. \A x \in Node : currentTerm[x] \in Nat
  BY NodeTypes
<1>2. \A x \in Node, k \in Nat : k <= currentTerm[x] => k <= currentTerm'[x]
  BY <1>1
<1> QED
  BY <1>2, MessageTypes DEF TermsReached

(* Nobody has voted in a term beyond its own.                                 *)
LEMMA NoVotesAhead ==
  ASSUME ElectionTypeOK, TermsReached, NEW v \in Node, NEW t \in Term,
         t > currentTerm[v]
  PROVE  Votes(v, t) = {} /\ v \notin Elected(t)
<1>1. currentTerm[v] \in Nat /\ t \in Nat
  BY BoundAssumption DEF ElectionTypeOK, Term
<1>2. ~Stood(v, t)
  BY <1>1 DEF TermsReached, Stood
<1>3. \A c : ~VoteSent(v, c, t)
  BY <1>1 DEF TermsReached, VoteSent
<1>4. v \notin Elected(t)
  BY <1>1 DEF TermsReached, Elected
<1> QED
  BY <1>2, <1>3, <1>4 DEF Votes

(* Steps that cast no vote and win no election: what they may do to terms     *)
(* and votes keeps every fact about past votes.                               *)
LEMMA QuietStep ==
  ASSUME ElectionTypeOK, ElectionTypeOK', ElectionInv,
         UNCHANGED <<voteRequests, elections>>,
         voteReplies \subseteq voteReplies',
         \A r \in voteReplies' : r.granted => r \in voteReplies,
         \A v \in Node :
           \/ /\ currentTerm'[v] = currentTerm[v]
              /\ votedFor'[v] = votedFor[v]
           \/ /\ currentTerm'[v] > currentTerm[v]
              /\ votedFor'[v] = None
           \/ /\ currentTerm'[v] >= currentTerm[v]
              /\ votedFor'[v] \in Elected(currentTerm'[v])
  PROVE  /\ TermsReached' /\ VotesRemembered' /\ OneVotePerTerm'
         /\ ElectionsBacked' /\ TermWonOnce'
<1> USE DEF ElectionInv
<1>1. \A v, t : Votes(v, t)' = Votes(v, t)
  BY VotesKept, ZenonT(60)
<1>2. \A t : Elected(t)' = Elected(t)
  BY ElectedKept, ZenonT(60)
<1>3. \A v \in Node : /\ currentTerm[v] \in Nat
                      /\ currentTerm'[v] \in Term
                      /\ currentTerm'[v] \in Nat
                      /\ currentTerm'[v] >= currentTerm[v]
  <2>1. \A v \in Node : currentTerm[v] \in Nat
    BY NodeTypes, ZenonT(60)
  <2>2. currentTerm' \in [Node -> Term]
    BY ZenonT(60) DEF ElectionTypeOK
  <2>3. \A v \in Node : currentTerm'[v] \in Term /\ currentTerm'[v] \in Nat
    BY <2>2, TermsAreNat, ZenonT(60)
  <2> QED BY <2>1, <2>3, NatOrder, ZenonT(60)
<1>4. TermsReached'
  BY <1>3, TermsGrow, ZenonT(60) DEF TermsReached
<1>5. VotesRemembered'
  <2> SUFFICES ASSUME NEW v \in Node
               PROVE  \/ votedFor'[v] \in Elected(currentTerm'[v])
                      \/ Votes(v, currentTerm'[v]) = {votedFor'[v]} \ {None}
    BY <1>1, <1>2, ZenonT(60) DEF VotesRemembered
  <2>1. CASE currentTerm'[v] = currentTerm[v] /\ votedFor'[v] = votedFor[v]
    BY <2>1, ZenonT(60) DEF VotesRemembered
  <2>2. CASE currentTerm'[v] > currentTerm[v] /\ votedFor'[v] = None
    <3>1. Votes(v, currentTerm'[v]) = {}
      BY <1>3, <2>2, NoVotesAhead, ZenonT(60)
    <3> QED BY <2>2, <3>1
  <2> QED BY <2>1, <2>2, ZenonT(60)
<1>6. OneVotePerTerm'
  BY <1>1, <1>2, ZenonT(60) DEF OneVotePerTerm
<1>7. ElectionsBacked'
  BY <1>1, <1>2, ZenonT(60) DEF ElectionsBacked
<1>8. TermWonOnce'
  BY ZenonT(60) DEF TermWonOnce
<1> QED
  BY <1>4, <1>5, <1>6, <1>7, <1>8, ZenonT(60)

-----------------------------------------------------------------------------
(* The actions of a static group                                              *)

(* Operators do nothing in a static group.                                    *)
LEMMA NoOperator ==
  ASSUME StaticGroup, ElectionTypeOK, ElectionInv, NEW n \in Node
  PROVE  /\ ~CheckPromotion(n)
         /\ ~PromoteFollower(n)
         /\ \A m \in Node : ~AddMember(n, m) /\ ~RemoveMember(n, m)
BY DEF StaticGroup, ElectionTypeOK, ElectionInv, FixedMembers, CheckPromotion,
       PromoteFollower, AddMember, RemoveMember

(* A leader announces only a term it has won.                                 *)
LEMMA AnnounceStep ==
  ASSUME ElectionTypeOK, ElectionTypeOK', ElectionInv,
         NEW n \in Node, AnnounceLeader(n)
  PROVE  ElectionInv'
<1> USE DEF ElectionInv
<1>1. /\ UNCHANGED <<role, currentTerm, votedFor, members, round, voteRequests,
                     voteReplies, elections, promoting>>
      /\ claims' = claims \union
           {[term |-> currentTerm[n], leader |-> n, members |-> members[n]]}
      /\ role[n] = "leader"
  BY ZenonT(60) DEF AnnounceLeader
<1>2. /\ TermsReached' /\ VotesRemembered' /\ OneVotePerTerm'
      /\ ElectionsBacked' /\ TermWonOnce'
  BY <1>1, QuietStep, ZenonT(60)
<1>3. \A v, t : Votes(v, t)' = Votes(v, t) /\ (Stood(v, t)' <=> Stood(v, t))
  BY <1>1, VotesKept, ZenonT(60)
<1>4. \A t : Elected(t)' = Elected(t)
  BY <1>1, ElectedKept, ZenonT(60)
<1>5. FixedMembers'
  <2>1. \A k \in Node : members'[k] = Node
    BY <1>1, ZenonT(60) DEF FixedMembers
  <2>2. \A k \in Node : round'[k] # IdleRound => round'[k].peers = Node
    BY <1>1, ZenonT(60) DEF FixedMembers
  <2>3. (\A c \in claims' : c.members = Node) /\ promoting' = {}
    <3> DEFINE claim == [term |-> currentTerm[n], leader |-> n, members |-> members[n]]
    <3>1. claim.members = members[n]
      OBVIOUS
    <3> HIDE DEF claim
    <3>2. claims' = claims \union {claim} /\ promoting' = promoting
      BY <1>1, ZenonT(60) DEF claim
    <3> QED BY <3>1, <3>2, ZenonT(60) DEF FixedMembers
  <2> QED BY <2>1, <2>2, <2>3, ZenonT(60) DEF FixedMembers
<1>6. RoundsBacked'
  BY <1>1, <1>3, ZenonT(60) DEF RoundsBacked
<1>7. LeadersElected'
  BY <1>1, <1>3, <1>4 DEF LeadersElected
<1> QED
  BY <1>2, <1>5, <1>6, <1>7, ZenonT(60)

(* A step that makes nobody a candidate or a leader, and leaves those who are *)
(* alone, keeps what is known of them.                                        *)
LEMMA LeadersKept ==
  ASSUME LeadersElected, UNCHANGED claims,
         \A v, x : Votes(v, x)' = Votes(v, x) /\ (Stood(v, x)' <=> Stood(v, x)),
         \A x : Elected(x)' = Elected(x),
         \A x \in Node : \/ role'[x] = "follower"
                        \/ /\ role'[x] = role[x]
                           /\ currentTerm'[x] = currentTerm[x]
                           /\ votedFor'[x] = votedFor[x]
  PROVE  LeadersElected'
BY ZenonT(60) DEF LeadersElected

(* A node that adopts a higher term is a follower without a vote in it.       *)
LEMMA AdoptStep ==
  ASSUME ElectionTypeOK, ElectionTypeOK', ElectionInv,
         NEW n \in Node, NEW t \in Term, t > currentTerm[n], AdoptTerm(n, t),
         UNCHANGED <<members, voteRequests, voteReplies, claims, elections,
                     promoting>>
  PROVE  /\ TermsReached' /\ VotesRemembered' /\ OneVotePerTerm'
         /\ ElectionsBacked' /\ TermWonOnce' /\ LeadersElected'
<1> USE DEF ElectionInv
<1>1. /\ currentTerm' = [currentTerm EXCEPT ![n] = t]
      /\ votedFor' = [votedFor EXCEPT ![n] = None]
      /\ role' = [role EXCEPT ![n] = "follower"]
  BY ZenonT(60) DEF AdoptTerm
<1>2. /\ TermsReached' /\ VotesRemembered' /\ OneVotePerTerm'
      /\ ElectionsBacked' /\ TermWonOnce'
  BY <1>1, QuietStep, ZenonT(60) DEF ElectionTypeOK
<1>3. \A v, x : Votes(v, x)' = Votes(v, x) /\ (Stood(v, x)' <=> Stood(v, x))
  BY VotesKept
<1>4. \A x : Elected(x)' = Elected(x)
  BY ElectedKept, ZenonT(60)
<1>5. LeadersElected'
  <2>1. \A x \in Node : \/ role'[x] = "follower"
                       \/ /\ role'[x] = role[x]
                          /\ currentTerm'[x] = currentTerm[x]
                          /\ votedFor'[x] = votedFor[x]
    BY <1>1, NodeTypes, ZenonT(60)
  <2> QED BY <1>3, <1>4, <2>1, LeadersKept, ZenonT(60)
<1> QED
  BY <1>2, <1>5

(* A higher term in an answer makes its reader a follower without a vote.     *)
LEMMA ObserveStep ==
  ASSUME ElectionTypeOK, ElectionTypeOK', ElectionInv,
         NEW n \in Node, NEW m \in Node, NEW t \in Term,
         ObserveRemoteTerm(n, m, t)
  PROVE  ElectionInv'
<1> USE DEF ElectionInv
<1>1. /\ AdoptTerm(n, t)
      /\ t > currentTerm[n]
      /\ UNCHANGED <<members, round, voteRequests, voteReplies, claims,
                     elections, promoting>>
  BY ZenonT(60) DEF ObserveRemoteTerm, netVars
<1>3. /\ TermsReached' /\ VotesRemembered' /\ OneVotePerTerm'
      /\ ElectionsBacked' /\ TermWonOnce' /\ LeadersElected'
  BY <1>1, AdoptStep, ZenonT(60)
<1>4. FixedMembers'
  BY <1>1, ZenonT(60) DEF FixedMembers
<1>5. RoundsBacked'
  BY <1>1, VotesKept, ZenonT(60) DEF RoundsBacked
<1> QED
  BY <1>3, <1>4, <1>5

(* A vote that is counted was cast for the round that counts it.              *)
LEMMA CountStep ==
  ASSUME ElectionTypeOK, ElectionTypeOK', ElectionInv,
         NEW n \in Node, NEW r \in voteReplies, CountVote(n, r)
  PROVE  ElectionInv'
<1> USE DEF ElectionInv
<1>1. /\ UNCHANGED <<members, voteRequests, voteReplies, claims, elections,
                     promoting>>
      /\ r.cand = n
      /\ r.term = round[n].term
      /\ round[n] # IdleRound
  BY ZenonT(60) DEF CountVote, netVars
<1>2. r \in VoteReply /\ round \in [Node -> Round]
  BY ZenonT(60) DEF ElectionTypeOK
<1>3. \A v, x : Votes(v, x)' = Votes(v, x) /\ (Stood(v, x)' <=> Stood(v, x))
  BY <1>1, VotesKept, ZenonT(60)
<1>4. \A x : Elected(x)' = Elected(x)
  BY <1>1, ElectedKept, ZenonT(60)
<1>5. CASE r.voterTerm > r.term
  <2>1. round' = [round EXCEPT ![n] = IdleRound]
    BY <1>5, ZenonT(60) DEF CountVote
  <2>2. FixedMembers'
    BY <1>1, <1>2, <2>1, ZenonT(60) DEF FixedMembers
  <2>3. RoundsBacked'
    BY <1>2, <1>3, <2>1, ZenonT(60) DEF RoundsBacked
  <2>4. /\ TermsReached' /\ VotesRemembered' /\ OneVotePerTerm'
        /\ ElectionsBacked' /\ TermWonOnce' /\ LeadersElected'
    <3>1. CASE r.voterTerm > currentTerm[n]
      <4>1. AdoptTerm(n, r.voterTerm)
        BY <1>5, <3>1, Zenon DEF CountVote
      <4>2. r.voterTerm \in Term
        BY <1>2, ZenonT(60) DEF VoteReply
      <4> QED BY <1>1, <3>1, <4>1, <4>2, AdoptStep, ZenonT(60)
    <3>2. CASE ~(r.voterTerm > currentTerm[n])
      <4>1. UNCHANGED <<role, currentTerm, votedFor>>
        BY <1>5, <3>2, ZenonT(60) DEF CountVote
      <4>2. LeadersElected'
        BY <1>1, <1>3, <1>4, <4>1, ZenonT(60) DEF LeadersElected
      <4> QED BY <1>1, <4>1, <4>2, QuietStep
    <3> QED BY <3>1, <3>2, ZenonT(60)
  <2> QED BY <2>2, <2>3, <2>4
<1>6. CASE ~(r.voterTerm > r.term)
  <2>1. /\ r.granted
        /\ round' = [round EXCEPT ![n].granted = @ \union {r.voter}]
        /\ UNCHANGED <<role, currentTerm, votedFor>>
    BY <1>6, Zenon DEF CountVote
  <2>2. \A x \in Node : /\ round'[x].term = round[x].term
                        /\ round'[x].peers = round[x].peers
    BY <1>2, <2>1 DEF Round
  <2>3. \A x \in Node \ {n} : round'[x] = round[x]
    BY <1>2, <2>1
  <2>4. round'[n].granted = round[n].granted \union {r.voter}
    BY <1>2, <2>1, SMTT(60), ZenonT(60) DEF Round
  <2>5. FixedMembers'
    BY <1>1, <2>2, <2>3 DEF FixedMembers
  <2>6. n \in Votes(r.voter, round[n].term)
    BY <1>1, <2>1, ZenonT(60) DEF Votes, VoteSent
  <2>7. RoundsBacked'
    <3> SUFFICES ASSUME NEW x \in Node, round'[x] # IdleRound
                 PROVE  /\ Stood(x, round'[x].term)
                        /\ \A v \in round'[x].granted :
                              x \in Votes(v, round'[x].term)
      BY <1>3, ZenonT(60) DEF RoundsBacked
    <3>1. CASE x # n
      BY <2>3, <3>1, ZenonT(60) DEF RoundsBacked
    <3>2. CASE x = n
      BY <1>1, <2>2, <2>4, <2>6, <3>2 DEF RoundsBacked
    <3> QED BY <3>1, <3>2, ZenonT(60)
  <2>8. LeadersElected'
    BY <1>1, <1>3, <1>4, <2>1, ZenonT(60) DEF LeadersElected
  <2> QED BY <1>1, <2>1, <2>5, <2>7, <2>8, QuietStep
<1> QED
  BY <1>5, <1>6

(* Whoever follows a leader follows one that has won its term.                *)
LEMMA AcceptStep ==
  ASSUME ElectionTypeOK, ElectionTypeOK', ElectionInv,
         NEW m \in Node, NEW c \in claims,
         HandleHeartbeat(m, c) \/ ObserveLeaderStatus(m, c)
  PROVE  ElectionInv'
<1> USE DEF ElectionInv
<1>0. c \in Claim /\ c.members = Node /\ c.leader \in Elected(c.term)
  BY ZenonT(60) DEF ElectionTypeOK, FixedMembers, LeadersElected
<1>1. /\ UNCHANGED <<round, voteRequests, voteReplies, claims, elections,
                     promoting>>
      /\ c.term >= currentTerm[m]
      /\ role' = [role EXCEPT ![m] = "follower"]
      /\ currentTerm' = [currentTerm EXCEPT ![m] = c.term]
      /\ votedFor' = [votedFor EXCEPT ![m] = c.leader]
      /\ members' = [members EXCEPT ![m] = Node]
  BY NodeAssumption, <1>0
  DEF HandleHeartbeat, ObserveLeaderStatus, AcceptLeader, netVars, Claim
<1>2. /\ TermsReached' /\ VotesRemembered' /\ OneVotePerTerm'
      /\ ElectionsBacked' /\ TermWonOnce'
  <2>1. ASSUME NEW v \in Node
        PROVE  \/ /\ currentTerm'[v] = currentTerm[v]
                  /\ votedFor'[v] = votedFor[v]
               \/ /\ currentTerm'[v] >= currentTerm[v]
                  /\ votedFor'[v] \in Elected(currentTerm'[v])
    <3>1. CASE v = m
      BY <1>0, <1>1, <3>1, NodeTypes, ZenonT(60)
    <3>2. CASE v # m
      BY <1>1, <3>2, NodeTypes, ZenonT(60)
    <3> QED BY <3>1, <3>2, ZenonT(60)
  <2>2. /\ UNCHANGED <<voteRequests, elections>>
        /\ voteReplies' = voteReplies
    BY <1>1, ZenonT(60)
  <2> QED BY <2>1, <2>2, QuietStep, ZenonT(60)
<1>3. \A v, x : Votes(v, x)' = Votes(v, x) /\ (Stood(v, x)' <=> Stood(v, x))
  BY <1>1, VotesKept
<1>4. \A x : Elected(x)' = Elected(x)
  BY <1>1, ElectedKept, ZenonT(60)
<1>5. FixedMembers'
  BY <1>1, ZenonT(60) DEF FixedMembers, ElectionTypeOK
<1>6. RoundsBacked'
  BY <1>1, <1>3, ZenonT(60) DEF RoundsBacked
<1>7. LeadersElected'
  <2>1. \A x \in Node : \/ role'[x] = "follower"
                       \/ /\ role'[x] = role[x]
                          /\ currentTerm'[x] = currentTerm[x]
                          /\ votedFor'[x] = votedFor[x]
    BY <1>1, NodeTypes, ZenonT(60)
  <2>2. claims' = claims
    BY <1>1
  <2> QED BY <1>3, <1>4, <2>1, <2>2, LeadersKept, ZenonT(60)
<1> QED
  BY <1>2, <1>5, <1>6, <1>7, ZenonT(60)

(* A restart keeps the term and the vote, and forgets the round.              *)
LEMMA RestartStep ==
  ASSUME StaticGroup, ElectionTypeOK, ElectionTypeOK', ElectionInv,
         NEW n \in Node, Restart(n) \/ MoveLog(n)
  PROVE  ElectionInv'
<1> USE DEF ElectionInv
<1>1. /\ UNCHANGED <<currentTerm, votedFor, voteRequests, voteReplies, claims,
                     elections>>
      /\ role' = role \/ role' = [role EXCEPT ![n] = InitialRole(n, members[n])]
      /\ round' = round \/ round' = [round EXCEPT ![n] = IdleRound]
      /\ members' = members \/ members' = [members EXCEPT ![n] = @ \union {n}]
      /\ promoting' = promoting \/ promoting' = promoting \ {n}
  BY DEF Restart, MoveLog, netVars
<1>2. ~(Node \subseteq {n})
  <2>1. Cardinality({n}) = 1 /\ IsFiniteSet({n})
    BY FS_Singleton, Zenon
  <2>2. Node \subseteq {n} => Cardinality(Node) <= Cardinality({n})
    BY <2>1, FS_Subset
  <2>3. Cardinality(Node) \in Nat
    BY NodeAssumption, FS_CardinalityType, ZenonT(60)
  <2> QED BY <2>1, <2>2, <2>3 DEF StaticGroup
<1>3. InitialRole(n, members[n]) = "follower"
  BY <1>2, ZenonT(60) DEF InitialRole, FixedMembers
<1>4. /\ TermsReached' /\ VotesRemembered' /\ OneVotePerTerm'
      /\ ElectionsBacked' /\ TermWonOnce'
  BY <1>1, QuietStep, ZenonT(60)
<1>5. \A v, x : Votes(v, x)' = Votes(v, x) /\ (Stood(v, x)' <=> Stood(v, x))
  BY <1>1, VotesKept, ZenonT(60)
<1>6. \A x : Elected(x)' = Elected(x)
  BY <1>1, ElectedKept, ZenonT(60)
<1>7. FixedMembers'
  <2>1. members' = members
    <3>1. members \in [Node -> SUBSET Node] /\ members[n] \union {n} = members[n]
      BY NodeTypes, ZenonT(60) DEF FixedMembers
    <3> QED BY <1>1, <3>1, ZenonT(60)
  <2>2. promoting' = {} /\ claims' = claims
    BY <1>1 DEF FixedMembers
  <2>3. \A x \in Node : round'[x] = round[x] \/ round'[x] = IdleRound
    BY <1>1, NodeTypes, ZenonT(60)
  <2> QED BY <2>1, <2>2, <2>3, ZenonT(60) DEF FixedMembers
<1>8. RoundsBacked'
  BY <1>1, <1>5, ZenonT(60) DEF RoundsBacked, ElectionTypeOK
<1>9. LeadersElected'
  <2>1. \A x \in Node : role'[x] = role[x] \/ role'[x] = "follower"
    BY <1>1, <1>3, NodeTypes, Zenon
  <2> QED BY <1>1, <1>5, <1>6, <2>1, Zenon DEF LeadersElected
<1> QED
  BY <1>4, <1>7, <1>8, <1>9

(* A candidate votes for itself in a term in which it had not voted.          *)
LEMMA BeginStep ==
  ASSUME ElectionTypeOK, ElectionTypeOK', ElectionInv,
         NEW n \in Node, BeginElection(n)
  PROVE  ElectionInv'
<1> USE DEF ElectionInv
<1> DEFINE t == currentTerm[n] + 1
           req == [term |-> t, cand |-> n, log |-> lastLog[n]]
<1>1. /\ role' = [role EXCEPT ![n] = "candidate"]
      /\ currentTerm' = [currentTerm EXCEPT ![n] = t]
      /\ votedFor' = [votedFor EXCEPT ![n] = n]
      /\ round' = [round EXCEPT ![n] =
                     [term |-> t, peers |-> members[n], granted |-> {n}]]
      /\ voteRequests' = voteRequests \union {req}
      /\ UNCHANGED <<members, voteReplies, claims, elections, promoting>>
  BY ZenonT(60) DEF BeginElection
<1>2. /\ t \in Term
      /\ t > currentTerm[n]
      /\ \A x \in Node : currentTerm[x] \in Nat
  <2>1. \A x \in Node : currentTerm[x] \in Nat
    BY NodeTypes, ZenonT(60)
  <2>2. currentTerm[n] < MaxTerm
    BY ZenonT(60) DEF BeginElection
  <2> QED BY <2>1, <2>2, BoundAssumption, SMTT(60), ZenonT(60) DEF Term
<1> HIDE DEF t
<1>3. Votes(n, t) = {} /\ n \notin Elected(t)
  BY <1>2, NoVotesAhead, ZenonT(60)
<1>4. /\ \A v, x : Stood(v, x)' <=> Stood(v, x) \/ (v = n /\ x = t)
      /\ \A v, x : Votes(v, x)' =
           Votes(v, x) \union (IF v = n /\ x = t THEN {n} ELSE {})
  <2>1. \A v, x : Stood(v, x)' <=> Stood(v, x) \/ (v = n /\ x = t)
    <3>1. req.term = t /\ req.cand = n
      BY ZenonT(60)
    <3> HIDE DEF req
    <3> QED BY <1>1, <3>1, ZenonT(60) DEF Stood
  <2>2. \A v, c, x : VoteSent(v, c, x)' <=> VoteSent(v, c, x)
    BY <1>1, ZenonT(60) DEF VoteSent
  <2> QED BY <2>1, <2>2, ZenonT(60) DEF Votes
<1>5. \A x : Elected(x)' = Elected(x)
  BY <1>1, ElectedKept, ZenonT(60)
<1>6. FixedMembers'
  BY <1>1, ZenonT(60) DEF FixedMembers, ElectionTypeOK
<1>7. TermsReached'
  <2>1. t \in Nat /\ currentTerm'[n] = t
    BY <1>1, <1>2, NodeTypes, TermsAreNat, ZenonT(60)
  <2>2. \A x \in Node : currentTerm'[x] \in Nat /\ currentTerm'[x] >= currentTerm[x]
    BY <1>1, <1>2, <2>1, NodeTypes, NatOrder, ZenonT(60)
  <2>3. req.term <= currentTerm'[req.cand]
    BY <2>1, NatOrder, ZenonT(60)
  <2> HIDE DEF req
  <2> QED BY <1>1, <2>2, <2>3, TermsGrow, Zenon DEF TermsReached
<1>8. VotesRemembered'
  <2> SUFFICES ASSUME NEW v \in Node
               PROVE  \/ votedFor'[v] \in Elected(currentTerm'[v])
                      \/ Votes(v, currentTerm[v])' = {votedFor'[v]} \ {None}
    BY <1>5, ZenonT(60) DEF VotesRemembered
  <2>1. CASE v = n
    <3>1. currentTerm'[v] = t /\ votedFor'[v] = n
      BY <1>1, <2>1, NodeTypes, ZenonT(60)
    <3>2. Votes(v, currentTerm[v])' = {n} /\ n # None
      BY NodeAssumption, <1>3, <1>4, <2>1, <3>1, ZenonT(60)
    <3> QED BY <3>1, <3>2, ZenonT(60)
  <2>2. CASE v # n
    <3>1. currentTerm'[v] = currentTerm[v] /\ votedFor'[v] = votedFor[v]
      BY <1>1, <2>2, NodeTypes
    <3>2. Votes(v, currentTerm[v])' = Votes(v, currentTerm[v])
      BY <1>4, <2>2, <3>1, ZenonT(60)
    <3> QED BY <3>1, <3>2, ZenonT(60) DEF VotesRemembered
  <2> QED BY <2>1, <2>2, ZenonT(60)
<1>9. OneVotePerTerm'
  BY <1>3, <1>4, <1>5 DEF OneVotePerTerm
<1>10. RoundsBacked'
  BY <1>1, <1>4, ZenonT(60) DEF RoundsBacked, ElectionTypeOK
<1>11. LeadersElected'
  <2>1. \A x \in Node \ {n} : /\ role'[x] = role[x]
                              /\ currentTerm'[x] = currentTerm[x]
                              /\ votedFor'[x] = votedFor[x]
    BY <1>1, NodeTypes, ZenonT(60)
  <2>2. role'[n] = "candidate" /\ currentTerm'[n] = t /\ votedFor'[n] = n
    BY <1>1, NodeTypes, ZenonT(60)
  <2>3. \A v, x : Stood(v, x) => Stood(v, x)'
    BY <1>4
  <2>4. \A x : x = t => Stood(n, x)'
    BY <1>4, ZenonT(60)
  <2>5. ASSUME NEW x \in Node, role'[x] = "candidate"
        PROVE  /\ Stood(x, currentTerm[x])'
               /\ votedFor'[x] = x
               /\ x \notin Elected(currentTerm'[x])
    <3>1. CASE x = n
      BY <1>3, <2>2, <2>4, <3>1, ZenonT(60)
    <3>2. CASE x # n
      BY <2>1, <2>3, <2>5, <3>2, ZenonT(60) DEF LeadersElected
    <3> QED BY <3>1, <3>2
  <2>6. ASSUME NEW x \in Node, role'[x] = "leader"
        PROVE  x \in Elected(currentTerm'[x])
    BY <2>1, <2>2, <2>6, ZenonT(60) DEF LeadersElected
  <2>7. \A c \in claims' : c.leader \in Elected(c.term)
    BY <1>1, ZenonT(60) DEF LeadersElected
  <2> QED BY <1>5, <2>5, <2>6, <2>7, ZenonT(60) DEF LeadersElected
<1>12. ElectionsBacked'
  <2> SUFFICES ASSUME NEW e \in elections, NEW v \in e.voters
               PROVE  Votes(v, e.term)' = Votes(v, e.term)
    BY <1>1, <1>5, ZenonT(60) DEF ElectionsBacked
  <2>1. e.leader \in Votes(v, e.term)
    BY ZenonT(60) DEF ElectionsBacked
  <2> QED BY <1>3, <1>4, <2>1
<1>13. TermWonOnce'
  BY <1>1, ZenonT(60) DEF TermWonOnce
<1> QED
  BY <1>6, <1>7, <1>8, <1>9, <1>10, <1>11, <1>12, <1>13, ZenonT(60)

(* The heart of the argument: a round that ends with a quorum shares a voter  *)
(* with any earlier winner of its term, and that voter would have had to vote *)
(* twice.                                                                     *)
LEMMA FinalizeStep ==
  ASSUME ElectionTypeOK, ElectionTypeOK', ElectionInv,
         NEW n \in Node, FinalizeElection(n)
  PROVE  ElectionInv'
<1> USE DEF ElectionInv
<1> DEFINE t == round[n].term
           win == [term |-> t, leader |-> n, voters |-> round[n].granted]
<1>1. /\ round[n] # IdleRound
      /\ round' = [round EXCEPT ![n] = IdleRound]
      /\ UNCHANGED <<currentTerm, votedFor, members, voteRequests, voteReplies,
                     claims, promoting>>
  BY DEF FinalizeElection, netVars
<1>2. \A v, x : Votes(v, x)' = Votes(v, x) /\ (Stood(v, x)' <=> Stood(v, x))
  BY <1>1, VotesKept, ZenonT(60)
<1>3. FixedMembers'
  BY <1>1, ZenonT(60) DEF FixedMembers, ElectionTypeOK
<1>4. RoundsBacked'
  BY <1>1, <1>2, ZenonT(60) DEF RoundsBacked, ElectionTypeOK
<1>5. CASE /\ currentTerm[n] = t
           /\ role[n] = "candidate"
           /\ HasQuorum(round[n].granted, round[n].peers)
  <2>1. /\ role' = [role EXCEPT ![n] = "leader"]
        /\ elections' = elections \union {win}
    BY <1>5, Zenon DEF FinalizeElection
  <2>2. /\ t \in Term
        /\ round[n].granted \in SUBSET Node
        /\ round[n].peers = Node
        /\ \A v \in round[n].granted : n \in Votes(v, t)
        /\ n \notin Elected(t)
    BY <1>1, <1>5, ZenonT(60)
    DEF ElectionTypeOK, Round, FixedMembers, RoundsBacked,
                      LeadersElected
  <2>3. Elected(t) = {}
    <3> SUFFICES ASSUME NEW e \in elections, e.term = t PROVE FALSE
      BY ZenonT(60) DEF Elected
    <3>1. e.voters \in SUBSET Node /\ HasQuorum(e.voters, Node)
      BY DEF ElectionTypeOK, ElectionsBacked
    <3>2. PICK v \in Node : v \in e.voters /\ v \in round[n].granted
      BY <1>5, <2>2, <3>1, QuorumsIntersect, Zenon
    <3>3. Votes(v, t) \subseteq Elected(t)
      BY <3>2, Zenon DEF ElectionsBacked
    <3> QED BY <2>2, <3>2, <3>3, ZenonT(60)
  <2>4. \A x : Elected(x)' = Elected(x) \union (IF x = t THEN {n} ELSE {})
    <3>1. win.term = t /\ win.leader = n
      BY ZenonT(60)
    <3> HIDE DEF win, t
    <3> QED BY <2>1, <3>1, ZenonT(60) DEF Elected
  <2>5. \A v \in round[n].granted : Votes(v, t) = {n}
    BY <2>2, <2>3, SMTT(60), ZenonT(60) DEF OneVotePerTerm
  <2>6. TermsReached'
    <3>1. win.term <= currentTerm[win.leader]
      BY <1>5, NodeTypes, NatOrder, ZenonT(60)
    <3> HIDE DEF win
    <3> QED BY <1>1, <2>1, <3>1, ZenonT(60) DEF TermsReached
  <2>7. VotesRemembered'
    BY <1>1, <1>2, <2>4, ZenonT(60) DEF VotesRemembered
  <2>8. OneVotePerTerm'
    BY <1>2, <2>4 DEF OneVotePerTerm
  <2>9. LeadersElected'
    <3>1. ASSUME NEW x \in Node, role'[x] = "candidate"
          PROVE  x # n /\ role[x] = "candidate"
      BY <2>1, <3>1, Zenon DEF ElectionTypeOK
    <3>2. ASSUME NEW x \in Node, role'[x] = "leader"
          PROVE  x \in Elected(currentTerm[x])'
      BY <1>1, <1>5, <2>1, <2>4, <3>2, ZenonT(60)
      DEF LeadersElected, ElectionTypeOK
    <3> QED BY <1>1, <1>2, <2>4, <3>1, <3>2, Zenon DEF LeadersElected
  <2>10. ElectionsBacked'
    <3> SUFFICES ASSUME NEW e \in elections'
                 PROVE  /\ HasQuorum(e.voters, Node)
                        /\ \A v \in e.voters :
                             /\ e.leader \in Votes(v, e.term)
                             /\ Votes(v, e.term) \subseteq Elected(e.term)'
      BY <1>2, ZenonT(60) DEF ElectionsBacked
    <3>1. CASE e \in elections
      BY <2>4, <3>1, ZenonT(60) DEF ElectionsBacked
    <3>2. CASE e = win
      BY <1>5, <2>2, <2>4, <2>5, <3>2, ZenonT(60)
    <3> QED BY <2>1, <3>1, <3>2, Zenon
  <2>11. TermWonOnce'
    <3>1. \A e \in elections : e.term # t
      BY <2>3, ZenonT(60) DEF Elected
    <3>2. win.term = t
      BY ZenonT(60)
    <3> HIDE DEF win, t
    <3> QED BY <2>1, <3>1, <3>2, Zenon DEF TermWonOnce
  <2> QED
    BY <1>3, <1>4, <2>6, <2>7, <2>8, <2>9, <2>10, <2>11
<1>6. CASE ~(/\ currentTerm[n] = t
             /\ role[n] = "candidate"
             /\ HasQuorum(round[n].granted, round[n].peers))
  <2>1. UNCHANGED <<role, elections>>
    BY <1>6, ZenonT(60) DEF FinalizeElection
  <2>2. LeadersElected'
    BY <1>1, <1>2, <2>1, ElectedKept, ZenonT(60) DEF LeadersElected
  <2> QED
    BY <1>1, <1>3, <1>4, <2>1, <2>2, QuietStep
<1> QED
  BY <1>5, <1>6, ZenonT(60)

(* A node grants its vote only if it has none in that term, or to a candidate *)
(* it has already voted for, or to the winner.                                *)
LEMMA VoteStep ==
  ASSUME ElectionTypeOK, ElectionTypeOK', ElectionInv,
         NEW m \in Node, NEW q \in voteRequests, NEW recent \in BOOLEAN,
         HandleVoteRequest(m, q, recent)
  PROVE  ElectionInv'
<1> USE DEF ElectionInv
<1> DEFINE adopt == q.term > currentTerm[m]
           voted == IF adopt THEN None ELSE votedFor[m]
           known == IF adopt THEN None ELSE leaderNode[m]
           grant == /\ ~(recent /\ LeaseMayRun(known, q.cand))
                    /\ UpToDate(q.log, lastLog[m])
                    /\ voted \in {None, q.cand}
           valid == q.cand \in members[m] /\ q.term >= currentTerm[m]
           vote == VoteAnswer(m, q, TRUE, q.term)
           refusal == VoteAnswer(m, q, FALSE, currentTerm[m])
<1>1. UNCHANGED <<members, round, voteRequests, claims, elections, promoting>>
  BY Zenon DEF HandleVoteRequest
<1>2. /\ q.term \in Term /\ q.term \in Nat
      /\ q.cand \in Node
      /\ \A x \in Node : currentTerm[x] \in Nat
  BY BoundAssumption DEF ElectionTypeOK, VoteRequest, Term
<1>3. \A x : Elected(x)' = Elected(x)
  BY <1>1, ElectedKept
<1>4. FixedMembers'
  BY <1>1, ZenonT(60) DEF FixedMembers
<1>5. CASE ~(valid /\ grant)
  <2>1. voteReplies' \in {voteReplies, voteReplies \union {refusal}}
    BY <1>5, ZenonT(60) DEF HandleVoteRequest
  <2>2. ~refusal.granted
    BY DEF VoteAnswer
  <2>3. /\ voteReplies \subseteq voteReplies'
        /\ \A r \in voteReplies' : r.granted => r \in voteReplies
    <3> HIDE DEF refusal
    <3> QED BY <2>1, <2>2, ZenonT(60)
  <2>4. \A v, x : Votes(v, x)' = Votes(v, x) /\ (Stood(v, x)' <=> Stood(v, x))
    BY <1>1, <2>3, VotesKept
  <2>5. RoundsBacked'
    BY <1>1, <2>4, ZenonT(60) DEF RoundsBacked
  <2>6. CASE valid /\ adopt
    <3>1. /\ currentTerm' = [currentTerm EXCEPT ![m] = q.term]
          /\ votedFor' = [votedFor EXCEPT ![m] = None]
          /\ role' = [role EXCEPT ![m] = "follower"]
      BY <1>5, <2>6, Zenon DEF HandleVoteRequest
    <3>2. LeadersElected'
      <4>1. \A x \in Node : \/ role'[x] = "follower"
                           \/ /\ role'[x] = role[x]
                              /\ currentTerm'[x] = currentTerm[x]
                              /\ votedFor'[x] = votedFor[x]
        BY <3>1, NodeTypes
      <4> QED BY <1>1, <1>3, <2>4, <4>1, ZenonT(60) DEF LeadersElected
    <3>3. /\ TermsReached' /\ VotesRemembered' /\ OneVotePerTerm'
          /\ ElectionsBacked' /\ TermWonOnce'
      <4>1. \A v \in Node : \/ /\ currentTerm'[v] = currentTerm[v]
                              /\ votedFor'[v] = votedFor[v]
                           \/ /\ currentTerm'[v] > currentTerm[v]
                              /\ votedFor'[v] = None
        BY <2>6, <3>1, NodeTypes
      <4> QED BY <1>1, <2>3, <4>1, QuietStep, ZenonT(60)
    <3> QED BY <1>4, <2>5, <3>2, <3>3
  <2>7. CASE ~(valid /\ adopt)
    <3>1. UNCHANGED <<role, currentTerm, votedFor>>
      <4>1. CASE ~valid
        BY <4>1, ZenonT(60) DEF HandleVoteRequest
      <4>2. CASE valid /\ ~adopt
        <5>1. /\ currentTerm' = [currentTerm EXCEPT ![m] = q.term]
              /\ votedFor' = [votedFor EXCEPT ![m] = votedFor[m]]
              /\ role' = [role EXCEPT ![m] = role[m]]
          BY <1>5, <4>2, ZenonT(60) DEF HandleVoteRequest
        <5>2. q.term = currentTerm[m]
          BY <1>2, <4>2
        <5> QED BY <5>1, <5>2, ZenonT(60) DEF ElectionTypeOK
      <4> QED BY <2>7, <4>1, <4>2, Zenon
    <3>2. LeadersElected'
      BY <1>1, <1>3, <2>4, <3>1, Zenon DEF LeadersElected
    <3>3. /\ TermsReached' /\ VotesRemembered' /\ OneVotePerTerm'
          /\ ElectionsBacked' /\ TermWonOnce'
      BY <1>1, <2>3, <3>1, QuietStep, ZenonT(60)
    <3> QED BY <1>4, <2>5, <3>2, <3>3, Zenon
  <2> QED BY <2>6, <2>7, ZenonT(60)
<1>6. CASE valid /\ grant
  <2>1. /\ currentTerm' = [currentTerm EXCEPT ![m] = q.term]
        /\ votedFor' = [votedFor EXCEPT ![m] = q.cand]
        /\ role' = [role EXCEPT ![m] = "follower"]
        /\ voteReplies' = voteReplies \union {vote}
        /\ q.term >= currentTerm[m]
        /\ adopt \/ votedFor[m] \in {None, q.cand}
    BY <1>6, ZenonT(60) DEF HandleVoteRequest
  <2>2. /\ vote.granted /\ vote.voter = m /\ vote.cand = q.cand
        /\ vote.term = q.term
    BY ZenonT(60) DEF VoteAnswer
  <2> HIDE DEF vote, valid, grant, refusal
  <2>3. /\ \A v, x : Stood(v, x)' <=> Stood(v, x)
        /\ \A v, x : Votes(v, x)' = Votes(v, x) \union
             (IF v = m /\ x = q.term THEN {q.cand} ELSE {})
    <3>1. \A v, x : Stood(v, x)' <=> Stood(v, x)
      BY <1>1, ZenonT(60) DEF Stood
    <3>2. \A v, c, x : VoteSent(v, c, x)' <=>
            VoteSent(v, c, x) \/ (v = m /\ c = q.cand /\ x = q.term)
      BY <2>1, <2>2, ZenonT(60) DEF VoteSent
    <3> QED BY <1>2, <3>1, <3>2, ZenonT(60) DEF Votes
  <2>4. q.cand \in Elected(q.term) \/ Votes(m, q.term) \subseteq {q.cand}
    <3>1. CASE adopt
      BY <1>2, <3>1, NoVotesAhead, ZenonT(60)
    <3>2. CASE ~adopt
      <4>1. q.term = currentTerm[m] /\ votedFor[m] \in {None, q.cand}
        BY <1>2, <2>1, <3>2, NodeTypes, NatOrder, ZenonT(60)
      <4>2. None \notin Elected(q.term)
        BY NodeAssumption DEF ElectionTypeOK, Elected
      <4> QED BY <4>1, <4>2, ZenonT(60) DEF VotesRemembered
    <3> QED BY <3>1, <3>2, ZenonT(60)
  <2>5. TermsReached'
    <3>1. currentTerm'[m] = q.term
      BY <2>1, NodeTypes, ZenonT(60)
    <3>2. \A x \in Node : currentTerm'[x] \in Nat /\ currentTerm'[x] >= currentTerm[x]
      BY <1>2, <2>1, NodeTypes, NatOrder, ZenonT(60)
    <3>3. vote.term <= currentTerm'[vote.voter]
      BY <1>2, <2>2, <3>1, NodeTypes, NatOrder, ZenonT(60)
    <3> QED BY <1>1, <2>1, <3>2, <3>3, TermsGrow, ZenonT(60) DEF TermsReached
  <2>6. VotesRemembered'
    <3> SUFFICES ASSUME NEW v \in Node
                 PROVE  \/ votedFor'[v] \in Elected(currentTerm'[v])
                        \/ Votes(v, currentTerm[v])' = {votedFor'[v]} \ {None}
      BY <1>3, Zenon DEF VotesRemembered
    <3>1. CASE v = m
      <4>1. currentTerm'[v] = q.term /\ votedFor'[v] = q.cand
        BY <2>1, <3>1, NodeTypes, ZenonT(60)
      <4>2. Votes(v, currentTerm[v])' = Votes(m, q.term) \union {q.cand}
        BY <2>3, <3>1, <4>1, ZenonT(60)
      <4>3. {q.cand} \ {None} = {q.cand}
        BY NodeAssumption, <1>2, ZenonT(60)
      <4> QED BY <2>4, <4>1, <4>2, <4>3, ZenonT(60)
    <3>2. CASE v # m
      <4>1. currentTerm'[v] = currentTerm[v] /\ votedFor'[v] = votedFor[v]
        BY <2>1, <3>2, NodeTypes
      <4>2. Votes(v, currentTerm[v])' = Votes(v, currentTerm[v])
        BY <2>3, <3>2, <4>1, Zenon
      <4> QED BY <4>1, <4>2, ZenonT(60) DEF VotesRemembered
    <3> QED BY <3>1, <3>2
  <2>7. OneVotePerTerm'
    BY <1>3, <2>3, <2>4, ZenonT(60) DEF OneVotePerTerm
  <2>8. RoundsBacked'
    BY <1>1, <2>3, Zenon DEF RoundsBacked
  <2>9. LeadersElected'
    <3>1. \A x \in Node : \/ role'[x] = "follower"
                         \/ /\ role'[x] = role[x]
                            /\ currentTerm'[x] = currentTerm[x]
                            /\ votedFor'[x] = votedFor[x]
      BY <2>1, NodeTypes
    <3> QED BY <1>1, <1>3, <2>3, <3>1, Zenon DEF LeadersElected
  <2>10. ElectionsBacked'
    <3> SUFFICES ASSUME NEW e \in elections, NEW v \in e.voters
                 PROVE  Votes(v, e.term)' \subseteq Elected(e.term)
      BY <1>1, <1>3, <2>3, ZenonT(60) DEF ElectionsBacked
    <3>1. e.leader \in Votes(v, e.term) /\ Votes(v, e.term) \subseteq Elected(e.term)
      BY DEF ElectionsBacked
    <3> QED BY <2>3, <2>4, <3>1, Zenon
  <2>11. TermWonOnce'
    BY <1>1 DEF TermWonOnce
  <2> QED
    BY <1>4, <2>5, <2>6, <2>7, <2>8, <2>9, <2>10, <2>11
<1> QED
  BY <1>5, <1>6, Zenon

-----------------------------------------------------------------------------
(* One leader per term                                                        *)

(* ElectionInv is inductive in a static group: every handler keeps votes,     *)
(* rounds and elections accounting for each other.                            *)
THEOREM ElectionInvariant ==
  ASSUME StaticGroup
  PROVE  ElectionSpec => []ElectionInv
<1>1. ElectionInit => ElectionInv
  <2> SUFFICES ASSUME ElectionInit PROVE ElectionInv
    OBVIOUS
  <2>1. \A n \in Node : ~(Node \subseteq {n})
    <3> SUFFICES ASSUME NEW n \in Node, Node \subseteq {n} PROVE FALSE
      OBVIOUS
    <3>1. Cardinality({n}) = 1 /\ IsFiniteSet({n})
      BY FS_Singleton, ZenonT(60)
    <3>2. Cardinality(Node) <= 1 /\ Cardinality(Node) \in Nat
      BY <3>1, FS_Subset, NodeAssumption, FS_CardinalityType, SMTT(60), ZenonT(60)
    <3> QED BY <3>2 DEF StaticGroup
  <2>2. \A n \in Node : role[n] = "follower"
    BY <2>1, ZenonT(60) DEF ElectionInit, InitialRole
  <2>3. \A v, t : Votes(v, t) = {} /\ Elected(t) = {}
    BY DEF ElectionInit, Votes, VoteSent, Stood, Elected
  <2> QED
    BY <2>2, <2>3, ZenonT(60)
    DEF ElectionInit, ElectionInv, FixedMembers, TermsReached, VotesRemembered,
        OneVotePerTerm, RoundsBacked, LeadersElected, ElectionsBacked, TermWonOnce
<1>2. ElectionTypeOK /\ ElectionTypeOK' /\ ElectionInv /\
      [ElectionNext]_electionVars => ElectionInv'
  <2> SUFFICES ASSUME ElectionTypeOK, ElectionTypeOK', ElectionInv,
                      [ElectionNext]_electionVars
               PROVE  ElectionInv'
    BY ZenonT(60)
  <2>1. CASE UNCHANGED electionVars
    <3>1. UNCHANGED <<role, currentTerm, votedFor, members, round, voteRequests,
                      voteReplies, claims, elections, promoting>>
      BY <2>1, ZenonT(60) DEF electionVars, nodeVars, netVars
    <3>2. /\ TermsReached' /\ VotesRemembered' /\ OneVotePerTerm'
          /\ ElectionsBacked' /\ TermWonOnce'
      BY <3>1, QuietStep
    <3>3. FixedMembers' /\ RoundsBacked' /\ LeadersElected'
      <4>1. \A v, t : Votes(v, t)' = Votes(v, t) /\ (Stood(v, t)' <=> Stood(v, t))
        BY <3>1, VotesKept, ZenonT(60)
      <4>2. \A t : Elected(t)' = Elected(t)
        BY <3>1, ElectedKept, ZenonT(60)
      <4>3. FixedMembers' /\ RoundsBacked'
        BY <3>1, <4>1, ZenonT(60) DEF ElectionInv, FixedMembers, RoundsBacked
      <4>4. LeadersElected'
        BY <3>1, <4>1, <4>2, ZenonT(60) DEF ElectionInv, LeadersElected
      <4> QED BY <4>3, <4>4, ZenonT(60)
    <3> QED BY <3>2, <3>3, ZenonT(60) DEF ElectionInv
  <2>2. CASE ElectionNext
    BY <2>2, NoOperator, AnnounceStep, ObserveStep, CountStep, AcceptStep,
       RestartStep, BeginStep, FinalizeStep, VoteStep, ZenonT(60)
       DEF ElectionNext, GroupNext, OperatorNext
  <2> QED BY <2>1, <2>2
<1> QED
  BY <1>1, <1>2, TypeCorrect, PTL DEF ElectionSpec

(* Whatever is lost, repeated, reordered or restarted, no two nodes of a      *)
(* static group lead the same term at once, and no term is won twice.         *)
THEOREM OneLeader ==
  ASSUME StaticGroup
  PROVE  ElectionSpec => [](OneLeaderPerTerm /\ TermWonOnce)
<1>1. ElectionInv => OneLeaderPerTerm /\ TermWonOnce
  BY DEF ElectionInv, LeadersElected, TermWonOnce, OneLeaderPerTerm, Elected
<1> QED
  BY <1>1, ElectionInvariant, PTL

(* A node never forgets, across restarts either, whom it voted for in its     *)
(* current term, until the winner of that term replaces the vote.             *)
THEOREM VotesAreRemembered ==
  ASSUME StaticGroup
  PROVE  ElectionSpec => []VotesRemembered
<1>1. ElectionInv => VotesRemembered
  BY DEF ElectionInv
<1> QED
  BY <1>1, ElectionInvariant, PTL

-----------------------------------------------------------------------------
(* Candidates and leaders hold their own vote                                 *)

(* A node that follows after a step, or stands with its own vote, keeps the   *)
(* invariant if the other nodes do not change.                                *)
LEMMA FollowsAfter ==
  ASSUME ElectionTypeOK, StandingKeepsVote, NEW n \in Node,
         role' = [role EXCEPT ![n] = "follower"],
         \E v : votedFor' = [votedFor EXCEPT ![n] = v]
  PROVE  StandingKeepsVote'
BY NodeTypes DEF StandingKeepsVote

LEMMA StandsAfter ==
  ASSUME ElectionTypeOK, StandingKeepsVote, NEW n \in Node,
         \E r : role' = [role EXCEPT ![n] = r],
         votedFor' = [votedFor EXCEPT ![n] = n]
  PROVE  StandingKeepsVote'
BY NodeTypes DEF StandingKeepsVote

LEMMA StandingStep ==
  ASSUME Seed = {}, ElectionTypeOK, StandingKeepsVote, ElectionNext
  PROVE  StandingKeepsVote'
<1>0. /\ role \in [Node -> Role] /\ votedFor \in [Node -> Node \union {None}]
  BY NodeTypes
<1>1. CASE UNCHANGED <<role, votedFor>>
  BY <1>1 DEF StandingKeepsVote
<1>2. ASSUME NEW n \in Node, BeginElection(n) \/ PromoteFollower(n)
      PROVE  StandingKeepsVote'
  <2>1. \/ \E r : /\ role' = [role EXCEPT ![n] = r]
                   /\ votedFor' = [votedFor EXCEPT ![n] = n]
        \/ UNCHANGED <<role, votedFor>>
    BY <1>2, Zenon DEF BeginElection, PromoteFollower
  <2> QED BY <1>1, <2>1, StandsAfter
<1>3. ASSUME NEW n \in Node, NEW t, AdoptTerm(n, t)
      PROVE  StandingKeepsVote'
  <2>1. /\ role' = [role EXCEPT ![n] = "follower"]
        /\ votedFor' = [votedFor EXCEPT ![n] = None]
    BY <1>3 DEF AdoptTerm
  <2> QED BY <2>1, FollowsAfter, Zenon
<1>4. ASSUME NEW n \in Node, NEW r \in voteReplies, CountVote(n, r)
      PROVE  StandingKeepsVote'
  <2>1. (\E t : AdoptTerm(n, t)) \/ UNCHANGED <<role, votedFor>>
    BY <1>4, Zenon DEF CountVote
  <2> QED BY <1>1, <1>3, <2>1
<1>5. ASSUME NEW n \in Node, NEW m \in Node, NEW t \in Term,
             ObserveRemoteTerm(n, m, t)
      PROVE  StandingKeepsVote'
  BY <1>3, <1>5 DEF ObserveRemoteTerm
<1>6. ASSUME NEW m \in Node, NEW q \in voteRequests, NEW recent \in BOOLEAN,
             HandleVoteRequest(m, q, recent)
      PROVE  StandingKeepsVote'
  <2>1. \/ UNCHANGED <<role, votedFor>>
        \/ /\ role' = [role EXCEPT ![m] = role[m]]
           /\ votedFor' = [votedFor EXCEPT ![m] = votedFor[m]]
        \/ \E v : /\ role' = [role EXCEPT ![m] = "follower"]
                   /\ votedFor' = [votedFor EXCEPT ![m] = v]
    BY <1>6, ZenonT(60) DEF HandleVoteRequest
  <2>2. CASE /\ role' = [role EXCEPT ![m] = role[m]]
             /\ votedFor' = [votedFor EXCEPT ![m] = votedFor[m]]
    BY <1>0, <1>1, <2>2
  <2> QED BY <1>1, <2>1, <2>2, FollowsAfter
<1>7. ASSUME NEW m \in Node, NEW c \in claims,
             HandleHeartbeat(m, c) \/ ObserveLeaderStatus(m, c)
      PROVE  StandingKeepsVote'
  <2>1. \E v : /\ role' = [role EXCEPT ![m] = "follower"]
               /\ votedFor' = [votedFor EXCEPT ![m] = v]
    BY <1>7, ZenonT(60) DEF HandleHeartbeat, ObserveLeaderStatus, AcceptLeader
  <2> QED BY <2>1, FollowsAfter, Zenon
<1>8. ASSUME NEW n \in Node, FinalizeElection(n)
      PROVE  StandingKeepsVote'
  <2>1. \/ UNCHANGED <<role, votedFor>>
        \/ /\ role[n] = "candidate"
           /\ role' = [role EXCEPT ![n] = "leader"] /\ UNCHANGED votedFor
    BY <1>8, Zenon DEF FinalizeElection
  <2>2. CASE /\ role[n] = "candidate"
             /\ role' = [role EXCEPT ![n] = "leader"] /\ UNCHANGED votedFor
    <3>1. votedFor[n] = n
      BY <2>2 DEF StandingKeepsVote
    <3>2. votedFor' = [votedFor EXCEPT ![n] = n]
      BY <1>0, <2>2, <3>1
    <3> QED BY <2>2, <3>2, StandsAfter, Zenon
  <2> QED BY <1>1, <2>1, <2>2
<1>9. ASSUME NEW n \in Node, Restart(n)
      PROVE  StandingKeepsVote'
  <2>1. role' = [role EXCEPT ![n] = "follower"] /\ UNCHANGED votedFor
    BY <1>9 DEF Restart, InitialRole
  <2> QED BY <1>0, <2>1 DEF StandingKeepsVote
<1>10. ASSUME NEW n \in Node, AnnounceLeader(n) \/ CheckPromotion(n) \/ MoveLog(n)
       PROVE  StandingKeepsVote'
  BY <1>1, <1>10 DEF AnnounceLeader, CheckPromotion, MoveLog, nodeVars
<1>11. ASSUME NEW n \in Node, NEW m \in Node,
              AddMember(n, m) \/ RemoveMember(n, m)
       PROVE  StandingKeepsVote'
  BY <1>1, <1>11 DEF AddMember, RemoveMember
<1> QED
  BY <1>2, <1>4, <1>5, <1>6, <1>7, <1>8, <1>9, <1>10, <1>11, ZenonT(60)
  DEF ElectionNext, GroupNext, OperatorNext

(* Whoever stands or leads holds its own vote: for any bounds on promotions   *)
(* by hand, membership edits and restarts, in a group where no node starts as *)
(* the leader it was configured to be.                                        *)
THEOREM StandingHoldsVote ==
  ASSUME Seed = {}
  PROVE  ElectionSpec => []StandingKeepsVote
<1>1. ElectionInit => StandingKeepsVote
  BY DEF ElectionInit, InitialRole, StandingKeepsVote
<1>2. ElectionTypeOK /\ StandingKeepsVote /\ [ElectionNext]_electionVars
        => StandingKeepsVote'
  <2>1. CASE ElectionNext
    BY <2>1, StandingStep
  <2>2. CASE UNCHANGED electionVars
    BY <2>2 DEF electionVars, nodeVars, StandingKeepsVote
  <2> QED BY <2>1, <2>2
<1> QED
  BY <1>1, <1>2, TypeCorrect, PTL DEF ElectionSpec

=============================================================================
