----------------------------- MODULE MCCluster -----------------------------
(* Instances of module Cluster for TLC.                                       *)
EXTENDS Cluster, TLC

(* Every term has its own candidate.                                          *)
InTurn == {<<n, n>> : n \in Node}

(* A write_ack_mode, a fetch_batch_size and the bounds that are not 0.        *)
Setting(m, b, bounds) ==
  [mode |-> m, batch |-> b,
   left |-> [k \in Bounded |-> IF k \in DOMAIN bounds THEN bounds[k] ELSE 0]]

(* A client writes, and the request to the slower follower may arrive when    *)
(* the leader has gone on; a heartbeat overtakes the appends.                 *)
Written == Setting("replica", 3, [writes |-> 1])
Delayed == Setting("replica", 3, [writes |-> 1, late |-> 1])
Overtaken == Setting("replica", 3, [beats |-> 1])

Handover == {Delayed, Overtaken}

(* One thing goes wrong at a time.                                            *)
Polled == Setting("replica", 3, [writes |-> 1, failures |-> 1, pulls |-> 1])
TimedOut == Setting("replica", 3, [writes |-> 2, failures |-> 1, lost |-> 1,
                                   late |-> 1])
TimedOutAll == Setting("all", 3, [writes |-> 2, failures |-> 1, lost |-> 1,
                                  rounds |-> 1])
Pruned == Setting("replica", 1, [writes |-> 1, lost |-> 1, snapshots |-> 1])
Repeated == Setting("replica", 3, [writes |-> 1, repeats |-> 1, rounds |-> 1])
RepeatedBeat == Setting("replica", 3, [repeats |-> 1, beats |-> 1, rounds |-> 1])

Faults == {Polled, TimedOut, TimedOutAll, Pruned, Repeated, RepeatedBeat}

(* Two nodes, of which one restarts, is promoted or leaves.                   *)
Pair == {Written, Overtaken}

(* A new leader rolls back what it inherited.                                 *)
InheritedTail == {Setting("replica", 3, [writes |-> 2, failures |-> 1])}

=============================================================================
