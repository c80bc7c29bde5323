---------------------------- MODULE MCWritePath ----------------------------
(* Instances of module WritePath for TLC: three clients with one request      *)
(* each, batches of two, and a channel that two requests fill.                *)
EXTENDS WritePath, TLC

CONSTANTS a, b, c

Scene(role0, ack, window, kinds, sync, bounds) ==
  [role |-> role0, ack |-> ack, kind |-> (a :> kinds[1] @@ b :> kinds[2] @@ c :> kinds[3]),
   sync |-> sync, capacity |-> 2, limit |-> 2, window |-> window,
   left |-> [x \in {"failures", "roles", "appends", "snapshots"} |->
               IF x \in DOMAIN bounds THEN bounds[x] ELSE 0]]

Alone == Scene("standalone", "replica", 2, <<"set", "incr", "exec">>, TRUE, [failures |-> 1])
Batches == Scene("standalone", "local", 2, <<"set", "same", "set">>, TRUE, [failures |-> 1])
Leads == Scene("leader", "replica", 1, <<"set", "set", "incr">>, FALSE,
               [failures |-> 1, snapshots |-> 1])
Reelected == Scene("leader", "replica", 2, <<"exec", "none", "incr">>, FALSE,
                 [roles |-> 3, appends |-> 1])
Faulty == Scene("leader", "replica", 2, <<"set", "none", "none">>, FALSE,
                [roles |-> 3, appends |-> 1, failures |-> 1, snapshots |-> 1])
Restores == Scene("leader", "replica", 2, <<"set", "restore", "none">>, FALSE, [roles |-> 1])

Sound == <<Alone, Batches, Leads, Reelected, Faulty, Restores>>

=============================================================================
