----------------------------- MODULE MCStorage -----------------------------
(* Instances of module Storage for TLC.                                       *)
EXTENDS Storage, TLC

W(k) == [kind |-> "set", key |-> k]
Add(k) == [kind |-> "add", key |-> k]

(* A configuration, the batches clients write and the bounds that are not 0.  *)
Setup(sync, retain, size, used, batches, bounds) ==
  [sync |-> sync, retain |-> retain, size |-> size, used |-> used,
   batches |-> batches,
   left |-> [b \in Budget |-> IF b \in DOMAIN bounds THEN bounds[b] ELSE 0]]

Writes == {<<W("a")>>, <<W("a"), W("b")>>}

(* Crashes at any step of appends, rotations and snapshots ...                *)
Crashed == {Setup(sync, retain, 2, FALSE, Writes,
                  [appends |-> 3, snapshots |-> 2, crashes |-> 2])
              : sync \in {"flush", "sync"}, retain \in {0, 1}}

(* ... of the installation of a leader's snapshot ...                         *)
Installed == {Setup("sync", 1, 2, TRUE, Writes,
                    [appends |-> 2, snapshots |-> 1, installs |-> 2, crashes |-> 2])}

(* ... I/O errors, and suffixes replaced between restarts.                    *)
Failing == {Setup("flush", 3, 2, FALSE, Writes,
                  [appends |-> 3, snapshots |-> 1, failures |-> 1, restarts |-> 2])}
Replacing == {Setup("sync", 1, 2, FALSE, Writes,
                    [appends |-> 2, snapshots |-> 1, replaces |-> 2, restarts |-> 1])}

Sound == Crashed \cup Installed \cup Failing \cup Replacing

(* A setup in which a confirmed write is applied twice.                       *)
Counted == {Setup("flush", 1, 0, FALSE, {<<Add("a")>>},
                  [appends |-> 1, snapshots |-> 1, restarts |-> 1])}

=============================================================================
