---------------------------- MODULE DurableStore ----------------------------
(* What the storage engine promises, without its files: a log of entries, the *)
(* state it stands for, and calls that happen at once or not at all.  Module  *)
(* Storage is shown to implement it.                                          *)
EXTENDS Naturals, Sequences, SequencesExt

CONSTANT StateOf(_)    \* the state a log stands for

VARIABLES shown,     \* the state a running engine answers from
          log,       \* the entries it has confirmed
          maybe,     \* logs a call that was cut short may leave instead
          status     \* "up", "down" or "refused"

vars == <<shown, log, maybe, status>>

Init ==
  /\ log = <<>>
  /\ shown = StateOf(log)
  /\ maybe = {}
  /\ status = "up"

(* A call that continues the log, or the log up to some entry, has begun.     *)
Begin ==
  /\ status = "up"
  /\ \/ \A h \in maybe' : IsStrictPrefix(log, h)
     \/ \E n \in 0 .. Len(log) :
          /\ SubSeq(log, 1, n) \in maybe'
          /\ \A h \in maybe' : IsPrefix(SubSeq(log, 1, n), h)
  /\ UNCHANGED <<shown, log, status>>

(* It returns: the whole of it is in the log.                                 *)
Confirm ==
  /\ status = "up"
  /\ log' \in maybe
  /\ \A h \in maybe : IsPrefix(h, log')
  /\ shown' = StateOf(log')
  /\ maybe' = {}
  /\ UNCHANGED status

(* The snapshot of another node is shown at once, and is certain once the     *)
(* installation has returned.                                                 *)
Install ==
  /\ status = "up"
  /\ shown' = StateOf(log')
  /\ maybe' = {log}
  /\ UNCHANGED status

Settle ==
  /\ status = "up"
  /\ maybe' = {}
  /\ UNCHANGED <<shown, log, status>>

Stop ==
  /\ status = "up"
  /\ status' = "down"
  /\ shown' = StateOf(<<>>)
  /\ UNCHANGED <<log, maybe>>

(* The log is as it was confirmed, or as the call that was cut short left it. *)
Restart ==
  /\ status = "down"
  /\ status' = "up"
  /\ log' \in {log} \union maybe
  /\ shown' = StateOf(log')
  /\ maybe' = {}

Refuse ==
  /\ status = "down"
  /\ status' = "refused"
  /\ UNCHANGED <<shown, log, maybe>>

Next == Begin \/ Confirm \/ Install \/ Settle \/ Stop \/ Restart \/ Refuse

Spec == Init /\ [][Next]_vars
=============================================================================
