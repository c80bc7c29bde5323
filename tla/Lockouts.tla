------------------------------ MODULE Lockouts ------------------------------
(* AuthLockoutState (runtime_state.rs): failed authentications by key, where  *)
(* a key is a user at one peer address, or a user at any.  Time starts at 1.  *)
EXTENDS Naturals

Unlocked == 0   \* locked_until_ms: None

(* remaining_lockout_seconds: a lockout of zero remaining seconds still is.   *)
IsLocked(records, key, now) ==
  /\ key \in DOMAIN records
  /\ records[key].until # Unlocked
  /\ records[key].until >= now

(* active_lockout_count keeps the records that are locked now; those that     *)
(* count failures without a lockout go with the expired ones.                 *)
RetainActive(records, now) ==
  [key \in {k \in DOMAIN records : records[k].until > now} |-> records[key]]

ClearSuccess(records, keys) == [key \in DOMAIN records \ keys |-> records[key]]


RecordFailure(records, key, now, window, limit, lockout) ==
  LET fresh == [first |-> now, count |-> 0, until |-> Unlocked]
      found == IF key \in DOMAIN records THEN records[key] ELSE fresh
      record == IF now - found.first > window THEN fresh ELSE found
      count == record.count + 1
  IN [k \in DOMAIN records \cup {key} |->
        IF k # key THEN records[k]
        ELSE [first |-> record.first, count |-> count,
              until |-> IF count >= limit THEN now + lockout ELSE record.until]]

=============================================================================
