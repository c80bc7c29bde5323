------------------------------ MODULE KeyStore ------------------------------
(* The key space of the engine as data: the store (engine/store.rs), the      *)
(* operations of a WAL entry and what applying them does (engine/state.rs),   *)
(* and the commands, which the engine executes along two paths: evaluated on  *)
(* a state that they change as they go (transactions and write batches), and  *)
(* one by one through the StorageEngine trait (engine/core.rs).               *)
EXTENDS Integers, Sequences, FiniteSets, SequencesExt

CONSTANTS None,              \* Option::None
          IntMin, IntMax,    \* the range of i64
          Second,            \* milliseconds of a second
          TimeMax            \* u64::MAX, as a time

ASSUME KeyStoreAssumption ==
  /\ IntMin \in Int /\ IntMax \in Int /\ IntMin <= 0 /\ 0 <= IntMax
  /\ Second \in Nat \ {0} /\ TimeMax \in Nat

(* Keys are natural numbers, in the order of their bytes.  A value is a       *)
(* number of i64 or a model value that parse_integer_value refuses.           *)
Number == IntMin .. IntMax

----------------------------------------------------------------------------
(* The store: a function from the keys it holds to their StoredValue.         *)

EmptyStore == [k \in {} |-> None]

Lookup(s, k) == IF k \in DOMAIN s THEN s[k] ELSE None

Without(s, k) == [x \in DOMAIN s \ {k} |-> s[x]]

InsertEntry(s, k, e) == (k :> e) @@ s

InsertValue(s, k, v, version) ==
  InsertEntry(s, k, [value |-> v, expires |-> None, version |-> version])

SetExpiration(s, k, at) ==
  IF k \in DOMAIN s THEN [s EXCEPT ![k].expires = at] ELSE s

HasExpiration(s, k) == k \in DOMAIN s /\ s[k].expires # None

ClearExpiration(s, k) == SetExpiration(s, k, None)

Expired(e, now) == e.expires # None /\ e.expires <= now

Purge(s, now) == [k \in {x \in DOMAIN s : ~Expired(s[x], now)} |-> s[k]]

SortedKeys(s) == SetToSortSeq(DOMAIN s, <)

ListEntries(s) == [i \in 1 .. Cardinality(DOMAIN s) |->
                     <<SortedKeys(s)[i], s[SortedKeys(s)[i]].value>>]

NextVersion(e) == IF e = None THEN 1 ELSE e.version + 1

Saturated(t) == IF t > TimeMax THEN TimeMax ELSE t

Resolve(now, expiration) ==
  Saturated(now + IF expiration.unit = "ex" THEN Saturated(expiration.n * Second)
                  ELSE expiration.n)

(* remaining_seconds, rounded up; -1 without an expiration, -2 without a key. *)
TtlFor(s, k, now) ==
  LET e == Lookup(Purge(s, now), k)
  IN CASE e = None -> -2
       [] e # None /\ e.expires = None -> -1
       [] OTHER -> (e.expires - now + Second - 1) \div Second

----------------------------------------------------------------------------
(* WAL operations.                                                            *)

SetOp(k, v, version) == [op |-> "set", key |-> k, value |-> v, version |-> version]
DeleteOp(k) == [op |-> "delete", key |-> k]
ExpireOp(k, at) == [op |-> "expire", key |-> k, at |-> at]
PersistOp(k) == [op |-> "persist", key |-> k]
ClearOp == [op |-> "clear"]
CheckIntegerOp(k, delta) == [op |-> "add", key |-> k, delta |-> delta]

(* The number an entry counts from; None when its value is not a number.      *)
NumberAt(e) ==
  CASE e = None -> 0
    [] e # None /\ e.value \in Number -> e.value
    [] OTHER -> None

(* parse_integer_value and checked_add.                                       *)
CanAdd(e, delta) == NumberAt(e) # None /\ NumberAt(e) + delta \in Number

Rejected(s, o) == o.op = "add" /\ ~CanAdd(Lookup(s, o.key), o.delta)

(* EngineState::apply_operation, for an operation that is not rejected.       *)
ApplyOperation(s, o) ==
  CASE o.op = "set" -> InsertValue(s, o.key, o.value, o.version)
    [] o.op = "delete" -> Without(s, o.key)
    [] o.op = "expire" -> SetExpiration(s, o.key, o.at)
    [] o.op = "persist" -> ClearExpiration(s, o.key)
    [] o.op = "clear" -> EmptyStore
    [] o.op = "add" ->
         LET e == Lookup(s, o.key)
         IN InsertValue(s, o.key, NumberAt(e) + o.delta, NextVersion(e))

(* What a rollback restores: the entries of the keys touched, or the store    *)
(* as the first CLEAR found it.                                               *)
NoRollback == [keys |-> EmptyStore, cleared |-> None]

(* Mutant: the last state of a key replaces the first.                        *)
RememberKeyLast(rb, s, k) ==
  IF rb.cleared # None THEN rb ELSE [rb EXCEPT !.keys = (k :> Lookup(s, k)) @@ @]

RememberKey(rb, s, k) ==
  IF rb.cleared # None \/ k \in DOMAIN rb.keys THEN rb
  ELSE [rb EXCEPT !.keys = (k :> Lookup(s, k)) @@ @]

RememberClear(rb, s) ==
  IF rb.cleared # None THEN rb ELSE [keys |-> EmptyStore, cleared |-> s]

RolledBack(rb, s) ==
  IF rb.cleared # None THEN rb.cleared
  ELSE LET kept == {k \in DOMAIN s \cup DOMAIN rb.keys :
                      k \in DOMAIN rb.keys => rb.keys[k] # None}
       IN [k \in kept |-> IF k \in DOMAIN rb.keys THEN rb.keys[k] ELSE s[k]]

RememberOperation(rb, s, o) ==
  IF o.op = "clear" THEN RememberClear(rb, s) ELSE RememberKey(rb, s, o.key)

(* apply_entry: the operations in order; the first that is rejected stops     *)
(* the entry and rolls back.                                                  *)
ApplyEntry(s, ops) ==
  LET step(r, o) ==
        IF ~r.ok THEN r
        ELSE IF Rejected(r.store, o)
        THEN [r EXCEPT !.ok = FALSE,
                       !.store = RolledBack(RememberOperation(r.rb, r.store, o), r.store)]
        ELSE [r EXCEPT !.store = ApplyOperation(r.store, o),
                       !.rb = RememberOperation(r.rb, r.store, o)]
      done == FoldLeft(step, [ok |-> TRUE, store |-> s, rb |-> NoRollback], ops)
  IN [ok |-> done.ok, store |-> done.store]

=============================================================================
