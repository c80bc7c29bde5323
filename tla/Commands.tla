------------------------------ MODULE Commands ------------------------------
(* What the data commands do to the key space (engine/core.rs), along the     *)
(* engine's two paths.  A command is a record whose field cmd names it.       *)
EXTENDS KeyStore

(* Responses: a tuple that begins with the kind of the response.              *)
OkResult == <<"ok">>
NotFound == <<"not_found">>
Boolean(b) == <<"boolean", b>>
Count(n) == <<"count", n>>
Integer(n) == <<"integer", n>>
Error == <<"error">>

(* value_or_not_found, for an entry or None.                                  *)
ValueOrNotFound(e) == IF e = None THEN NotFound ELSE <<"value", e.value>>

----------------------------------------------------------------------------
(* evaluate_transaction_command: the state it leaves, the operations it logs  *)
(* and its result.  The state is the one before the command, purged.          *)

Evaluated(s, ops, res) == [ok |-> TRUE, store |-> s, ops |-> ops, res |-> res]
Refused(s) == [ok |-> FALSE, store |-> s, ops |-> <<>>, res |-> Error]

Reads(s, res) == Evaluated(s, <<>>, res)

EvalGetDel(s, c) ==
  IF c.key \in DOMAIN s
  THEN Evaluated(Without(s, c.key), <<DeleteOp(c.key)>>, ValueOrNotFound(s[c.key]))
  ELSE Reads(s, NotFound)

EvalGetEx(s, now, c) ==
  LET e == Lookup(s, c.key)
      at == Resolve(now, c.expiration)
  IN CASE e = None -> Reads(s, NotFound)
       [] e # None /\ c.expiration # None ->
            IF at <= now
            THEN Evaluated(Without(s, c.key), <<DeleteOp(c.key)>>, ValueOrNotFound(e))
            ELSE Evaluated(SetExpiration(s, c.key, at), <<ExpireOp(c.key, at)>>,
                           ValueOrNotFound(e))
       [] OTHER ->
            IF c.persist /\ e.expires # None
            THEN Evaluated(ClearExpiration(s, c.key), <<PersistOp(c.key)>>,
                           ValueOrNotFound(e))
            ELSE Reads(s, ValueOrNotFound(e))

(* NX, XX and IF VERSION.                                                     *)
SetAllowed(e, c) ==
  /\ c.condition = "nx" => e = None
  /\ c.condition = "xx" => e # None
  /\ c.version # None => e # None /\ e.version = c.version

SetResult(e, c, applied) ==
  CASE c.previous -> ValueOrNotFound(e)
    [] ~c.previous /\ (c.condition # None \/ c.version # None) -> Boolean(applied)
    [] OTHER -> OkResult

(* Mutant: KEEPTTL is not logged.                                             *)
EvalSetTtlUnlogged(s, now, c) ==
  LET e == Lookup(s, c.key)
      set == InsertValue(s, c.key, c.value, NextVersion(e))
      log == <<SetOp(c.key, c.value, NextVersion(e))>>
      at == Resolve(now, c.expiration)
      res == SetResult(e, c, TRUE)
  IN CASE ~SetAllowed(e, c) -> Reads(s, SetResult(e, c, FALSE))
       [] SetAllowed(e, c) /\ c.expiration # None ->
            IF at <= now
            THEN Evaluated(Without(set, c.key), Append(log, DeleteOp(c.key)), res)
            ELSE Evaluated(SetExpiration(set, c.key, at),
                           Append(log, ExpireOp(c.key, at)), res)
       [] OTHER ->
            IF c.keepttl /\ HasExpiration(s, c.key)
            THEN Evaluated(SetExpiration(set, c.key, e.expires), log, res)
            ELSE Evaluated(set, log, res)

EvalSet(s, now, c) ==
  LET e == Lookup(s, c.key)
      set == InsertValue(s, c.key, c.value, NextVersion(e))
      log == <<SetOp(c.key, c.value, NextVersion(e))>>
      at == Resolve(now, c.expiration)
      res == SetResult(e, c, TRUE)
  IN CASE ~SetAllowed(e, c) -> Reads(s, SetResult(e, c, FALSE))
       [] SetAllowed(e, c) /\ c.expiration # None ->
            IF at <= now
            THEN Evaluated(Without(set, c.key), Append(log, DeleteOp(c.key)), res)
            ELSE Evaluated(SetExpiration(set, c.key, at),
                           Append(log, ExpireOp(c.key, at)), res)
       [] OTHER ->
            IF c.keepttl /\ HasExpiration(s, c.key)
            THEN Evaluated(SetExpiration(set, c.key, e.expires),
                           Append(log, ExpireOp(c.key, e.expires)), res)
            ELSE Evaluated(set, log, res)

EvalSetNx(s, c) ==
  IF c.key \in DOMAIN s THEN Reads(s, Boolean(FALSE))
  ELSE Evaluated(InsertValue(s, c.key, c.value, 1), <<SetOp(c.key, c.value, 1)>>,
                 Boolean(TRUE))

EvalMSet(s, c) ==
  LET step(r, kv) ==
        LET version == NextVersion(Lookup(r.store, kv[1]))
        IN Evaluated(InsertValue(r.store, kv[1], kv[2], version),
                     Append(r.ops, SetOp(kv[1], kv[2], version)), OkResult)
  IN FoldLeft(step, Reads(s, OkResult), c.entries)

EvalDelete(s, c) ==
  LET step(r, k) ==
        IF k \notin DOMAIN r.store THEN r
        ELSE Evaluated(Without(r.store, k), Append(r.ops, DeleteOp(k)),
                       Count(Len(r.ops) + 1))
  IN FoldLeft(step, Reads(s, Count(0)), c.keys)

(* INCR and DECR.                                                             *)
EvalAdd(s, k, delta) ==
  LET e == Lookup(s, k)
      next == NumberAt(e) + delta
  IN IF CanAdd(e, delta)
     THEN Evaluated(InsertValue(s, k, next, NextVersion(e)),
                    <<CheckIntegerOp(k, delta)>>, Integer(next))
     ELSE Refused(s)

EvalExpire(s, now, c) ==
  LET at == Resolve(now, [unit |-> "ex", n |-> c.seconds])
  IN CASE c.key \notin DOMAIN s -> Reads(s, Boolean(FALSE))
       [] c.key \in DOMAIN s /\ c.seconds = 0 ->
            Evaluated(Without(s, c.key), <<DeleteOp(c.key)>>, Boolean(TRUE))
       [] OTHER -> Evaluated(SetExpiration(s, c.key, at), <<ExpireOp(c.key, at)>>,
                             Boolean(TRUE))

EvalPersist(s, c) ==
  IF HasExpiration(s, c.key)
  THEN Evaluated(ClearExpiration(s, c.key), <<PersistOp(c.key)>>, Boolean(TRUE))
  ELSE Reads(s, Boolean(FALSE))

(* The source is removed before the version of the destination is read.       *)
EvalRename(s, c) ==
  LET e == Lookup(s, c.source)
      rest == Without(s, c.source)
      version == NextVersion(Lookup(rest, c.destination))
      moved == InsertValue(rest, c.destination, e.value, version)
      log == <<DeleteOp(c.source), SetOp(c.destination, e.value, version)>>
  IN CASE e = None -> Reads(s, Boolean(FALSE))
       [] e # None /\ e.expires = None -> Evaluated(moved, log, Boolean(TRUE))
       [] OTHER -> Evaluated(SetExpiration(moved, c.destination, e.expires),
                             Append(log, ExpireOp(c.destination, e.expires)),
                             Boolean(TRUE))

EvalRenameNx(s, c) ==
  IF c.destination \in DOMAIN s THEN Reads(s, Boolean(FALSE)) ELSE EvalRename(s, c)

EvalClear(s) ==
  IF DOMAIN s = {} THEN Reads(s, OkResult)
  ELSE Evaluated(EmptyStore, <<ClearOp>>, OkResult)

(* One page of the keys that match, and where the next one begins.            *)
DefaultScanCount == 10

ScanPage(s, c) ==
  LET keys == SelectSeq(SortedKeys(s), LAMBDA k : c.matches = None \/ k \in c.matches)
      limit == IF c.count = None THEN DefaultScanCount ELSE Max({c.count, 1})
      end == Min({c.cursor + limit, Len(keys)})
  IN IF c.cursor >= Len(keys) THEN <<"scan", 0, <<>>>>
     ELSE <<"scan", IF end >= Len(keys) THEN 0 ELSE end,
            SubSeq(keys, c.cursor + 1, end)>>

(* Commands that only read, on a purged state.                                *)
ReadResult(s, now, c) ==
  CASE c.cmd = "get" -> ValueOrNotFound(Lookup(s, c.key))
    [] c.cmd = "mget" -> <<"strings", [i \in DOMAIN c.keys |->
                                         ValueOrNotFound(Lookup(s, c.keys[i]))]>>
    [] c.cmd = "exists" -> Boolean(c.key \in DOMAIN s)
    [] c.cmd = "ttl" -> Integer(TtlFor(s, c.key, now))
    [] c.cmd = "scan" -> ScanPage(s, c)
    [] c.cmd = "dbsize" -> Count(Cardinality(DOMAIN s))
    [] c.cmd = "list" -> <<"entries", ListEntries(s)>>

ReadCommands == {"get", "mget", "exists", "ttl", "scan", "dbsize", "list"}

(* Commands a transaction does not support, whatever they would do.           *)
UnsupportedInTransactions == {"info", "save", "backup", "restore"}

Evaluate(state, now, c) ==
  LET s == Purge(state, now)
  IN CASE c.cmd = "getdel" -> EvalGetDel(s, c)
       [] c.cmd = "getex" -> EvalGetEx(s, now, c)
       [] c.cmd = "set" -> EvalSet(s, now, c)
       [] c.cmd = "setnx" -> EvalSetNx(s, c)
       [] c.cmd = "mset" -> EvalMSet(s, c)
       [] c.cmd = "delete" -> EvalDelete(s, c)
       [] c.cmd = "incr" -> EvalAdd(s, c.key, 1)
       [] c.cmd = "decr" -> EvalAdd(s, c.key, -1)
       [] c.cmd = "expire" -> EvalExpire(s, now, c)
       [] c.cmd = "persist" -> EvalPersist(s, c)
       [] c.cmd = "rename" -> EvalRename(s, c)
       [] c.cmd = "renamenx" -> EvalRenameNx(s, c)
       [] c.cmd = "clear" -> EvalClear(s)
       [] c.cmd \in ReadCommands -> Reads(s, ReadResult(s, now, c))
       [] c.cmd \in UnsupportedInTransactions -> Refused(s)

(* The commands that go to execute_command_batch (engine_worker.rs).          *)
Batchable(c) ==
  \/ c.cmd \in {"set", "setnx", "getdel", "mset", "delete", "expire", "persist",
                "rename", "renamenx", "clear"}
  \/ c.cmd = "getex" /\ (c.expiration # None \/ c.persist)

----------------------------------------------------------------------------
(* The StorageEngine trait: the state a method leaves if it logs nothing, the *)
(* operations it passes to append_and_apply, and the response that            *)
(* execute_command makes of what it returns.                                  *)

Planned(s, ops, res) == [ok |-> TRUE, store |-> s, ops |-> ops, res |-> res]

DirectSet(s, now, c) ==
  LET e == Lookup(s, c.key)
      at == Resolve(now, c.expiration)
      expiry == CASE c.expiration # None ->
                       <<IF at <= now THEN DeleteOp(c.key) ELSE ExpireOp(c.key, at)>>
                  [] c.expiration = None /\ c.keepttl /\ HasExpiration(s, c.key) ->
                       <<ExpireOp(c.key, e.expires)>>
                  [] OTHER -> <<>>
  IN IF SetAllowed(e, c)
     THEN Planned(s, <<SetOp(c.key, c.value, NextVersion(e))>> \o expiry,
                  SetResult(e, c, TRUE))
     ELSE Planned(s, <<>>, SetResult(e, c, FALSE))

DirectSetNx(s, c) ==
  IF c.key \in DOMAIN s THEN Planned(s, <<>>, Boolean(FALSE))
  ELSE Planned(s, <<SetOp(c.key, c.value, 1)>>, Boolean(TRUE))

DirectGetDel(s, c) ==
  Planned(s, IF c.key \in DOMAIN s THEN <<DeleteOp(c.key)>> ELSE <<>>,
          ValueOrNotFound(Lookup(s, c.key)))

DirectGetEx(s, now, c) ==
  LET at == Resolve(now, c.expiration)
      ops == CASE c.key \notin DOMAIN s -> <<>>
               [] c.key \in DOMAIN s /\ c.expiration # None ->
                    <<IF at <= now THEN DeleteOp(c.key) ELSE ExpireOp(c.key, at)>>
               [] OTHER -> IF c.persist /\ HasExpiration(s, c.key)
                           THEN <<PersistOp(c.key)>> ELSE <<>>
  IN Planned(s, ops, ValueOrNotFound(Lookup(s, c.key)))

(* mset does not purge.  A key that occurs twice counts on from itself.       *)
DirectMSet(s, c) ==
  LET before(i) == Cardinality({j \in 1 .. i - 1 : c.entries[j][1] = c.entries[i][1]})
      version(i) == NextVersion(Lookup(s, c.entries[i][1])) + before(i)
  IN Planned(s, [i \in DOMAIN c.entries |->
                   SetOp(c.entries[i][1], c.entries[i][2], version(i))], OkResult)

(* delete_many counts a key as often as it is named, and logs all of them.    *)
DirectDelete(s, c) ==
  LET removed == Cardinality({i \in DOMAIN c.keys : c.keys[i] \in DOMAIN s})
  IN Planned(s, IF removed = 0 THEN <<>>
                ELSE [i \in DOMAIN c.keys |-> DeleteOp(c.keys[i])], Count(removed))

DirectAdd(s, k, delta) ==
  IF CanAdd(Lookup(s, k), delta)
  THEN Planned(s, <<CheckIntegerOp(k, delta)>>, Integer(NumberAt(Lookup(s, k)) + delta))
  ELSE Refused(s)

DirectExpire(s, now, c) ==
  LET at == Resolve(now, [unit |-> "ex", n |-> c.seconds])
  IN IF c.key \notin DOMAIN s THEN Planned(s, <<>>, Boolean(FALSE))
     ELSE Planned(s, <<IF c.seconds = 0 THEN DeleteOp(c.key) ELSE ExpireOp(c.key, at)>>,
                  Boolean(TRUE))

DirectPersist(s, c) ==
  IF HasExpiration(s, c.key) THEN Planned(s, <<PersistOp(c.key)>>, Boolean(TRUE))
  ELSE Planned(s, <<>>, Boolean(FALSE))

(* Mutant: the expiration stays behind.                                       *)
DirectRenameForever(s, c) ==
  LET e == Lookup(s, c.source)
      version == NextVersion(Lookup(s, c.destination))
  IN IF e = None THEN Planned(s, <<>>, Boolean(FALSE))
     ELSE Planned(s, <<DeleteOp(c.source), SetOp(c.destination, e.value, version)>>,
                  Boolean(TRUE))

(* The version of the destination is read while the source is there.          *)
DirectRename(s, c) ==
  LET e == Lookup(s, c.source)
      version == NextVersion(Lookup(s, c.destination))
      expiry == IF HasExpiration(s, c.source)
                THEN <<ExpireOp(c.destination, e.expires)>> ELSE <<>>
  IN IF e = None THEN Planned(s, <<>>, Boolean(FALSE))
     ELSE Planned(s, <<DeleteOp(c.source), SetOp(c.destination, e.value, version)>>
                       \o expiry, Boolean(TRUE))

DirectRenameNx(s, c) ==
  IF c.destination \in DOMAIN s THEN Planned(s, <<>>, Boolean(FALSE))
  ELSE DirectRename(s, c)

(* clear does not purge.                                                      *)
DirectClear(s) == Planned(s, IF DOMAIN s = {} THEN <<>> ELSE <<ClearOp>>, OkResult)

(* execute_command.                                                           *)
Direct(state, now, c) ==
  LET s == Purge(state, now)
  IN CASE c.cmd = "set" -> DirectSet(s, now, c)
       [] c.cmd = "setnx" -> DirectSetNx(s, c)
       [] c.cmd = "getdel" -> DirectGetDel(s, c)
       [] c.cmd = "getex" -> DirectGetEx(s, now, c)
       [] c.cmd = "mset" -> DirectMSet(state, c)
       [] c.cmd = "delete" -> DirectDelete(s, c)
       [] c.cmd = "incr" -> DirectAdd(s, c.key, 1)
       [] c.cmd = "decr" -> DirectAdd(s, c.key, -1)
       [] c.cmd = "expire" -> DirectExpire(s, now, c)
       [] c.cmd = "persist" -> DirectPersist(s, c)
       [] c.cmd = "rename" -> DirectRename(s, c)
       [] c.cmd = "renamenx" -> DirectRenameNx(s, c)
       [] c.cmd = "clear" -> DirectClear(state)
       [] c.cmd \in ReadCommands -> Planned(s, <<>>, ReadResult(s, now, c))

=============================================================================
