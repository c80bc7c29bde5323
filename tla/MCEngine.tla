------------------------------ MODULE MCEngine ------------------------------
(* Instances of module Engine for TLC: two keys, numbers of two bits, and a   *)
(* text that is not a number.                                                 *)
EXTENDS Engine

CONSTANT Text

LeastNumber == -1

SetC(k, v) == [cmd |-> "set", key |-> k, value |-> v, condition |-> None,
               version |-> None, expiration |-> None, keepttl |-> FALSE,
               previous |-> FALSE]
SetEx(k, v, n) == [SetC(k, v) EXCEPT !.expiration = [unit |-> "ex", n |-> n]]
SetPx(k, v, n) == [SetC(k, v) EXCEPT !.expiration = [unit |-> "px", n |-> n]]
KeyC(cmd, k) == [cmd |-> cmd, key |-> k]
Rename(cmd, a, b) == [cmd |-> cmd, source |-> a, destination |-> b]
GetEx(k, e, p) == [cmd |-> "getex", key |-> k, expiration |-> e, persist |-> p]
Expire(k, n) == [cmd |-> "expire", key |-> k, seconds |-> n]
Delete(ks) == [cmd |-> "delete", keys |-> ks]
MSet(kvs) == [cmd |-> "mset", entries |-> kvs]
Clear == [cmd |-> "clear"]

Work(single, batches, transactions, noop, bounds) ==
  [single |-> single, batches |-> batches, transactions |-> transactions,
   noop |-> noop,
   left |-> [b \in Budget |-> IF b \in DOMAIN bounds THEN bounds[b] ELSE 0]]

(* Every command, through both paths.                                         *)
AllCommands ==
  {SetC(1, 1), SetPx(1, Text, 1), SetEx(2, IntMax, 1), SetEx(1, 0, 0), SetEx(2, 1, 99),
   [SetC(1, 2) EXCEPT !.condition = "nx", !.previous = TRUE],
   [SetC(1, 2) EXCEPT !.condition = "xx", !.keepttl = TRUE],
   [SetC(1, 0) EXCEPT !.version = 2, !.keepttl = TRUE]}
  \cup {[cmd |-> "setnx", key |-> 2, value |-> 0]}
  \cup {KeyC(cmd, 1) : cmd \in {"getdel", "incr", "decr", "persist", "get", "exists", "ttl"}}
  \cup {GetEx(1, None, FALSE), GetEx(1, None, TRUE), GetEx(1, [unit |-> "px", n |-> 2], FALSE),
        GetEx(1, [unit |-> "ex", n |-> 0], FALSE)}
  \cup {Expire(1, 0), Expire(1, 1), Delete(<<1, 2>>), Delete(<<1, 1>>),
        MSet(<<<<1, 0>>, <<2, Text>>, <<1, 1>>>>), Clear,
        [cmd |-> "mget", keys |-> <<1, 2, 1>>], [cmd |-> "dbsize"], [cmd |-> "list"],
        [cmd |-> "scan", matches |-> {2}, cursor |-> 0, count |-> None]}
  \cup {Rename("rename", 1, 2), Rename("rename", 1, 1), Rename("renamenx", 1, 2)}

Singles == Work(AllCommands, {}, {}, FALSE,
                [entries |-> 2, ticks |-> 2, failures |-> 1])

(* Keys that expire, are extended and count while the copies lag behind.      *)
Volatile == {SetPx(1, 1, 1), SetPx(1, Text, 1), KeyC("incr", 1), KeyC("persist", 1), Clear,
             Rename("rename", 1, 2)}
Extended == {SetPx(1, 1, 1), KeyC("incr", 1), KeyC("persist", 1),
             GetEx(1, [unit |-> "px", n |-> 2], FALSE)}

Copies == Work(Extended, {}, {}, TRUE,
               [entries |-> 3, ticks |-> 2, sweeps |-> 1, replays |-> 1, applies |-> 3])

Restarts == Work(Volatile, {}, {}, FALSE,
                 [entries |-> 3, ticks |-> 1, snapshots |-> 1, restarts |-> 1])

(* Batches and transactions that depend on their own effects, and fail.       *)
Pairs == {<<SetPx(1, 1, 1), Rename("rename", 1, 2)>>,
          <<MSet(<<<<1, 0>>, <<2, 1>>, <<1, 1>>>>), Delete(<<1, 1>>)>>,
          <<SetC(2, 2), Clear, SetEx(1, 0, 0)>>,
          <<Clear, SetC(1, Text)>>,
          <<Expire(1, 1), [SetC(1, 2) EXCEPT !.condition = "xx", !.keepttl = TRUE]>>,
          <<GetEx(1, None, TRUE), SetC(1, 0)>>}

Counted == {<<KeyC("incr", 2), Rename("renamenx", 2, 1), KeyC("decr", 1)>>,
            <<Clear, KeyC("incr", 2), KeyC("incr", 2)>>,
            <<SetC(1, 1), KeyC("incr", 2), [cmd |-> "save"]>>,
            <<Expire(1, 1), Rename("rename", 1, 2)>>}

Grouped == Work({}, Pairs, Counted, FALSE,
                [entries |-> 3, failures |-> 1, ticks |-> 1])

BackedUp == Work({SetEx(1, 1, 1), SetC(2, Text), KeyC("incr", 1)}, {}, {}, FALSE,
                 [entries |-> 3, ticks |-> 2, backups |-> 1])

Sound == <<Singles, Copies, Restarts, Grouped, BackedUp>>

=============================================================================
