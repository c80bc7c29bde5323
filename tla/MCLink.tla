------------------------------- MODULE MCLink -------------------------------
(* Instances of module Link for TLC: every command once, the commands and     *)
(* answers at the limits of both ends, transactions, logins, and calls of one *)
(* and of two tasks through the pool.                                         *)
EXTENDS Link

k == <<1>>
v == <<3, 3>>
queued == <<2, 2>>
binary == <<NotUtf8>>
long == [i \in 1 .. 9 |-> 3]
tooLong == [i \in 1 .. 17 |-> 3]    \* no u16 to the base 4 holds its length

Cmd(op, args) == [op |-> op, args |-> args, meta |-> NoMetadata]
No == Bit(FALSE)
Yes == Bit(TRUE)
Tag(n, fields) == [tag |-> n, fields |-> fields]

(* Arguments for a list of fields, in two variants.                           *)
RECURSIVE Arg(_, _)
Arg(type, n) ==
  CASE type.kind = "number" -> 5 * n + 1
    [] type.kind = "text" -> IF n = 0 THEN <<>> ELSE IF type.utf8 THEN <<n, 2>> ELSE binary
    [] type.kind = "list" ->
         [j \in 1 .. n |-> [i \in DOMAIN type.of |-> Arg(type.of[i], n)]]
    [] type.kind = "choice" ->
         Tag(n, [i \in DOMAIN type.of[n + 1] |-> Arg(type.of[n + 1][i], 1)])

Plain(op, n) == Cmd(op, [i \in DOMAIN Written[op] |-> Arg(Written[op][i], n)])

Sets ==
  {Cmd("SET", <<k, v, Tag(c, <<>>), e, No, p, w>>) :
     c \in {0, 2}, e \in {Nothing, Tag(2, <<7>>)}, p \in {No, Yes}, w \in {Nothing, Just(9)}}

AllCommands == {Plain(op, n) : op \in DOMAIN Written, n \in {0, 1}} \union Sets

Contents ==
  "empty" :> {<<>>} @@ "value" :> {<<v>>, <<binary>>, <<long>>}
  @@ "bool" :> {<<No>>, <<Yes>>} @@ "count" :> {<<0>>, <<200>>} @@ "integer" :> {<<77>>}
  @@ "entries" :> {<< <<>> >>, << <<<<k, v>>, <<v, k>>>> >>}
  @@ "stored" :> {<< <<>> >>, << <<<<k, v>>>> >>, << <<<<k, binary>>>> >>}
  @@ "strings" :> {<< <<<<Just(binary)>>, <<Nothing>>>> >>}
  @@ "scan" :> {<<0, <<>>>>, <<8, <<<<k>>, <<v>>>>>>}
  @@ "exec" :> {<< <<<<Tag(0, <<>>)>>, <<Tag(1, <<>>)>>, <<Tag(2, <<binary>>)>>,
                     <<Tag(3, <<Yes>>)>>, <<Tag(4, <<6>>)>>, <<Tag(5, <<7>>)>>>> >>,
                << <<<<Tag(6, << <<<<k, binary>>>> >>)>>,
                     <<Tag(7, << <<<<Nothing>>, <<Just(v)>>>> >>)>>,
                     <<Tag(8, <<3, <<<<k>>>>>>)>>>> >>}

Peer == [version |-> Version, zstdKnown |-> TRUE, zstd |-> FALSE, max |-> 60, login |-> "none"]
Base0 == [client |-> Peer, server |-> Options(FALSE, 0, 60), auth |-> FALSE, commands |-> <<>>,
          calls |-> <<>>, timeouts |-> FALSE, capacity |-> 1, faults |-> 0]

Script1(cs) == [Base0 EXCEPT !.commands = cs]

(* Both ends with and without compression, thresholds and small limits.       *)
Limits ==
  {[Script1(<<c>>) EXCEPT !.client = [Peer EXCEPT !.zstd = z, !.zstdKnown = y, !.max = m],
                          !.server = Options(s, t, x)] :
     c \in {Plain("GET", 1), Plain("LIST", 0), Cmd("SETNX", <<k, long>>)},
     z \in BOOLEAN, y \in BOOLEAN, m \in {11, 60}, s \in BOOLEAN, t \in {0, 9}, x \in {12, 60}}

Meta(d, t, s) == [deadline |-> d, trace |-> t, sequence |-> s]

Sessions ==
  {Script1(<<Plain("MULTI", 0), Plain("SET", 1), Plain("LIST", 0), Plain("SAVE", 0),
             Plain("EXEC", 0)>>),
   Script1(<<Plain("MULTI", 0), [Plain("INCR", 1) EXCEPT !.meta = Meta(<<>>, <<>>, <<4>>)],
             Plain("DISCARD", 0), Plain("MGET", 1)>>),
   Script1(<<Cmd("GET", <<tooLong>>)>>),
   [Script1(<<Plain("GET", 1)>>) EXCEPT !.client.version = 1],
   [Script1(<<Plain("PING", 1), Plain("GET", 1)>>) EXCEPT !.faults = 2]}
  \union {[Script1(<<Plain("GET", 1)>>) EXCEPT !.auth = TRUE, !.client.login = l] :
            l \in {"right", "wrong", "none"}}
  \union {Script1(<<[Plain("GET", 1) EXCEPT !.meta = Meta(d, t, s)]>>) :
            d \in {<<>>, <<0>>, <<90>>}, t \in {<<>>, <<5>>}, s \in {<<>>, <<6>>}}

Call(op) == [op |-> op, size |-> 2]
OneCall == [Base0 EXCEPT !.calls = <<Call("REPLICATION_APPEND")>>]
TwoCalls == [Base0 EXCEPT !.calls = <<Call("REPLICATION_APPEND"), Call("REPLICATION_HEARTBEAT")>>]

Calls ==
  {[OneCall EXCEPT !.faults = 4],
   [OneCall EXCEPT !.auth = TRUE, !.client.login = "right", !.faults = 1],
   [OneCall EXCEPT !.auth = TRUE, !.client.login = "wrong"],
   [OneCall EXCEPT !.auth = TRUE],
   [OneCall EXCEPT !.client.version = 3],
   [OneCall EXCEPT !.calls[1].size = 40, !.server.max = 20],
   [OneCall EXCEPT !.client.zstd = TRUE, !.server = Options(TRUE, 0, 7), !.auth = TRUE,
                   !.client.login = "right"],
   [TwoCalls EXCEPT !.faults = 2],
   [TwoCalls EXCEPT !.faults = 1, !.timeouts = TRUE]}

AllScenes == {Script1(<<c>>) : c \in AllCommands} \union Limits \union Sessions \union Calls
=============================================================================
