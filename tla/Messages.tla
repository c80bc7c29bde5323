------------------------------ MODULE Messages ------------------------------
(* The messages of the protocol over the codec of module Wire: commands as    *)
(* requests, answers as responses, the two hellos and what they settle, and   *)
(* the frames that carry a body.  What one end writes and what the other end  *)
(* reads are separate tables, as they are separate functions in the code.     *)
EXTENDS Wire, TLC

CONSTANT Queued    \* the text "QUEUED"

(* The enum and its conversion into a byte.                                   *)
Opcodes ==
  << "AUTH", "PING", "GET", "GETDEL", "GETEX", "SET", "SETNX", "DELETE", "EXISTS", "MGET",
     "MSET", "INCR", "DECR", "EXPIRE", "TTL", "PERSIST", "RENAME", "RENAMENX", "SCAN", "DBSIZE",
     "INFO", "METRICS", "LIST", "CLEAR", "COUNT", "SAVE", "SNAPSHOT", "MULTI", "EXEC", "DISCARD",
     "BACKUP", "RESTORE", "CREATE_USER", "DROP_USER", "CREATE_ROLE", "DROP_ROLE", "GRANT_ROLE",
     "REVOKE_ROLE", "GRANT_PERMISSION", "REVOKE_PERMISSION", "SHOW_USERS", "SHOW_ROLES",
     "WHOAMI", "BACKUP_TO", "RESTORE_FROM", "RESTORE_CHECK", "RESTORE_CHECK_FROM",
     "ALTER_USER_PASSWORD", "METRICS_PROM", "BACKUP_VERIFY", "BACKUP_VERIFY_FROM",
     "SHOW_GRANTS", "SHOW_GRANTS_FOR_USER", "SHOW_GRANTS_FOR_ROLE", "MAINTENANCE_ON",
     "MAINTENANCE_OFF", "MAINTENANCE_STATUS", "HEALTH", "SHOW_CLUSTER", "CLUSTER_JOIN",
     "CLUSTER_REMOVE", "SHOW_REPLICATION", "PROMOTE_FOLLOWER", "PAUSE_REPLICATION",
     "RESUME_REPLICATION", "REPLICATION_STATUS", "REPLICATION_SNAPSHOT", "REPLICATION_FETCH",
     "REPLICATION_ACK", "REPLICATION_VOTE", "REPLICATION_HEARTBEAT", "REPLICATION_APPEND",
     "REPLICATION_INSTALL_SNAPSHOT" >>

Opcode(op) == CHOOSE i \in DOMAIN Opcodes : Opcodes[i] = op

(* The match that turns a byte back into an Opcode.                           *)
ReadOpcodes ==
  << "AUTH", "PING", "GET", "GETDEL", "GETEX", "SET", "SETNX", "DELETE", "EXISTS", "MGET",
     "MSET", "INCR", "DECR", "EXPIRE", "TTL", "PERSIST", "RENAME", "RENAMENX", "SCAN", "DBSIZE",
     "INFO", "METRICS", "LIST", "CLEAR", "COUNT", "SAVE", "SNAPSHOT", "MULTI", "EXEC", "DISCARD",
     "BACKUP", "RESTORE", "CREATE_USER", "DROP_USER", "CREATE_ROLE", "DROP_ROLE", "GRANT_ROLE",
     "REVOKE_ROLE", "GRANT_PERMISSION", "REVOKE_PERMISSION", "SHOW_USERS", "SHOW_ROLES",
     "WHOAMI", "BACKUP_TO", "RESTORE_FROM", "RESTORE_CHECK", "RESTORE_CHECK_FROM",
     "ALTER_USER_PASSWORD", "METRICS_PROM", "BACKUP_VERIFY", "BACKUP_VERIFY_FROM",
     "SHOW_GRANTS", "SHOW_GRANTS_FOR_USER", "SHOW_GRANTS_FOR_ROLE", "MAINTENANCE_ON",
     "MAINTENANCE_OFF", "MAINTENANCE_STATUS", "HEALTH", "SHOW_CLUSTER", "CLUSTER_JOIN",
     "CLUSTER_REMOVE", "SHOW_REPLICATION", "PROMOTE_FOLLOWER", "PAUSE_REPLICATION",
     "RESUME_REPLICATION", "REPLICATION_STATUS", "REPLICATION_SNAPSHOT", "REPLICATION_FETCH",
     "REPLICATION_ACK", "REPLICATION_VOTE", "REPLICATION_HEARTBEAT", "REPLICATION_APPEND",
     "REPLICATION_INSTALL_SNAPSHOT" >>

-----------------------------------------------------------------------------
(* from_command: the fields a command is written as.                          *)

Bare == {"DBSIZE", "INFO", "METRICS", "METRICS_PROM", "LIST", "CLEAR", "COUNT", "SAVE",
         "SNAPSHOT", "BACKUP", "SHOW_USERS", "SHOW_ROLES", "SHOW_GRANTS", "WHOAMI", "MULTI",
         "EXEC", "DISCARD", "MAINTENANCE_ON", "MAINTENANCE_OFF", "MAINTENANCE_STATUS", "HEALTH",
         "SHOW_CLUSTER", "SHOW_REPLICATION", "PROMOTE_FOLLOWER", "PAUSE_REPLICATION",
         "RESUME_REPLICATION"}

WrittenKeyCommands ==
  [op \in {"GET", "GETDEL", "EXISTS", "INCR", "DECR", "TTL", "PERSIST"} |-> <<Text(2)>>]
  @@ [op \in {"AUTH", "RENAME", "RENAMENX"} |-> <<Text(2), Text(3)>>]
  @@ [op \in {"MGET", "DELETE"} |-> <<List(2, <<Text(2)>>)>>]
  @@ "PING" :> <<Optional(Text(3))>>
  @@ "GETEX" :> <<Text(2), Expiration, Flag>>
  @@ "SET" :> <<Text(2), Bytes(3), Condition, Expiration, Flag, Flag, Optional(U64)>>
  @@ "SETNX" :> <<Text(2), Bytes(3)>>
  @@ "MSET" :> <<List(2, <<Text(2), Bytes(3)>>)>>
  @@ "EXPIRE" :> <<Text(2), U64>>
  @@ "SCAN" :> <<U64, Optional(Text(2)), Optional(U16)>>

WrittenAdminCommands ==
  [op \in Bare |-> <<>>]
  @@ [op \in {"BACKUP_TO", "BACKUP_VERIFY_FROM", "RESTORE_FROM", "RESTORE_CHECK_FROM",
              "DROP_USER", "CREATE_ROLE", "DROP_ROLE", "SHOW_GRANTS_FOR_USER",
              "SHOW_GRANTS_FOR_ROLE", "CLUSTER_REMOVE"} |-> <<Text(2)>>]
  @@ [op \in {"BACKUP_VERIFY", "RESTORE", "RESTORE_CHECK"} |-> <<Text(3)>>]
  @@ [op \in {"ALTER_USER_PASSWORD", "CREATE_USER", "GRANT_ROLE", "REVOKE_ROLE",
              "CLUSTER_JOIN"} |-> <<Text(2), Text(3)>>]
  @@ [op \in {"GRANT_PERMISSION", "REVOKE_PERMISSION"} |-> <<Text(2), Text(2), Text(2)>>]

Written == WrittenKeyCommands @@ WrittenAdminCommands

(* into_command: the fields the server looks for.  A SET of an older client   *)
(* ends before its version; the flag of SCAN's count is read unchecked.       *)
ReadKeyCommands ==
  [op \in {"GET", "GETDEL", "EXISTS", "INCR", "DECR", "TTL", "PERSIST"} |-> <<Text(2)>>]
  @@ [op \in {"AUTH", "RENAME", "RENAMENX"} |-> <<Text(2), Text(3)>>]
  @@ [op \in {"MGET", "DELETE"} |-> <<List(2, <<Text(2)>>)>>]
  @@ "PING" :> <<Optional(Text(3))>>
  @@ "GETEX" :> <<Text(2), Expiration, Flag>>
  @@ "SET" :> <<Text(2), Bytes(3), Condition, Expiration, Flag, Flag, MayEnd(Optional(U64))>>
  @@ "SETNX" :> <<Text(2), Bytes(3)>>
  @@ "MSET" :> <<List(2, <<Text(2), Bytes(3)>>)>>
  @@ "EXPIRE" :> <<Text(2), U64>>
  @@ "SCAN" :> <<U64, Optional(Text(2)), Unchecked(Optional(U16))>>

ReadAdminCommands ==
  [op \in Bare |-> <<>>]
  @@ [op \in {"BACKUP_TO", "BACKUP_VERIFY_FROM", "RESTORE_FROM", "RESTORE_CHECK_FROM",
              "DROP_USER", "CREATE_ROLE", "DROP_ROLE", "SHOW_GRANTS_FOR_USER",
              "SHOW_GRANTS_FOR_ROLE", "CLUSTER_REMOVE"} |-> <<Text(2)>>]
  @@ [op \in {"BACKUP_VERIFY", "RESTORE", "RESTORE_CHECK"} |-> <<Text(3)>>]
  @@ [op \in {"ALTER_USER_PASSWORD", "CREATE_USER", "GRANT_ROLE", "REVOKE_ROLE",
              "CLUSTER_JOIN"} |-> <<Text(2), Text(3)>>]
  @@ [op \in {"GRANT_PERMISSION", "REVOKE_PERMISSION"} |-> <<Text(2), Text(2), Text(2)>>]

Readable == ReadKeyCommands @@ ReadAdminCommands

(* SCAN first looks for its cursor and two flags.                             *)
IntoCommand(op, payload) ==
  IF op \notin DOMAIN Readable \/ (op = "SCAN" /\ Len(payload) < 6) THEN Unread("error")
  ELSE DecodeWhole(Readable[op], payload)

-----------------------------------------------------------------------------
(* A request's body: the flags say which of the three optional numbers follow *)
(* the opcode, and the payload is the rest.                                   *)

NoMetadata == [deadline |-> <<>>, trace |-> <<>>, sequence |-> <<>>]

MetadataFlags(m) == Len(m.deadline) + 2 * Len(m.trace) + 4 * Len(m.sequence)

RequestBody(id, op, m, payload) ==
  <<MetadataFlags(m), id, Opcode(op)>>
    \o EncodeAll([i \in DOMAIN m.deadline |-> U64], m.deadline) \o m.trace
    \o EncodeAll([i \in DOMAIN m.sequence |-> U64], m.sequence) \o payload

(* decode_request_prefix and the rest of the body.                            *)
DecodeRequest(body) ==
  IF Len(body) < 3 \/ body[1] > 7 \/ body[3] \notin DOMAIN ReadOpcodes THEN Unread("error")
  ELSE LET Has(bit) == (body[1] \div bit) % 2
           One(n, type) == [i \in 1 .. n |-> type]
           d == Has(1)
           t == Has(2)
           s == Has(4)
       IN Then(DecodeAll(One(d, U64) \o One(t, Uuid) \o One(s, U64), SubSeq(body, 4, Len(body))),
               LAMBDA m :
                 Read([id |-> body[2], op |-> ReadOpcodes[body[3]],
                       meta |-> [deadline |-> SubSeq(m.value, 1, d),
                                 trace |-> SubSeq(m.value, d + 1, d + t),
                                 sequence |-> SubSeq(m.value, d + t + 1, d + t + s)],
                       payload |-> m.rest], <<>>))

-----------------------------------------------------------------------------
(* Answers: a status and a payload of one of the kinds the constructors of    *)
(* Response write and the decode functions read.                              *)

Ok == 0
Error == 1
NotFound == 2

AnswerFields ==
  "empty" :> <<>> @@ "value" :> <<Bytes(3)>> @@ "bool" :> <<Flag>>
  @@ "count" :> <<U64>> @@ "integer" :> <<U64>>
  @@ "entries" :> <<List(3, Entry)>> @@ "strings" :> <<List(3, <<Optional(Bytes(3))>>)>>
  @@ "scan" :> <<U64, List(3, <<Text(2)>>)>> @@ "exec" :> <<List(3, <<ExecResult>>)>>
  @@ "error" :> <<Text(2), Text(2), Text(3)>>

(* decode_entries, unlike decode_byte_entries, wants the values to be text.   *)
ReadFields ==
  "value" :> <<Bytes(3)>> @@ "text" :> <<Text(3)>> @@ "bool" :> <<Flag>>
  @@ "count" :> <<U64>> @@ "integer" :> <<U64>>
  @@ "entries" :> <<List(3, <<Text(2), Text(3)>>)>>
  @@ "strings" :> <<List(3, <<Optional(Bytes(3))>>)>>
  @@ "scan" :> <<U64, List(3, <<Text(2)>>)>> @@ "exec" :> <<List(3, <<ReadExecResult>>)>>
  @@ "error" :> <<Text(2), Text(2), Text(3)>>

IsSet(choice) == choice.tag # 0

(* execute_command: what the engine's answer to a command is; "option" is a   *)
(* value or not found.                                                        *)
SetAnswer(args) ==
  IF IsSet(args[6]) THEN "option"
  ELSE IF IsSet(args[3]) \/ IsSet(args[7]) THEN "bool" ELSE "empty"

EngineAnswers ==
  [op \in {"GET", "GETDEL", "GETEX"} |-> "option"]
  @@ [op \in {"PING", "BACKUP"} |-> "value"]
  @@ [op \in {"SETNX", "EXISTS", "EXPIRE", "PERSIST", "RENAME", "RENAMENX"} |-> "bool"]
  @@ [op \in {"INCR", "DECR", "TTL"} |-> "integer"]
  @@ [op \in {"DELETE", "DBSIZE", "COUNT", "RESTORE"} |-> "count"]
  @@ [op \in {"MSET", "CLEAR", "SAVE", "SNAPSHOT"} |-> "empty"]
  @@ "MGET" :> "strings" @@ "SCAN" :> "scan" @@ "LIST" :> "entries"

(* The arms of process_command that answer themselves.                        *)
ServerAnswers ==
  [op \in {"AUTH", "MULTI", "DISCARD", "MAINTENANCE_ON", "MAINTENANCE_OFF", "CLUSTER_JOIN",
           "CLUSTER_REMOVE", "PROMOTE_FOLLOWER", "PAUSE_REPLICATION", "RESUME_REPLICATION",
           "BACKUP_TO", "ALTER_USER_PASSWORD", "CREATE_USER", "DROP_USER", "CREATE_ROLE",
           "DROP_ROLE", "GRANT_ROLE", "REVOKE_ROLE", "GRANT_PERMISSION",
           "REVOKE_PERMISSION"} |-> "empty"]
  @@ [op \in {"MAINTENANCE_STATUS", "METRICS", "INFO", "HEALTH", "SHOW_REPLICATION",
              "SHOW_CLUSTER", "BACKUP_VERIFY", "BACKUP_VERIFY_FROM", "SHOW_USERS",
              "SHOW_ROLES", "SHOW_GRANTS", "SHOW_GRANTS_FOR_USER", "SHOW_GRANTS_FOR_ROLE",
              "WHOAMI"} |-> "entries"]
  @@ [op \in {"RESTORE_FROM", "RESTORE_CHECK", "RESTORE_CHECK_FROM"} |-> "count"]
  @@ "METRICS_PROM" :> "value" @@ "EXEC" :> "exec"

AnswerKind(c) ==
  IF c.op = "SET" THEN SetAnswer(c.args) ELSE (EngineAnswers @@ ServerAnswers)[c.op]

(* The commands a transaction refuses to queue.                               *)
NeverQueued ==
  (DOMAIN ServerAnswers \ {"CLUSTER_JOIN", "CLUSTER_REMOVE"})
    \union {"SAVE", "SNAPSHOT", "BACKUP", "RESTORE"}

(* render_response: what the command line client reads the answer to a        *)
(* command as; "empty" is not looked at.                                      *)
RenderKind(c) ==
  CASE c.op = "SET" ->
         IF IsSet(c.args[6]) THEN "value"
         ELSE IF IsSet(c.args[3]) \/ IsSet(c.args[7]) THEN "bool" ELSE "empty"
    [] c.op \in {"PING", "GET", "GETDEL", "GETEX", "BACKUP", "METRICS_PROM"} -> "value"
    [] c.op \in {"DELETE", "DBSIZE", "COUNT", "RESTORE", "RESTORE_FROM", "RESTORE_CHECK",
                 "RESTORE_CHECK_FROM"} -> "count"
    [] c.op \in {"INCR", "DECR", "TTL"} -> "integer"
    [] c.op \in {"SETNX", "EXISTS", "EXPIRE", "PERSIST", "RENAME", "RENAMENX"} -> "bool"
    [] c.op = "MGET" -> "strings"
    [] c.op = "SCAN" -> "scan"
    [] c.op = "EXEC" -> "exec"
    [] c.op \in {"INFO", "METRICS", "LIST", "BACKUP_VERIFY", "BACKUP_VERIFY_FROM",
                 "SHOW_USERS", "SHOW_ROLES", "SHOW_GRANTS", "SHOW_GRANTS_FOR_USER",
                 "SHOW_GRANTS_FOR_ROLE", "WHOAMI", "MAINTENANCE_STATUS", "HEALTH",
                 "SHOW_CLUSTER", "SHOW_REPLICATION"} -> "entries"
    [] OTHER -> "empty"

(* A payload that reads as the text QUEUED is taken for it, whatever the      *)
(* command and the status.                                                    *)
Renders(c, status, payload) ==
  LET text == DecodeWhole(ReadFields["text"], payload)
      kind == IF status = Error THEN "error" ELSE RenderKind(c)
  IN \/ text.got = "ok" /\ text.value = <<Queued>>
     \/ status = NotFound
     \/ kind = "empty"
     \/ DecodeWhole(ReadFields[kind], payload).got = "ok"

ResponseBody(id, status, payload) == <<id, status>> \o payload

DecodeResponse(body) ==
  IF Len(body) < 2 \/ body[2] > NotFound THEN Unread("error")
  ELSE Read([id |-> body[1], status |-> body[2], payload |-> SubSeq(body, 3, Len(body))], <<>>)

-----------------------------------------------------------------------------
(* The startup: the client says what it can do and the server answers with    *)
(* what both will use.  Of the capabilities only zstd is ever looked at.      *)

Version == 2
Name == <<1>>

WrittenClientHello == <<U8, U8, Text(2), Text(2), U64, Flag, U32, Flag>>
ReadClientHello == <<U8, U8, Text(2), Text(2), U64, Flag, U32, Flag>>
WrittenServerHello ==
  <<U8, U8, U64, Flag, U32, Uuid, Choice(<< <<>>, <<>>, <<>> >>),
    Optional(Text(2)), Optional(Text(2)), Optional(Text(2))>>
ReadServerHello ==
  <<U8, U8, U64, Flag, U32, Uuid, Unchecked(Choice(<< <<>>, <<>>, <<>> >>)),
    Optional(Text(2)), Optional(Text(2)), Optional(Text(2))>>

Bit(b) == [tag |-> IF b THEN 1 ELSE 0, fields |-> <<>>]
Just(v) == [tag |-> 1, fields |-> <<v>>]
Nothing == [tag |-> 0, fields |-> <<>>]

ClientHello(client) ==
  EncodeAll(WrittenClientHello,
            <<240, client.version, Name, Name, IF client.zstdKnown THEN 1 ELSE 0,
              Bit(client.zstd), client.max, Bit(client.login # "none")>>)

OkHello(zstd, max) ==
  EncodeAll(WrittenServerHello,
            <<241, Version, IF zstd THEN 1 ELSE 0, Bit(zstd), max, 1,
              [tag |-> Ok, fields |-> <<>>], Nothing, Nothing, Nothing>>)

ErrorHello ==
  EncodeAll(WrittenServerHello,
            <<241, Version, 0, Bit(FALSE), MaxFrameLen, 0,
              [tag |-> Error, fields |-> <<>>], Just(Name), Just(Name), Just(Name)>>)

Options(zstd, threshold, max) ==
  [zstd |-> zstd, threshold |-> threshold, max |-> max, maxBody |-> max]

(* A threshold only matters to the writer; the defaults only read.            *)
DefaultOptions == Options(TRUE, MaxFrameLen, MaxFrameLen)
StartupOptions == Options(FALSE, 0, MaxFrameLen)

Least(a, b) == IF a <= b THEN a ELSE b

(* negotiate_server_options: the hello the server answers with and the        *)
(* options it goes on with.                                                   *)
NegotiateOwnLimit(fields, server) ==
  LET zstd == server.zstd /\ fields[5] % 2 = 1 /\ IsSet(fields[6])
      max == Least(Least(fields[7], server.max), MaxFrameLen)
  IN IF fields[2] # Version
     THEN [ok |-> FALSE, hello |-> ErrorHello, options |-> server]
     ELSE [ok |-> TRUE, hello |-> OkHello(zstd, max),
           options |-> Options(zstd, server.threshold, server.max)]

Negotiate(fields, server) ==
  LET zstd == server.zstd /\ fields[5] % 2 = 1 /\ IsSet(fields[6])
      max == Least(Least(fields[7], server.max), MaxFrameLen)
  IN IF fields[2] # Version
     THEN [ok |-> FALSE, hello |-> ErrorHello, options |-> server]
     ELSE [ok |-> TRUE, hello |-> OkHello(zstd, max),
           options |-> Options(zstd, server.threshold, max)]

DecodeClientHello(body) ==
  Then(DecodeWhole(ReadClientHello, body), LAMBDA r :
    IF r.value[1] = 240 THEN r ELSE Unread("error"))

DecodeServerHello(body) ==
  IF Len(body) < 11 THEN Unread("error")
  ELSE Then(DecodeWhole(ReadServerHello, body), LAMBDA r :
         IF r.value[1] = 241 THEN r ELSE Unread("error"))

(* client_options_from_server_hello: an empty set when the hello is refused.  *)
ClientOptions(body) ==
  {Options(IsSet(r.value[4]), 0, r.value[5]) :
     r \in {h \in {DecodeServerHello(body)} :
              h.got = "ok" /\ h.value[7].tag = Ok /\ h.value[2] = Version}}

-----------------------------------------------------------------------------
(* Frames.  What zstd makes of a body is left open: it may shrink it or make  *)
(* it longer.                                                                 *)

ShouldCompress(body, options) == options.zstd /\ Len(body) >= options.threshold

CompressedSizes(body) == {1, Len(body) + 1}

(* encode_frame: the frames a body can become; none when it is too large.     *)
EncodeFrame(body, options) ==
  LET sizes == IF ShouldCompress(body, options) THEN CompressedSizes(body) ELSE {Len(body)}
  IN {[body |-> body, size |-> n, packed |-> ShouldCompress(body, options), intact |-> TRUE] :
        n \in {m \in sizes : Len(body) <= options.maxBody /\ m <= options.max}}

(* The body may be refused for one of the sizes it could have had.            *)
MayNotFit(body, options) ==
  \/ Len(body) > options.maxBody
  \/ ShouldCompress(body, options) /\ \E m \in CompressedSizes(body) : m > options.max
  \/ ~ShouldCompress(body, options) /\ Len(body) > options.max

(* FrameHeader::decode, the limit, the checksum and the decompressed limit.   *)
Accepts(frame, options) ==
  /\ frame.size <= MaxFrameLen
  /\ frame.size <= options.max
  /\ frame.intact
  /\ frame.packed => Len(frame.body) <= options.maxBody
=============================================================================
