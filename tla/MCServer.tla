------------------------------ MODULE MCServer ------------------------------
(* Instances of module Sessions for TLC: two connections with short scripts,  *)
(* one scene for each of the things the tasks share.                          *)
EXTENDS Sessions, TLC

CONSTANTS p, q, root, ann, good, bad, weak, adminRole, staff

a == <<"a">>
b == <<"b">>

AllPermissions == {"read", "write", "admin", "user_admin", "role_admin"}
under == <<"b", "*">>
single == <<"a", "?">>
inside == <<"*", "a", "*">>

Patterns1 == {<<"*">>, a, under, single, inside}
EveryKey == <<"*">>

Plain == [op |-> "PING", keys |-> {}, pattern |-> EveryKey, mutates |-> FALSE, user |-> root,
          password |-> good, role |-> staff, permission |-> "write", form |-> "plain",
          over |-> {}]

R(op) == [Plain EXCEPT !.op = op]
K(op, key) == [Plain EXCEPT !.op = op, !.keys = {key}, !.mutates = TRUE]
U(op, u) == [Plain EXCEPT !.op = op, !.user = u]
Login(u, w) == [Plain EXCEPT !.op = "AUTH", !.user = u, !.password = w]
Grants(op, pattern) == [Plain EXCEPT !.op = op, !.pattern = pattern]
Reads(op, pattern) == [Plain EXCEPT !.op = op, !.pattern = pattern, !.permission = "read"]
Form(r, form) == [r EXCEPT !.form = form]
Over(r, size) == [r EXCEPT !.over = {size}]

NoFaults == [hangups |-> 0, commits |-> 0, saves |-> 0, files |-> 0, responses |-> 0,
             records |-> 0, roles |-> 0, crashes |-> 0]

Ample == [burst |-> 9, rate |-> 1, queue |-> 3, lifetime |-> 1, window |-> 2, limit |-> 2,
          lockout |-> 2, clock |-> 1]

(* The file of a server with ann, who may write the key a, and root.          *)
Users == [users |-> (root :> [password |-> good, roles |-> {adminRole}, disabled |-> FALSE]
                       @@ ann :> [password |-> good, roles |-> {staff}, disabled |-> FALSE]),
          roles |-> (adminRole :> [permissions |-> AllPermissions,
                                   grants |-> StarGrants(AllPermissions)]
                       @@ staff :> [permissions |-> {},
                                    grants |-> {[permission |-> "write", pattern |-> a]}]),
          bootstrap |-> root]

Scene(first, second, auth, role0, bounds, faults) ==
  [script |-> (p :> first @@ q :> second), auth |-> auth, role |-> role0,
   guards |-> bounds, left |-> faults, slow |-> {FALSE}, auditCommands |-> FALSE,
   sentinel |-> FALSE, disk |-> IF auth THEN Users ELSE None, user |-> root, password |-> good]

(* A transaction under two users, which may expire.                           *)
Transactions ==
  Scene(<<Login(root, good), R("MULTI"), K("SET", b), Login(ann, good), K("SET", b),
          K("SET", a), R("EXEC")>>,
        <<K("SET", a)>>,
        TRUE, "leader", [Ample EXCEPT !.clock = 3], [NoFaults EXCEPT !.commits = 1])

(* A node that loses and regains its role around an EXEC that is sent again.  *)
Retried ==
  Scene(<<R("MULTI"), K("SET", b), R("EXEC"), R("EXEC"), R("RESTORE_FROM")>>, <<K("SET", a)>>,
        FALSE, "leader", [Ample EXCEPT !.lifetime = 0, !.clock = 2],
        [NoFaults EXCEPT !.roles = 2])

Queued ==
  Scene(<<R("MULTI"), R("MULTI"), K("SET", a), Form(K("SET", b), "sequenced"), R("INFO"),
          K("SET", b), K("SET", a), R("EXEC"), R("MULTI"), K("CLUSTER_JOIN", a), R("EXEC"),
          R("DISCARD"), R("MULTI"), R("DISCARD")>>,
        <<R("EXEC")>>,
        FALSE, "standalone", [Ample EXCEPT !.burst = 14], NoFaults)

(* Maintenance mode, switched by two, with writes and mutations around it.    *)
Upkeep ==
  Scene(<<R("MAINTENANCE_ON"), R("MAINTENANCE_OFF")>>,
        <<K("SET", a), R("MAINTENANCE_ON"), K("GETEX", a)>>,
        FALSE, "leader", Ample, [NoFaults EXCEPT !.files = 1, !.crashes = 1])

Managed ==
  Scene(<<Login(root, good), R("MAINTENANCE_ON"), R("DROP_ROLE"), K("GETEX", a)>>,
        <<Login(root, good), U("DROP_USER", ann), R("CREATE_ROLE")>>,
        TRUE, "leader", Ample, NoFaults)

Noted ==
  Scene(<<R("MAINTENANCE_ON")>>, <<Login(ann, good), K("SET", a)>>, FALSE, "leader", Ample,
        [NoFaults EXCEPT !.records = 1])

Held ==
  Scene(<<R("MULTI"), K("SET", a), R("EXEC"), R("PROMOTE_FOLLOWER")>>,
        <<R("MAINTENANCE_ON"), R("CLEAR")>>,
        FALSE, "leader", Ample, [NoFaults EXCEPT !.roles = 1])

(* Roles and grants that change under a session.                              *)
Roles1 ==
  Scene(<<Login(root, good), R("DROP_ROLE"), R("CREATE_ROLE"), U("GRANT_ROLE", ann),
          Grants("GRANT_PERMISSION", a), Grants("REVOKE_PERMISSION", a)>>,
        <<Login(ann, good), K("SET", a)>>,
        TRUE, "leader", Ample, NoFaults)

(* Grants on one key, on a prefix and with other wildcards, and scans.        *)
Granted(patterns) ==
  Scene(<<Login(root, good)>> \o [i \in DOMAIN patterns |->
                                   Reads("GRANT_PERMISSION", patterns[i])],
        <<Login(ann, good), Reads("SCAN", patterns[1])>>,
        TRUE, "leader", Ample, NoFaults)

Scans == Granted(<<a, under, EveryKey>>)
Globs == Granted(<<single, inside>>)

Saves ==
  Scene(<<Login(root, good), R("DROP_ROLE"), U("CREATE_USER", ann)>>, <<>>,
        TRUE, "leader", Ample, [NoFaults EXCEPT !.saves = 2, !.crashes = 1, !.responses = 1])

LastAdmins ==
  Scene(<<Login(root, good), [U("GRANT_ROLE", ann) EXCEPT !.role = adminRole],
          [U("REVOKE_ROLE", root) EXCEPT !.role = adminRole], U("DROP_USER", root)>>,
        <<Login(root, good), [U("REVOKE_ROLE", ann) EXCEPT !.role = adminRole],
          U("DROP_USER", ann)>>,
        TRUE, "leader", Ample, NoFaults)

Passwords ==
  Scene(<<Login(root, good), U("CREATE_USER", ann), U("DROP_USER", ann), U("CREATE_USER", ann),
          [U("ALTER_USER_PASSWORD", ann) EXCEPT !.password = weak],
          [U("ALTER_USER_PASSWORD", ann) EXCEPT !.password = bad]>>,
        <<Login(ann, bad)>>,
        TRUE, "leader", Ample, NoFaults)

(* Failing authentications around the end of a window, and INFO in between.   *)
Logins ==
  Scene([i \in 1 .. 6 |-> Login(ann, bad)] \o <<Login(ann, good)>>, <<>>,
        TRUE, "leader", [Ample EXCEPT !.limit = 3, !.clock = 6], [NoFaults EXCEPT !.hangups = 1])

Informed ==
  Scene(<<Login(ann, bad), Login(ann, bad), Login(ann, bad)>>, <<Login(root, good), R("INFO")>>,
        TRUE, "leader", [Ample EXCEPT !.clock = 2], NoFaults)

(* One failure locks a peer, three lock the user, who comes from new ports,   *)
(* alone or over two connections.                                             *)
Guesses(first, second, until) ==
  Scene([i \in 1 .. first |-> Login(ann, bad)], [i \in 1 .. second |-> Login(ann, bad)],
        TRUE, "leader", [Ample EXCEPT !.limit = 1, !.window = 1, !.lockout = 1, !.clock = until],
        [NoFaults EXCEPT !.hangups = first - 1])

Backups ==
  Scene(<<R("BACKUP_TO"), R("BACKUP_VERIFY_FROM"), R("RESTORE_FROM")>>,
        <<K("SET", a), R("BACKUP_TO")>>,
        FALSE, "leader", Ample, [NoFaults EXCEPT !.files = 1])

Interrupted ==
  Scene(<<R("BACKUP_TO"), R("BACKUP_TO"), R("RESTORE_FROM")>>, <<K("SET", a)>>,
        FALSE, "leader", Ample, [NoFaults EXCEPT !.crashes = 1, !.commits = 1])

(* The audit log, its failing writes, and the starts that read it.            *)
Audited ==
  Scene(<<Login(root, good), R("CREATE_ROLE")>>, <<Login(ann, bad)>>,
        TRUE, "leader", Ample, [NoFaults EXCEPT !.records = 2, !.crashes = 1, !.responses = 1])

AuditedAll ==
  [Scene(<<Login(root, good), R("WHOAMI")>>, <<R("PING")>>, TRUE, "leader", Ample, NoFaults)
   EXCEPT !.auditCommands = TRUE, !.slow = BOOLEAN]

(* More requests than the burst, and requests that are not served.            *)
Floods ==
  Scene(<<R("PING"), R("PING"), Form(R("PING"), "deadline"), R("PING"),
          Form(R("PING"), "undecodable"), Over(K("GET", a), "key"), Over(R("PING"), "payload"),
          R("PING")>>,
        <<>>,
        FALSE, "standalone", [Ample EXCEPT !.burst = 2, !.clock = 5], NoFaults)

AllScenes == {Transactions, Retried, Queued, Upkeep, Managed, Noted, Held, Roles1, Scans, Globs,
              Saves, LastAdmins, Passwords, Logins, Informed, Guesses(6, 0, 3), Guesses(4, 1, 2),
              Backups, Interrupted, Audited, AuditedAll, Floods}

UpkeepOnly == {Upkeep}

=============================================================================
