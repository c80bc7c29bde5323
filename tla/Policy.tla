------------------------------- MODULE Policy -------------------------------
(* What the server lets a command do before it runs: the tables of            *)
(* authorization.rs and validation.rs, is_write_command, and                  *)
(* validate_transaction_command.  A request is a record; op names its command *)
(* and keys, pattern ... are what the tables look at.                         *)
EXTENDS Patterns, FiniteSets

CONSTANTS Nobody   \* a session without an identity

KeyReads == {"GET", "EXISTS", "MGET", "TTL"}

KeySpaceReads == {"SCAN", "DBSIZE", "COUNT", "LIST"}

KeyWrites == {"GETDEL", "GETEX", "SET", "SETNX", "MSET", "DELETE", "INCR", "DECR",
              "EXPIRE", "PERSIST", "RENAME", "RENAMENX"}

UserCommands == {"CREATE_USER", "ALTER_USER_PASSWORD", "DROP_USER"}

RoleCommands == {"CREATE_ROLE", "DROP_ROLE", "GRANT_ROLE", "REVOKE_ROLE",
                 "GRANT_PERMISSION", "REVOKE_PERMISSION"}

RbacCommands == UserCommands \cup RoleCommands

BackupReads == {"BACKUP", "BACKUP_VERIFY", "BACKUP_VERIFY_FROM"}

Restores == {"RESTORE", "RESTORE_FROM"}

RestoreChecks == {"RESTORE_CHECK", "RESTORE_CHECK_FROM"}

Maintenance == {"MAINTENANCE_ON", "MAINTENANCE_OFF"}

Replication == {"PROMOTE_FOLLOWER", "PAUSE_REPLICATION", "RESUME_REPLICATION"}

Membership == {"CLUSTER_JOIN", "CLUSTER_REMOVE"}

TransactionControl == {"MULTI", "EXEC", "DISCARD"}

(* The commands that need no permission.                                      *)
Unguarded == {"PING", "AUTH", "MAINTENANCE_STATUS", "HEALTH", "WHOAMI", "SHOW_GRANTS"}
               \cup TransactionControl

----------------------------------------------------------------------------
(* Mutant: EXEC taken for a read.                                             *)
AllowedWithExec(op) ==
  \/ op \in KeyReads \cup KeySpaceReads \cup BackupReads \cup TransactionControl
  \/ op \in {"PING", "GETEX", "INFO", "METRICS", "METRICS_PROM", "SHOW_USERS",
             "SHOW_ROLES", "SHOW_GRANTS", "SHOW_GRANTS_FOR_USER",
             "SHOW_GRANTS_FOR_ROLE", "WHOAMI", "MAINTENANCE_STATUS",
             "MAINTENANCE_OFF", "HEALTH", "SHOW_REPLICATION"}

IsAllowedDuringMaintenance(op) ==
  \/ op \in KeyReads \cup KeySpaceReads \cup BackupReads
  \/ op \in {"PING", "GETEX", "INFO", "METRICS", "METRICS_PROM", "SHOW_USERS",
             "SHOW_ROLES", "SHOW_GRANTS", "SHOW_GRANTS_FOR_USER",
             "SHOW_GRANTS_FOR_ROLE", "WHOAMI", "MAINTENANCE_STATUS",
             "MAINTENANCE_OFF", "HEALTH", "SHOW_REPLICATION"}

(* Mutant: PROMOTE FOLLOWER is for followers.                                 *)
IsWriteUnlessPromoting(r) ==
  \/ r.op \in KeyWrites /\ (r.op = "GETEX" => r.mutates)
  \/ r.op \in {"CLEAR", "SAVE", "SNAPSHOT", "PAUSE_REPLICATION", "RESUME_REPLICATION"}
                \cup Restores \cup RbacCommands
                \cup Maintenance \cup TransactionControl \cup Membership

(* GETEX writes when it sets or clears an expiration.                         *)
IsWriteCommand(r) ==
  \/ r.op \in KeyWrites /\ (r.op = "GETEX" => r.mutates)
  \/ r.op \in {"CLEAR", "SAVE", "SNAPSHOT"} \cup Restores \cup RbacCommands
                \cup Maintenance \cup TransactionControl \cup Replication \cup Membership

(* What cannot be queued.  CLUSTER JOIN and CLUSTER REMOVE are not listed.    *)
UnsupportedInTransaction ==
  {"INFO", "METRICS", "METRICS_PROM", "SAVE", "SNAPSHOT", "BACKUP_TO", "SHOW_USERS",
   "SHOW_ROLES", "SHOW_GRANTS", "SHOW_GRANTS_FOR_USER", "SHOW_GRANTS_FOR_ROLE",
   "WHOAMI", "MAINTENANCE_STATUS", "HEALTH", "SHOW_CLUSTER", "SHOW_REPLICATION", "AUTH"}
  \cup BackupReads \cup Restores \cup RestoreChecks \cup RbacCommands
  \cup Maintenance \cup Replication \cup TransactionControl

CommandPermission(op) ==
  CASE op \in KeyReads \cup KeySpaceReads -> "read"
    [] op = "CLEAR" -> "clear"
    [] op \in KeyWrites -> "write"
    [] op \in {"INFO", "METRICS", "METRICS_PROM"} -> "metrics"
    [] op \in {"SAVE", "SNAPSHOT"} -> "snapshot"
    [] op \in BackupReads \cup {"BACKUP_TO"} -> "backup"
    [] op \in Restores \cup RestoreChecks -> "restore"
    [] op \in UserCommands \cup {"SHOW_USERS", "SHOW_GRANTS_FOR_USER"} -> "user_admin"
    [] op \in RoleCommands \cup {"SHOW_ROLES", "SHOW_GRANTS_FOR_ROLE"} -> "role_admin"
    [] OTHER -> "admin"

CommandKeys(r) == IF r.op \in KeyReads \cup KeyWrites THEN r.keys ELSE {}

----------------------------------------------------------------------------
(* Identity::has, allows_key and allows_pattern.                              *)
Has(identity, permission) == {"admin", permission} \cap identity.permissions # {}

GrantsOf(identity, permission) ==
  {g.pattern : g \in {x \in identity.grants : x.permission = permission}}

AllowsKey(identity, permission, key) ==
  \/ "admin" \in identity.permissions
  \/ \E p \in GrantsOf(identity, permission) : GrantMatches(p, key)

AllowsPattern(identity, permission, requested) ==
  \/ "admin" \in identity.permissions
  \/ \E p \in GrantsOf(identity, permission) : PatternCovers(p, requested)

(* authorize_command.                                                         *)
Authorized(identity, r) ==
  \/ r.op \in Unguarded
  \/ /\ identity # Nobody
     /\ LET permission == CommandPermission(r.op)
        IN CASE CommandKeys(r) # {} ->
                  \A key \in CommandKeys(r) : AllowsKey(identity, permission, key)
             [] r.op = "SCAN" -> AllowsPattern(identity, permission, r.pattern)
             [] OTHER -> Has(identity, permission)

(* validate_command: r.over names the sizes that exceed their guard.          *)
OverQuota(r) ==
  \/ "key" \in r.over /\ r.op \in KeyReads \cup KeyWrites \cup RbacCommands \cup Membership
       \cup {"AUTH", "SCAN", "SHOW_GRANTS_FOR_USER", "SHOW_GRANTS_FOR_ROLE"}
  \/ "value" \in r.over /\ r.op \in RestoreChecks \cup Restores \cup (BackupReads \ {"BACKUP"})
       \cup {"AUTH", "SET", "SETNX", "MSET", "BACKUP_TO", "CREATE_USER",
             "ALTER_USER_PASSWORD", "CLUSTER_JOIN"}
  \/ "count" \in r.over /\ r.op \in {"MGET", "DELETE", "MSET"}

(* The commands semantic_audit_details knows.                                 *)
IsSemantic(op) == op \in RbacCommands \cup {"AUTH"}

=============================================================================
