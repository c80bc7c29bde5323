------------------------------ MODULE Sessions ------------------------------
(* The connections of one server (server/mod.rs, transactions.rs, session.rs, *)
(* runtime_state.rs, audit_events.rs, backup.rs) over its users and roles:    *)
(* each connection is a task that reads a request, checks it, runs it, writes *)
(* the response and then records it in the audit log, and the tasks share the *)
(* store of module Auth, the maintenance switch, the lockouts, the audit log  *)
(* and the backup files.  Between two of its steps a task may wait for a lock *)
(* or for the engine while the others go on.  What a write does to the key    *)
(* space and to the other nodes is in modules Engine, WritePath and Cluster.  *)
EXTENDS Auth, Policy, Lockouts, Audit

CONSTANTS Conn,
          Scenes,    \* the configurations and the clients that are explored
          AnyPeer    \* the peer of a username-wide lockout

IsSequence(s) == s \in Seq({s[i] : i \in DOMAIN s})

(* The configured administrator, the file of users, which a server saved, and *)
(* the arguments of the commands on users and roles have their types.         *)
ASSUME SceneAssumption == \A x \in Scenes :
  /\ x.user \in User /\ x.password \in Password
  /\ x.disk # None =>
       /\ Administered(x.disk) /\ Referenced(x.disk)
       /\ \E us \in SUBSET User, rs \in SUBSET Role :
            x.disk \in [users : [us -> UserRecord], roles : [rs -> RoleRecord],
                       bootstrap : User \cup {None}]
  /\ \A c \in Conn :
       /\ IsSequence(x.script[c])
       /\ \A i \in DOMAIN x.script[c] : LET r == x.script[c][i]
            IN r.op \in RbacCommands =>
                 /\ r.user \in User /\ r.password \in Password /\ r.role \in Role
                 /\ r.permission \in Permission /\ r.pattern \in Pattern

VARIABLES scene,        \* one of Scenes
          left,         \* how many faults of each kind may still happen
          clock,
          sent,         \* how many requests of its script a client has sent
          conn,         \* SessionState, and where the task is
          role,         \* of the node, see module Election
          maintenance,  \* MaintenanceMode.enabled
          sentinel,     \* whether its file exists
          lockouts,     \* AuthLockoutState
          log, chain,   \* AuditLogger
          files,        \* a dump and its manifest in the backup directory
          data,         \* the key space: the number of the write that made it
          seen          \* history, for the properties

shared == <<role, maintenance, sentinel, lockouts, log, chain, files, data>>

vars == <<scene, left, clock, sent, conn, shared, seen, stored, disk>>

guards == scene.guards

Req(c) == scene.script[c][sent[c]]

Peer(c) == <<c, conn[c].peer>>

(* No file, an opened one, or what one of them was given.                     *)
NoFile == [kind |-> "none", of |-> 0]

EmptyFile == [kind |-> "empty", of |-> 0]

PartFile == [kind |-> "part", of |-> 0]

WholeFile(d) == [kind |-> "whole", of |-> d]

(* SessionState::new.                                                         *)
NewSession(peer, burst, now) ==
  [phase |-> "idle", identity |-> Nobody, queue |-> <<>>, started |-> 0, multi |-> 0,
   tokens |-> burst, last |-> now, peer |-> peer, reply |-> "none", events |-> <<>>,
   processed |-> FALSE, late |-> FALSE, dump |-> NoFile]

----------------------------------------------------------------------------
(* The response is ready; handle_client goes on with the write of it.         *)
Replies(c, s, reply) == conn' = [conn EXCEPT ![c] = [s EXCEPT !.phase = "reply", !.reply = reply]]

Answers(c, reply) == Replies(c, conn[c], reply)

Goes(c, phase) == conn' = [conn EXCEPT ![c].phase = phase]

Fails(kind) == left[kind] > 0 /\ left' = [left EXCEPT ![kind] = @ - 1]

At(c, phase) == stored # None /\ conn[c].phase = phase

(* RateLimiter::allow.                                                        *)
Refilled(c) ==
  LET sum == conn[c].tokens + (clock - conn[c].last) * guards.rate
  IN IF sum > guards.burst THEN guards.burst ELSE sum

InTransaction(s) == s.queue # <<>>

(* The first part of the loop of handle_client: a request has been read.  It  *)
(* may end the connection (a payload beyond max_request_payload_bytes), be    *)
(* refused, or go to process_command.                                         *)
Read(c) ==
  /\ At(c, "idle") /\ sent[c] < Len(scene.script[c])
  /\ sent' = [sent EXCEPT ![c] = @ + 1]
  /\ LET r == scene.script[c][sent[c] + 1]
         s == [conn[c] EXCEPT !.events = <<>>, !.processed = FALSE, !.late = FALSE]
         tokens == Refilled(c)
         t == [s EXCEPT !.tokens = IF tokens < 1 THEN tokens ELSE tokens - 1, !.last = clock]
         refused(u, events) == Replies(c, [u EXCEPT !.events = events], "error")
         unlimited == \/ r.form = "deadline"
                      \/ r.form = "sequenced" /\ InTransaction(s)
     IN /\ IF unlimited THEN refused(s, <<>>)
           ELSE IF tokens < 1 THEN refused(t, <<"command">>)
           ELSE IF "payload" \in r.over
                THEN conn' = [conn EXCEPT ![c] = [t EXCEPT !.phase = "closed"]]
           ELSE IF r.form = "undecodable" \/ OverQuota(r) THEN refused(t, <<"command">>)
           ELSE conn' = [conn EXCEPT ![c] = [t EXCEPT !.phase = "process",
                                                      !.processed = TRUE]]
        /\ seen' = [seen EXCEPT
             !.answers[c] = IF unlimited \/ tokens < 1 \/ "payload" \notin r.over THEN @
                            ELSE Append(@, [reply |-> "lost", processed |-> FALSE])]
  /\ UNCHANGED <<scene, left, clock, shared, authVars>>

(* The client goes away between two requests and comes back from another port.*)
Reconnect(c) ==
  /\ \/ At(c, "idle") /\ Fails("hangups")
     \/ At(c, "closed") /\ UNCHANGED left
  /\ sent[c] < Len(scene.script[c])
  /\ conn' = [conn EXCEPT ![c] = NewSession(@.peer + 1, guards.burst, clock)]
  /\ UNCHANGED <<scene, clock, sent, shared, seen, authVars>>

----------------------------------------------------------------------------
(* process_command, up to its first wait.                                     *)

(* expire_transaction_if_needed.                                              *)
IsExpired(s) == s.started # 0 /\ clock - s.started > guards.lifetime

Cleared(s) == [s EXCEPT !.queue = <<>>, !.started = 0, !.multi = 0]

(* Without users every AUTH succeeds, with every permission.                  *)
Anonymous == [username |-> Nobody, permissions |-> Permission,
              grants |-> StarGrants(Permission)]

LockoutKeys(c, u) == {<<u, Peer(c)>>, <<u, AnyPeer>>}

Process(c) ==
  /\ At(c, "process")
  /\ LET r == Req(c)
         s == conn[c]
     IN IF r.op = "AUTH"
        THEN IF ~scene.auth THEN Replies(c, [s EXCEPT !.identity = Anonymous], "ok")
             ELSE IF \E key \in LockoutKeys(c, r.user) : IsLocked(lockouts, key, clock)
                  THEN Answers(c, "error")
                  ELSE Goes(c, "verify")
        ELSE IF scene.auth /\ s.identity = Nobody /\ r.op # "PING" THEN Answers(c, "error")
        ELSE IF IsExpired(s) THEN Replies(c, Cleared(s), "expired")
        ELSE IF maintenance /\ ~IsAllowedDuringMaintenance(r.op) THEN Answers(c, "error")
        ELSE conn' = [conn EXCEPT ![c].phase = "admitted", ![c].late = ~maintenance]
  /\ UNCHANGED <<scene, left, clock, sent, shared, seen, authVars>>

(* handle_auth reads the store, then takes the lock of the lockouts.          *)
Verify(c) ==
  /\ At(c, "verify")
  /\ LET r == Req(c)
     IN conn' = [conn EXCEPT ![c] =
          IF Verifies(stored, r.user, r.password)
          THEN [@ EXCEPT !.identity = IdentityOf(stored, r.user), !.phase = "cleared"]
          ELSE [@ EXCEPT !.phase = "failed"]]
  /\ UNCHANGED <<scene, left, clock, sent, shared, seen, authVars>>

(* The failures the lockouts still count.                                     *)
Counted(failures, records) == SelectSeq(failures, LAMBDA f : f.key \in DOMAIN records)

AuthSucceeded(c) ==
  /\ At(c, "cleared")
  /\ lockouts' = ClearSuccess(lockouts, LockoutKeys(c, Req(c).user))
  /\ seen' = [seen EXCEPT !.failures = Counted(@, lockouts')]
  /\ Answers(c, "ok")
  /\ UNCHANGED <<scene, left, clock, sent, role, maintenance, sentinel, log, chain,
                 files, data, authVars>>

AuthFailed(c) ==
  /\ At(c, "failed")
  /\ LET u == Req(c).user
         first == RecordFailure(lockouts, <<u, Peer(c)>>, clock, guards.window,
                                guards.limit, guards.lockout)
     IN /\ lockouts' = RecordFailure(first, <<u, AnyPeer>>, clock, guards.window,
                                     3 * guards.limit, guards.lockout)
        /\ seen' = [seen EXCEPT !.failures =
             @ \o <<[key |-> <<u, Peer(c)>>, at |-> clock],
                    [key |-> <<u, AnyPeer>>, at |-> clock]>>]
  /\ Answers(c, "error")
  /\ UNCHANGED <<scene, left, clock, sent, role, maintenance, sentinel, log, chain,
                 files, data, authVars>>

----------------------------------------------------------------------------
(* The rest of process_command: the role of the node, the transaction of the  *)
(* session, the permission, and the arm of the command.                       *)

AcceptsWrites == role \in {"standalone", "leader"}

Permitted(c, r) == scene.auth => Authorized(conn[c].identity, r)

Submitted(c) == [id |-> sent[c], by |-> conn[c].identity]

(* Mutant: a queued command is authorized when its transaction runs.          *)
QueueUnauthorized(c, r) ==
  IF \/ Len(conn[c].queue) >= guards.queue
     \/ r.op \in UnsupportedInTransaction
  THEN Answers(c, "error")
  ELSE Replies(c, [conn[c] EXCEPT !.queue = Append(@, Submitted(c))], "queued")

(* The last arm of handle_transaction_command.                                *)
Queue(c, r) ==
  IF \/ Len(conn[c].queue) >= guards.queue
     \/ r.op \in UnsupportedInTransaction
     \/ ~Permitted(c, r)
  THEN Answers(c, "error")
  ELSE Replies(c, [conn[c] EXCEPT !.queue = Append(@, Submitted(c))], "queued")

HandleTransactionCommand(c, r) ==
  IF IsExpired(conn[c]) THEN Replies(c, Cleared(conn[c]), "expired")
  ELSE IF ~AcceptsWrites \/ r.op = "MULTI" THEN Answers(c, "error")
  ELSE IF r.op = "DISCARD" THEN Replies(c, Cleared(conn[c]), "ok")
  ELSE IF r.op = "EXEC" THEN Goes(c, "exec")
  ELSE Queue(c, r)

(* Where the arm of a command waits for the first time.                       *)
FirstWait(r) ==
  CASE r.op \in Maintenance -> "sentinel"
    [] r.op = "PROMOTE_FOLLOWER" -> "promote"
    [] r.op \in RbacCommands -> "mutate"
    [] r.op = "INFO" -> "info"
    [] r.op = "BACKUP_TO" -> "dump"
    [] r.op \in {"BACKUP_VERIFY_FROM", "RESTORE_FROM"} -> "load"
    [] r.op \in KeyWrites \cup {"CLEAR"} /\ IsWriteCommand(r) -> "write"
    [] OTHER -> "none"

(* MULTI puts itself at the head of the queue.                                *)
Begin(c) ==
  Replies(c, [conn[c] EXCEPT !.queue = <<Submitted(c)>>, !.started = clock,
                             !.multi = sent[c]], "ok")

Dispatch(c) ==
  /\ At(c, "admitted")
  /\ LET r == Req(c)
     IN IF IsWriteCommand(r) /\ ~AcceptsWrites THEN Answers(c, "error")
        ELSE IF InTransaction(conn[c]) THEN HandleTransactionCommand(c, r)
        ELSE IF ~Permitted(c, r) THEN Answers(c, "error")
        ELSE IF r.op = "MULTI" THEN Begin(c)
        ELSE IF r.op \in {"EXEC", "DISCARD"} THEN Answers(c, "error")
        ELSE IF r.op \in RbacCommands /\ ~scene.auth THEN Answers(c, "error")
        ELSE IF FirstWait(r) = "none" THEN Answers(c, "ok")
        ELSE Goes(c, FirstWait(r))
  /\ UNCHANGED <<scene, left, clock, sent, shared, seen, authVars>>

----------------------------------------------------------------------------
(* Writes.                                                                    *)

Applied(c, commands) ==
  /\ data' = Len(seen.applied) + 1
  /\ seen' = [seen EXCEPT !.applied =
       Append(@, [conn |-> c, id |-> sent[c], multi |-> conn[c].multi,
                  commands |-> commands])]

NotApplied == UNCHANGED <<data, seen>>

(* A write without a transaction.  Only a standalone node skips the second    *)
(* check of the role.  It may fail and be rolled back: module WritePath.      *)
Write(c) ==
  /\ At(c, "write")
  /\ \/ /\ ~AcceptsWrites /\ NotApplied /\ Answers(c, "error") /\ UNCHANGED left
     \/ /\ AcceptsWrites /\ Applied(c, <<Submitted(c)>>) /\ Answers(c, "ok")
        /\ UNCHANGED left
     \/ /\ AcceptsWrites /\ Fails("commits") /\ NotApplied /\ Answers(c, "error")
  /\ UNCHANGED <<scene, clock, sent, role, maintenance, sentinel, lockouts, log, chain,
                 files, authVars>>

(* The engine refuses a batch with a command of the group.                    *)
Executable(c) ==
  \A i \in 2..Len(conn[c].queue) :
    scene.script[c][conn[c].queue[i].id].op \notin Membership

(* Mutant: EXEC copies the queue.                                             *)
TakenCopy(c) == conn[c]

Taken(c) == Cleared(conn[c])

(* EXEC has the lock of the writes.  A node that no longer accepts writes     *)
(* keeps the queue; from then on the queue is gone, whatever comes of it.     *)
Exec(c) ==
  /\ At(c, "exec")
  /\ \/ /\ ~AcceptsWrites /\ NotApplied /\ Answers(c, "error") /\ UNCHANGED left
     \/ /\ AcceptsWrites /\ Executable(c)
        /\ Applied(c, Tail(conn[c].queue))
        /\ Replies(c, Taken(c), "ok") /\ UNCHANGED left
     \/ /\ AcceptsWrites
        /\ IF Executable(c) THEN Fails("commits") ELSE UNCHANGED left
        /\ NotApplied /\ Replies(c, Taken(c), "error")
  /\ UNCHANGED <<scene, clock, sent, role, maintenance, sentinel, lockouts, log, chain,
                 files, authVars>>

----------------------------------------------------------------------------
(* Users and roles: the actions of module Auth.                               *)
Mutation(r) ==
  CASE r.op = "CREATE_USER" -> CreateUser(r.user, r.password)
    [] r.op = "ALTER_USER_PASSWORD" -> AlterUserPassword(r.user, r.password)
    [] r.op = "DROP_USER" -> DropUser(r.user)
    [] r.op = "CREATE_ROLE" -> CreateRole(r.role)
    [] r.op = "DROP_ROLE" -> DropRole(r.role)
    [] r.op = "GRANT_ROLE" -> GrantRole(r.role, r.user)
    [] r.op = "REVOKE_ROLE" -> RevokeRole(r.role, r.user)
    [] r.op = "GRANT_PERMISSION" -> GrantPermission(r.permission, r.pattern, r.role)
    [] r.op = "REVOKE_PERMISSION" -> RevokePermission(r.permission, r.pattern, r.role)

(* Under the write lock of the store, which a save keeps until it ends.       *)
Mutate(c) ==
  /\ At(c, "mutate")
  /\ \/ Mutation(Req(c)) /\ disk' = stored' /\ Answers(c, "ok") /\ UNCHANGED left
     \/ Mutation(Req(c)) /\ Fails("saves") /\ Answers(c, "error")
     \/ ~ENABLED Mutation(Req(c)) /\ UNCHANGED <<stored, disk, left>> /\ Answers(c, "error")
  /\ UNCHANGED <<scene, clock, sent, shared, seen>>

----------------------------------------------------------------------------
(* MaintenanceMode::set: the file, then the flag.                             *)
Enables(c) == Req(c).op = "MAINTENANCE_ON"

(* Another task is between its file and its flag.                             *)
Overlaps(c, phase) == \E d \in Conn \ {c} : conn[d].phase = phase


WriteSentinel(c) ==
  /\ At(c, "sentinel")
  /\ \/ /\ sentinel' = Enables(c) /\ Goes(c, "flag")
        /\ seen' = [seen EXCEPT !.flagRaced = Overlaps(c, "flag")]
        /\ UNCHANGED left
     \/ /\ Fails("files") /\ Answers(c, "error")
        /\ UNCHANGED <<sentinel, seen>>
  /\ UNCHANGED <<scene, clock, sent, role, maintenance, lockouts, log, chain, files, data,
                 authVars>>

PublishFlag(c) ==
  /\ At(c, "flag")
  /\ maintenance' = Enables(c)
  /\ Goes(c, "note")
  /\ UNCHANGED <<scene, left, clock, sent, role, sentinel, lockouts, log, chain, files,
                 data, seen, authVars>>

(* promote_follower.                                                          *)
Promote(c) ==
  /\ At(c, "promote")
  /\ IF maintenance /\ role = "follower"
     THEN /\ role' = "leader" /\ Goes(c, "note")
          /\ seen' = [seen EXCEPT !.promotions = @ + 1]
     ELSE UNCHANGED <<role, seen>> /\ Answers(c, "error")
  /\ UNCHANGED <<scene, left, clock, sent, maintenance, sentinel, lockouts, log, chain,
                 files, data, authVars>>

(* structured_info counts the active lockouts.                                *)
Info(c) ==
  /\ At(c, "info")
  /\ lockouts' = RetainActive(lockouts, clock)
  /\ seen' = [seen EXCEPT !.failures = Counted(@, lockouts')]
  /\ Answers(c, "ok")
  /\ UNCHANGED <<scene, left, clock, sent, role, maintenance, sentinel, log, chain, files,
                 data, authVars>>

----------------------------------------------------------------------------
(* BACKUP TO: the engine's dump, then the file and its manifest, each opened  *)
(* empty and written afterwards.  Of two tasks that write one file, the bytes *)
(* of the longer stay behind those of the later.                              *)
Dump(c) ==
  /\ At(c, "dump")
  /\ conn' = [conn EXCEPT ![c].dump = WholeFile(data), ![c].phase = "openDump"]
  /\ UNCHANGED <<scene, left, clock, sent, shared, seen, authVars>>

BackingUp(d) ==
  conn[d].phase \in {"writeDump", "openManifest", "writeManifest"}

OpenFile(c, phase, file, next) ==
  /\ At(c, phase)
  /\ files' = [files EXCEPT ![file] = EmptyFile]
  /\ seen' = [seen EXCEPT !.backupRaced =
       \/ file = "manifest" /\ @
       \/ \E d \in Conn \ {c} : BackingUp(d)]
  /\ Goes(c, next)
  /\ UNCHANGED <<scene, left, clock, sent, role, maintenance, sentinel, lockouts, log,
                 chain, data, authVars>>

(* build_backup_manifest describes the dump that was taken.                   *)
Content(c, file) == conn[c].dump

WriteFile(c, phase, file, next) ==
  /\ At(c, phase)
  /\ \/ /\ files' \in {[files EXCEPT ![file] = x] :
                         x \in {Content(c, file)}
                                 \cup IF files[file] = EmptyFile THEN {} ELSE {PartFile}}
        /\ IF next = "reply" THEN Answers(c, "ok") ELSE Goes(c, next)
        /\ UNCHANGED <<left, seen>>
     \/ /\ Fails("files") /\ Answers(c, "error")
        /\ files' = [files EXCEPT ![file] = PartFile]
        /\ seen' = [seen EXCEPT !.backupRaced = TRUE]
  /\ UNCHANGED <<scene, clock, sent, role, maintenance, sentinel, lockouts, log, chain,
                 data, authVars>>

BackupTo(c) ==
  \/ Dump(c)
  \/ OpenFile(c, "openDump", "dump", "writeDump")
  \/ WriteFile(c, "writeDump", "dump", "openManifest")
  \/ OpenFile(c, "openManifest", "manifest", "writeManifest")
  \/ WriteFile(c, "writeManifest", "manifest", "reply")

(* BACKUP VERIFY FROM and RESTORE FROM read the dump; only the former looks   *)
(* at the manifest.  A dump that is not whole is not the JSON of a dump.      *)
Load(c) ==
  /\ At(c, "load")
  /\ IF files.dump.kind # "whole" THEN Answers(c, "error")
     ELSE conn' = [conn EXCEPT ![c].dump = files.dump,
            ![c].phase = IF Req(c).op = "RESTORE_FROM" THEN "restore" ELSE "compare"]
  /\ UNCHANGED <<scene, left, clock, sent, shared, seen, authVars>>

Compare(c) ==
  /\ At(c, "compare")
  /\ Answers(c, IF files.manifest = conn[c].dump THEN "ok" ELSE "error")
  /\ UNCHANGED <<scene, left, clock, sent, shared, seen, authVars>>

(* RESTORE FROM replaces the key space without asking for the role again.     *)
Restore(c) ==
  /\ At(c, "restore")
  /\ \/ /\ data' = conn[c].dump.of
        /\ seen' = [seen EXCEPT !.applied =
             Append(@, [conn |-> c, id |-> sent[c], multi |-> 0,
                        commands |-> <<Submitted(c)>>])]
        /\ Answers(c, "ok") /\ UNCHANGED left
     \/ Fails("commits") /\ NotApplied /\ Answers(c, "error")
  /\ UNCHANGED <<scene, clock, sent, role, maintenance, sentinel, lockouts, log, chain,
                 files, authVars>>

----------------------------------------------------------------------------
(* The end of the loop of handle_client: the response, then the audit log.    *)

Event(c, type) == [conn |-> c, id |-> sent[c], type |-> type]

(* record_command_audit_event, record_semantic_audit_event and                *)
(* record_slow_command_event.                                                 *)
Events(c, slow) ==
  IF ~conn[c].processed THEN conn[c].events
  ELSE (IF scene.auditCommands THEN <<"command">> ELSE <<>>)
         \o (IF IsSemantic(Req(c).op) THEN <<"semantic">> ELSE <<>>)
         \o (IF slow THEN <<"slow">> ELSE <<>>)

(* A response that cannot be written ends the connection, before the audit.   *)
Respond(c) ==
  /\ At(c, "reply")
  /\ \/ \E slow \in scene.slow :
          conn' = [conn EXCEPT ![c].events = Events(c, slow),
                               ![c].phase = IF Events(c, slow) = <<>> THEN "idle" ELSE "audit"]
     \/ conn' = [conn EXCEPT ![c].phase = "closed"]
  /\ IF conn'[c].phase = "closed" THEN Fails("responses") ELSE UNCHANGED left
  /\ seen' = [seen EXCEPT !.answers[c] = Append(@,
       [reply |-> IF conn'[c].phase = "closed" THEN "lost" ELSE conn[c].reply,
        processed |-> conn[c].processed])]
  /\ UNCHANGED <<scene, clock, sent, shared, authVars>>

(* AuditLogger::record, under its two locks.  Its error is dropped.           *)
RecordEvent(event) ==
  LET line == Chained(chain, event)
  IN \/ /\ log' = AppendLine(log, line, TRUE)
        /\ chain' = Advanced(chain, line, TRUE)
        /\ UNCHANGED <<left, seen>>
     \/ /\ Fails("records")
        /\ log' \in {log, AppendLine(log, line, FALSE), AppendLine(log, Broken(line), FALSE)}
        /\ chain' = Advanced(chain, line, FALSE)
        /\ seen' = [seen EXCEPT !.torn = @ \/ log' # log]

(* record_runtime_event comes before the response.                            *)
Note(c) ==
  /\ At(c, "note")
  /\ RecordEvent(Event(c, "runtime"))
  /\ Answers(c, "ok")
  /\ UNCHANGED <<scene, clock, sent, role, maintenance, sentinel, lockouts, files, data,
                 authVars>>

Record(c) ==
  /\ At(c, "audit")
  /\ RecordEvent(Event(c, Head(conn[c].events)))
  /\ conn' = [conn EXCEPT ![c].events = Tail(@),
                          ![c].phase = IF Len(conn[c].events) = 1 THEN "idle" ELSE "audit"]
  /\ UNCHANGED <<scene, clock, sent, role, maintenance, sentinel, lockouts, files, data,
                 authVars>>

----------------------------------------------------------------------------
(* Time, elections, crashes and starts.                                       *)

Tick ==
  /\ clock < guards.clock /\ clock' = clock + 1
  /\ UNCHANGED <<scene, left, sent, conn, shared, seen, authVars>>

(* The node is elected or steps down: module Election.                        *)
ChangeRole ==
  /\ Fails("roles") /\ role \in {"leader", "follower"}
  /\ role' = IF role = "leader" THEN "follower" ELSE "leader"
  /\ UNCHANGED <<scene, clock, sent, conn, maintenance, sentinel, lockouts, log, chain,
                 files, data, seen, authVars>>

Recording == {c \in Conn : conn[c].phase \in {"note", "audit"}}

(* A line that was being written stays as far as it came.                     *)
Crash ==
  /\ Stop /\ Fails("crashes")
  /\ LET parts == {AppendLine(log, Broken(Chained(chain, Event(c, "part"))), FALSE) :
                     c \in Recording}
     IN log' \in {log} \cup parts
  /\ seen' = [seen EXCEPT
       !.torn = @ \/ log' # log,
       !.failures = <<>>,
       !.flagRaced = FALSE,
       !.backupRaced = @ \/ \E c \in Conn : BackingUp(c),
       !.answers = [c \in Conn |->
          IF Len(@[c]) < sent[c]
          THEN Append(@[c], [reply |-> "lost", processed |-> conn[c].processed])
          ELSE @[c]]]
  /\ UNCHANGED <<scene, clock, sent, conn, role, maintenance, sentinel, lockouts, chain,
                 files, data>>

(* The server comes up with a log that verifies, the users of its file and    *)
(* the maintenance mode of the sentinel.  The clients connect again.          *)
Boot ==
  /\ ChainVerifies(log)
  /\ Start(scene.user, scene.password)
  /\ IF stored' = None
     THEN Fails("saves") /\ UNCHANGED <<conn, maintenance, lockouts, chain>>
     ELSE /\ conn' = [c \in Conn |-> NewSession(conn[c].peer + 1, guards.burst, clock)]
          /\ maintenance' = sentinel
          /\ chain' = ChainOf(log)
          /\ lockouts' = <<>>
          /\ UNCHANGED left
  /\ UNCHANGED <<scene, clock, sent, role, sentinel, log, files, data, seen>>

Init ==
  /\ scene \in Scenes
  /\ left = scene.left
  /\ clock = 1
  /\ sent = [c \in Conn |-> 0]
  /\ conn = [c \in Conn |-> NewSession(0, scene.guards.burst, 1)]
  /\ role = scene.role
  /\ maintenance = FALSE /\ sentinel = scene.sentinel
  /\ lockouts = <<>>
  /\ log = EmptyAuditFile /\ chain = NewChain
  /\ files = [dump |-> NoFile, manifest |-> NoFile]
  /\ data = 0
  /\ seen = [applied |-> <<>>, answers |-> [c \in Conn |-> <<>>],
             failures |-> <<>>,
             promotions |-> 0, torn |-> FALSE, flagRaced |-> FALSE, backupRaced |-> FALSE]
  /\ stored = None /\ disk = scene.disk

Serve(c) ==
  \/ Read(c) \/ Reconnect(c) \/ Process(c) \/ Verify(c) \/ AuthSucceeded(c) \/ AuthFailed(c)
  \/ Dispatch(c) \/ Write(c) \/ Exec(c) \/ Mutate(c) \/ WriteSentinel(c) \/ PublishFlag(c)
  \/ Promote(c) \/ Info(c) \/ BackupTo(c) \/ Load(c) \/ Compare(c) \/ Restore(c)
  \/ Respond(c) \/ Note(c) \/ Record(c)

Next == Tick \/ ChangeRole \/ Crash \/ Boot \/ \E c \in Conn : Serve(c)

Spec == Init /\ [][Next]_vars

----------------------------------------------------------------------------
Phases == {"idle", "closed", "process", "verify", "cleared", "failed", "admitted", "exec",
           "write", "mutate", "sentinel", "flag", "promote", "info", "dump", "openDump",
           "writeDump", "openManifest", "writeManifest", "load", "compare", "restore",
           "note", "reply", "audit"}

(* The state has its type; a transaction's queue, MULTI included, keeps to    *)
(* max_transaction_queue_len and the tokens of a connection to its burst.     *)
ServerTypeOK ==
  /\ AuthTypeOK
  /\ \A c \in Conn :
       /\ conn[c].phase \in Phases
       /\ Len(conn[c].queue) <= guards.queue
       /\ conn[c].tokens \in 0..guards.burst
       /\ conn[c].started = 0 <=> conn[c].queue = <<>>
       /\ Len(seen.answers[c]) \in {sent[c] - 1, sent[c]}
  /\ role \in {"standalone", "leader", "follower"}
  /\ {maintenance, sentinel} \subseteq BOOLEAN
  /\ data \in 0..Len(seen.applied)

(* A session may SCAN with a pattern only if each key that the pattern lists  *)
(* matches one of its grants: for a grant with wildcards anywhere, what       *)
(* pattern_covers accepts, which compares the texts of two patterns, lists no *)
(* key, by the glob of the engine, that the grant as a glob does not match.   *)
ScansWithinGrants ==
  \A c \in Conn : LET identity == conn[c].identity
    IN identity # Nobody /\ "admin" \notin identity.permissions =>
         \A requested \in DOMAIN Listed :
           AllowsPattern(identity, "read", requested) =>
             Listed[requested] \subseteq UNION {Listed[g] : g \in GrantsOf(identity, "read")}

(* A command that changed the key space was allowed to the identity that its  *)
(* connection had when the command came, also when it was queued, a different *)
(* user authenticated on the connection, and EXEC ran it later.               *)
AppliedAuthorized ==
  scene.auth =>
    \A n \in 1..Len(seen.applied) : LET a == seen.applied[n]
      IN \A i \in 1..Len(a.commands) :
           Authorized(a.commands[i].by, scene.script[a.conn][a.commands[i].id])

(* Maintenance mode is on, and no request is under way that came before it.   *)
Settled ==
  /\ maintenance /\ stored # None
  /\ \A c \in Conn : conn[c].late => conn[c].phase \in {"idle", "closed", "reply", "audit"}

(* Maintenance mode is read-only: once the requests that came before it are   *)
(* done, neither the key space nor the users and roles change.                *)
MaintenanceQuiet ==
  [][Settled /\ stored' # None => data' = data /\ stored' = stored]_vars

(* What is_allowed_during_maintenance leaves of that: the users and roles do  *)
(* not change, and the key space only by a GETEX that sets or clears an       *)
(* expiration, whatever transactions were open when the mode was switched.    *)
OnlyGetExWrites ==
  [][Settled /\ stored' # None =>
       /\ stored' = stored
       /\ data' # data => \E c \in Conn : conn[c].phase = "write" /\ Req(c).op = "GETEX"]_vars


(* EXEC runs exactly the commands that were answered QUEUED since its MULTI,  *)
(* runs no transaction twice (it may be sent again after an error), and none  *)
(* that was discarded, had expired or belonged to a lost connection.          *)
ExecWhole ==
  \A n \in 1..Len(seen.applied) : LET a == seen.applied[n]
    IN a.multi # 0 =>
         LET between == a.multi + 1 .. a.id - 1
             reply(i) == seen.answers[a.conn][i].reply
         IN /\ {a.commands[i].id : i \in 1..Len(a.commands)}
                 = {i \in between : reply(i) = "queued"}
            /\ \A i \in between :
                 /\ reply(i) \notin {"expired", "lost"}
                 /\ scene.script[a.conn][i].op = "DISCARD" => reply(i) # "ok"
            /\ \A m \in 1..n - 1 :
                 seen.applied[m].conn = a.conn => seen.applied[m].multi # a.multi


(* As long as no write to it failed half way, the audit log verifies, and the *)
(* chain in memory is the one a restart would go on with: tasks record in any *)
(* order, and an event that is not written leaves no gap.                     *)
AuditVerifies ==
  stored # None /\ ~seen.torn =>
    ChainVerifies(log) /\ log.ended /\ chain = ChainOf(log)

SemanticEvents(c, i) ==
  {n \in 1..Len(log.lines) : log.lines[n].event = [conn |-> c, id |-> i, type |-> "semantic"]}

(* Every authentication and every change of users and roles whose response    *)
(* was written, whatever it said, is in the audit log once; one whose         *)
(* response was lost is not, though it may have taken effect.                 *)
SemanticAudited ==
  left.records = scene.left.records /\ left.crashes = scene.left.crashes =>
    \A c \in Conn : \A i \in 1..Len(seen.answers[c]) :
      LET a == seen.answers[c][i]
      IN /\ a.reply = "lost" => SemanticEvents(c, i) = {}
         /\ /\ a.reply # "lost" /\ a.processed /\ IsSemantic(scene.script[c][i].op)
            /\ ~(i = sent[c] /\ conn[c].phase = "audit")
            => Cardinality(SemanticEvents(c, i)) = 1

(* A backup verifies against its manifest, whatever was written to the key    *)
(* space while it was taken, unless another BACKUP TO wrote the same files at *)
(* the same time or a write or the server failed in between.                  *)
BackupVerifies ==
  \/ seen.backupRaced
  \/ \E c \in Conn : BackingUp(c)
  \/ files.dump = NoFile
  \/ files.dump.kind = "whole" /\ files.manifest = files.dump

(* PROMOTE FOLLOWER wants maintenance mode and a follower, but as a write     *)
(* command it is refused in maintenance mode and on a follower: it succeeds   *)
(* only when both change while it is under way.                               *)
PromotedOnlyInRace == seen.promotions > 0 => left.roles < scene.left.roles

=============================================================================
