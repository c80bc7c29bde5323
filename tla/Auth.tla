-------------------------------- MODULE Auth --------------------------------
(* The users, roles and grants of the server (auth/mod.rs): the AuthStore in  *)
(* memory, the encrypted file it is saved to, the mutations of the RBAC       *)
(* commands, and the reconciliation with the configured administrator when a  *)
(* server starts.  A mutation changes the memory first and saves afterwards;  *)
(* when the save fails the error is answered and the memory stays changed.    *)
EXTENDS Naturals, FiniteSets

CONSTANTS User, Role, Password, Permission, Pattern,
          AdminRole,         \* ADMIN_ROLE
          Admin,             \* Permission::Admin
          Star,              \* the pattern "*"
          Weak,              \* passwords that validate_password_policy refuses
          DefaultUser, DefaultPassword,
          None               \* Option::None: no file, no server, no record

ASSUME AuthAssumption ==
  /\ IsFiniteSet(User)
  /\ AdminRole \in Role /\ Admin \in Permission /\ Star \in Pattern
  /\ DefaultUser \in User /\ DefaultPassword \in Password
  /\ None \notin User

VARIABLES stored,   \* AuthStore.stored of the running server
          disk      \* the file of PersistConfig.path

authVars == <<stored, disk>>

UserRecord == [password : Password, roles : SUBSET Role, disabled : BOOLEAN]

Grant == [permission : Permission, pattern : Pattern]

RoleRecord == [permissions : SUBSET Permission, grants : SUBSET Grant]

(* The functions from a part of a set.                                        *)
PartialMap(K, V) == UNION {[D -> V] : D \in SUBSET K}

StoredAuth == [users : PartialMap(User, UserRecord),
               roles : PartialMap(Role, RoleRecord),
               bootstrap : User \cup {None}]

(* BTreeMap::insert and BTreeMap::remove.                                     *)
Bind(f, k, v) == [x \in DOMAIN f \cup {k} |-> IF x = k THEN v ELSE f[x]]

Unbind(f, k) == [x \in DOMAIN f \ {k} |-> f[x]]

WithUsers(s, users) ==
  [users |-> users, roles |-> s.roles, bootstrap |-> s.bootstrap]

WithRoles(s, roles) ==
  [users |-> s.users, roles |-> roles, bootstrap |-> s.bootstrap]

WithBootstrap(s, u) == [users |-> s.users, roles |-> s.roles, bootstrap |-> u]

----------------------------------------------------------------------------
(* What the store says of a user.                                             *)

IsAdmin(s, u) == AdminRole \in s.users[u].roles

Admins(s) == {u \in DOMAIN s.users : ~s.users[u].disabled /\ IsAdmin(s, u)}

StarGrants(permissions) == {[permission |-> p, pattern |-> Star] : p \in permissions}

HeldRoles(s, u) == {s.roles[r] : r \in s.users[u].roles \cap DOMAIN s.roles}

ResolvePermissions(s, u) ==
  UNION {h.permissions
           \cup {g.permission : g \in {x \in h.grants : x.pattern = Star}} :
         h \in HeldRoles(s, u)}

ResolveGrants(s, u) ==
  UNION {StarGrants(h.permissions) \cup h.grants : h \in HeldRoles(s, u)}

Verifies(s, u, p) ==
  u \in DOMAIN s.users /\ ~s.users[u].disabled /\ s.users[u].password = p

IdentityOf(s, u) == [username |-> u, permissions |-> ResolvePermissions(s, u),
                     grants |-> ResolveGrants(s, u)]

----------------------------------------------------------------------------
(* The store a server starts with.                                            *)

AdminRoleRecord == [permissions |-> Permission, grants |-> StarGrants(Permission)]

AdminRecord(p) == [password |-> p, roles |-> {AdminRole}, disabled |-> FALSE]

BootstrapStore(u, p) == [users |-> [x \in {u} |-> AdminRecord(p)],
                         roles |-> [r \in {AdminRole} |-> AdminRoleRecord],
                         bootstrap |-> u]

EnsureAdminRole(s) ==
  WithRoles(s, Bind(s.roles, AdminRole,
    IF AdminRole \notin DOMAIN s.roles THEN AdminRoleRecord
    ELSE [permissions |-> s.roles[AdminRole].permissions \cup Permission,
          grants |-> s.roles[AdminRole].grants \cup StarGrants(Permission)]))

(* The only enabled administrator of a file without a bootstrap record.       *)
LegacySingleAdmin(s) ==
  IF s.bootstrap = None /\ \E u \in Admins(s) : Admins(s) = {u}
  THEN CHOOSE u \in Admins(s) : TRUE
  ELSE None

RemoveAdminIfPresent(s, u) ==
  IF u \in DOMAIN s.users /\ IsAdmin(s, u) THEN WithUsers(s, Unbind(s.users, u)) ELSE s

(* Mutant: the configured user is not spared.                                 *)
RetireEveryone(s, previous, configured) ==
  IF previous = None THEN s ELSE RemoveAdminIfPresent(s, previous)

RetirePrevious(s, previous, configured) ==
  IF previous \in {None, configured} THEN s ELSE RemoveAdminIfPresent(s, previous)

RetireDefault(s, configured) ==
  IF \/ configured = DefaultUser
     \/ DefaultUser \notin DOMAIN s.users
     \/ ~IsAdmin(s, DefaultUser) /\ s.users[DefaultUser].password # DefaultPassword
  THEN s ELSE RemoveAdminIfPresent(s, DefaultUser)

Configured(s, u, p) ==
  WithUsers(EnsureAdminRole(s), Bind(s.users, u,
    IF u \notin DOMAIN s.users THEN AdminRecord(p)
    ELSE [password |-> p, roles |-> s.users[u].roles \cup {AdminRole},
          disabled |-> FALSE]))

Reconciled(s, u, p) ==
  LET legacy == LegacySingleAdmin(s)
      first == RetirePrevious(Configured(s, u, p), s.bootstrap, u)
      second == RetirePrevious(first, IF s.bootstrap = None THEN legacy ELSE None, u)
  IN IF u = DefaultUser /\ p = DefaultPassword THEN s
     ELSE WithBootstrap(RetireDefault(second, u), u)

----------------------------------------------------------------------------
(* save_store writes a temporary file, syncs it and renames it over the old   *)
(* one: a failing save leaves the old file, or the new one when only the last *)
(* sync fails.  The memory is changed either way.                             *)
Save(s) == stored' = s /\ disk' \in {disk, s}

(* load_or_bootstrap.  The server does not start when its save fails.         *)
Start(u, p) ==
  /\ stored = None
  /\ LET s == IF disk = None THEN BootstrapStore(u, p) ELSE Reconciled(disk, u, p)
     IN \/ stored' = s /\ disk' = s
        \/ stored' = None /\ disk' \in {disk, s}

(* The process ends, at whatever point of a save.                             *)
Stop == stored # None /\ stored' = None /\ disk' = disk

CreateUser(u, p) ==
  /\ stored # None /\ p \notin Weak /\ u \notin DOMAIN stored.users
  /\ Save(WithUsers(stored, Bind(stored.users, u,
       [password |-> p, roles |-> {}, disabled |-> FALSE])))

AlterUserPassword(u, p) ==
  /\ stored # None /\ p \notin Weak /\ u \in DOMAIN stored.users
  /\ Save(WithUsers(stored, Bind(stored.users, u,
       [stored.users[u] EXCEPT !.password = p])))

LastAdmin(u) == Cardinality(Admins(stored)) <= 1 /\ IsAdmin(stored, u)

DropUser(u) ==
  /\ stored # None /\ u \in DOMAIN stored.users /\ ~LastAdmin(u)
  /\ Save(WithUsers(stored, Unbind(stored.users, u)))

CreateRole(r) ==
  /\ stored # None /\ r \notin DOMAIN stored.roles
  /\ Save(WithRoles(stored, Bind(stored.roles, r, [permissions |-> {}, grants |-> {}])))

(* A role goes from every user, and a user gets another set of roles.         *)
Stripped(users, r) ==
  [u \in DOMAIN users |-> [users[u] EXCEPT !.roles = users[u].roles \ {r}]]

WithHeld(users, u, roles) == Bind(users, u, [users[u] EXCEPT !.roles = roles])

DropRole(r) ==
  /\ stored # None /\ r # AdminRole /\ r \in DOMAIN stored.roles
  /\ Save(WithRoles(WithUsers(stored, Stripped(stored.users, r)),
                    Unbind(stored.roles, r)))

GrantRole(r, u) ==
  /\ stored # None /\ r \in DOMAIN stored.roles /\ u \in DOMAIN stored.users
  /\ Save(WithUsers(stored, WithHeld(stored.users, u, stored.users[u].roles \cup {r})))

(* Mutant: the last administrator is guarded in DROP USER only.               *)
RevokeRoleUnguarded(r, u) ==
  /\ stored # None /\ u \in DOMAIN stored.users
  /\ Save(WithUsers(stored, WithHeld(stored.users, u, stored.users[u].roles \ {r})))

RevokeRole(r, u) ==
  /\ stored # None /\ u \in DOMAIN stored.users
  /\ ~(r = AdminRole /\ LastAdmin(u))
  /\ Save(WithUsers(stored, WithHeld(stored.users, u, stored.users[u].roles \ {r})))

GrantPermission(p, pattern, r) ==
  /\ stored # None /\ r \in DOMAIN stored.roles
  /\ Save(WithRoles(stored, Bind(stored.roles, r,
       [permissions |-> stored.roles[r].permissions,
        grants |-> stored.roles[r].grants \cup {[permission |-> p, pattern |-> pattern]}])))

RevokePermission(p, pattern, r) ==
  /\ stored # None /\ r \in DOMAIN stored.roles
  /\ ~(r = AdminRole /\ p = Admin /\ pattern = Star)
  /\ Save(WithRoles(stored, Bind(stored.roles, r,
       [permissions |-> stored.roles[r].permissions \ IF pattern = Star THEN {p} ELSE {},
        grants |-> stored.roles[r].grants \ {[permission |-> p, pattern |-> pattern]}])))

----------------------------------------------------------------------------
(* A directory without a file, or with the one an older version bootstrapped: *)
(* it has no bootstrap record.                                                *)
AuthInit ==
  /\ stored = None
  /\ disk \in {None} \cup {WithBootstrap(BootstrapStore(u, p), None) :
                             u \in User, p \in Password}

AuthNext ==
  \/ Stop
  \/ \E u \in User :
       \/ DropUser(u)
       \/ \E p \in Password : Start(u, p) \/ CreateUser(u, p) \/ AlterUserPassword(u, p)
       \/ \E r \in Role : GrantRole(r, u) \/ RevokeRole(r, u)
  \/ \E r \in Role :
       \/ CreateRole(r) \/ DropRole(r)
       \/ \E p \in Permission, pattern \in Pattern :
            GrantPermission(p, pattern, r) \/ RevokePermission(p, pattern, r)

AuthSpec == AuthInit /\ [][AuthNext]_authVars

----------------------------------------------------------------------------
StoreOK(s) ==
  s # None =>
    /\ DOMAIN s.users \subseteq User /\ DOMAIN s.roles \subseteq Role
    /\ \A u \in DOMAIN s.users : s.users[u] \in UserRecord
    /\ \A r \in DOMAIN s.roles : s.roles[r] \in RoleRecord
    /\ s.bootstrap \in User \cup {None}

(* The store in memory and the file have their types.                         *)
AuthTypeOK == StoreOK(stored) /\ StoreOK(disk)

Administered(s) ==
  /\ Admins(s) # {}
  /\ AdminRole \in DOMAIN s.roles
  /\ Admin \in s.roles[AdminRole].permissions

(* Whatever users are dropped, roles revoked, permissions withdrawn, saves    *)
(* failed and administrators reconfigured, in memory and in the file there is *)
(* an enabled user with the role admin and the role carries the permission    *)
(* admin: the guards LastAdminUser and ProtectedRole of auth/mod.rs, and the  *)
(* order of reconcile_configured_bootstrap_admin.                             *)
AdminRemains ==
  /\ stored # None => Administered(stored)
  /\ disk # None => Administered(disk)

Referenced(s) == \A u \in DOMAIN s.users : s.users[u].roles \subseteq DOMAIN s.roles

(* Every role a user holds exists: DROP ROLE takes it from its users before   *)
(* it goes, GRANT ROLE wants both, so a role created again later has no       *)
(* holders.                                                                   *)
RolesExist == /\ stored # None => Referenced(stored)
              /\ disk # None => Referenced(disk)

=============================================================================
