----------------------------- MODULE AuthProofs -----------------------------
(* The store of users and roles always has an administrator, and every role   *)
(* that a user holds exists, for any users, roles, permissions and patterns.  *)
(* Both facts and the type of the store are inductive together: Sound.        *)
EXTENDS Auth, FiniteSetTheorems, TLAPS

Sound(s) == s \in StoredAuth /\ Administered(s) /\ Referenced(s)

SoundUnlessNone(s) == s = None \/ Sound(s)

AuthInv == SoundUnlessNone(stored) /\ SoundUnlessNone(disk)

----------------------------------------------------------------------------
(* Partial maps.                                                              *)

(* A partial map is a function on a part of its keys.                         *)
LEMMA PartialMapIs ==
  ASSUME NEW K, NEW V, NEW f
  PROVE  f \in PartialMap(K, V) <=> \E D \in SUBSET K : f \in [D -> V]
  BY DEF PartialMap

(* BTreeMap::insert keeps the type, and changes one key.                      *)
LEMMA BindFacts ==
  ASSUME NEW K, NEW V, NEW f \in PartialMap(K, V), NEW k \in K, NEW v \in V
  PROVE  /\ Bind(f, k, v) \in PartialMap(K, V)
         /\ DOMAIN Bind(f, k, v) = DOMAIN f \cup {k}
         /\ Bind(f, k, v)[k] = v
         /\ \A x \in DOMAIN f : x # k => Bind(f, k, v)[x] = f[x]
<1>1. PICK D \in SUBSET K : f \in [D -> V]  BY PartialMapIs
<1>2. Bind(f, k, v) \in [D \cup {k} -> V]  BY <1>1 DEF Bind
<1>3. D \cup {k} \in SUBSET K  OBVIOUS
<1>4. Bind(f, k, v) \in PartialMap(K, V)  BY <1>2, <1>3, PartialMapIs
<1>5. QED  BY <1>1, <1>4 DEF Bind

(* BTreeMap::remove keeps the type and the other keys.                        *)
LEMMA UnbindFacts ==
  ASSUME NEW K, NEW V, NEW f \in PartialMap(K, V), NEW k
  PROVE  /\ Unbind(f, k) \in PartialMap(K, V)
         /\ DOMAIN Unbind(f, k) = DOMAIN f \ {k}
         /\ \A x \in DOMAIN f : x # k => Unbind(f, k)[x] = f[x]
<1>1. PICK D \in SUBSET K : f \in [D -> V]  BY PartialMapIs
<1>2. Unbind(f, k) \in [D \ {k} -> V]  BY <1>1 DEF Unbind
<1>3. D \ {k} \in SUBSET K  OBVIOUS
<1>4. Unbind(f, k) \in PartialMap(K, V)  BY <1>2, <1>3, PartialMapIs
<1>5. QED  BY <1>1, <1>4 DEF Unbind

(* A store with other users, or other roles, is a store.                      *)
LEMMA StoreFacts ==
  ASSUME NEW s \in StoredAuth
  PROVE  /\ s.users \in PartialMap(User, UserRecord)
         /\ s.roles \in PartialMap(Role, RoleRecord)
         /\ \A us \in PartialMap(User, UserRecord) :
              /\ WithUsers(s, us) \in StoredAuth
              /\ WithUsers(s, us).users = us /\ WithUsers(s, us).roles = s.roles
         /\ \A rs \in PartialMap(Role, RoleRecord) :
              /\ WithRoles(s, rs) \in StoredAuth
              /\ WithRoles(s, rs).roles = rs /\ WithRoles(s, rs).users = s.users
  BY DEF StoredAuth, WithUsers, WithRoles

(* What is known of the records of a store.                                   *)
LEMMA RecordFacts ==
  ASSUME NEW s \in StoredAuth
  PROVE  /\ DOMAIN s.users \in SUBSET User
         /\ \A u \in DOMAIN s.users : s.users[u] \in UserRecord
         /\ DOMAIN s.roles \in SUBSET Role
         /\ \A r \in DOMAIN s.roles : s.roles[r] \in RoleRecord
<1>1. PICK D \in SUBSET User : s.users \in [D -> UserRecord]
  BY StoreFacts, PartialMapIs
<1>2. PICK E \in SUBSET Role : s.roles \in [E -> RoleRecord]
  BY StoreFacts, PartialMapIs
<1>3. QED  BY <1>1, <1>2

(* One user of a store bound to another record.                              *)
LEMMA UserBound ==
  ASSUME NEW s \in StoredAuth, NEW k \in User, NEW v \in UserRecord
  PROVE  /\ Bind(s.users, k, v) \in PartialMap(User, UserRecord)
         /\ DOMAIN Bind(s.users, k, v) = DOMAIN s.users \cup {k}
         /\ Bind(s.users, k, v)[k] = v
         /\ \A x \in DOMAIN s.users : x # k => Bind(s.users, k, v)[x] = s.users[x]
<1>1. s.users \in PartialMap(User, UserRecord)  BY StoreFacts
<1>2. Bind(s.users, k, v) \in PartialMap(User, UserRecord)  BY <1>1, BindFacts
<1>3. QED  BY <1>2 DEF Bind

(* One user of a store removed.                                              *)
LEMMA UserUnbound ==
  ASSUME NEW s \in StoredAuth, NEW k
  PROVE  /\ Unbind(s.users, k) \in PartialMap(User, UserRecord)
         /\ DOMAIN Unbind(s.users, k) = DOMAIN s.users \ {k}
         /\ \A x \in DOMAIN s.users : x # k => Unbind(s.users, k)[x] = s.users[x]
<1>1. s.users \in PartialMap(User, UserRecord)  BY StoreFacts
<1>2. Unbind(s.users, k) \in PartialMap(User, UserRecord)  BY <1>1, UnbindFacts
<1>3. QED  BY <1>2 DEF Unbind

(* One role of a store bound to another record.                              *)
LEMMA RoleBound ==
  ASSUME NEW s \in StoredAuth, NEW k \in Role, NEW v \in RoleRecord
  PROVE  /\ Bind(s.roles, k, v) \in PartialMap(Role, RoleRecord)
         /\ DOMAIN Bind(s.roles, k, v) = DOMAIN s.roles \cup {k}
         /\ Bind(s.roles, k, v)[k] = v
         /\ \A x \in DOMAIN s.roles : x # k => Bind(s.roles, k, v)[x] = s.roles[x]
<1>1. s.roles \in PartialMap(Role, RoleRecord)  BY StoreFacts
<1>2. Bind(s.roles, k, v) \in PartialMap(Role, RoleRecord)  BY <1>1, BindFacts
<1>3. QED  BY <1>2 DEF Bind

(* One role of a store removed.                                              *)
LEMMA RoleUnbound ==
  ASSUME NEW s \in StoredAuth, NEW k
  PROVE  /\ Unbind(s.roles, k) \in PartialMap(Role, RoleRecord)
         /\ DOMAIN Unbind(s.roles, k) = DOMAIN s.roles \ {k}
         /\ \A x \in DOMAIN s.roles : x # k => Unbind(s.roles, k)[x] = s.roles[x]
<1>1. s.roles \in PartialMap(Role, RoleRecord)  BY StoreFacts
<1>2. Unbind(s.roles, k) \in PartialMap(Role, RoleRecord)  BY <1>1, UnbindFacts
<1>3. QED  BY <1>2 DEF Unbind

(* Where more than one element is counted there is another one.               *)
LEMMA AnotherOne ==
  ASSUME NEW S, IsFiniteSet(S), ~(Cardinality(S) <= 1), NEW u
  PROVE  \E v \in S : v # u
<1>1. SUFFICES ASSUME \A v \in S : v = u PROVE FALSE  OBVIOUS
<1>2. S \subseteq {u}  BY <1>1
<1>3. IsFiniteSet({u}) /\ Cardinality({u}) = 1  BY FS_Singleton
<1>4. Cardinality(S) <= Cardinality({u})  BY <1>2, <1>3, FS_Subset
<1>5. QED  BY <1>3, <1>4

(* There are finitely many administrators.                                    *)
LEMMA AdminsFinite ==
  ASSUME NEW s \in StoredAuth
  PROVE  IsFiniteSet(Admins(s))
<1>1. Admins(s) \subseteq User  BY RecordFacts DEF Admins
<1>2. IsFiniteSet(User)  BY AuthAssumption
<1>3. QED  BY <1>1, <1>2, FS_Subset
----------------------------------------------------------------------------
(* Changing the users, or the roles, of a sound store.                        *)

(* An administrator among the new users and existing roles are enough.        *)
LEMMA UsersChanged ==
  ASSUME NEW s, Sound(s), NEW us \in PartialMap(User, UserRecord),
         \E a \in DOMAIN us : ~us[a].disabled /\ AdminRole \in us[a].roles,
         \A u \in DOMAIN us : us[u].roles \subseteq DOMAIN s.roles
  PROVE  Sound(WithUsers(s, us))
<1> DEFINE t == WithUsers(s, us)
<1>1. t \in StoredAuth /\ t.users = us /\ t.roles = s.roles
  BY StoreFacts DEF Sound
<1> HIDE DEF t
<1>2. Admins(t) # {}  BY <1>1 DEF Admins, IsAdmin
<1>3. QED  BY <1>1, <1>2 DEF Sound, Administered, Referenced, t

(* Keeping the names of the roles and the permission of the role admin too.   *)
LEMMA RolesChanged ==
  ASSUME NEW s, Sound(s), NEW rs \in PartialMap(Role, RoleRecord),
         DOMAIN s.roles \subseteq DOMAIN rs,
         Admin \in rs[AdminRole].permissions
  PROVE  Sound(WithRoles(s, rs))
<1> DEFINE t == WithRoles(s, rs)
<1>1. t \in StoredAuth /\ t.roles = rs /\ t.users = s.users
  BY StoreFacts DEF Sound
<1> HIDE DEF t
<1>2. Admins(t) = Admins(s)  BY <1>1 DEF Admins, IsAdmin
<1>3. QED  BY <1>1, <1>2 DEF Sound, Administered, Referenced, t

(* A sound store has an administrator.                                        *)
LEMMA SomeAdmin ==
  ASSUME NEW s, Sound(s)
  PROVE  \E a \in DOMAIN s.users : ~s.users[a].disabled /\ AdminRole \in s.users[a].roles
  BY DEF Sound, Administered, Admins, IsAdmin

(* Without the last administrator's guard biting, another one stays.          *)
LEMMA OtherAdmin ==
  ASSUME NEW s, Sound(s), NEW u \in DOMAIN s.users,
         ~(Cardinality(Admins(s)) <= 1 /\ IsAdmin(s, u))
  PROVE  \E a \in DOMAIN s.users :
           a # u /\ ~s.users[a].disabled /\ AdminRole \in s.users[a].roles
<1>1. CASE ~IsAdmin(s, u)
  BY <1>1, SomeAdmin DEF IsAdmin
<1>2. CASE ~(Cardinality(Admins(s)) <= 1)
  <2>1. IsFiniteSet(Admins(s))  BY AdminsFinite DEF Sound
  <2>2. PICK a \in Admins(s) : a # u  BY <1>2, <2>1, AnotherOne
  <2>3. QED  BY <2>2 DEF Admins, IsAdmin
<1>3. QED  BY <1>1, <1>2
----------------------------------------------------------------------------
(* The store a server starts with.                                            *)

(* A store with another bootstrap record is as sound as before.               *)
LEMMA BootstrapChanged ==
  ASSUME NEW s, Sound(s), NEW u \in User \cup {None}
  PROVE  Sound(WithBootstrap(s, u))
<1> DEFINE t == WithBootstrap(s, u)
<1>1. t \in StoredAuth /\ t.users = s.users /\ t.roles = s.roles
  BY DEF Sound, StoredAuth, WithBootstrap
<1> HIDE DEF t
<1>2. Admins(t) = Admins(s)  BY <1>1 DEF Admins, IsAdmin
<1>3. QED  BY <1>1, <1>2 DEF Sound, Administered, Referenced, t

(* admin_role_record.                                                         *)
LEMMA AdminRoleRecordOK ==
  AdminRoleRecord \in RoleRecord /\ StarGrants(Permission) \in SUBSET Grant
<1>1. StarGrants(Permission) \in SUBSET Grant
  BY AuthAssumption DEF StarGrants, Grant
<1>2. QED  BY <1>1 DEF AdminRoleRecord, RoleRecord

(* bootstrap_store.                                                           *)
LEMMA BootstrapSound ==
  ASSUME NEW u \in User, NEW p \in Password
  PROVE  Sound(BootstrapStore(u, p))
<1> DEFINE t == BootstrapStore(u, p)
<1>1. AdminRecord(p) \in UserRecord  BY AuthAssumption DEF AdminRecord, UserRecord
<1>2. /\ t.users = [x \in {u} |-> AdminRecord(p)]
      /\ t.roles = [r \in {AdminRole} |-> AdminRoleRecord]
      /\ t.bootstrap = u
      /\ t = [users |-> t.users, roles |-> t.roles, bootstrap |-> t.bootstrap]
  BY DEF BootstrapStore
<1>3. t.users \in PartialMap(User, UserRecord)
  <2>1. t.users \in [{u} -> UserRecord]  BY <1>1, <1>2
  <2>2. QED  BY <2>1, PartialMapIs
<1>4. t.roles \in PartialMap(Role, RoleRecord)
  <2>1. t.roles \in [{AdminRole} -> RoleRecord]  BY <1>2, AdminRoleRecordOK
  <2>2. QED  BY <2>1, PartialMapIs, AuthAssumption
<1> HIDE DEF t
<1>5. t \in StoredAuth  BY <1>2, <1>3, <1>4 DEF StoredAuth
<1>6. u \in Admins(t)  BY <1>2 DEF Admins, IsAdmin, AdminRecord
<1>7. Administered(t)
  BY <1>2, <1>6, AuthAssumption DEF Administered, AdminRoleRecord
<1>8. Referenced(t)  BY <1>2 DEF Referenced, AdminRecord
<1>9. QED  BY <1>5, <1>7, <1>8 DEF Sound, t

(* The configured user is an administrator of a sound store.                  *)
LEMMA ConfiguredSound ==
  ASSUME NEW s, Sound(s), NEW u \in User, NEW p \in Password
  PROVE  Sound(Configured(s, u, p)) /\ u \in Admins(Configured(s, u, p))
<1> DEFINE role == IF AdminRole \notin DOMAIN s.roles THEN AdminRoleRecord
                   ELSE [permissions |-> s.roles[AdminRole].permissions \cup Permission,
                         grants |-> s.roles[AdminRole].grants \cup StarGrants(Permission)]
           rs == Bind(s.roles, AdminRole, role)
           user == IF u \notin DOMAIN s.users THEN AdminRecord(p)
                   ELSE [password |-> p, roles |-> s.users[u].roles \cup {AdminRole},
                         disabled |-> FALSE]
           us == Bind(s.users, u, user)
<1>1. s \in StoredAuth  BY DEF Sound
<1>2. role \in RoleRecord /\ Admin \in role.permissions
  BY <1>1, RecordFacts, AdminRoleRecordOK, AuthAssumption DEF RoleRecord, AdminRoleRecord
<1>3. user \in UserRecord /\ ~user.disabled /\ AdminRole \in user.roles
  BY <1>1, RecordFacts, AuthAssumption DEF UserRecord, AdminRecord
<1>4. user.roles \subseteq DOMAIN s.roles \cup {AdminRole}
  BY DEF AdminRecord, Sound, Referenced
<1> HIDE DEF role, user
<1>5. /\ rs \in PartialMap(Role, RoleRecord)
      /\ DOMAIN rs = DOMAIN s.roles \cup {AdminRole}
      /\ rs[AdminRole] = role
  BY <1>1, <1>2, RoleBound, AuthAssumption
<1>6. /\ us \in PartialMap(User, UserRecord)
      /\ DOMAIN us = DOMAIN s.users \cup {u}
      /\ us[u] = user
      /\ \A x \in DOMAIN s.users : x # u => us[x] = s.users[x]
  BY <1>1, <1>3, UserBound
<1>7. EnsureAdminRole(s) = WithRoles(s, rs)  BY DEF EnsureAdminRole, role
<1>8. Configured(s, u, p) = WithUsers(WithRoles(s, rs), us)
  BY <1>7 DEF Configured, user
<1> HIDE DEF rs, us
<1>9. Sound(WithRoles(s, rs))  BY <1>2, <1>5, RolesChanged
<1>10. WithRoles(s, rs).roles = rs  BY <1>1, <1>5, StoreFacts
<1>11. \A x \in DOMAIN us : us[x].roles \subseteq DOMAIN rs
  BY <1>4, <1>5, <1>6 DEF Sound, Referenced
<1>12. Sound(WithUsers(WithRoles(s, rs), us))
  BY <1>3, <1>6, <1>9, <1>10, <1>11, UsersChanged
<1>13. WithUsers(WithRoles(s, rs), us).users = us  BY DEF WithUsers
<1>14. QED  BY <1>3, <1>6, <1>8, <1>12, <1>13 DEF Admins, IsAdmin

(* Removing another administrator.                                            *)
LEMMA RemovalSound ==
  ASSUME NEW s, Sound(s), NEW u \in Admins(s), NEW v, v # u
  PROVE  Sound(RemoveAdminIfPresent(s, v)) /\ u \in Admins(RemoveAdminIfPresent(s, v))
<1> DEFINE us == Unbind(s.users, v)
<1>1. CASE ~(v \in DOMAIN s.users /\ IsAdmin(s, v))
  BY <1>1 DEF RemoveAdminIfPresent
<1>2. CASE v \in DOMAIN s.users /\ IsAdmin(s, v)
  <2>1. RemoveAdminIfPresent(s, v) = WithUsers(s, us)
    BY <1>2 DEF RemoveAdminIfPresent
  <2>2. /\ us \in PartialMap(User, UserRecord)
        /\ DOMAIN us = DOMAIN s.users \ {v}
        /\ \A x \in DOMAIN s.users : x # v => us[x] = s.users[x]
    BY UserUnbound DEF Sound
  <2> HIDE DEF us
  <2>3. u \in DOMAIN us /\ ~us[u].disabled /\ AdminRole \in us[u].roles
    BY <2>2 DEF Admins, IsAdmin
  <2>4. Sound(WithUsers(s, us))
    BY <2>2, <2>3, UsersChanged DEF Sound, Referenced
  <2>5. WithUsers(s, us).users = us  BY DEF WithUsers
  <2>6. QED  BY <2>1, <2>3, <2>4, <2>5 DEF Admins, IsAdmin
<1>3. QED  BY <1>1, <1>2

(* reconcile_configured_bootstrap_admin.                                      *)
LEMMA ReconciledSound ==
  ASSUME NEW s, Sound(s), NEW u \in User, NEW p \in Password
  PROVE  Sound(Reconciled(s, u, p))
<1> DEFINE legacy == LegacySingleAdmin(s)
           base == Configured(s, u, p)
           first == RetirePrevious(base, s.bootstrap, u)
           other == IF s.bootstrap = None THEN legacy ELSE None
           second == RetirePrevious(first, other, u)
           third == RetireDefault(second, u)
<1>1. Sound(base) /\ u \in Admins(base)  BY ConfiguredSound
<1> HIDE DEF base
<1>2. Sound(first) /\ u \in Admins(first)
  BY <1>1, RemovalSound DEF RetirePrevious
<1> HIDE DEF first
<1>3. Sound(second) /\ u \in Admins(second)
  BY <1>2, RemovalSound DEF RetirePrevious
<1> HIDE DEF second
<1>4. Sound(third)
  BY <1>3, RemovalSound DEF RetireDefault
<1> HIDE DEF third
<1>5. Sound(WithBootstrap(third, u))  BY <1>4, BootstrapChanged
<1>6. QED  BY <1>5 DEF Reconciled, base, first, second, third
----------------------------------------------------------------------------
(* The mutations.                                                             *)

(* One user gets a record with existing roles, and an administrator is left.  *)
LEMMA UserChanged ==
  ASSUME NEW s, Sound(s), NEW k \in User, NEW v \in UserRecord,
         v.roles \subseteq DOMAIN s.roles,
         \/ ~v.disabled /\ AdminRole \in v.roles
         \/ \E a \in DOMAIN s.users :
              a # k /\ ~s.users[a].disabled /\ AdminRole \in s.users[a].roles
  PROVE  Sound(WithUsers(s, Bind(s.users, k, v)))
<1> DEFINE us == Bind(s.users, k, v)
<1>1. s \in StoredAuth /\ Referenced(s)  BY DEF Sound
<1>2. /\ us \in PartialMap(User, UserRecord)
      /\ DOMAIN us = DOMAIN s.users \cup {k}
      /\ us[k] = v
      /\ \A x \in DOMAIN s.users : x # k => us[x] = s.users[x]
  BY <1>1, UserBound
<1> HIDE DEF us
<1>3. \E a \in DOMAIN us : ~us[a].disabled /\ AdminRole \in us[a].roles  BY <1>2
<1>4. \A x \in DOMAIN us : us[x].roles \subseteq DOMAIN s.roles
  BY <1>1, <1>2 DEF Referenced
<1>5. QED  BY <1>2, <1>3, <1>4, UsersChanged DEF us

(* One role gets a record; the role admin keeps the permission admin.         *)
LEMMA RoleChanged ==
  ASSUME NEW s, Sound(s), NEW k \in Role, NEW v \in RoleRecord,
         k = AdminRole => Admin \in v.permissions
  PROVE  Sound(WithRoles(s, Bind(s.roles, k, v)))
<1> DEFINE rs == Bind(s.roles, k, v)
<1>1. s \in StoredAuth /\ Administered(s)  BY DEF Sound
<1>2. /\ rs \in PartialMap(Role, RoleRecord)
      /\ DOMAIN rs = DOMAIN s.roles \cup {k}
      /\ rs[k] = v
      /\ \A x \in DOMAIN s.roles : x # k => rs[x] = s.roles[x]
  BY <1>1, RoleBound
<1> HIDE DEF rs
<1>3. Admin \in rs[AdminRole].permissions  BY <1>1, <1>2 DEF Administered
<1>4. QED  BY <1>2, <1>3, RolesChanged DEF rs

(* A user goes that is not the last administrator.                            *)
LEMMA UserDropped ==
  ASSUME NEW s, Sound(s), NEW u \in DOMAIN s.users,
         ~(Cardinality(Admins(s)) <= 1 /\ IsAdmin(s, u))
  PROVE  Sound(WithUsers(s, Unbind(s.users, u)))
<1> DEFINE us == Unbind(s.users, u)
<1>1. /\ us \in PartialMap(User, UserRecord)
      /\ DOMAIN us = DOMAIN s.users \ {u}
      /\ \A x \in DOMAIN s.users : x # u => us[x] = s.users[x]
  BY UserUnbound DEF Sound
<1>2. PICK a \in DOMAIN s.users :
        a # u /\ ~s.users[a].disabled /\ AdminRole \in s.users[a].roles
  BY OtherAdmin
<1> HIDE DEF us
<1>3. \A x \in DOMAIN us : us[x].roles \subseteq DOMAIN s.roles
  BY <1>1 DEF Sound, Referenced
<1>4. QED  BY <1>1, <1>2, <1>3, UsersChanged DEF us

(* A role other than admin goes, and goes from its users first.               *)
LEMMA RoleDropped ==
  ASSUME NEW s, Sound(s), NEW r \in DOMAIN s.roles, r # AdminRole
  PROVE  Sound(WithRoles(WithUsers(s, Stripped(s.users, r)), Unbind(s.roles, r)))
<1> DEFINE us == Stripped(s.users, r)
           rs == Unbind(s.roles, r)
           t == WithRoles(WithUsers(s, us), rs)
<1>1. s \in StoredAuth /\ Administered(s) /\ Referenced(s)  BY DEF Sound
<1>2. /\ rs \in PartialMap(Role, RoleRecord)
      /\ DOMAIN rs = DOMAIN s.roles \ {r}
      /\ \A x \in DOMAIN s.roles : x # r => rs[x] = s.roles[x]
  BY <1>1, RoleUnbound
<1>3. /\ DOMAIN us = DOMAIN s.users
      /\ \A x \in DOMAIN us : /\ us[x] \in UserRecord
                              /\ us[x].roles = s.users[x].roles \ {r}
                              /\ us[x].disabled = s.users[x].disabled
  BY <1>1, RecordFacts DEF Stripped, UserRecord
<1>4. us \in PartialMap(User, UserRecord)
  <2>1. us \in [DOMAIN s.users -> UserRecord]  BY <1>3 DEF Stripped
  <2>2. QED  BY <1>1, <2>1, RecordFacts, PartialMapIs
<1> HIDE DEF us, rs
<1>5. t \in StoredAuth /\ t.users = us /\ t.roles = rs
  <2>1. WithUsers(s, us) \in StoredAuth /\ WithUsers(s, us).users = us
    BY <1>1, <1>4, StoreFacts
  <2>2. QED  BY <1>2, <2>1, StoreFacts
<1> HIDE DEF t
<1>6. Admins(t) = Admins(s)  BY <1>3, <1>5 DEF Admins, IsAdmin
<1>7. Administered(t)  BY <1>1, <1>2, <1>5, <1>6 DEF Administered
<1>8. Referenced(t)  BY <1>1, <1>2, <1>3, <1>5 DEF Referenced
<1>9. QED  BY <1>5, <1>7, <1>8 DEF Sound, t, us, rs

(* A save that fails leaves the old file: both were sound.                    *)
LEMMA SaveSound ==
  ASSUME AuthInv, NEW s, Sound(s), Save(s)
  PROVE  AuthInv'
  BY DEF AuthInv, SoundUnlessNone, Sound, Save, StoredAuth, Administered,
         Referenced, Admins, IsAdmin
(* Every step keeps memory and file sound.                                    *)
LEMMA AuthStep ==
  ASSUME AuthInv, AuthNext
  PROVE  AuthInv'
<1>1. stored # None => Sound(stored)  BY DEF AuthInv, SoundUnlessNone
<1>2. stored # None =>
        /\ DOMAIN stored.users \in SUBSET User
        /\ \A u \in DOMAIN stored.users :
             stored.users[u] \in UserRecord /\ stored.users[u].roles \subseteq DOMAIN stored.roles
        /\ DOMAIN stored.roles \in SUBSET Role
        /\ \A r \in DOMAIN stored.roles : stored.roles[r] \in RoleRecord
        /\ \E a \in DOMAIN stored.users :
             ~stored.users[a].disabled /\ AdminRole \in stored.users[a].roles
  BY <1>1, RecordFacts, SomeAdmin DEF Sound, Referenced
<1>3. CASE Stop
  BY <1>3 DEF Stop, AuthInv, SoundUnlessNone, Sound, StoredAuth, Administered,
              Referenced, Admins, IsAdmin
<1>4. ASSUME NEW u \in User, NEW p \in Password, Start(u, p) PROVE AuthInv'
  <2> DEFINE s == IF disk = None THEN BootstrapStore(u, p) ELSE Reconciled(disk, u, p)
  <2>1. Sound(s)
    BY BootstrapSound, ReconciledSound DEF AuthInv, SoundUnlessNone
  <2> HIDE DEF s
  <2>2. stored' \in {None, s} /\ disk' \in {disk, s}  BY <1>4 DEF Start, s
  <2>3. QED
    BY <2>1, <2>2 DEF AuthInv, SoundUnlessNone, Sound, StoredAuth, Administered,
                      Referenced, Admins, IsAdmin
<1>5. ASSUME NEW u \in User, NEW p \in Password, CreateUser(u, p) PROVE AuthInv'
  <2> DEFINE v == [password |-> p, roles |-> {}, disabled |-> FALSE]
  <2>1. v \in UserRecord /\ v.roles = {}  BY DEF UserRecord
  <2> HIDE DEF v
  <2>2. stored # None /\ u \notin DOMAIN stored.users  BY <1>5 DEF CreateUser
  <2>3. Sound(WithUsers(stored, Bind(stored.users, u, v)))
    BY <1>1, <1>2, <2>1, <2>2, UserChanged
  <2>4. QED  BY <1>5, <2>3, SaveSound DEF CreateUser, v
<1>6. ASSUME NEW u \in User, NEW p \in Password, AlterUserPassword(u, p) PROVE AuthInv'
  <2> DEFINE v == [stored.users[u] EXCEPT !.password = p]
  <2>1. stored # None /\ u \in DOMAIN stored.users  BY <1>6 DEF AlterUserPassword
  <2>2. v \in UserRecord /\ v.roles = stored.users[u].roles
                         /\ v.disabled = stored.users[u].disabled
    BY <1>2, <2>1 DEF UserRecord
  <2> HIDE DEF v
  <2>3. Sound(WithUsers(stored, Bind(stored.users, u, v)))
    BY <1>1, <1>2, <2>1, <2>2, UserChanged
  <2>4. QED  BY <1>6, <2>3, SaveSound DEF AlterUserPassword, v
<1>7. ASSUME NEW u \in User, DropUser(u) PROVE AuthInv'
  <2>1. Sound(WithUsers(stored, Unbind(stored.users, u)))
    BY <1>1, <1>7, UserDropped DEF DropUser, LastAdmin
  <2>2. QED  BY <1>7, <2>1, SaveSound DEF DropUser
<1>8. ASSUME NEW r \in Role, CreateRole(r) PROVE AuthInv'
  <2> DEFINE v == [permissions |-> {}, grants |-> {}]
  <2>1. v \in RoleRecord  BY DEF RoleRecord
  <2> HIDE DEF v
  <2>2. stored # None /\ r # AdminRole  BY <1>1, <1>8 DEF CreateRole, Sound, Administered
  <2>3. Sound(WithRoles(stored, Bind(stored.roles, r, v)))
    BY <1>1, <2>1, <2>2, RoleChanged
  <2>4. QED  BY <1>8, <2>3, SaveSound DEF CreateRole, v
<1>9. ASSUME NEW r \in Role, DropRole(r) PROVE AuthInv'
  <2>1. Sound(WithRoles(WithUsers(stored, Stripped(stored.users, r)),
                        Unbind(stored.roles, r)))
    BY <1>1, <1>9, RoleDropped DEF DropRole
  <2>2. QED  BY <1>9, <2>1, SaveSound DEF DropRole
<1>10. ASSUME NEW r \in Role, NEW u \in User, GrantRole(r, u) PROVE AuthInv'
  <2> DEFINE held == stored.users[u].roles \cup {r}
             v == [stored.users[u] EXCEPT !.roles = held]
  <2>1. stored # None /\ u \in DOMAIN stored.users /\ r \in DOMAIN stored.roles
    BY <1>10 DEF GrantRole
  <2>2. v \in UserRecord /\ v.roles = held /\ v.disabled = stored.users[u].disabled
    BY <1>2, <2>1 DEF UserRecord
  <2> HIDE DEF v
  <2>3. Sound(WithUsers(stored, Bind(stored.users, u, v)))
    BY <1>1, <1>2, <2>1, <2>2, UserChanged
  <2>4. QED  BY <1>10, <2>3, SaveSound DEF GrantRole, WithHeld, v
<1>11. ASSUME NEW r \in Role, NEW u \in User, RevokeRole(r, u) PROVE AuthInv'
  <2> DEFINE held == stored.users[u].roles \ {r}
             v == [stored.users[u] EXCEPT !.roles = held]
  <2>1. /\ stored # None /\ u \in DOMAIN stored.users
        /\ ~(r = AdminRole /\ Cardinality(Admins(stored)) <= 1 /\ IsAdmin(stored, u))
    BY <1>11 DEF RevokeRole, LastAdmin
  <2>2. v \in UserRecord /\ v.roles = held /\ v.disabled = stored.users[u].disabled
    BY <1>2, <2>1 DEF UserRecord
  <2> HIDE DEF v
  <2>3. \/ ~v.disabled /\ AdminRole \in v.roles
        \/ \E a \in DOMAIN stored.users :
             a # u /\ ~stored.users[a].disabled /\ AdminRole \in stored.users[a].roles
    <3>1. CASE r = AdminRole  BY <1>1, <2>1, <3>1, OtherAdmin
    <3>2. CASE r # AdminRole  BY <1>2, <2>1, <2>2, <3>2
    <3>3. QED  BY <3>1, <3>2
  <2>4. Sound(WithUsers(stored, Bind(stored.users, u, v)))
    BY <1>1, <1>2, <2>1, <2>2, <2>3, UserChanged
  <2>5. QED  BY <1>11, <2>4, SaveSound DEF RevokeRole, WithHeld, v
<1>12. ASSUME NEW p \in Permission, NEW g \in Pattern, NEW r \in Role,
              GrantPermission(p, g, r) \/ RevokePermission(p, g, r)
       PROVE  AuthInv'
  <2> DEFINE gr == [permission |-> p, pattern |-> g]
             v == [permissions |-> stored.roles[r].permissions,
                   grants |-> stored.roles[r].grants \cup {gr}]
             w == [permissions |-> stored.roles[r].permissions \ IF g = Star THEN {p} ELSE {},
                   grants |-> stored.roles[r].grants \ {gr}]
  <2>1. stored # None /\ r \in DOMAIN stored.roles
    BY <1>12 DEF GrantPermission, RevokePermission
  <2>2. gr \in Grant  BY DEF Grant
  <2> HIDE DEF gr
  <2>3. v \in RoleRecord /\ v.permissions = stored.roles[r].permissions
    BY <1>2, <2>1, <2>2 DEF RoleRecord
  <2>4. /\ w \in RoleRecord
        /\ w.permissions = stored.roles[r].permissions \ IF g = Star THEN {p} ELSE {}
    BY <1>2, <2>1, <2>2 DEF RoleRecord
  <2> HIDE DEF v, w
  <2>5. CASE GrantPermission(p, g, r)
    <3>1. Sound(WithRoles(stored, Bind(stored.roles, r, v)))
      BY <1>1, <2>1, <2>3, RoleChanged DEF Sound, Administered
    <3>2. QED  BY <2>5, <3>1, SaveSound DEF GrantPermission, v, gr
  <2>6. CASE RevokePermission(p, g, r)
    <3>1. r = AdminRole => Admin \in w.permissions
      BY <1>1, <2>1, <2>4, <2>6 DEF RevokePermission, Sound, Administered
    <3>2. Sound(WithRoles(stored, Bind(stored.roles, r, w)))
      BY <1>1, <2>1, <2>4, <3>1, RoleChanged
    <3>3. QED  BY <2>6, <3>2, SaveSound DEF RevokePermission, w, gr
  <2>7. QED  BY <1>12, <2>5, <2>6
<1>13. QED
  BY <1>3, <1>4, <1>5, <1>6, <1>7, <1>8, <1>9, <1>10, <1>11, <1>12 DEF AuthNext

----------------------------------------------------------------------------
(* Memory and file are sound in every behaviour of the store: its operations, *)
(* failing saves, restarts with another configured administrator.             *)
THEOREM AuthSound == AuthSpec => []AuthInv
<1>1. AuthInit => AuthInv
  <2>1. \A u \in User, p \in Password : Sound(WithBootstrap(BootstrapStore(u, p), None))
    BY BootstrapSound, BootstrapChanged
  <2>2. QED  BY <2>1 DEF AuthInit, AuthInv, SoundUnlessNone
<1>2. AuthInv /\ [AuthNext]_authVars => AuthInv'
  <2>1. ASSUME AuthInv, UNCHANGED authVars PROVE AuthInv'
    BY <2>1 DEF authVars, AuthInv, SoundUnlessNone, Sound, StoredAuth, Administered,
                Referenced, Admins, IsAdmin
  <2>2. QED  BY <2>1, AuthStep
<1>3. QED  BY <1>1, <1>2, PTL DEF AuthSpec

(* Someone can always administer the server: in memory and in the file an     *)
(* enabled user holds the role admin, and the role has its permission.        *)
THEOREM AdminAlwaysRemains == AuthSpec => []AdminRemains
<1>1. AuthInv => AdminRemains  BY DEF AuthInv, SoundUnlessNone, Sound, AdminRemains
<1>2. QED  BY <1>1, AuthSound, PTL

(* A user never holds a role that does not exist.                             *)
THEOREM RolesAlwaysExist == AuthSpec => []RolesExist
<1>1. AuthInv => RolesExist  BY DEF AuthInv, SoundUnlessNone, Sound, RolesExist
<1>2. QED  BY <1>1, AuthSound, PTL

=============================================================================
