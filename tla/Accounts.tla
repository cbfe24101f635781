------------------------------ MODULE Accounts ------------------------------
(***************************************************************************)
(* The accounts of the control plane: users with a role, a status and a    *)
(* password hash, and the credentials that speak for them, sessions and    *)
(* API keys.  A request reads what it decides on, then commits: autoflush  *)
(* is off, so that the ORM writes only at the commit, and only what        *)
(* differs from the values read; bulk statements (the DELETE of a user's   *)
(* sessions) run when they are issued and are seen by others at the        *)
(* commit.  The reads of one request are taken together.                   *)
(***************************************************************************)
EXTENDS Naturals, FiniteSets

CONSTANTS
    User,           \* e-mail addresses, which are unique: one row each at most
    First,          \* the e-mail address of the bootstrap owner
    Sess, Key,      \* sessions and API keys ever issued: bounds
    Password,       \* passwords
    Task,           \* requests (and starting processes) in flight: a bound
    MaxFields,      \* fields that one PATCH of a user sets: a bound
    NoUser, NoCred, NoPassword, Keep

Cred == Sess \cup Key

ASSUME AccountsAssumption ==
    /\ First \in User /\ NoUser \notin User /\ "ended" \notin User \cup {NoUser}
    /\ NoCred \notin Cred /\ Sess \cap Key = {}
    /\ MaxFields \in Nat
    /\ NoPassword \notin Password /\ Keep \notin Password

VARIABLES
    role,       \* users.role, "none" before the row exists
    status,     \* users.status
    hash,       \* users.password_hash: the password, and whether needs_rehash
    cred,       \* user_sessions and api_keys
    task        \* requests in flight

vars == <<role, status, hash, cred, task>>
users == <<role, status, hash>>

Role   == {"owner", "admin", "user"}
Status == {"active", "disabled"}
\* The password that an account starts with: which one makes no difference.
Initial == CHOOSE p \in Password : TRUE
Body   == {b \in [role : Role \cup {Keep}, status : Status \cup {Keep}, pw : Password \cup {Keep}] :
             Cardinality({f \in DOMAIN b : b[f] # Keep}) <= MaxFields}

\* What a request keeps of its reads: what it will write ("put": role, status and
\* password, where they differ from the values read), the rank of who makes it,
\* and the sessions its DELETE has hit ("gone"), which the others see at the
\* commit.  Two fields are history: the sessions that a password change has "seen"
\* at its reads, and whether a commit has changed since what it relied on ("raced"):
\* the password, for a login; the role or the status of an owner, for an update.
Nothing == [role |-> Keep, status |-> Keep, pw |-> Keep]
Idle == [op |-> "none", rank |-> "none", user |-> NoUser, cred |-> NoCred, put |-> Nothing,
         seen |-> {}, gone |-> {}, raced |-> FALSE]

\* UserSession.is_valid and ApiKey.is_valid, and the user is active
\* (validate_session, authenticate).
Valid(c) == cred[c] \in User /\ status[cred[c]] = "active"
Rank(c)  == role[cred[c]]
SessionsOf(u) == {c \in Sess : cred[c] = u}
ActiveOwners == {u \in User : role[u] = "owner" /\ status[u] = "active"}
\* Tokens are random: which one of those never issued comes next makes no difference.
Unissued(S) == {c \in S : cred[c] = NoUser /\ \A t \in Task : task[t].cred # c}
NewCred(c, S) == c \in Unissued(S) /\ c = CHOOSE d \in Unissued(S) : TRUE

Init ==
    /\ role = [u \in User |-> "none"] /\ status = [u \in User |-> "active"]
    /\ hash = [u \in User |-> [pw |-> NoPassword, old |-> FALSE]]
    /\ cred = [c \in Cred |-> NoUser]
    /\ task = [t \in Task |-> Idle]

Begin(t, r) == task' = [task EXCEPT ![t] = r]
End(t) == task' = [task EXCEPT ![t] = Idle]
\* A commit that has written user u: the requests in flight that relied on what it
\* changed have been raced.
EndWriting(t, u) ==
    LET ownerChanged == /\ "owner" \in {role[u], role'[u]}
                        /\ <<role[u], status[u]>> # <<role'[u], status'[u]>>
        changed(x) == \/ task[x].op = "update" /\ ownerChanged
                      \/ task[x].op = "login" /\ task[x].user = u /\ hash[u].pw # hash'[u].pw
    IN  task' = [x \in Task |-> IF x = t THEN Idle
                   ELSE IF changed(x) THEN [task[x] EXCEPT !.raced = TRUE] ELSE task[x]]
\* The ORM writes a value that differs from the one loaded: what a commit puts.
Changed(new, loaded) == IF new = loaded THEN Keep ELSE new
Put(f, u, new) == IF new = Keep THEN f ELSE [f EXCEPT ![u] = new]
PutHash(u, p) == hash' = Put(hash, u, IF p = Keep THEN Keep ELSE [pw |-> p, old |-> FALSE])
Kill(S) == cred' = [c \in Cred |-> IF c \in S THEN "ended" ELSE cred[c]]

-----------------------------------------------------------------------------
(* ensure_owner_account, by every process that starts.                     *)
LoadBoot(t) ==
    /\ \A u \in User : role[u] = "none"
    /\ Begin(t, [Idle EXCEPT !.op = "boot", !.user = First])
    /\ UNCHANGED <<users, cred>>

\* The unique index on the e-mail address: a second insert fails.
Insertable(u) == role[u] = "none"

CommitBoot(t) ==
    LET u == task[t].user IN
    /\ task[t].op = "boot" /\ UNCHANGED <<status, cred>>
    /\ \/ /\ Insertable(u) /\ role' = [role EXCEPT ![u] = "owner"]
          /\ \E old \in BOOLEAN : hash' = [hash EXCEPT ![u] = [pw |-> Initial, old |-> old]]
          /\ EndWriting(t, u)
       \/ ~Insertable(u) /\ End(t) /\ UNCHANGED <<role, hash>>

-----------------------------------------------------------------------------
(* Sessions and passwords.                                                 *)

\* Seeded fault of LoadLogin: what was presented is not verified.
LoadLoginUnverified(t, u, s) ==
    /\ role[u] # "none" /\ status[u] = "active" /\ NewCred(s, Sess)
    /\ \E p \in Password :
          Begin(t, [Idle EXCEPT !.op = "login", !.user = u, !.cred = s,
                                !.put.pw = IF hash[u].old THEN p ELSE Keep])
    /\ UNCHANGED <<users, cred>>

\* The password that is presented matches the hash that was read; needs_rehash
\* makes the login write it again, hashed anew.
LoadLogin(t, u, s) ==
    /\ role[u] # "none" /\ status[u] = "active" /\ NewCred(s, Sess)
    /\ Begin(t, [Idle EXCEPT !.op = "login", !.user = u, !.cred = s,
                             !.put.pw = IF hash[u].old THEN hash[u].pw ELSE Keep])
    /\ UNCHANGED <<users, cred>>
CommitLogin(t) ==
    LET k == task[t] IN
    /\ k.op = "login" /\ PutHash(k.user, k.put.pw) /\ cred' = [cred EXCEPT ![k.cred] = k.user]
    /\ UNCHANGED <<role, status>> /\ EndWriting(t, k.user)

\* The current password is verified against the hash that was read.
LoadChange(t, c, p) ==
    /\ Valid(c)
    /\ Begin(t, [Idle EXCEPT !.op = "change", !.put.pw = p, !.user = cred[c],
                             !.seen = SessionsOf(cred[c])])
    /\ UNCHANGED <<users, cred>>

\* revoke_all_sessions: DELETE, which waits for another DELETE of the same rows.
DeleteSessions(t) ==
    LET mine == SessionsOf(task[t].user) IN
    /\ task[t].op = "change" /\ \A x \in Task : task[x].gone \cap mine = {}
    /\ task' = [task EXCEPT ![t].op = "deleted", ![t].gone = mine]
    /\ UNCHANGED <<users, cred>>

\* Seeded fault of CommitChange: the sessions stay.
CommitChangeOnly(t) ==
    /\ task[t].op = "deleted" /\ PutHash(task[t].user, task[t].put.pw)
    /\ UNCHANGED <<role, status, cred>> /\ EndWriting(t, task[t].user)

\* The hash is flushed and the transaction commits, the DELETE with it.
CommitChange(t) ==
    /\ task[t].op = "deleted" /\ PutHash(task[t].user, task[t].put.pw)
    /\ Kill(task[t].gone) /\ UNCHANGED <<role, status>> /\ EndWriting(t, task[t].user)

-----------------------------------------------------------------------------
(* Keys, and the ends of credentials.                                      *)

LoadCreateKey(t, c, k) ==
    /\ Valid(c) /\ NewCred(k, Key)
    /\ Begin(t, [Idle EXCEPT !.op = "key", !.cred = k, !.user = cred[c]])
    /\ UNCHANGED <<users, cred>>
CommitCreateKey(t) ==
    /\ task[t].op = "key"
    /\ cred' = [cred EXCEPT ![task[t].cred] = task[t].user]
    /\ End(t) /\ UNCHANGED users

\* authenticate: a request made with a key sets its last_used_at, whatever else the
\* request does.
LoadUse(t, k) ==
    /\ Valid(k) /\ Begin(t, [Idle EXCEPT !.op = "use", !.cred = k, !.user = cred[k]])
    /\ UNCHANGED <<users, cred>>
\* Seeded fault of CommitUse: the row is saved as it was loaded.
SaveUse(t) ==
    /\ task[t].op = "use" /\ cred' = [cred EXCEPT ![task[t].cred] = task[t].user]
    /\ End(t) /\ UNCHANGED users
\* The UPDATE writes that column of the key's row, revoked meanwhile or not.
CommitUse(t) == task[t].op = "use" /\ End(t) /\ UNCHANGED <<users, cred>>

\* logout and revoke_session: one's own session; revoke_key: one's own key, or
\* anybody's for an owner or an administrator.
MayRevoke(c, d) ==
    \/ d \in Sess /\ cred[d] = cred[c]
    \/ d \in Key /\ (cred[d] = cred[c] \/ Rank(c) \in {"owner", "admin"})

\* One step: a write by primary key whatever the row has become.  A row that a
\* DELETE has locked is waited for, and the request fails.
Revoke(c, d) ==
    /\ Valid(c) /\ cred[d] \in User /\ MayRevoke(c, d)
    /\ \A x \in Task : d \notin task[x].gone
    /\ Kill({d}) /\ UNCHANGED <<users, task>>

\* expires_at passes.
Expire(c) == cred[c] \in User /\ Kill({c}) /\ UNCHANGED <<users, task>>

-----------------------------------------------------------------------------
(* The administration of users.                                            *)

LoadCreateUser(t, c, u) ==
    /\ Valid(c) /\ Rank(c) \in {"owner", "admin"} /\ role[u] = "none"
    /\ Begin(t, [Idle EXCEPT !.op = "create", !.user = u])
    /\ UNCHANGED <<users, cred>>
CommitCreateUser(t) ==
    LET u == task[t].user IN
    /\ task[t].op = "create"
    /\ \/ /\ Insertable(u) /\ role' = [role EXCEPT ![u] = "user"]
          /\ PutHash(u, Initial)
          /\ status' = [status EXCEPT ![u] = "active"] /\ EndWriting(t, u)
       \/ ~Insertable(u) /\ End(t) /\ UNCHANGED users
    /\ UNCHANGED cred

\* Seeded fault of RoleAllowed: the owner rules apply to owners' accounts only.
RoleAllowedToTarget(rank, u, r) == role[u] = "owner" => rank = "owner"
\* Only owners grant the owner role or modify an owner.
RoleAllowed(rank, u, r) == r = "owner" \/ role[u] = "owner" => rank = "owner"

\* Seeded fault of LastOwner: one's own account is counted too.
LastOwnerCounted(me, u, r, s) ==
    /\ me = u /\ role[me] = "owner" /\ (r \notin {Keep, "owner"} \/ s \notin {Keep, "active"})
    /\ ActiveOwners = {}
\* The lockout guard: an owner's own demotion with no other active owner.
LastOwner(me, u, r, s) ==
    /\ me = u /\ role[me] = "owner" /\ (r \notin {Keep, "owner"} \/ s \notin {Keep, "active"})
    /\ ActiveOwners \ {u} = {}

LoadUpdateUser(t, c, u, body) ==
    /\ Valid(c) /\ Rank(c) \in {"owner", "admin"} /\ role[u] # "none"
    /\ RoleAllowed(Rank(c), u, body.role) /\ ~LastOwner(cred[c], u, body.role, body.status)
    /\ LET put == [role |-> Changed(body.role, role[u]), pw |-> body.pw,
                   status |-> Changed(body.status, status[u])]
       IN  /\ put # Nothing
           /\ Begin(t, [Idle EXCEPT !.op = "update", !.user = u, !.put = put,
                              !.rank = IF put.role = "owner" THEN Rank(c) ELSE "none"])
    /\ UNCHANGED <<users, cred>>
\* A password written here ends no session.
CommitUpdateUser(t) ==
    LET k == task[t] IN
    /\ k.op = "update"
    /\ role' = Put(role, k.user, k.put.role) /\ status' = Put(status, k.user, k.put.status)
    /\ PutHash(k.user, k.put.pw) /\ EndWriting(t, k.user) /\ UNCHANGED cred

\* The request fails, or its process dies: its transaction is rolled back.
Rollback(t) == End(t) /\ UNCHANGED <<users, cred>>

Request(t) ==
    \/ LoadBoot(t)
    \/ \E u \in User, s \in Sess : LoadLogin(t, u, s)
    \/ \E k \in Key : LoadUse(t, k)
    \/ \E c \in Cred :
          \/ \E p \in Password : LoadChange(t, c, p)
          \/ \E k \in Key : LoadCreateKey(t, c, k)
          \/ \E u \in User : LoadCreateUser(t, c, u)
          \/ \E u \in User, b \in Body : LoadUpdateUser(t, c, u, b)
Conclude(t) ==
    \/ CommitBoot(t) \/ CommitLogin(t) \/ DeleteSessions(t) \/ CommitChange(t)
    \/ CommitCreateKey(t) \/ CommitUse(t) \/ CommitCreateUser(t) \/ CommitUpdateUser(t)
    \/ Rollback(t)

Next ==
    \/ \E t \in Task : IF task[t] = Idle THEN Request(t) ELSE Conclude(t)
    \/ \E c, d \in Cred : Revoke(c, d)
    \/ \E c \in Cred : Expire(c)

Spec == Init /\ [][Next]_vars

-----------------------------------------------------------------------------
(* Properties.                                                             *)

\* The step in which request t commits.
Commits(t, op) == task[t].op = op /\ task'[t] = Idle /\ <<users, cred>>' # <<users, cred>>

\* A password change ends every session that was there when it began, the one it
\* was made with included, whatever logins and logouts went on meanwhile.
ChangeEndsOlderSessions ==
    [][\A t \in Task : Commits(t, "deleted")
          => \A c \in task[t].seen : cred'[c] = "ended"]_vars

\* The lockout guard is complete for requests one at a time: only a request that
\* another one's change of an owner's role or status has overtaken leaves no active
\* owner.  Whatever else is written meanwhile, the guard's answer still holds.
OwnersLostOnlyByRace ==
    [][\A t \in Task : ActiveOwners # {} /\ ActiveOwners' = {} /\ Commits(t, "update")
          => task[t].raced]_vars

\* Ownership comes from an owner, or from a bootstrap that found no user; an
\* administrator, whatever the fields it sends, makes no owner.
OwnershipIsGranted ==
    [][\A u \in User : role[u] # "owner" /\ role'[u] = "owner" =>
          \E t \in Task :
             \/ Commits(t, "update") /\ task[t].rank = "owner"
             \/ Commits(t, "boot") /\ \A v \in User : role[v] = "none"]_vars

\* Logging in never changes which password is the account's, unless the password
\* was changed after this login had verified the former one: then the rehash
\* brings that one back.
PasswordUndoneOnlyByRace ==
    [][\A t \in Task : Commits(t, "login") /\ ~task[t].raced
          => \A u \in User : hash'[u].pw = hash[u].pw]_vars

\* Every session and every key keeps the promise of a credential: it speaks for
\* one user, and logout, revocation, a password change and expiry are final, also
\* for a key that a request has loaded before its end and writes after it.
Promise == INSTANCE Credential WITH Id <- Cred, Nobody <- NoUser, holder <- cred
KeepsPromise == Promise!Spec

-----------------------------------------------------------------------------
(* What the documentation says and the code does not keep.                 *)

\* "the last active owner cannot demote/disable themselves"; "last-owner lockout
\* prevented".
OwnerRemains == [][ActiveOwners # {} => ActiveOwners' # {}]_vars
=============================================================================
