--------------------------- MODULE AccountsProofs ---------------------------
(* Proofs about Accounts, for any number of users, credentials, passwords   *)
(* and requests.                                                            *)
EXTENDS Accounts, TLAPS

-----------------------------------------------------------------------------
(* Types.                                                                  *)
Pw == Password \cup {Keep, NoPassword, Initial}
Fields == [role : Role \cup {Keep}, status : Status \cup {Keep}, pw : Pw]
Record ==
    [op : {"none", "boot", "login", "change", "deleted", "key", "use", "create", "update"},
     rank : Role \cup {"none"}, user : User \cup {NoUser}, cred : Cred \cup {NoCred},
     put : Fields, seen : SUBSET Sess, gone : SUBSET Sess, raced : BOOLEAN]
TypeOK ==
    /\ role \in [User -> Role \cup {"none"}] /\ status \in [User -> Status]
    /\ hash \in [User -> [pw : Pw, old : BOOLEAN]]
    /\ cred \in [Cred -> User \cup {NoUser, "ended"}]
    /\ task \in [Task -> Record]

-----------------------------------------------------------------------------
(* The inductive invariant: what a request in flight can still rely on.    *)

\* A credential that is being issued is nobody's yet.
Issuing(r) ==
    r.op \in {"login", "key"} => r.user \in User /\ r.cred \in Cred /\ cred[r.cred] = NoUser
\* What a DELETE has hit was issued, and after it every session that the password
\* change had seen is either hit or over.
Deleting(r) ==
    /\ \A c \in r.gone : cred[c] # NoUser
    /\ r.op = "change" => \A c \in r.seen : cred[c] \in {r.user, "ended"}
    /\ r.op = "deleted" => \A c \in r.seen : c \in r.gone \/ cred[c] = "ended"
\* Only a bootstrap is in flight before there is an owner.
Bootstrapping(r) ==
    /\ r.op = "boot" => r.user = First
    /\ r.op \notin {"none", "boot"} => role[First] # "none"
\* What will be written is what was allowed.
Allowed(r) ==
    r.op = "update" /\ r.put.role = "owner" /\ r.put.role # Keep => r.rank = "owner"
\* Nobody has written since: the rehash writes the password that is there, and the
\* update leaves an owner.
StillCurrent(r) ==
    r.op = "login" /\ ~r.raced => r.put.pw \in {Keep, hash[r.user].pw}
OwnerAfter(r) ==
    \E v \in User : /\ Put(role, r.user, r.put.role)[v] = "owner"
                    /\ Put(status, r.user, r.put.status)[v] = "active"
StillGuarded(r) ==
    r.op = "update" /\ ~r.raced => (ActiveOwners = {} \/ OwnerAfter(r))

Good(r) ==
    /\ r.op # "none" => r.user \in User
    /\ Issuing(r) /\ Deleting(r) /\ Bootstrapping(r)
    /\ Allowed(r) /\ StillCurrent(r) /\ StillGuarded(r)
Issues(t, c) == task[t].op \in {"login", "key"} /\ task[t].cred = c
Apart == \A t, u \in Task : \A c \in Cred : Issues(t, c) /\ Issues(u, c) => t = u
\* The bootstrap owner is the first user there is.
Founded ==
    role[First] = "none" => (\A u \in User : role[u] = "none") /\ (\A c \in Cred : cred[c] \notin User)

Inv == TypeOK /\ (\A t \in Task : Good(task[t])) /\ Apart /\ Founded

-----------------------------------------------------------------------------
(* What a step does to the records of requests.                            *)

\* A request's record keeps everything but the mark of having been raced.
Same(x) ==
    /\ task'[x].op = task[x].op /\ task'[x].rank = task[x].rank /\ task'[x].user = task[x].user
    /\ task'[x].cred = task[x].cred /\ task'[x].put = task[x].put /\ task'[x].seen = task[x].seen
    /\ task'[x].gone = task[x].gone /\ (task[x].raced => task'[x].raced)

LEMMA IdleTyped == Idle \in Record /\ Idle.op = "none" /\ Idle.gone = {}
BY DEF Idle, Record, Nothing, Fields, Pw

LEMMA EndTyped ==
    ASSUME TypeOK, NEW t \in Task, End(t)
    PROVE  /\ task' \in [Task -> Record] /\ task'[t] = Idle /\ \A x \in Task \ {t} : Same(x)
BY IdleTyped DEF TypeOK, End, Same

\* What a commit that writes user u changes of what others rely on.
OwnerChanged(u) ==
    "owner" \in {role[u], role'[u]} /\ <<role[u], status[u]>> # <<role'[u], status'[u]>>

LEMMA EndWritingTyped ==
    ASSUME TypeOK, NEW t \in Task, NEW u, EndWriting(t, u)
    PROVE  /\ task' \in [Task -> Record] /\ task'[t] = Idle /\ \A x \in Task \ {t} : Same(x)
           /\ \A x \in Task \ {t} :
                 \/ task[x].op = "update" /\ OwnerChanged(u)
                 \/ task[x].op = "login" /\ task[x].user = u /\ hash[u].pw # hash'[u].pw
                 => task'[x].raced
<1> DEFINE changed(x) == \/ task[x].op = "update" /\ OwnerChanged(u)
                         \/ task[x].op = "login" /\ task[x].user = u /\ hash[u].pw # hash'[u].pw
<1> DEFINE mark(x) == [task[x] EXCEPT !.raced = TRUE]
<1>1. task' = [x \in Task |-> IF x = t THEN Idle ELSE IF changed(x) THEN mark(x) ELSE task[x]]
  BY DEF EndWriting, OwnerChanged
<1> HIDE DEF changed
<1>2. ASSUME NEW x \in Task
      PROVE  /\ task[x] \in Record /\ mark(x) \in Record /\ mark(x).raced
             /\ mark(x).op = task[x].op /\ mark(x).rank = task[x].rank
             /\ mark(x).user = task[x].user /\ mark(x).cred = task[x].cred
             /\ mark(x).put = task[x].put /\ mark(x).seen = task[x].seen
             /\ mark(x).gone = task[x].gone
  <2>1. task[x] \in Record
    BY DEF TypeOK
  <2> QED BY <2>1 DEF Record
<1> HIDE DEF mark
<1>3. task' \in [Task -> Record] /\ task'[t] = Idle
  BY <1>1, <1>2, IdleTyped
<1>4. ASSUME NEW x \in Task \ {t} PROVE Same(x) /\ (changed(x) => task'[x].raced)
  <2>1. CASE changed(x)
    <3>1. task'[x] = mark(x)
      BY <1>1, <2>1
    <3> QED BY <1>2, <3>1 DEF Same
  <2>2. CASE ~changed(x)
    <3>1. task'[x] = task[x]
      BY <1>1, <2>2
    <3> QED BY <2>2, <3>1 DEF Same
  <2> QED BY <2>1, <2>2
<1> QED BY <1>3, <1>4 DEF changed

\* What may happen to a credential, unless it is one that a request is issuing.
Moves(c) ==
    \/ cred'[c] = cred[c]
    \/ cred[c] # NoUser /\ cred'[c] = "ended"
    \/ cred[c] = NoUser /\ cred'[c] \in User

\* The role and the status of an owner, old or new, are not touched.
OwnersStay ==
    \A v \in User : "owner" \in {role[v], role'[v]} => role'[v] = role[v] /\ status'[v] = status[v]
\* What a request in flight relies on is not touched, unless it is told so.
Undisturbed(x) ==
    /\ task[x].op \in {"login", "key"} => cred'[task[x].cred] = cred[task[x].cred]
    /\ task[x].op = "login" /\ ~task'[x].raced => hash'[task[x].user].pw = hash[task[x].user].pw
    /\ task[x].op = "update" /\ ~task'[x].raced => OwnersStay

\* The lockout guard's answer holds as long as owners stay what they are: who is an
\* active owner stays one; and an update that makes its user an owner was let through
\* while somebody else was one.
LEMMA GuardOutlastsOthers ==
    ASSUME Inv, NEW r \in Record, r.user \in User, OwnersStay, TypeOK',
           ActiveOwners = {} \/ OwnerAfter(r)
    PROVE  (ActiveOwners = {} \/ OwnerAfter(r))'
<1>1. ActiveOwners' = ActiveOwners
  BY DEF OwnersStay, ActiveOwners
<1>2. SUFFICES ASSUME NEW w \in ActiveOwners PROVE OwnerAfter(r)'
  BY <1>1
<1>3. w \in User /\ role[w] = "owner" /\ status[w] = "active"
  BY DEF ActiveOwners
<1>4. /\ role \in [User -> Role \cup {"none"}] /\ role' \in [User -> Role \cup {"none"}]
      /\ status \in [User -> Status] /\ status' \in [User -> Status]
  BY DEF Inv, TypeOK
<1>5. role'[w] = "owner" /\ status'[w] = "active"
  BY <1>3 DEF OwnersStay
<1>6. CASE w # r.user
  BY <1>3, <1>4, <1>5, <1>6 DEF OwnerAfter, Put
<1>7. CASE w = r.user
  <2>1. PICK v \in User : /\ Put(role, r.user, r.put.role)[v] = "owner"
                          /\ Put(status, r.user, r.put.status)[v] = "active"
    BY DEF OwnerAfter
  <2>2. CASE v = r.user
    BY <1>3, <1>4, <1>5, <1>7, <2>1, <2>2 DEF OwnerAfter, Put
  <2>3. CASE v # r.user
    <3>1. role[v] = "owner" /\ status[v] = "active"
      BY <1>4, <2>1, <2>3 DEF Put
    <3>2. role'[v] = "owner" /\ status'[v] = "active"
      BY <3>1 DEF OwnersStay
    <3> QED BY <1>4, <2>3, <3>2 DEF OwnerAfter, Put
  <2> QED BY <2>2, <2>3
<1> QED BY <1>6, <1>7

\* A request in flight keeps what it relies on, unless it is told that it was raced.
LEMMA OthersStayGood ==
    ASSUME Inv, TypeOK', NEW x \in Task, Same(x),
           \A c \in Cred : Moves(c),
           role[First] # "none" => role'[First] # "none", Undisturbed(x)
    PROVE  Good(task[x])'
<1> DEFINE r == task[x]
<1>1. Good(r) /\ r \in Record
  BY DEF Inv, TypeOK
<1>2. r.gone \subseteq Cred /\ r.seen \subseteq Cred
  BY <1>1 DEF Record, Cred
<1>3. task'[x].op # "none" => task'[x].user \in User
  BY <1>1 DEF Good, Same
<1>4. Issuing(task[x])'
  BY <1>1 DEF Good, Issuing, Same, Undisturbed
<1>5. Deleting(task[x])'
  <2>1. \A c \in r.gone : cred'[c] # NoUser
    BY <1>1, <1>2, AccountsAssumption DEF Good, Deleting, Moves
  <2>2. ASSUME r.op = "change", NEW c \in r.seen PROVE cred'[c] \in {r.user, "ended"}
    BY <1>1, <1>2, <2>2, AccountsAssumption DEF Good, Deleting, Moves
  <2>3. ASSUME r.op = "deleted", NEW c \in r.seen PROVE c \in r.gone \/ cred'[c] = "ended"
    BY <1>1, <1>2, <2>3, AccountsAssumption DEF Good, Deleting, Moves
  <2> QED BY <2>1, <2>2, <2>3 DEF Deleting, Same
<1>6. Bootstrapping(task[x])' /\ Allowed(task[x])'
  BY <1>1 DEF Good, Bootstrapping, Allowed, Same
<1>7. StillCurrent(task[x])'
  BY <1>1 DEF Good, StillCurrent, Same, Undisturbed
<1>8. StillGuarded(task[x])'
  <2> SUFFICES ASSUME r.op = "update", ~task'[x].raced
               PROVE  (ActiveOwners = {})' \/ OwnerAfter(task[x])'
    BY DEF StillGuarded, Same
  <2>1. r.user \in User /\ OwnersStay /\ (ActiveOwners = {} \/ OwnerAfter(r))
    BY <1>1 DEF Good, StillGuarded, Same, Undisturbed
  <2> HIDE DEF r
  <2>2. (ActiveOwners = {})' \/ \E v \in User : /\ Put(role', r.user, r.put.role)[v] = "owner"
                                                /\ Put(status', r.user, r.put.status)[v] = "active"
    BY <1>1, <2>1, GuardOutlastsOthers DEF OwnerAfter, Put
  <2> QED BY <2>2 DEF r, OwnerAfter, Put, Same
<1> QED BY <1>3, <1>4, <1>5, <1>6, <1>7, <1>8 DEF Good

LEMMA IdleGood == Good(Idle)
BY IdleTyped DEF Good, Issuing, Deleting, Bootstrapping, Allowed, StillCurrent, StillGuarded

\* A commit, or an end: every other request keeps what it relies on.
LEMMA CommitKeeps ==
    ASSUME Inv, TypeOK', Founded', \A c \in Cred : Moves(c),
           role[First] # "none" => role'[First] # "none",
           \A x \in Task : task'[x] = Idle \/ (Same(x) /\ Undisturbed(x))
    PROVE  Inv'
<1>1. ASSUME NEW x \in Task PROVE Good(task[x])'
  <2>1. CASE task'[x] = Idle
    BY <2>1, IdleTyped DEF Good, Issuing, Deleting, Bootstrapping, Allowed, StillCurrent, StillGuarded
  <2>2. CASE Same(x) /\ Undisturbed(x)
    BY <2>2, OthersStayGood
  <2> QED BY <2>1, <2>2
<1>2. Apart'
  <2> SUFFICES ASSUME NEW x \in Task, NEW y \in Task, NEW c \in Cred, Issues(x, c)', Issues(y, c)'
               PROVE  x = y
    BY DEF Apart
  <2>1. Same(x) /\ Same(y)
    BY IdleTyped DEF Issues
  <2>2. Issues(x, c) /\ Issues(y, c)
    BY <2>1 DEF Same, Issues
  <2> QED BY <2>2 DEF Inv, Apart
<1> QED BY <1>1, <1>2 DEF Inv

\* A request begins: it is good, and what it issues is nobody else's to issue.
LEMMA LoadKeeps ==
    ASSUME Inv, NEW t \in Task, NEW r \in Record, Good(r), Begin(t, r), UNCHANGED <<users, cred>>,
           r.op \in {"login", "key"} => \A x \in Task : task[x].cred # r.cred
    PROVE  Inv'
<1>1. /\ task' \in [Task -> Record] /\ task'[t] = r
      /\ \A x \in Task \ {t} : task'[x] = task[x]
  BY DEF Inv, TypeOK, Begin
<1>2. UNCHANGED <<role, status, hash, cred>>
  BY DEF users
<1>3. TypeOK' /\ Founded'
  BY <1>1, <1>2 DEF Inv, TypeOK, Founded
<1>4. Good(r)'
  BY <1>2 DEF Good, Issuing, Deleting, Bootstrapping, Allowed, StillCurrent, StillGuarded,
              OwnerAfter, ActiveOwners, Put
<1>5. ASSUME NEW x \in Task \ {t} PROVE Good(task[x])'
  <2>1. Same(x) /\ Undisturbed(x)
    BY <1>1, <1>2 DEF Same, Undisturbed, OwnersStay
  <2> QED BY <1>2, <1>3, <2>1, OthersStayGood DEF Moves
<1>6. \A x \in Task : Good(task[x])'
  <2>1. Good(task[t])'
    BY <1>1, <1>4 DEF Good, Issuing, Deleting, Bootstrapping, Allowed, StillCurrent, StillGuarded,
                      OwnerAfter, ActiveOwners, Put
  <2> QED BY <1>5, <2>1
<1>7. Apart'
  <2> SUFFICES ASSUME NEW x \in Task, NEW y \in Task, NEW c \in Cred, Issues(x, c)', Issues(y, c)'
               PROVE  x = y
    BY DEF Apart
  <2>1. CASE x # t /\ y # t
    <3>1. Issues(x, c) /\ Issues(y, c)
      BY <1>1, <2>1 DEF Issues
    <3> QED BY <3>1 DEF Inv, Apart
  <2>2. CASE (x = t \/ y = t) /\ x # y
    BY <1>1, <2>2 DEF Issues
  <2> QED BY <2>1, <2>2
<1> QED BY <1>3, <1>6, <1>7 DEF Inv

-----------------------------------------------------------------------------
(* The requests begin.                                                     *)

\* Who has a valid credential is a user that exists, and so is the first one.
LEMMA ValidMeans ==
    ASSUME Inv, NEW c \in Cred, Valid(c)
    PROVE  cred[c] \in User /\ status[cred[c]] = "active" /\ role[First] # "none"
BY DEF Inv, Founded, Valid

LEMMA ExistsMeans ==
    ASSUME Inv, NEW u \in User, role[u] # "none" PROVE role[First] # "none"
BY DEF Inv, Founded

LEMMA LoadBootKeeps == ASSUME Inv, NEW t \in Task, LoadBoot(t) PROVE Inv'
<1> DEFINE r == [Idle EXCEPT !.op = "boot", !.user = First]
<1>1. /\ r \in Record /\ r.op = "boot" /\ r.user = First /\ r.gone = {} /\ First \in User
  BY AccountsAssumption, IdleTyped DEF Record
<1> HIDE DEF r
<1>2. Good(r)
  BY <1>1 DEF Good, Issuing, Deleting, Bootstrapping, Allowed, StillCurrent, StillGuarded
<1>3. Begin(t, r) /\ UNCHANGED <<users, cred>>
  BY DEF LoadBoot, r
<1> QED BY <1>1, <1>2, <1>3, LoadKeeps

LEMMA LoadLoginKeeps ==
    ASSUME Inv, NEW t \in Task, NEW u \in User, NEW s \in Sess, LoadLogin(t, u, s) PROVE Inv'
<1> DEFINE p == IF hash[u].old THEN hash[u].pw ELSE Keep
<1> DEFINE r == [Idle EXCEPT !.op = "login", !.user = u, !.cred = s, !.put.pw = p]
<1>1. p \in Pw /\ p \in {Keep, hash[u].pw}
  BY DEF Inv, TypeOK, Pw
<1>2. /\ cred[s] = NoUser /\ (\A x \in Task : task[x].cred # s) /\ s \in Cred
      /\ role[First] # "none"
  BY ExistsMeans DEF LoadLogin, NewCred, Unissued, Cred
<1>3. Begin(t, r) /\ UNCHANGED <<users, cred>>
  BY DEF LoadLogin
<1> HIDE DEF p
<1>4. /\ r \in Record /\ r.op = "login" /\ r.user = u /\ r.cred = s /\ r.put.pw = p /\ r.gone = {}
  BY <1>1, <1>2 DEF Idle, Nothing, Record, Fields
<1> HIDE DEF r
<1>5. Good(r)
  BY <1>1, <1>2, <1>4 DEF Good, Issuing, Deleting, Bootstrapping, Allowed, StillCurrent, StillGuarded
<1> QED BY <1>2, <1>3, <1>4, <1>5, LoadKeeps

LEMMA LoadChangeKeeps ==
    ASSUME Inv, NEW t \in Task, NEW c \in Cred, NEW p \in Password, LoadChange(t, c, p) PROVE Inv'
<1> DEFINE r == [Idle EXCEPT !.op = "change", !.put.pw = p, !.user = cred[c],
                             !.seen = SessionsOf(cred[c])]
<1>1. cred[c] \in User /\ role[First] # "none"
  BY ValidMeans DEF LoadChange
<1>2. SessionsOf(cred[c]) \in SUBSET Sess /\ \A d \in SessionsOf(cred[c]) : cred[d] = cred[c]
  BY DEF SessionsOf
<1>3. Begin(t, r) /\ UNCHANGED <<users, cred>>
  BY DEF LoadChange
<1>4. /\ r \in Record /\ r.op = "change" /\ r.user = cred[c] /\ r.gone = {}
      /\ r.seen = SessionsOf(cred[c])
  BY <1>1, <1>2 DEF Idle, Nothing, Record, Fields, Pw
<1> HIDE DEF r
<1>5. Good(r)
  BY <1>1, <1>2, <1>4 DEF Good, Issuing, Deleting, Bootstrapping, Allowed, StillCurrent, StillGuarded
<1> QED BY <1>3, <1>4, <1>5, LoadKeeps

LEMMA LoadCreateKeyKeeps ==
    ASSUME Inv, NEW t \in Task, NEW c \in Cred, NEW k \in Key, LoadCreateKey(t, c, k) PROVE Inv'
<1> DEFINE r == [Idle EXCEPT !.op = "key", !.cred = k, !.user = cred[c]]
<1>1. cred[c] \in User /\ role[First] # "none"
  BY ValidMeans DEF LoadCreateKey
<1>2. cred[k] = NoUser /\ (\A x \in Task : task[x].cred # k) /\ k \in Cred
  BY DEF LoadCreateKey, NewCred, Unissued, Cred
<1>3. Begin(t, r) /\ UNCHANGED <<users, cred>>
  BY DEF LoadCreateKey
<1>4. /\ r \in Record /\ r.op = "key" /\ r.user = cred[c] /\ r.cred = k /\ r.gone = {}
  BY <1>1, <1>2, IdleTyped DEF Record
<1> HIDE DEF r
<1>5. Good(r)
  BY <1>1, <1>2, <1>4 DEF Good, Issuing, Deleting, Bootstrapping, Allowed, StillCurrent, StillGuarded
<1> QED BY <1>2, <1>3, <1>4, <1>5, LoadKeeps

LEMMA LoadUseKeeps == ASSUME Inv, NEW t \in Task, NEW k \in Key, LoadUse(t, k) PROVE Inv'
<1> DEFINE r == [Idle EXCEPT !.op = "use", !.cred = k, !.user = cred[k]]
<1>1. k \in Cred /\ cred[k] \in User /\ role[First] # "none"
  BY ValidMeans DEF LoadUse, Cred
<1>2. Begin(t, r) /\ UNCHANGED <<users, cred>>
  BY DEF LoadUse
<1>3. r \in Record /\ r.op = "use" /\ r.user = cred[k] /\ r.gone = {}
  BY <1>1, IdleTyped DEF Record
<1> HIDE DEF r
<1>4. Good(r)
  BY <1>1, <1>3 DEF Good, Issuing, Deleting, Bootstrapping, Allowed, StillCurrent, StillGuarded
<1> QED BY <1>2, <1>3, <1>4, LoadKeeps

LEMMA LoadCreateUserKeeps ==
    ASSUME Inv, NEW t \in Task, NEW c \in Cred, NEW u \in User, LoadCreateUser(t, c, u) PROVE Inv'
<1> DEFINE r == [Idle EXCEPT !.op = "create", !.user = u]
<1>1. role[First] # "none"
  BY ValidMeans DEF LoadCreateUser
<1>2. Begin(t, r) /\ UNCHANGED <<users, cred>>
  BY DEF LoadCreateUser
<1>3. /\ r \in Record /\ r.op = "create" /\ r.user = u /\ r.gone = {}
  BY IdleTyped DEF Record
<1> HIDE DEF r
<1>4. Good(r)
  BY <1>1, <1>3 DEF Good, Issuing, Deleting, Bootstrapping, Allowed, StillCurrent, StillGuarded
<1> QED BY <1>2, <1>3, <1>4, LoadKeeps

\* An owner that the lockout guard lets through leaves an active owner behind.
LEMMA GuardLeavesAnOwner ==
    ASSUME Inv, NEW c \in Cred, NEW u \in User, NEW b \in Body, Valid(c),
           RoleAllowed(Rank(c), u, b.role), ~LastOwner(cred[c], u, b.role, b.status),
           NEW v \in ActiveOwners
    PROVE  \E w \in User : /\ Put(role, u, Changed(b.role, role[u]))[w] = "owner"
                           /\ Put(status, u, Changed(b.status, status[u]))[w] = "active"
<1>1. v \in User /\ role[v] = "owner" /\ status[v] = "active"
  BY DEF ActiveOwners
<1>2. /\ role \in [User -> Role \cup {"none"}] /\ status \in [User -> Status]
      /\ cred[c] \in User /\ status[cred[c]] = "active"
  BY DEF Inv, TypeOK, Valid
<1>3. CASE v # u
  BY <1>1, <1>2, <1>3 DEF Put
<1>4. CASE v = u /\ cred[c] # u
  <2>1. role[cred[c]] = "owner"
    BY <1>1, <1>4 DEF RoleAllowed, Rank
  <2> QED BY <1>2, <1>4, <2>1 DEF Put
<1>5. CASE v = u /\ cred[c] = u
  <2>1. CASE ActiveOwners \ {u} = {}
    <3>1. b.role \in {Keep, "owner"} /\ b.status \in {Keep, "active"}
      BY <1>1, <1>5, <2>1 DEF LastOwner
    <3>2. Changed(b.role, role[u]) = Keep /\ Changed(b.status, status[u]) = Keep
      BY <1>1, <1>5, <3>1 DEF Changed
    <3> QED BY <1>1, <1>5, <3>2 DEF Put
  <2>2. CASE ActiveOwners \ {u} # {}
    <3>1. PICK w \in ActiveOwners : w # u
      BY <2>2
    <3>2. w \in User /\ role[w] = "owner" /\ status[w] = "active"
      BY <3>1 DEF ActiveOwners
    <3> QED BY <1>2, <3>1, <3>2 DEF Put
  <2> QED BY <2>1, <2>2
<1> QED BY <1>3, <1>4, <1>5

LEMMA LoadUpdateUserKeeps ==
    ASSUME Inv, NEW t \in Task, NEW c \in Cred, NEW u \in User, NEW b \in Body,
           LoadUpdateUser(t, c, u, b)
    PROVE  Inv'
<1> DEFINE put == [role |-> Changed(b.role, role[u]), pw |-> b.pw,
                   status |-> Changed(b.status, status[u])]
<1> DEFINE rank == IF put.role = "owner" THEN Rank(c) ELSE "none"
<1> DEFINE r == [Idle EXCEPT !.op = "update", !.user = u, !.put = put, !.rank = rank]
<1>1. cred[c] \in User /\ role[First] # "none" /\ Valid(c)
  BY ValidMeans DEF LoadUpdateUser
<1>2. put \in Fields
  <2>1. /\ b.role \in Role \cup {Keep} /\ b.status \in Status \cup {Keep}
        /\ b.pw \in Password \cup {Keep}
    BY DEF Body
  <2> QED BY <2>1 DEF Changed, Fields, Pw
<1>3. rank \in Role \cup {"none"}
  BY <1>1 DEF Rank, Inv, TypeOK
<1>4. put.role = "owner" /\ put.role # Keep => rank = "owner"
  BY DEF LoadUpdateUser, Changed, RoleAllowed
<1>5. ActiveOwners = {} \/ \E v \in User : /\ Put(role, u, put.role)[v] = "owner"
                                           /\ Put(status, u, put.status)[v] = "active"
  BY <1>1, GuardLeavesAnOwner DEF LoadUpdateUser
<1>6. Begin(t, r) /\ UNCHANGED <<users, cred>>
  BY DEF LoadUpdateUser
<1> HIDE DEF put, rank
<1>7. /\ r \in Record /\ r.op = "update" /\ r.user = u /\ r.put = put /\ r.rank = rank
      /\ r.gone = {}
  BY <1>2, <1>3, IdleTyped DEF Record
<1> HIDE DEF r
<1>8. Good(r)
  BY <1>1, <1>4, <1>5, <1>7 DEF Good, Issuing, Deleting, Bootstrapping, Allowed, StillCurrent,
                                StillGuarded, OwnerAfter
<1> QED BY <1>6, <1>7, <1>8, LoadKeeps

-----------------------------------------------------------------------------
(* The requests conclude.                                                  *)

\* An end that writes nothing.
LEMMA EndKeeps == ASSUME Inv, NEW t \in Task, End(t), UNCHANGED <<users, cred>> PROVE Inv'
<1>1. /\ task' \in [Task -> Record] /\ task'[t] = Idle /\ \A x \in Task \ {t} : Same(x)
  BY EndTyped DEF Inv
<1>2. UNCHANGED <<role, status, hash, cred>>
  BY DEF users
<1>3. TypeOK' /\ Founded'
  BY <1>1, <1>2 DEF Inv, TypeOK, Founded
<1>4. \A x \in Task : task'[x] = Idle \/ (Same(x) /\ Undisturbed(x))
  BY <1>1, <1>2 DEF Undisturbed, OwnersStay
<1> QED BY <1>2, <1>3, <1>4, CommitKeeps DEF Moves

\* A commit that writes a user marks every request that relies on what was there.
LEMMA WriteKeeps ==
    ASSUME Inv, NEW t \in Task, NEW u \in User, EndWriting(t, u),
           role' \in [User -> Role \cup {"none"}], status' \in [User -> Status],
           hash' \in [User -> [pw : Pw, old : BOOLEAN]],
           cred' \in [Cred -> User \cup {NoUser, "ended"}], Founded',
           \A v \in User \ {u} : role'[v] = role[v] /\ status'[v] = status[v] /\ hash'[v] = hash[v],
           role[First] # "none" => role'[First] # "none",
           \A c \in Cred : Moves(c),
           \A x \in Task \ {t} : task[x].op \in {"login", "key"} => cred'[task[x].cred] = cred[task[x].cred]
    PROVE  Inv'
<1>1. /\ task' \in [Task -> Record] /\ task'[t] = Idle /\ \A x \in Task \ {t} : Same(x)
      /\ \A x \in Task \ {t} :
            \/ task[x].op = "update" /\ OwnerChanged(u)
            \/ task[x].op = "login" /\ task[x].user = u /\ hash[u].pw # hash'[u].pw
            => task'[x].raced
  BY EndWritingTyped DEF Inv
<1>2. TypeOK'
  BY <1>1 DEF TypeOK
<1>3. ASSUME NEW x \in Task \ {t} PROVE Undisturbed(x)
  <2>1. task[x].op = "login" => task[x].user \in User
    BY DEF Inv, Good
  <2>2. task[x].op = "login" /\ ~task'[x].raced => hash'[task[x].user].pw = hash[task[x].user].pw
    BY <1>1, <2>1
  <2>3. ~OwnerChanged(u) => OwnersStay
    BY DEF OwnerChanged, OwnersStay
  <2> QED BY <1>1, <2>2, <2>3 DEF Undisturbed
<1> QED BY <1>1, <1>2, <1>3, CommitKeeps

LEMMA PutTyped ==
    ASSUME NEW S, NEW f \in [User -> S], NEW u \in User, NEW new \in S \cup {Keep}
    PROVE  Put(f, u, new) \in [User -> S] /\ \A v \in User \ {u} : Put(f, u, new)[v] = f[v]
BY DEF Put

LEMMA PutHashTyped ==
    ASSUME TypeOK, NEW u \in User, NEW p \in Pw, PutHash(u, p)
    PROVE  /\ hash' \in [User -> [pw : Pw, old : BOOLEAN]]
           /\ \A v \in User \ {u} : hash'[v] = hash[v]
           /\ p = Keep => hash' = hash
           /\ hash'[u].pw \in {p, hash[u].pw}
<1>1. CASE p = Keep
  BY <1>1 DEF PutHash, Put, TypeOK
<1>2. CASE p # Keep
  <2>1. [pw |-> p, old |-> FALSE] \in [pw : Pw, old : BOOLEAN]
    OBVIOUS
  <2>2. hash' = hash \/ hash' = [hash EXCEPT ![u] = [pw |-> p, old |-> FALSE]]
    BY <1>2 DEF PutHash, Put
  <2>3. CASE hash' = hash
    BY <1>2, <2>3 DEF TypeOK
  <2>4. CASE hash' = [hash EXCEPT ![u] = [pw |-> p, old |-> FALSE]]
    <3>1. hash'[u] = [pw |-> p, old |-> FALSE]
      BY <2>4 DEF TypeOK
    <3>2. hash'[u].pw = p
      BY <3>1
    <3>3. /\ hash' \in [User -> [pw : Pw, old : BOOLEAN]]
          /\ \A v \in User \ {u} : hash'[v] = hash[v]
      BY <2>1, <2>4 DEF TypeOK
    <3> QED BY <1>2, <3>2, <3>3
  <2> QED BY <2>2, <2>3, <2>4
<1> QED BY <1>1, <1>2

\* Ends of credentials: a credential that nobody has stays so.
LEMMA KillTyped ==
    ASSUME TypeOK, NEW S, \A c \in S : cred[c] # NoUser, Kill(S)
    PROVE  /\ cred' \in [Cred -> User \cup {NoUser, "ended"}]
           /\ \A c \in Cred : Moves(c) /\ (cred'[c] \in User => cred'[c] = cred[c])
           /\ \A c \in Cred : cred[c] = NoUser => cred'[c] = cred[c]
BY AccountsAssumption DEF TypeOK, Kill, Moves

LEMMA CommitBootKeeps == ASSUME Inv, NEW t \in Task, CommitBoot(t) PROVE Inv'
<1> DEFINE u == task[t].user
<1>1. u = First /\ u \in User
  BY AccountsAssumption DEF CommitBoot, Inv, Good, Bootstrapping
<1>2. CASE ~Insertable(u)
  BY <1>2, EndKeeps DEF CommitBoot, users
<1>3. CASE Insertable(u)
  <2>1. PICK old \in BOOLEAN : hash' = [hash EXCEPT ![u] = [pw |-> Initial, old |-> old]]
    BY <1>3 DEF CommitBoot
  <2>2. EndWriting(t, u) /\ role' = [role EXCEPT ![u] = "owner"] /\ UNCHANGED <<status, cred>>
    BY <1>3 DEF CommitBoot
  <2>3. /\ hash' \in [User -> [pw : Pw, old : BOOLEAN]]
        /\ \A v \in User \ {u} : hash'[v] = hash[v]
    <3>1. [pw |-> Initial, old |-> old] \in [pw : Pw, old : BOOLEAN]
      BY DEF Pw
    <3> QED BY <1>1, <2>1, <3>1 DEF Inv, TypeOK
  <2>4. /\ role' \in [User -> Role \cup {"none"}] /\ role'[First] = "owner"
        /\ \A v \in User \ {u} : role'[v] = role[v]
    BY <1>1, <2>2 DEF Inv, TypeOK, Role
  <2>5. /\ status' \in [User -> Status] /\ cred' \in [Cred -> User \cup {NoUser, "ended"}]
        /\ Founded' /\ \A c \in Cred : Moves(c)
    BY <2>2, <2>4 DEF Inv, TypeOK, Founded, Moves
  <2> HIDE DEF u
  <2> QED BY <1>1, <2>2, <2>3, <2>4, <2>5, WriteKeeps
<1> QED BY <1>2, <1>3

LEMMA CommitLoginKeeps == ASSUME Inv, NEW t \in Task, CommitLogin(t) PROVE Inv'
<1> DEFINE k == task[t]
<1>1. /\ k \in Record /\ k.op = "login" /\ k.user \in User /\ k.cred \in Cred
      /\ cred[k.cred] = NoUser /\ role[First] # "none" /\ k.put.pw \in Pw
  BY DEF CommitLogin, Inv, TypeOK, Good, Issuing, Bootstrapping, Record, Fields
<1>2. PutHash(k.user, k.put.pw) /\ cred' = [cred EXCEPT ![k.cred] = k.user] /\ UNCHANGED <<role, status>>
  BY DEF CommitLogin
<1>3. /\ hash' \in [User -> [pw : Pw, old : BOOLEAN]]
      /\ \A v \in User \ {k.user} : hash'[v] = hash[v]
  BY <1>1, <1>2, PutHashTyped DEF Inv
<1>4. /\ cred' \in [Cred -> User \cup {NoUser, "ended"}] /\ \A c \in Cred : Moves(c)
  BY <1>1, <1>2 DEF Inv, TypeOK, Moves
<1>5. ASSUME NEW x \in Task \ {t}, task[x].op \in {"login", "key"}
      PROVE  cred'[task[x].cred] = cred[task[x].cred]
  <2>1. task[x].cred # k.cred
    BY <1>1, <1>5 DEF Inv, Apart, Issues
  <2> QED BY <1>1, <1>2, <1>5, <2>1 DEF Inv, TypeOK, Good, Issuing
<1>6. Founded' /\ role' \in [User -> Role \cup {"none"}] /\ status' \in [User -> Status]
  BY <1>1, <1>2 DEF Inv, TypeOK, Founded
<1>7. EndWriting(t, k.user)
  BY DEF CommitLogin
<1> HIDE DEF k
<1> QED BY <1>1, <1>2, <1>3, <1>4, <1>5, <1>6, <1>7, WriteKeeps

LEMMA DeleteSessionsKeeps == ASSUME Inv, NEW t \in Task, DeleteSessions(t) PROVE Inv'
<1> DEFINE mine == SessionsOf(task[t].user)
<1> DEFINE r == [task[t] EXCEPT !.op = "deleted", !.gone = mine]
<1>1. task[t] \in Record /\ task[t].op = "change" /\ Good(task[t])
  BY DEF Inv, TypeOK, DeleteSessions
<1>2. mine \in SUBSET Sess /\ \A c \in mine : cred[c] = task[t].user
  BY DEF SessionsOf
<1>3. task' = [task EXCEPT ![t] = r] /\ UNCHANGED <<users, cred>>
  BY <1>1 DEF DeleteSessions, Record, Inv, TypeOK
<1>4. /\ r \in Record /\ r.op = "deleted" /\ r.gone = mine /\ r.seen = task[t].seen
      /\ r.user = task[t].user
  BY <1>1, <1>2 DEF Record
<1>5. ASSUME NEW c \in task[t].seen PROVE c \in mine \/ cred[c] = "ended"
  BY <1>1 DEF Good, Deleting, Record, SessionsOf
<1> HIDE DEF r, mine
<1>6. r.user \in User /\ role[First] # "none"
  BY <1>1, <1>4 DEF Good, Bootstrapping
<1>7. Good(r)
  BY <1>2, <1>4, <1>5, <1>6, AccountsAssumption
     DEF Good, Issuing, Deleting, Bootstrapping, Allowed, StillCurrent, StillGuarded
<1>8. UNCHANGED <<role, status, hash, cred>>
  BY <1>3 DEF users
<1>9. /\ task' \in [Task -> Record] /\ task'[t] = r
      /\ \A x \in Task \ {t} : task'[x] = task[x]
  BY <1>3, <1>4 DEF Inv, TypeOK
<1>10. TypeOK' /\ Founded'
  BY <1>8, <1>9 DEF Inv, TypeOK, Founded
<1>11. ASSUME NEW x \in Task PROVE Good(task[x])'
  <2>1. CASE x = t
    BY <1>7, <1>8, <1>9, <2>1 DEF Good, Issuing, Deleting, Bootstrapping, Allowed, StillCurrent,
                                  StillGuarded, OwnerAfter, ActiveOwners, Put
  <2>2. CASE x # t
    BY <1>8, <1>9, <1>10, <2>2, OthersStayGood DEF Same, Undisturbed, OwnersStay, Moves
  <2> QED BY <2>1, <2>2
<1>12. Apart'
  <2> SUFFICES ASSUME NEW x \in Task, NEW y \in Task, NEW c \in Cred, Issues(x, c)', Issues(y, c)'
               PROVE  x = y
    BY DEF Apart
  <2>1. Issues(x, c) /\ Issues(y, c)
    BY <1>4, <1>9 DEF Issues
  <2> QED BY <2>1 DEF Inv, Apart
<1> QED BY <1>10, <1>11, <1>12 DEF Inv

LEMMA CommitChangeKeeps == ASSUME Inv, NEW t \in Task, CommitChange(t) PROVE Inv'
<1> DEFINE k == task[t]
<1>1. k \in Record /\ k.user \in User /\ k.put.pw \in Pw /\ \A c \in k.gone : cred[c] # NoUser
  BY DEF CommitChange, Inv, TypeOK, Good, Deleting, Record, Fields
<1>2. /\ PutHash(k.user, k.put.pw) /\ Kill(k.gone) /\ EndWriting(t, k.user)
      /\ UNCHANGED <<role, status>>
  BY DEF CommitChange
<1>3. /\ hash' \in [User -> [pw : Pw, old : BOOLEAN]]
      /\ \A v \in User \ {k.user} : hash'[v] = hash[v]
  BY <1>1, <1>2, PutHashTyped DEF Inv
<1>4. /\ cred' \in [Cred -> User \cup {NoUser, "ended"}]
      /\ \A c \in Cred : Moves(c) /\ (cred'[c] \in User => cred'[c] = cred[c])
      /\ \A c \in Cred : cred[c] = NoUser => cred'[c] = cred[c]
  BY <1>1, <1>2, KillTyped DEF Inv
<1>5. ASSUME NEW x \in Task, task[x].op \in {"login", "key"}
      PROVE  cred'[task[x].cred] = cred[task[x].cred]
  BY <1>4, <1>5 DEF Inv, Good, Issuing
<1>6. Founded' /\ role' \in [User -> Role \cup {"none"}] /\ status' \in [User -> Status]
  BY <1>2, <1>4 DEF Inv, TypeOK, Founded
<1> HIDE DEF k
<1> QED BY <1>1, <1>2, <1>3, <1>4, <1>5, <1>6, WriteKeeps

LEMMA CommitCreateKeyKeeps == ASSUME Inv, NEW t \in Task, CommitCreateKey(t) PROVE Inv'
<1> DEFINE k == task[t]
<1>1. /\ k.op = "key" /\ k.user \in User /\ k.cred \in Cred /\ cred[k.cred] = NoUser
      /\ role[First] # "none"
  BY DEF CommitCreateKey, Inv, Good, Issuing, Bootstrapping
<1>2. cred' = [cred EXCEPT ![k.cred] = k.user] /\ UNCHANGED <<role, status, hash>> /\ End(t)
  BY DEF CommitCreateKey, users
<1>3. /\ cred' \in [Cred -> User \cup {NoUser, "ended"}] /\ \A c \in Cred : Moves(c)
  BY <1>1, <1>2 DEF Inv, TypeOK, Moves
<1>4. ASSUME NEW x \in Task \ {t}, task[x].op \in {"login", "key"}
      PROVE  cred'[task[x].cred] = cred[task[x].cred]
  <2>1. task[x].cred # k.cred
    BY <1>1, <1>4 DEF Inv, Apart, Issues
  <2> QED BY <1>1, <1>2, <1>4, <2>1 DEF Inv, TypeOK, Good, Issuing
<1>5. /\ task' \in [Task -> Record] /\ task'[t] = Idle /\ \A x \in Task \ {t} : Same(x)
  BY <1>2, EndTyped DEF Inv
<1>6. TypeOK' /\ Founded'
  BY <1>1, <1>2, <1>3, <1>5 DEF Inv, TypeOK, Founded
<1>7. \A x \in Task : task'[x] = Idle \/ (Same(x) /\ Undisturbed(x))
  BY <1>2, <1>4, <1>5 DEF Undisturbed, OwnersStay
<1> QED BY <1>2, <1>3, <1>6, <1>7, CommitKeeps

LEMMA CommitCreateUserKeeps == ASSUME Inv, NEW t \in Task, CommitCreateUser(t) PROVE Inv'
<1> DEFINE u == task[t].user
<1>1. u \in User /\ role[First] # "none"
  BY DEF CommitCreateUser, Inv, Good, Bootstrapping
<1>2. CASE ~Insertable(u)
  BY <1>2, EndKeeps DEF CommitCreateUser
<1>3. CASE Insertable(u)
  <2>1. /\ EndWriting(t, u) /\ role' = [role EXCEPT ![u] = "user"] /\ PutHash(u, Initial)
        /\ status' = [status EXCEPT ![u] = "active"] /\ UNCHANGED cred
    BY <1>3 DEF CommitCreateUser
  <2>2. /\ hash' \in [User -> [pw : Pw, old : BOOLEAN]]
        /\ \A v \in User \ {u} : hash'[v] = hash[v]
    BY <1>1, <2>1, PutHashTyped DEF Inv, Pw
  <2>3. /\ role' \in [User -> Role \cup {"none"}] /\ role'[First] # "none"
        /\ status' \in [User -> Status]
        /\ \A v \in User \ {u} : role'[v] = role[v] /\ status'[v] = status[v]
    BY <1>1, <2>1, AccountsAssumption DEF Inv, TypeOK, Role, Status
  <2>4. /\ cred' \in [Cred -> User \cup {NoUser, "ended"}] /\ Founded' /\ \A c \in Cred : Moves(c)
    BY <2>1, <2>3 DEF Inv, TypeOK, Founded, Moves
  <2> HIDE DEF u
  <2> QED BY <1>1, <2>1, <2>2, <2>3, <2>4, WriteKeeps
<1> QED BY <1>2, <1>3

LEMMA CommitUpdateUserKeeps == ASSUME Inv, NEW t \in Task, CommitUpdateUser(t) PROVE Inv'
<1> DEFINE k == task[t]
<1>1. /\ k.user \in User /\ role[First] # "none" /\ k.put.pw \in Pw
      /\ k.put.role \in Role \cup {Keep} /\ k.put.status \in Status \cup {Keep}
  BY DEF CommitUpdateUser, Inv, TypeOK, Good, Bootstrapping, Record, Fields
<1>2. /\ role' = Put(role, k.user, k.put.role) /\ status' = Put(status, k.user, k.put.status)
      /\ PutHash(k.user, k.put.pw) /\ EndWriting(t, k.user) /\ UNCHANGED cred
  BY DEF CommitUpdateUser
<1>3. /\ hash' \in [User -> [pw : Pw, old : BOOLEAN]]
      /\ \A v \in User \ {k.user} : hash'[v] = hash[v]
  BY <1>1, <1>2, PutHashTyped DEF Inv
<1>4. /\ role' \in [User -> Role \cup {"none"}] /\ status' \in [User -> Status]
      /\ \A v \in User \ {k.user} : role'[v] = role[v] /\ status'[v] = status[v]
  <2>1. role \in [User -> Role \cup {"none"}] /\ status \in [User -> Status]
    BY DEF Inv, TypeOK
  <2>2. /\ role' \in [User -> Role \cup {"none"}]
        /\ \A v \in User \ {k.user} : role'[v] = role[v]
    <3> HIDE DEF k
    <3>1. role' = role \/ (k.put.role \in Role /\ role' = [role EXCEPT ![k.user] = k.put.role])
      BY <1>1, <1>2 DEF Put
    <3> QED BY <1>1, <2>1, <3>1
  <2>3. status' \in [User -> Status] /\ \A v \in User \ {k.user} : status'[v] = status[v]
    BY <1>1, <1>2, <2>1, PutTyped
  <2> QED BY <2>2, <2>3
<1>5. role'[First] # "none"
  BY <1>1, <1>2, AccountsAssumption DEF Put, Role, Inv, TypeOK
<1>6. /\ cred' \in [Cred -> User \cup {NoUser, "ended"}] /\ Founded' /\ \A c \in Cred : Moves(c)
  BY <1>2, <1>5 DEF Inv, TypeOK, Founded, Moves
<1> HIDE DEF k
<1> QED BY <1>1, <1>2, <1>3, <1>4, <1>5, <1>6, WriteKeeps

\* Revoke and Expire: one credential ends, no request changes.
LEMMA OneEndsKeeps ==
    ASSUME Inv, NEW c \in Cred, cred[c] \in User, Kill({c}), UNCHANGED <<users, task>>
    PROVE  Inv'
<1>1. /\ cred' \in [Cred -> User \cup {NoUser, "ended"}]
      /\ \A d \in Cred : Moves(d) /\ (cred'[d] \in User => cred'[d] = cred[d])
      /\ \A d \in Cred : cred[d] = NoUser => cred'[d] = cred[d]
  BY KillTyped, AccountsAssumption DEF Inv
<1>2. UNCHANGED <<role, status, hash, task>>
  BY DEF users
<1>3. TypeOK' /\ Founded'
  BY <1>1, <1>2 DEF Inv, TypeOK, Founded
<1>4. \A x \in Task : Same(x) /\ Undisturbed(x)
  BY <1>1, <1>2 DEF Same, Undisturbed, OwnersStay, Inv, Good, Issuing
<1> QED BY <1>1, <1>2, <1>3, <1>4, CommitKeeps

LEMMA StutterKeeps == ASSUME Inv, UNCHANGED vars PROVE Inv'
<1>1. UNCHANGED <<role, status, hash, cred, task>>
  BY DEF vars
<1>2. TypeOK' /\ Founded'
  BY <1>1 DEF Inv, TypeOK, Founded
<1>3. \A x \in Task : Same(x) /\ Undisturbed(x)
  BY <1>1 DEF Same, Undisturbed, OwnersStay
<1> QED BY <1>1, <1>2, <1>3, CommitKeeps DEF Moves

-----------------------------------------------------------------------------
LEMMA InitInv == Init => Inv
<1> SUFFICES ASSUME Init PROVE Inv
  OBVIOUS
<1>1. TypeOK
  BY IdleTyped DEF Init, TypeOK, Status, Pw
<1>2. \A t \in Task : Good(task[t])
  BY IdleGood DEF Init
<1>3. Apart /\ Founded
  BY IdleTyped, AccountsAssumption DEF Init, Apart, Issues, Founded
<1> QED BY <1>1, <1>2, <1>3 DEF Inv

LEMMA NextKeeps == Inv /\ [Next]_vars => Inv'
<1> SUFFICES ASSUME Inv, [Next]_vars PROVE Inv'
  OBVIOUS
<1>1. ASSUME NEW t \in Task, Request(t) PROVE Inv'
  BY <1>1, LoadBootKeeps, LoadLoginKeeps, LoadChangeKeeps, LoadCreateKeyKeeps, LoadUseKeeps,
     LoadCreateUserKeeps, LoadUpdateUserKeeps DEF Request
<1>2. ASSUME NEW t \in Task, Conclude(t) PROVE Inv'
  BY <1>2, CommitBootKeeps, CommitLoginKeeps, DeleteSessionsKeeps, CommitChangeKeeps,
     CommitCreateKeyKeeps, CommitCreateUserKeeps, CommitUpdateUserKeeps, EndKeeps
     DEF Conclude, CommitUse, Rollback
<1>3. ASSUME NEW c \in Cred, NEW d \in Cred, Revoke(c, d) PROVE Inv'
  BY <1>3, OneEndsKeeps DEF Revoke
<1>4. ASSUME NEW c \in Cred, Expire(c) PROVE Inv'
  BY <1>4, OneEndsKeeps DEF Expire
<1> QED BY <1>1, <1>2, <1>3, <1>4, StutterKeeps DEF Next

LEMMA Invariance == Spec => []Inv
BY InitInv, NextKeeps, PTL DEF Spec

-----------------------------------------------------------------------------
(* What the steps do.                                                      *)

\* A request that commits is the one that took the step.
LEMMA CommitIsOwn ==
    ASSUME Inv, [Next]_vars, NEW t \in Task, NEW op, op # "none", Commits(t, op)
    PROVE  \/ CommitBoot(t) \/ CommitLogin(t) \/ CommitChange(t) \/ CommitCreateKey(t)
           \/ CommitCreateUser(t) \/ CommitUpdateUser(t)
<1>1. task[t].op = op /\ task'[t].op = "none" /\ ~Same(t) /\ <<users, cred>>' # <<users, cred>>
  BY IdleTyped DEF Commits, Same
<1>2. ASSUME NEW x \in Task, Request(x) PROVE FALSE
  BY <1>1, <1>2 DEF Request, LoadBoot, LoadLogin, LoadChange, LoadCreateKey, LoadUse, LoadCreateUser,
                    LoadUpdateUser
<1>3. ASSUME NEW x \in Task, x # t, Conclude(x) PROVE FALSE
  <2>1. CASE DeleteSessions(x)
    BY <1>1, <2>1 DEF DeleteSessions
  <2>2. CASE \E u : EndWriting(x, u)
    BY <1>1, <1>3, <2>2, EndWritingTyped DEF Inv
  <2>3. CASE End(x)
    BY <1>1, <1>3, <2>3, EndTyped DEF Inv
  <2> QED BY <1>3, <2>1, <2>2, <2>3 DEF Conclude, CommitBoot, CommitLogin, CommitChange,
             CommitCreateKey, CommitUse, CommitCreateUser, CommitUpdateUser, Rollback
<1>4. CASE Conclude(t)
  BY <1>1, <1>4 DEF Conclude, DeleteSessions, CommitUse, Rollback
<1>5. ~(\E c, d \in Cred : Revoke(c, d)) /\ ~(\E c \in Cred : Expire(c)) /\ ~UNCHANGED vars
  BY <1>1 DEF Revoke, Expire, vars
<1> QED BY <1>2, <1>3, <1>4, <1>5 DEF Next

\* A step issues one credential that was nobody's, or ends some, or touches none.
LEMMA StepRefines == Inv /\ [Next]_vars => [Promise!Next]_cred
<1> SUFFICES ASSUME Inv, [Next]_vars, cred' # cred PROVE Promise!Next
  OBVIOUS
<1>1. ASSUME NEW t \in Task, CommitLogin(t) \/ CommitCreateKey(t) PROVE Promise!Next
  <2> DEFINE k == task[t]
  <2>1. k.user \in User /\ k.cred \in Cred /\ cred[k.cred] = NoUser
    BY <1>1 DEF CommitLogin, CommitCreateKey, Inv, Good, Issuing
  <2>2. cred' = [cred EXCEPT ![k.cred] = k.user]
    BY <1>1 DEF CommitLogin, CommitCreateKey
  <2>3. Promise!Issue(k.cred, k.user)
    BY <2>1, <2>2 DEF Promise!Issue
  <2> QED BY <2>1, <2>3 DEF Promise!Next
<1>2. ASSUME NEW S, Kill(S), \A c \in S : cred[c] \in User \cup {"ended"} PROVE Promise!Next
  <2> DEFINE L == {c \in Cred : c \in S /\ cred[c] \in User}
  <2>1. L \in SUBSET Cred /\ \A c \in L : cred[c] \in User
    OBVIOUS
  <2>2. cred' = [c \in Cred |-> IF c \in L THEN "ended" ELSE cred[c]]
    BY <1>2 DEF Kill
  <2>3. Promise!End(L)
    BY <2>1, <2>2 DEF Promise!End
  <2> QED BY <2>1, <2>3 DEF Promise!Next
<1>3. ASSUME NEW t \in Task, CommitChange(t) PROVE Promise!Next
  <2>1. /\ Kill(task[t].gone) /\ task[t].gone \subseteq Cred
        /\ \A c \in task[t].gone : cred[c] # NoUser
    BY <1>3 DEF CommitChange, Inv, TypeOK, Record, Good, Deleting, Cred
  <2> QED BY <1>2, <2>1 DEF Inv, TypeOK
<1>4. ASSUME NEW c \in Cred, Expire(c) \/ \E b \in Cred : Revoke(b, c) PROVE Promise!Next
  BY <1>2, <1>4 DEF Expire, Revoke
<1>5. ASSUME NEW t \in Task, Request(t) PROVE FALSE
  BY <1>5 DEF Request, LoadBoot, LoadLogin, LoadChange, LoadCreateKey, LoadUse, LoadCreateUser,
              LoadUpdateUser
<1>6. ASSUME NEW t \in Task, CommitBoot(t) \/ DeleteSessions(t) \/ CommitCreateUser(t)
                             \/ CommitUse(t) \/ CommitUpdateUser(t) \/ Rollback(t)
      PROVE  FALSE
  BY <1>6 DEF CommitBoot, DeleteSessions, CommitUse, CommitCreateUser, CommitUpdateUser, Rollback
<1> QED BY <1>1, <1>3, <1>4, <1>5, <1>6 DEF Next, Conclude, vars

-----------------------------------------------------------------------------
(* The theorems.                                                           *)

\* Every account, credential and request is what the columns and the handlers allow
\* (models of users, user_sessions and api_keys).
THEOREM TypeCorrect == Spec => []TypeOK
BY Invariance, PTL DEF Inv

\* Every session and API key is issued once, to one user, and an ended one is never
\* good again, whichever requests that loaded it before its end, or that make
\* another one, commit afterwards (auth_service, ApiKeyService): Accounts implements
\* Credential.
THEOREM CredentialsKeepTheirPromise == Spec => KeepsPromise
<1>1. Init => Promise!Init
  BY DEF Init, Promise!Init
<1> QED BY <1>1, Invariance, StepRefines, PTL DEF Spec, KeepsPromise, Promise!Spec

\* A password change ends every session that it had seen, whatever logins, logouts
\* and other changes run across it (change_password, revoke_all_sessions).
THEOREM PasswordChangesEndSessions == Spec => ChangeEndsOlderSessions
<1> DEFINE A == \A t \in Task : Commits(t, "deleted") => \A c \in task[t].seen : cred'[c] = "ended"
<1>1. Inv /\ [Next]_vars => A
  <2> SUFFICES ASSUME Inv, [Next]_vars, NEW t \in Task, Commits(t, "deleted"),
                      NEW c \in task[t].seen
               PROVE  cred'[c] = "ended"
    OBVIOUS
  <2>1. CommitChange(t)
    BY CommitIsOwn DEF Commits, CommitBoot, CommitLogin, CommitCreateKey, CommitCreateUser, CommitUpdateUser
  <2>2. c \in Cred /\ (c \in task[t].gone \/ cred[c] = "ended")
    BY <2>1 DEF CommitChange, Inv, TypeOK, Record, Good, Deleting, Cred
  <2> QED BY <2>1, <2>2 DEF CommitChange, Kill
<1> QED BY <1>1, Invariance, PTL DEF Spec, ChangeEndsOlderSessions

\* Nobody becomes an owner but by an owner's hand or as the first user
\* (update_user, ensure_owner_account).
THEOREM OwnersAreMadeByOwners == Spec => OwnershipIsGranted
<1> DEFINE A == \A u \in User : role[u] # "owner" /\ role'[u] = "owner" =>
                   \E t \in Task :
                      \/ Commits(t, "update") /\ task[t].rank = "owner"
                      \/ Commits(t, "boot") /\ \A v \in User : role[v] = "none"
<1>1. Inv /\ [Next]_vars => A
  <2> SUFFICES ASSUME Inv, [Next]_vars, NEW u \in User, role[u] # "owner", role'[u] = "owner"
               PROVE  \E t \in Task :
                         \/ Commits(t, "update") /\ task[t].rank = "owner"
                         \/ Commits(t, "boot") /\ \A v \in User : role[v] = "none"
    OBVIOUS
  <2>1. <<users, cred>>' # <<users, cred>>
    BY DEF users
  <2>2. ASSUME NEW t \in Task, CommitBoot(t)
        PROVE  Commits(t, "boot") /\ \A v \in User : role[v] = "none"
    <3>1. task[t].user = First /\ Insertable(First) /\ EndWriting(t, First)
      BY <2>2 DEF CommitBoot, Inv, Good, Bootstrapping
    <3>2. task'[t] = Idle
      BY <3>1, EndWritingTyped DEF Inv
    <3>3. \A v \in User : role[v] = "none"
      BY <3>1 DEF Insertable, Inv, Founded
    <3> QED BY <2>1, <2>2, <3>2, <3>3 DEF Commits, CommitBoot
  <2>3. ASSUME NEW t \in Task, CommitUpdateUser(t)
        PROVE  Commits(t, "update") /\ task[t].rank = "owner"
    <3>1. task'[t] = Idle
      BY <2>3, EndWritingTyped DEF CommitUpdateUser, Inv
    <3>2. task[t].put.role = "owner" /\ task[t].put.role # Keep
      BY <2>3 DEF CommitUpdateUser, Put, Inv, TypeOK
    <3>3. task[t].rank = "owner"
      BY <2>3, <3>2 DEF CommitUpdateUser, Inv, Good, Allowed
    <3> QED BY <2>1, <2>3, <3>1, <3>3 DEF Commits, CommitUpdateUser
  <2>4. ASSUME NEW t \in Task, CommitCreateUser(t) PROVE FALSE
    BY <2>4 DEF users, CommitCreateUser, Inv, TypeOK
  <2>5. ASSUME NEW t \in Task, Request(t) PROVE FALSE
    BY <2>5 DEF users, Request, LoadBoot, LoadLogin, LoadChange, LoadCreateKey, LoadUse,
                    LoadCreateUser, LoadUpdateUser
  <2>6. ASSUME NEW t \in Task, CommitLogin(t) \/ DeleteSessions(t) \/ CommitChange(t)
                               \/ CommitCreateKey(t) \/ CommitUse(t) \/ Rollback(t)
        PROVE  FALSE
    BY <2>6 DEF users, CommitLogin, DeleteSessions, CommitChange, CommitCreateKey, CommitUse, Rollback
  <2>7. ~(\E c, d \in Cred : Revoke(c, d)) /\ ~(\E c \in Cred : Expire(c)) /\ ~UNCHANGED vars
    BY DEF users, Revoke, Expire, vars
  <2> QED BY <2>2, <2>3, <2>4, <2>5, <2>6, <2>7 DEF Next, Conclude
<1> QED BY <1>1, Invariance, PTL DEF Spec, OwnershipIsGranted

\* A login during which the account's password did not change leaves every password
\* what it is, the rehash included (login, needs_rehash).
THEOREM LoginsKeepPasswords == Spec => PasswordUndoneOnlyByRace
<1> DEFINE A == \A t \in Task : Commits(t, "login") /\ ~task[t].raced
                   => \A u \in User : hash'[u].pw = hash[u].pw
<1>1. Inv /\ [Next]_vars => A
  <2> SUFFICES ASSUME Inv, [Next]_vars, NEW t \in Task, Commits(t, "login"), ~task[t].raced,
                      NEW u \in User
               PROVE  hash'[u].pw = hash[u].pw
    OBVIOUS
  <2> DEFINE k == task[t]
  <2>1. CommitLogin(t)
    BY CommitIsOwn DEF Commits, CommitBoot, CommitChange, CommitCreateKey, CommitCreateUser, CommitUpdateUser
  <2>2. /\ k.user \in User /\ k.put.pw \in Pw /\ k.put.pw \in {Keep, hash[k.user].pw}
        /\ PutHash(k.user, k.put.pw)
    BY <2>1 DEF CommitLogin, Inv, TypeOK, Record, Fields, Good, StillCurrent
  <2>3. /\ \A v \in User \ {k.user} : hash'[v] = hash[v]
        /\ k.put.pw = Keep => hash' = hash
        /\ hash'[k.user].pw \in {k.put.pw, hash[k.user].pw}
    BY <2>2, PutHashTyped DEF Inv
  <2> QED BY <2>2, <2>3
<1> QED BY <1>1, Invariance, PTL DEF Spec, PasswordUndoneOnlyByRace

\* The lockout guard is complete for an update during which no other commit changes
\* the role or the status of an owner: other writes of users, its own user's
\* included, do not undo the guard's answer (update_user).
THEOREM GuardIsComplete == Spec => OwnersLostOnlyByRace
<1> DEFINE A == \A t \in Task : ActiveOwners # {} /\ ActiveOwners' = {} /\ Commits(t, "update")
                   => task[t].raced
<1>1. Inv /\ [Next]_vars => A
  <2> SUFFICES ASSUME Inv, [Next]_vars, NEW t \in Task, ActiveOwners # {}, ActiveOwners' = {},
                      Commits(t, "update"), ~task[t].raced
               PROVE  FALSE
    BY DEF Inv, TypeOK, Record
  <2>1. CommitUpdateUser(t)
    BY CommitIsOwn DEF Commits, CommitBoot, CommitLogin, CommitChange, CommitCreateKey, CommitCreateUser
  <2>2. OwnerAfter(task[t])
    BY <2>1 DEF CommitUpdateUser, Inv, Good, StillGuarded
  <2>3. \E v \in User : role'[v] = "owner" /\ status'[v] = "active"
    BY <2>1, <2>2 DEF CommitUpdateUser, OwnerAfter
  <2> QED BY <2>3 DEF ActiveOwners
<1> QED BY <1>1, Invariance, PTL DEF Spec, OwnersLostOnlyByRace
=============================================================================
