------------------------ MODULE NodeEnrollmentProofs ------------------------
(* Proofs about NodeEnrollment, for any number of tokens, credentials and   *)
(* requests, with and without enrollments by hand.                          *)
EXTENDS NodeEnrollment, TLAPS

-----------------------------------------------------------------------------
(* The inductive invariant.                                                *)

IsClaimed(t) == task[t].pc = "claimed"

\* Every enrollment has a token, and only enrollments claim.
TaskShape ==
    \A t \in Task : /\ task[t].op = "enroll" => task[t].tok \in Token
                    /\ IsClaimed(t) => task[t].op = "enroll"
TypeInv == TypeOK /\ TaskShape

\* No two requests have claimed one token, and a claimed token stays unused and
\* unrevoked: the claim's row lock is held until the commit.
ClaimsApart ==
    \A t, u \in Task : IsClaimed(t) /\ IsClaimed(u) /\ task[t].tok = task[u].tok => t = u
ClaimsGood == \A t \in Task : IsClaimed(t) => task[t].tok \notin revoked \cup used
\* A token that has given a credential is used.
GivenIsUsed == \A c \in Cred : from[c] # NoToken => from[c] \in used

Inv == TypeInv /\ ClaimsApart /\ ClaimsGood /\ GivenIsUsed /\ SingleUse

TaskRecord ==
    [op : AdminOps \cup {"none", "enroll", "beat"}, pc : {"idle", "loaded", "claimed"},
     tok : Token \cup {NoToken}, revs : SUBSET Token, status : Status \cup {"none"},
     cred : Cred \cup {NoCred}]

-----------------------------------------------------------------------------
(* Type correctness.                                                       *)

\* What a request does to its own record, and that the others keep theirs.
LEMMA BeginTyped ==
    ASSUME TypeInv, NEW t \in Task, NEW op \in AdminOps \cup {"enroll", "beat"},
           NEW k \in Token \cup {NoToken}, NEW S \in SUBSET Token,
           NEW st \in Status \cup {"none"}, NEW c \in Cred \cup {NoCred},
           op = "enroll" => k \in Token, Begin(t, op, k, S, st, c)
    PROVE  /\ task' \in [Task -> TaskRecord] /\ TaskShape'
           /\ \A u \in Task : IsClaimed(u)' => IsClaimed(u) /\ task'[u] = task[u]
<1>1. task' \in [Task -> TaskRecord]
  BY DEF TypeInv, TypeOK, Begin, TaskRecord
<1>2. task'[t].op = op /\ task'[t].tok = k /\ task'[t].pc = "loaded"
  BY DEF TypeInv, TypeOK, Begin
<1>3. \A u \in Task \ {t} : task'[u] = task[u]
  BY DEF TypeInv, TypeOK, Begin
<1> QED BY <1>1, <1>2, <1>3 DEF TypeInv, TaskShape, IsClaimed

LEMMA EndTyped ==
    ASSUME TypeInv, NEW t \in Task, End(t)
    PROVE  /\ task' \in [Task -> TaskRecord] /\ TaskShape'
           /\ \A u \in Task : IsClaimed(u)' => u # t /\ IsClaimed(u) /\ task'[u] = task[u]
<1>1. Idle \in TaskRecord
  BY DEF Idle, TaskRecord
<1>2. task' \in [Task -> TaskRecord]
  BY <1>1 DEF TypeInv, TypeOK, End, TaskRecord
<1>3. task'[t].op = "none" /\ task'[t].pc = "idle"
  BY DEF TypeInv, TypeOK, End, Idle
<1>4. \A u \in Task \ {t} : task'[u] = task[u]
  BY DEF TypeInv, TypeOK, End
<1> QED BY <1>2, <1>3, <1>4 DEF TypeInv, TaskShape, IsClaimed

LEMMA ClaimTyped ==
    ASSUME TypeInv, NEW t \in Task, task[t].op = "enroll",
           task' = [task EXCEPT ![t].pc = "claimed"]
    PROVE  /\ task' \in [Task -> TaskRecord] /\ TaskShape'
           /\ task'[t].tok = task[t].tok /\ \A u \in Task \ {t} : task'[u] = task[u]
<1>1. task' \in [Task -> TaskRecord]
  BY DEF TypeInv, TypeOK, TaskRecord
<1>2. task'[t].tok = task[t].tok /\ task'[t].op = "enroll"
  BY DEF TypeInv, TypeOK
<1>3. \A u \in Task \ {t} : task'[u] = task[u]
  BY DEF TypeInv, TypeOK
<1> QED BY <1>1, <1>2, <1>3 DEF TypeInv, TaskShape, IsClaimed

\* The three requests that load.
LEMMA LoadTyped ==
    ASSUME TypeInv, NEW t \in Task,
           \/ \E op \in AdminOps, k \in Token \cup {NoToken} : LoadAdmin(t, op, k)
           \/ \E k \in Token : LoadEnroll(t, k)
           \/ LoadBeat(t)
    PROVE  /\ task' \in [Task -> TaskRecord] /\ TaskShape'
           /\ \A u \in Task : IsClaimed(u)' => IsClaimed(u) /\ task'[u] = task[u]
           /\ UNCHANGED <<status, cred, tokens, agent, from>>
<1>1. status \in Status \cup {"none"} /\ cred \in Cred \cup {NoCred}
      /\ Revocable \in SUBSET Token
  BY DEF TypeInv, TypeOK, Revocable
<1>2. ASSUME NEW op \in AdminOps, NEW k \in Token \cup {NoToken}, LoadAdmin(t, op, k)
      PROVE  /\ task' \in [Task -> TaskRecord] /\ TaskShape'
             /\ \A u \in Task : IsClaimed(u)' => IsClaimed(u) /\ task'[u] = task[u]
             /\ UNCHANGED <<status, cred, tokens, agent, from>>
  <2> DEFINE S == IF op \in {"token", "rotate", "remove"} THEN Revocable ELSE {}
             st == IF op = "token" THEN "none" ELSE status
             c == IF op = "rotate" THEN cred ELSE NoCred
  <2>1. Begin(t, op, k, S, st, c) /\ UNCHANGED <<status, cred, tokens, agent, from>>
    BY <1>2 DEF LoadAdmin
  <2>2. S \in SUBSET Token /\ st \in Status \cup {"none"} /\ c \in Cred \cup {NoCred}
    BY <1>1
  <2>3. op # "enroll"
    BY DEF AdminOps
  <2> HIDE DEF S, st, c
  <2> QED BY <2>1, <2>2, <2>3, BeginTyped
<1>3. ASSUME NEW k \in Token, LoadEnroll(t, k)
      PROVE  /\ task' \in [Task -> TaskRecord] /\ TaskShape'
             /\ \A u \in Task : IsClaimed(u)' => IsClaimed(u) /\ task'[u] = task[u]
             /\ UNCHANGED <<status, cred, tokens, agent, from>>
  BY <1>1, <1>3, BeginTyped DEF LoadEnroll
<1>4. CASE LoadBeat(t)
  BY <1>1, <1>4, BeginTyped DEF LoadBeat
<1> QED BY <1>2, <1>3, <1>4

\* The status an administrator's request aims at is one of the column's.
LEMMA TargetTyped == \A op \in AdminOps \ {"token"} : Target[op] \in Status
BY DEF AdminOps, Target, Status

LEMMA TypeInvariance == TypeInv /\ [Next]_vars => TypeInv'
<1> SUFFICES ASSUME TypeInv, [Next]_vars PROVE TypeInv'
  OBVIOUS
<1> USE DEF TypeInv
<1>0. CASE UNCHANGED vars
  BY <1>0 DEF vars, tokens, agent, TypeOK, TaskShape, IsClaimed
<1>1. ASSUME task' \in [Task -> TaskRecord], TaskShape',
             UNCHANGED <<status, cred, tokens, agent, from>>
      PROVE  TypeInv'
  BY <1>1 DEF TypeOK, TaskRecord, tokens, agent
<1>2. ASSUME NEW k \in Token, CreateNode(k) \/ Expire(k) PROVE TypeInv'
  BY <1>2 DEF TypeOK, CreateNode, Expire, Status, agent, TaskShape, IsClaimed
<1>3. CASE StartAgent
  BY <1>3 DEF StartAgent, TypeOK, tokens, TaskShape, IsClaimed
<1>4. ASSUME NEW t \in Task, CommitAdmin(t) PROVE TypeInv'
  <2>1. task' \in [Task -> TaskRecord] /\ TaskShape'
    BY <1>4, EndTyped DEF CommitAdmin
  <2>2. status' \in Status \cup {"none"}
    BY <1>4, TargetTyped DEF CommitAdmin, Written, TypeOK
  <2>3. cred' \in Cred \cup {NoCred}
    BY <1>4 DEF CommitAdmin, TypeOK
  <2>4. revoked' \in SUBSET Token /\ issued' \in SUBSET Token
    BY <1>4 DEF CommitAdmin, TypeOK
  <2> QED BY <1>4, <2>1, <2>2, <2>3, <2>4 DEF CommitAdmin, TypeOK, TaskRecord, agent
<1>5. ASSUME NEW t \in Task, ClaimToken(t) PROVE TypeInv'
  <2>1. task' \in [Task -> TaskRecord] /\ TaskShape'
    BY <1>5, EndTyped, ClaimTyped DEF ClaimToken
  <2> QED BY <1>5, <2>1, <1>1 DEF ClaimToken
<1>6. ASSUME NEW t \in Task, CommitBeat(t) PROVE TypeInv'
  <2>1. task' \in [Task -> TaskRecord] /\ TaskShape'
    BY <1>6, EndTyped DEF CommitBeat
  <2> QED BY <1>6, <2>1 DEF CommitBeat, TypeOK, TaskRecord, Status, tokens, agent
<1>7. ASSUME NEW t \in Task, NEW c \in Cred, CommitEnroll(t, c) PROVE TypeInv'
  <2>1. task' \in [Task -> TaskRecord] /\ TaskShape'
    BY <1>7, EndTyped DEF CommitEnroll
  <2>2. task[t].tok \in Token
    BY <1>7 DEF TaskShape, CommitEnroll
  <2>3. status' \in Status \cup {"none"}
    BY <1>7 DEF CommitEnroll, Written, TypeOK, Status
  <2> QED BY <1>7, <2>1, <2>2, <2>3 DEF CommitEnroll, TypeOK, TaskRecord
<1>8. ASSUME NEW t \in Task, Rollback(t) PROVE TypeInv'
  <2>1. task' \in [Task -> TaskRecord] /\ TaskShape'
    BY <1>8, EndTyped DEF Rollback
  <2> QED BY <1>8, <2>1, <1>1 DEF Rollback
<1> QED BY <1>0, <1>1, <1>2, <1>3, <1>4, <1>5, <1>6, <1>7, <1>8, LoadTyped
        DEF Next, Step, RunInstaller, RunEnroll

LEMMA TypeInit == Init => TypeInv
BY DEF Init, TypeInv, TypeOK, TaskShape, Idle, IsClaimed

\* THEOREM: whatever interleaves, the node, its tokens, its requests and its agent
\* are well typed: no request commits a status or a token that is none.
THEOREM TypeCorrect == Spec => []TypeOK
<1>1. TypeInv => TypeOK
  BY DEF TypeInv
<1> QED BY <1>1, TypeInit, TypeInvariance, PTL DEF Spec

-----------------------------------------------------------------------------
(* The claims.                                                             *)

\* A request that claims nothing new and marks no claimed token keeps the claims.
LEMMA ClaimsKept ==
    ASSUME Inv, \A u \in Task : IsClaimed(u)' => IsClaimed(u) /\ task'[u] = task[u],
           \A u \in Task : IsClaimed(u)' => task[u].tok \notin revoked' \cup used',
           used \subseteq used', UNCHANGED from
    PROVE  ClaimsApart' /\ ClaimsGood' /\ GivenIsUsed' /\ SingleUse'
BY DEF Inv, ClaimsApart, ClaimsGood, GivenIsUsed, SingleUse

LEMMA Invariance == Inv /\ [Next]_vars => Inv'
<1> SUFFICES ASSUME Inv, [Next]_vars
             PROVE  ClaimsApart' /\ ClaimsGood' /\ GivenIsUsed' /\ SingleUse'
  BY TypeInvariance DEF Inv
<1> USE DEF Inv
<1>1. ASSUME UNCHANGED <<task, used, revoked, from>>
      PROVE  ClaimsApart' /\ ClaimsGood' /\ GivenIsUsed' /\ SingleUse'
  BY <1>1 DEF ClaimsApart, ClaimsGood, GivenIsUsed, SingleUse, IsClaimed
<1>2. ASSUME NEW k \in Token, CreateNode(k) \/ Expire(k)
      PROVE  UNCHANGED <<task, used, revoked, from>>
  BY <1>2 DEF CreateNode, Expire
<1>3. StartAgent \/ UNCHANGED vars => UNCHANGED <<task, used, revoked, from>>
  BY DEF StartAgent, vars, tokens
<1>4. ASSUME NEW t \in Task,
             \/ \E op \in AdminOps, k \in Token \cup {NoToken} : LoadAdmin(t, op, k)
             \/ \E k \in Token : LoadEnroll(t, k)
             \/ LoadBeat(t)
      PROVE  ClaimsApart' /\ ClaimsGood' /\ GivenIsUsed' /\ SingleUse'
  BY <1>4, LoadTyped, ClaimsKept DEF tokens, ClaimsGood
<1>5. ASSUME NEW t \in Task, CommitAdmin(t)
      PROVE  ClaimsApart' /\ ClaimsGood' /\ GivenIsUsed' /\ SingleUse'
  <2>1. \A u \in Task : IsClaimed(u)' => u # t /\ IsClaimed(u) /\ task'[u] = task[u]
    BY <1>5, EndTyped DEF CommitAdmin
  <2>2. \A u \in Task : u # t /\ IsClaimed(u) => task[u].tok \notin task[t].revs
    BY <1>5 DEF CommitAdmin, LockedByOther, IsClaimed
  <2> QED BY <1>5, <2>1, <2>2, ClaimsKept DEF CommitAdmin, ClaimsGood
<1>6. ASSUME NEW t \in Task, ClaimToken(t)
      PROVE  ClaimsApart' /\ ClaimsGood' /\ GivenIsUsed' /\ SingleUse'
  <2>1. CASE Usable(task[t].tok)
    <3>1. /\ task'[t].tok = task[t].tok /\ \A u \in Task \ {t} : task'[u] = task[u]
      BY <1>6, <2>1, ClaimTyped DEF ClaimToken
    <3>2. task[t].tok \notin revoked \cup used
      BY <2>1 DEF Usable
    <3>3. \A u \in Task \ {t} : IsClaimed(u) => task[u].tok # task[t].tok
      BY <1>6 DEF ClaimToken, LockedByOther, IsClaimed
    <3>4. UNCHANGED <<used, revoked, from>>
      BY <1>6 DEF ClaimToken, tokens
    <3> QED BY <3>1, <3>2, <3>3, <3>4
            DEF ClaimsApart, ClaimsGood, GivenIsUsed, SingleUse, IsClaimed
  <2>2. CASE ~Usable(task[t].tok)
    BY <1>6, <2>2, EndTyped, ClaimsKept DEF ClaimToken, tokens, ClaimsGood
  <2> QED BY <2>1, <2>2
<1>7. ASSUME NEW t \in Task, CommitBeat(t) \/ Rollback(t)
      PROVE  ClaimsApart' /\ ClaimsGood' /\ GivenIsUsed' /\ SingleUse'
  BY <1>7, EndTyped, ClaimsKept DEF CommitBeat, Rollback, tokens, ClaimsGood
<1>8. ASSUME NEW t \in Task, NEW c \in Cred, CommitEnroll(t, c)
      PROVE  ClaimsApart' /\ ClaimsGood' /\ GivenIsUsed' /\ SingleUse'
  <2>1. IsClaimed(t) /\ task[t].tok \in Token /\ task[t].tok \notin used
    BY <1>8 DEF CommitEnroll, IsClaimed, ClaimsGood, TypeInv, TaskShape
  <2>2. \A u \in Task : IsClaimed(u)' => u # t /\ IsClaimed(u) /\ task'[u] = task[u]
    BY <1>8, EndTyped DEF CommitEnroll
  <2>3. used' = used \cup {task[t].tok} /\ revoked' = revoked
    BY <1>8 DEF CommitEnroll
  <2>4. ClaimsApart' /\ ClaimsGood'
    BY <2>1, <2>2, <2>3 DEF ClaimsApart, ClaimsGood
  <2>5. from'[c] = task[t].tok /\ \A d \in Cred \ {c} : from'[d] = from[d]
    BY <1>8 DEF CommitEnroll, TypeInv, TypeOK
  <2>6. GivenIsUsed' /\ SingleUse'
    BY <2>1, <2>3, <2>5 DEF GivenIsUsed, SingleUse
  <2> QED BY <2>4, <2>6
<1> QED BY <1>1, <1>2, <1>3, <1>4, <1>5, <1>6, <1>7, <1>8 DEF Next, Step, RunInstaller, RunEnroll

LEMMA InvInit == Init => Inv
<1>1. Init => ClaimsApart /\ ClaimsGood /\ GivenIsUsed /\ SingleUse
  BY DEF Init, Idle, IsClaimed, ClaimsApart, ClaimsGood, GivenIsUsed, SingleUse
<1> QED BY <1>1, TypeInit DEF Inv

\* THEOREM: a token gives one credential, however many hosts enroll with it at the
\* same time and whoever is rolled back (the conditional UPDATE of enroll).
THEOREM TokensAreSingleUse == Spec => []SingleUse
<1>1. Inv => SingleUse
  BY DEF Inv
<1> QED BY <1>1, InvInit, Invariance, PTL DEF Spec

\* THEOREM: no enrollment commits with a token that was revoked or used since it
\* claimed it: revocations wait for the claim's row lock (issue, rotate, remove).
THEOREM ClaimsHold == Spec => ClaimHolds
<1>1. Inv => \A t \in Task, c \in Cred : CommitEnroll(t, c) => task[t].tok \notin revoked \cup used
  BY DEF Inv, ClaimsGood, CommitEnroll, IsClaimed
<1> QED BY <1>1, InvInit, Invariance, PTL DEF Spec, ClaimHolds

\* THEOREM: a credential that has been replaced is never the node's again, whatever
\* requests that had loaded it commit later (rotate, heartbeat, maintenance).
THEOREM RetiredCredentialsStayDead == Spec => RetiredStaysDead
<1>1. TypeInv /\ [Next]_vars =>
        \A c \in Cred : from[c] # NoToken /\ cred # c => cred' # c
  <2> SUFFICES ASSUME TypeInv, [Next]_vars, NEW c \in Cred, from[c] # NoToken, cred # c
               PROVE  cred' # c
    OBVIOUS
  <2>1. ASSUME NEW t \in Task, NEW d \in Cred, CommitEnroll(t, d) PROVE cred' # c
    BY <2>1 DEF CommitEnroll, NewCred, Picked
  <2>2. ASSUME NEW t \in Task, CommitAdmin(t) PROVE cred' # c
    BY <2>2, EnrollmentAssumption DEF CommitAdmin
  <2>3. ASSUME NEW t \in Task, ClaimToken(t) \/ CommitBeat(t) \/ Rollback(t) PROVE cred' # c
    BY <2>3 DEF ClaimToken, CommitBeat, Rollback
  <2>4. ASSUME NEW t \in Task,
               \/ \E op \in AdminOps, k \in Token \cup {NoToken} : LoadAdmin(t, op, k)
               \/ \E k \in Token : LoadEnroll(t, k)
               \/ LoadBeat(t)
        PROVE  cred' # c
    BY <2>4, LoadTyped
  <2>5. ASSUME NEW k \in Token, CreateNode(k) \/ Expire(k) PROVE cred' # c
    BY <2>5 DEF CreateNode, Expire
  <2>6. CASE StartAgent \/ UNCHANGED vars
    BY <2>6 DEF StartAgent, vars
  <2> QED BY <2>1, <2>2, <2>3, <2>4, <2>5, <2>6 DEF Next, Step, RunInstaller, RunEnroll
<1> QED BY <1>1, TypeInit, TypeInvariance, PTL DEF Spec, RetiredStaysDead

\* A token is used or revoked only after it was issued, and every credential that
\* anybody has, the row, the agent's file or its process, was given for a used token.
Given(c) == c = NoCred \/ (from[c] # NoToken /\ from[c] \in issued \cap used)
CredentialsHaveTokens == Given(cred) /\ Given(file) /\ Given(proc)
TokensAreIssued ==
    /\ used \subseteq issued
    /\ \A t \in Task : IsClaimed(t) => task[t].tok \in issued
Provenance == CredentialsHaveTokens /\ TokensAreIssued

LEMMA ProvenanceStep == Inv /\ Provenance /\ [Next]_vars => Provenance'
<1> SUFFICES ASSUME Inv, Provenance, [Next]_vars PROVE Provenance'
  OBVIOUS
<1>0. /\ TypeInv /\ TypeOK /\ GivenIsUsed /\ TokensAreIssued
      /\ Given(cred) /\ Given(file) /\ Given(proc)
  BY DEF Inv, TypeInv, Provenance, CredentialsHaveTokens
<1>1. ASSUME NEW c, Given(c), issued \subseteq issued', used \subseteq used', UNCHANGED from
      PROVE  c = NoCred \/ (from'[c] # NoToken /\ from'[c] \in issued' \cap used')
  BY <1>1 DEF Given
\* The row and the agent keep what they have or lose it.
<1>2. ASSUME issued \subseteq issued', used' = used, UNCHANGED from, cred' \in {cred, NoCred},
             UNCHANGED file, proc' \in {proc, file},
             \A u \in Task : IsClaimed(u)' =>
                task'[u].tok \in issued \/ (IsClaimed(u) /\ task'[u] = task[u])
      PROVE  Provenance'
  <2>1. CredentialsHaveTokens'
    BY <1>0, <1>1, <1>2 DEF CredentialsHaveTokens, Given
  <2>2. TokensAreIssued'
    BY <1>0, <1>2 DEF TokensAreIssued
  <2> QED BY <2>1, <2>2 DEF Provenance
<1>3. ASSUME NEW k \in Token, CreateNode(k) \/ Expire(k) PROVE Provenance'
  BY <1>2, <1>3 DEF CreateNode, Expire, agent, IsClaimed
<1>4. CASE StartAgent \/ UNCHANGED vars
  BY <1>2, <1>4 DEF StartAgent, vars, tokens, agent, IsClaimed
<1>5. ASSUME NEW t \in Task,
             \/ \E op \in AdminOps, k \in Token \cup {NoToken} : LoadAdmin(t, op, k)
             \/ \E k \in Token : LoadEnroll(t, k)
             \/ LoadBeat(t)
      PROVE  Provenance'
  <2>1. UNCHANGED <<issued, used, cred, file, proc, from>>
    BY <1>0, <1>5, LoadTyped DEF tokens, agent
  <2> QED BY <1>0, <1>2, <1>5, <2>1, LoadTyped
<1>6. ASSUME NEW t \in Task, CommitAdmin(t) PROVE Provenance'
  <2>1. /\ issued \subseteq issued' /\ used' = used /\ UNCHANGED <<file, proc, from>>
        /\ cred' \in {cred, NoCred}
    BY <1>6 DEF CommitAdmin, agent
  <2> QED BY <1>0, <1>2, <1>6, <2>1, EndTyped DEF CommitAdmin
<1>7. ASSUME NEW t \in Task, ClaimToken(t) PROVE Provenance'
  <2>1. UNCHANGED <<issued, used, cred, file, proc, from>>
    BY <1>7 DEF ClaimToken, tokens, agent
  <2>2. CASE Usable(task[t].tok)
    <3>1. task'[t].tok = task[t].tok /\ \A u \in Task \ {t} : task'[u] = task[u]
      BY <1>0, <1>7, <2>2, ClaimTyped DEF ClaimToken
    <3>2. task[t].tok \in issued
      BY <2>2 DEF Usable
    <3> QED BY <1>2, <2>1, <3>1, <3>2 DEF IsClaimed
  <2>3. CASE ~Usable(task[t].tok)
    BY <1>0, <1>2, <1>7, <2>1, <2>3, EndTyped DEF ClaimToken
  <2> QED BY <2>2, <2>3
<1>8. ASSUME NEW t \in Task, CommitBeat(t) \/ Rollback(t) PROVE Provenance'
  <2>1. UNCHANGED <<issued, used, cred, file, proc, from>>
    BY <1>8 DEF CommitBeat, Rollback, tokens, agent
  <2> QED BY <1>0, <1>2, <1>8, <2>1, EndTyped DEF CommitBeat, Rollback
<1>9. ASSUME NEW t \in Task, NEW c \in Cred, CommitEnroll(t, c) PROVE Provenance'
  <2> DEFINE k == task[t].tok
  <2>1. k \in Token /\ k \in issued /\ k # NoToken
    BY <1>0, <1>9, EnrollmentAssumption
       DEF CommitEnroll, IsClaimed, TokensAreIssued, TypeInv, TaskShape, EnrollmentAssumption
  <2>2. /\ issued' = issued /\ used' = used \cup {k} /\ from' = [from EXCEPT ![c] = k]
        /\ cred' = c /\ file' \in {file, c} /\ proc' = proc
    BY <1>9 DEF CommitEnroll
  <2>3. from'[c] = k /\ \A d : d # c => from'[d] = from[d]
    BY <1>0, <2>2 DEF TypeOK
  <2>4. CredentialsHaveTokens'
    BY <1>0, <2>1, <2>2, <2>3 DEF CredentialsHaveTokens, Given
  <2>5. TokensAreIssued'
    BY <1>0, <1>9, <2>1, <2>2, EndTyped DEF CommitEnroll, TokensAreIssued
  <2> QED BY <2>4, <2>5 DEF Provenance
<1> QED BY <1>3, <1>4, <1>5, <1>6, <1>7, <1>8, <1>9 DEF Next, Step, RunInstaller, RunEnroll

\* THEOREM: no credential comes from nowhere: what the node's row holds and what the
\* agent presents was given in exchange for a token that had been issued and is used
\* up, also when answers are lost and requests that loaded the node commit late.
THEOREM CredentialsAreEarned == Spec => []CredentialsHaveTokens
<1>1. Init => Provenance
  BY DEF Init, Idle, IsClaimed, Provenance, CredentialsHaveTokens, TokensAreIssued, Given
<1>2. Provenance => CredentialsHaveTokens
  BY DEF Provenance
<1> QED BY <1>1, <1>2, ProvenanceStep, InvInit, Invariance, PTL DEF Spec
-----------------------------------------------------------------------------
(* Nodes that are shut out.                                                *)

\* The requests in flight that can write a status over the one of a node which
\* was removed after they loaded it.
LateWriters == {t \in Task : task[t].op \notin {"none", "token", "remove"}}
\* The requests in flight of the host.
HostRequests == {t \in Task : task[t].op \in {"enroll", "beat"}}

Removed == status = "removed" /\ LateWriters = {}
ShutOut == status \in {"disabled", "removed"} /\ HostRequests = {}

\* Nothing is loaded from a removed node, nor for the host from one shut out.
LEMMA LoadsAreRefused ==
    ASSUME TypeInv, NEW t \in Task,
           \/ \E op \in AdminOps, k \in Token \cup {NoToken} : LoadAdmin(t, op, k)
           \/ \E k \in Token : LoadEnroll(t, k)
           \/ LoadBeat(t)
    PROVE  /\ status # "removed"
           /\ status = "disabled" => HostRequests' \subseteq HostRequests
<1>1. ASSUME NEW op \in AdminOps, NEW k \in Token \cup {NoToken}, LoadAdmin(t, op, k)
      PROVE  status # "removed" /\ HostRequests' \subseteq HostRequests
  <2>1. task'[t].op = op /\ \A u \in Task \ {t} : task'[u] = task[u]
    BY <1>1 DEF LoadAdmin, Begin, TypeInv, TypeOK
  <2>2. op \notin {"enroll", "beat"}
    BY DEF AdminOps
  <2> QED BY <1>1, <2>1, <2>2 DEF LoadAdmin, HostRequests
<1>2. (\E k \in Token : LoadEnroll(t, k)) \/ LoadBeat(t) => status \notin {"disabled", "removed"}
  BY DEF LoadEnroll, LoadBeat
<1> QED BY <1>1, <1>2

\* A request that ends leaves both sets.
LEMMA EndsLeave ==
    ASSUME TypeInv, NEW t \in Task, End(t)
    PROVE  /\ LateWriters' = LateWriters \ {t}
           /\ HostRequests' = HostRequests \ {t}
<1>1. task'[t].op = "none" /\ \A u \in Task \ {t} : task'[u] = task[u]
  BY DEF TypeInv, TypeOK, End, Idle
<1> QED BY <1>1 DEF LateWriters, HostRequests

\* What one step does to a removed node: its status goes only with a late writer,
\* which is then done, and no new one begins.
LEMMA RemovedStep ==
    TypeInv /\ [Next]_vars /\ status = "removed" =>
        /\ LateWriters' \subseteq LateWriters
        /\ status' # "removed" => LateWriters' # LateWriters
<1> SUFFICES ASSUME TypeInv, [Next]_vars, status = "removed"
             PROVE  /\ LateWriters' \subseteq LateWriters
                    /\ status' # "removed" => LateWriters' # LateWriters
  OBVIOUS
<1>1. ASSUME UNCHANGED <<status, task>>
      PROVE  LateWriters' = LateWriters /\ status' = "removed"
  BY <1>1 DEF LateWriters
<1>2. ASSUME NEW k \in Token, CreateNode(k) \/ Expire(k)
      PROVE  UNCHANGED <<status, task>>
  BY <1>2 DEF CreateNode, Expire
<1>3. StartAgent \/ UNCHANGED vars => UNCHANGED <<status, task>>
  BY DEF StartAgent, vars
<1>4. ASSUME NEW t \in Task, CommitAdmin(t)
      PROVE  /\ LateWriters' = LateWriters \ {t}
             /\ status' # "removed" => t \in LateWriters
  <2>1. status' # "removed" => task[t].op \notin {"none", "token", "remove"}
    BY <1>4 DEF CommitAdmin, Written, Target, AdminOps
  <2> QED BY <1>4, <2>1, EndsLeave DEF CommitAdmin, LateWriters
<1>5. ASSUME NEW t \in Task, NEW c \in Cred, CommitEnroll(t, c)
      PROVE  LateWriters' = LateWriters \ {t} /\ t \in LateWriters
  BY <1>5, EndsLeave DEF CommitEnroll, LateWriters
<1>9. ASSUME NEW t \in Task, CommitBeat(t)
      PROVE  LateWriters' = LateWriters \ {t} /\ t \in LateWriters
  BY <1>9, EndsLeave DEF CommitBeat, LateWriters
<1>6. ASSUME NEW t \in Task, ClaimToken(t)
      PROVE  LateWriters' \subseteq LateWriters /\ status' = status
  <2>1. CASE Usable(task[t].tok)
    <3>1. task'[t].op = task[t].op /\ \A u \in Task \ {t} : task'[u] = task[u]
      BY <1>6, <2>1 DEF ClaimToken, TypeInv, TypeOK
    <3> QED BY <1>6, <3>1 DEF ClaimToken, LateWriters
  <2>2. CASE ~Usable(task[t].tok)
    BY <1>6, <2>2, EndsLeave DEF ClaimToken
  <2> QED BY <2>1, <2>2
<1>7. ASSUME NEW t \in Task, Rollback(t)
      PROVE  LateWriters' \subseteq LateWriters /\ status' = status
  BY <1>7, EndsLeave DEF Rollback
<1> QED BY <1>1, <1>2, <1>3, <1>4, <1>5, <1>9, <1>6, <1>7, LoadsAreRefused
        DEF Next, Step, RunInstaller, RunEnroll

\* THEOREM: a removed node comes back only through a request that had loaded it
\* before; once those are done it stays removed, whatever tokens and credentials
\* are still about (get_node, enroll and get_current_node refuse it).
THEOREM RemovedIsForGood ==
    /\ Spec => [][status = "removed" /\ status' # "removed" => LateWriters' # LateWriters]_vars
    /\ Spec => [](Removed => []Removed)
<1>1. TypeInv /\ [Next]_vars =>
        [status = "removed" /\ status' # "removed" => LateWriters' # LateWriters]_vars
  BY RemovedStep
<1>2. TypeInv /\ [Next]_vars /\ Removed => Removed'
  BY RemovedStep DEF Removed
<1> QED BY <1>1, <1>2, TypeInit, TypeInvariance, PTL DEF Spec

\* What one step does to a node that is shut out with none of the host's requests
\* in flight.
LEMMA ShutOutStep ==
    TypeInv /\ [Next]_vars /\ ShutOut => ShutOut' \/ \E t \in Task : CommitAdmin(t)
<1> SUFFICES ASSUME TypeInv, [Next]_vars, ShutOut, \A t \in Task : ~CommitAdmin(t)
             PROVE  status' = status /\ HostRequests' = {}
  BY DEF ShutOut
<1>1. ASSUME UNCHANGED <<status, task>> PROVE status' = status /\ HostRequests' = {}
  BY <1>1 DEF HostRequests, ShutOut
<1>2. ASSUME NEW k \in Token, CreateNode(k) \/ Expire(k)
      PROVE  UNCHANGED <<status, task>>
  BY <1>2 DEF CreateNode, Expire, ShutOut
<1>3. StartAgent \/ UNCHANGED vars => UNCHANGED <<status, task>>
  BY DEF StartAgent, vars
<1>4. ASSUME NEW t \in Task,
             \/ \E op \in AdminOps, k \in Token \cup {NoToken} : LoadAdmin(t, op, k)
             \/ \E k \in Token : LoadEnroll(t, k)
             \/ LoadBeat(t)
      PROVE  status' = status /\ HostRequests' = {}
  BY <1>4, LoadTyped, LoadsAreRefused DEF ShutOut
<1>5. ASSUME NEW t \in Task, NEW c \in Cred PROVE ~CommitEnroll(t, c)
  BY DEF CommitEnroll, HostRequests, ShutOut
<1>6. ASSUME NEW t \in Task PROVE ~CommitBeat(t) /\ ~ClaimToken(t)
  BY DEF CommitBeat, ClaimToken, HostRequests, ShutOut
<1>7. ASSUME NEW t \in Task, Rollback(t) PROVE status' = status /\ HostRequests' = {}
  BY <1>7, EndsLeave DEF Rollback, ShutOut
<1> QED BY <1>1, <1>2, <1>3, <1>4, <1>5, <1>6, <1>7 DEF Next, Step, RunInstaller, RunEnroll

\* THEOREM: a node that is disabled or removed while none of its host's requests is
\* in flight is let in again by an administrator's request only: neither a
\* heartbeat nor an enrollment with a token that is still usable does it.
THEOREM OnlyAdministratorsReadmit ==
    Spec => [][ShutOut /\ ~ShutOut' => \E t \in Task : CommitAdmin(t)]_vars
<1>1. TypeInv /\ [Next]_vars =>
        [ShutOut /\ ~ShutOut' => \E t \in Task : CommitAdmin(t)]_vars
  BY ShutOutStep
<1> QED BY <1>1, TypeInit, TypeInvariance, PTL DEF Spec
=============================================================================
