--------------------------- MODULE NodeEnrollment ---------------------------
(***************************************************************************)
(* The identity of one node: its row (status, credential), its single-use  *)
(* enrollment tokens, the administrator's requests on it, and the agent on *)
(* the host, which keeps its credential in a file, reads it when it starts *)
(* and presents it with every heartbeat.                                   *)
(*                                                                         *)
(* A request is a load step and a commit step, as in VpsControl: the ORM   *)
(* writes only what differs from the values loaded.  Enrollment claims its *)
(* token in between, by an UPDATE whose row lock lasts until its commit.   *)
(* The reads of one request are taken together.                            *)
(***************************************************************************)
EXTENDS Naturals, FiniteSets

CONSTANTS
    Token, Cred,    \* the tokens and credentials ever generated: bounds
    NoToken, NoCred,
    Task,           \* requests: a bound on what is in flight at a time
    Manual          \* whether operators run "cvx-agent enroll" by hand

ASSUME EnrollmentAssumption ==
    NoToken \notin Token /\ NoCred \notin Cred /\ Manual \in BOOLEAN

VARIABLES
    status,     \* nodes.status, "none" before the row exists
    cred,       \* nodes.credential_hash and _encrypted
    issued, used, revoked, expired,     \* of enrollment_tokens
    task,       \* requests in flight
    file, proc, \* the agent's credential file, and what its process has read of it
    from        \* history: the token each credential was given for

tokens == <<issued, used, revoked, expired>>
agent  == <<file, proc>>
vars   == <<status, cred, tokens, task, agent, from>>

Status   == {"pending", "online", "maintenance", "disabled", "removed"}
AdminOps == {"token", "rotate", "maintenance", "resume", "disable", "remove"}

Idle == [op |-> "none", pc |-> "idle", tok |-> NoToken, revs |-> {},
         status |-> "none", cred |-> NoCred]
\* What the request keeps of its reads: only what it will compare or write.
Begin(t, op, k, S, st, c) ==
    /\ task[t] = Idle
    /\ task' = [task EXCEPT ![t] = [op |-> op, pc |-> "loaded", tok |-> k, revs |-> S,
                                    status |-> st, cred |-> c]]
End(t) == task' = [task EXCEPT ![t] = Idle]

\* EnrollmentToken.is_usable.
Usable(k) == k \in issued \ (used \cup revoked \cup expired)
\* Tokens and credentials are random: which one of the never generated comes next
\* makes no difference.
Picked(x, S) == x \in S /\ x = CHOOSE y \in S : TRUE
NewToken(k) == Picked(k, {j \in Token \ issued : \A t \in Task : task[t].tok # j})
NewCred(c)  == Picked(c, {d \in Cred : from[d] = NoToken})

\* Seeded fault of LockedByOther: claiming takes no row lock.
Unlocked(t, S) == FALSE
\* An enrollment has claimed a token of S and not committed.
LockedByOther(t, S) == \E u \in Task \ {t} : task[u].pc = "claimed" /\ task[u].tok \in S

\* The ORM writes a status that differs from the one loaded.
Written(t, s) == IF task[t].status = s THEN status ELSE s

Init ==
    /\ status = "none" /\ cred = NoCred
    /\ issued = {} /\ used = {} /\ revoked = {} /\ expired = {}
    /\ task = [t \in Task |-> Idle] /\ file = NoCred /\ proc = NoCred
    /\ from = [c \in Cred |-> NoToken]

-----------------------------------------------------------------------------
(* The administrator.                                                      *)

CreateNode(k) ==
    /\ status = "none" /\ NewToken(k) /\ status' = "pending" /\ issued' = issued \cup {k}
    /\ UNCHANGED <<cred, used, revoked, expired, task, agent, from>>

\* revoke_enrollment_tokens: the node's tokens that are neither used nor revoked,
\* the expired ones included.
Revocable == issued \ (used \cup revoked)

\* get_node, and the tokens that the commit will revoke.  A new token is made in
\* memory.  (remove_node: the node hosts no VPS.)
LoadAdmin(t, op, k) ==
    /\ status \notin {"none", "removed"}
    /\ IF op \in {"token", "rotate"} THEN NewToken(k) ELSE k = NoToken
    /\ Begin(t, op, k, IF op \in {"token", "rotate", "remove"} THEN Revocable ELSE {},
             IF op = "token" THEN "none" ELSE status, IF op = "rotate" THEN cred ELSE NoCred)
    /\ UNCHANGED <<status, cred, tokens, agent, from>>

\* Seeded fault of Target: leaving maintenance stores what is only ever computed.
TargetOffline == [token |-> "none", rotate |-> "pending", maintenance |-> "maintenance",
                  resume |-> "offline", disable |-> "disabled", remove |-> "removed"]
Target == [token |-> "none", rotate |-> "pending", maintenance |-> "maintenance",
           resume |-> "online", disable |-> "disabled", remove |-> "removed"]

\* Flush and commit: the tokens first, which waits for enrollments that have
\* claimed one, then the node.
CommitAdmin(t) ==
    LET c == task[t] IN
    /\ c.op \in AdminOps /\ ~LockedByOther(t, c.revs)
    /\ status' = IF c.op = "token" THEN status ELSE Written(t, Target[c.op])
    /\ cred' = IF c.op = "rotate" /\ c.cred # NoCred THEN NoCred ELSE cred
    /\ revoked' = revoked \cup c.revs /\ issued' = issued \cup ({c.tok} \ {NoToken})
    /\ End(t) /\ UNCHANGED <<used, expired, agent, from>>

-----------------------------------------------------------------------------
(* Enrollment.                                                             *)

\* The token is usable and the node neither disabled nor removed.
LoadEnroll(t, k) ==
    /\ Usable(k) /\ status \notin {"disabled", "removed"}
    /\ Begin(t, "enroll", k, {}, status, NoCred)
    /\ UNCHANGED <<status, cred, tokens, agent, from>>

\* Seeded fault of ClaimToken: the UPDATE without its WHERE.
ClaimAnyway(t) ==
    /\ task[t].op = "enroll" /\ task[t].pc = "loaded" /\ ~LockedByOther(t, {task[t].tok})
    /\ task' = [task EXCEPT ![t].pc = "claimed"]
    /\ UNCHANGED <<status, cred, tokens, agent, from>>

\* UPDATE ... SET used_at WHERE unused, not revoked and not expired; rowcount # 1
\* refuses the enrollment.
ClaimToken(t) ==
    LET k == task[t].tok IN
    /\ task[t].op = "enroll" /\ task[t].pc = "loaded" /\ ~LockedByOther(t, {k})
    /\ IF Usable(k) THEN task' = [task EXCEPT ![t].pc = "claimed"] ELSE End(t)
    /\ UNCHANGED <<status, cred, tokens, agent, from>>

\* The credential is issued and the node ONLINE; the agent stores the credential
\* unless the answer does not reach it.
CommitEnroll(t, c) ==
    LET k == task[t].tok IN
    /\ task[t].op = "enroll" /\ task[t].pc = "claimed" /\ NewCred(c)
    /\ status' = Written(t, "online") /\ cred' = c
    /\ used' = used \cup {k} /\ from' = [from EXCEPT ![c] = k]
    /\ file' \in {file, c} /\ End(t)
    /\ UNCHANGED <<issued, revoked, expired, proc>>

\* A request fails or its control plane dies before the commit: rolled back.
Rollback(t) ==
    /\ task[t] # Idle /\ End(t)
    /\ UNCHANGED <<status, cred, tokens, agent, from>>

-----------------------------------------------------------------------------
(* The host.                                                               *)

\* systemd (re)starts the agent, which does not start without a credential.
StartAgent ==
    /\ file # NoCred /\ proc' = file
    /\ UNCHANGED <<status, cred, tokens, task, file, from>>

\* The install command: a host that has a credential file is not enrolled again.
RunInstaller(t, k) == file = NoCred /\ LoadEnroll(t, k)
RunEnroll(t, k) == Manual /\ LoadEnroll(t, k)

-----------------------------------------------------------------------------
(* Heartbeats, and the age of a token.                                     *)

\* get_current_node: the credential is the node's, which is not shut out.
LoadBeat(t) ==
    /\ proc # NoCred /\ proc = cred /\ status \notin {"disabled", "removed"}
    /\ Begin(t, "beat", NoToken, {}, status, NoCred)
    /\ UNCHANGED <<status, cred, tokens, agent, from>>

\* Seeded faults of CommitBeat: the credential presented is written back with the
\* rest of the row; the status is left to enrollment.
SaveBeat(t) ==
    /\ task[t].op = "beat" /\ End(t) /\ cred' = proc
    /\ status' = IF task[t].status = "pending" THEN "online" ELSE status
    /\ UNCHANGED <<tokens, agent, from>>
BeatOnly(t) ==
    /\ task[t].op = "beat" /\ End(t)
    /\ UNCHANGED <<status, cred, tokens, agent, from>>
\* (OFFLINE, which a heartbeat lifts as well, is never stored.)
CommitBeat(t) ==
    /\ task[t].op = "beat" /\ End(t)
    /\ status' = IF task[t].status = "pending" THEN "online" ELSE status
    /\ UNCHANGED <<cred, tokens, agent, from>>

Expire(k) ==
    /\ Usable(k) /\ expired' = expired \cup {k}
    /\ UNCHANGED <<status, cred, issued, used, revoked, task, agent, from>>

-----------------------------------------------------------------------------
Step(t) == CommitAdmin(t) \/ ClaimToken(t) \/ CommitBeat(t) \/ \E c \in Cred : CommitEnroll(t, c)

Next ==
    \/ \E k \in Token : CreateNode(k) \/ Expire(k)
    \/ \E t \in Task :
          \/ \E op \in AdminOps, k \in Token \cup {NoToken} : LoadAdmin(t, op, k)
          \/ \E k \in Token : RunInstaller(t, k) \/ RunEnroll(t, k)
          \/ LoadBeat(t) \/ Step(t) \/ Rollback(t)
    \/ StartAgent

Spec == Init /\ [][Next]_vars

\* The event loop runs its requests, row locks are granted in turn, the agent
\* posts every 30 s and is restarted by systemd, and the operator runs
\* the install command with a usable token; not every request fails.
Fairness ==
    /\ \A t \in Task : SF_vars(Step(t))
    /\ SF_vars(\E t \in Task : LoadBeat(t)) /\ SF_vars(\E t \in Task : CommitBeat(t))
    /\ WF_vars(StartAgent)
    /\ SF_vars(\E t \in Task, k \in Token : RunInstaller(t, k))
FairSpec == Spec /\ Fairness

-----------------------------------------------------------------------------
(* Properties.                                                             *)
TypeOK ==
    /\ status \in Status \cup {"none"} /\ cred \in Cred \cup {NoCred}
    /\ issued \in SUBSET Token /\ used \in SUBSET Token /\ revoked \in SUBSET Token
    /\ expired \in SUBSET Token
    /\ task \in [Task -> [op : AdminOps \cup {"none", "enroll", "beat"},
                          pc : {"idle", "loaded", "claimed"}, tok : Token \cup {NoToken},
                          revs : SUBSET Token, status : Status \cup {"none"},
                          cred : Cred \cup {NoCred}]]
    /\ file \in Cred \cup {NoCred} /\ proc \in Cred \cup {NoCred}
    /\ from \in [Cred -> Token \cup {NoToken}]

\* A token gives one credential, whatever enrollments race for it, also when the
\* one that claimed it first was rolled back (the conditional UPDATE of enroll).
SingleUse == \A c, d \in Cred : from[c] # NoToken /\ from[c] = from[d] => c = d

\* A credential that was replaced or invalidated never becomes the node's again,
\* also when a request that read the node before commits after.
RetiredStaysDead ==
    [][\A c \in Cred : from[c] # NoToken /\ cred # c => cred' # c]_vars

\* An enrollment never commits with a token that was revoked or used under it: the
\* claim's row lock makes the administrator's revocation wait.
ClaimHolds ==
    [][\A t \in Task, c \in Cred :
          CommitEnroll(t, c) => task[t].tok \notin revoked \cup used]_vars

\* A node whose agent holds its credential does not stay PENDING, even when a
\* rotation and an enrollment have left the two columns apart.
PendingHeals ==
    (status = "pending" /\ cred # NoCred /\ proc = cred)
        ~> (status # "pending" \/ proc # cred)

-----------------------------------------------------------------------------
(* What the documentation says and the code does not keep.                 *)

\* "re-running repairs/updates an existing install", and a fresh token is for
\* "re-enrollment after rotation": with a usable token and the install command run
\* again and again, the host comes back.
InstallerReenrolls ==
    (status = "pending" /\ \E k \in Token : Usable(k))
        ~> (status # "pending" \/ \A k \in Token : ~Usable(k))

\* "Rotation invalidates the previous secret instantly": when a rotation has
\* committed, no credential given before is valid.
RotationInvalidates == [][\A t \in Task : task[t].op = "rotate" /\ CommitAdmin(t) => cred' = NoCred]_vars
=============================================================================
