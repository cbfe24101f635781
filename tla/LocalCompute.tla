---------------------------- MODULE LocalCompute ----------------------------
(***************************************************************************)
(* The control plane's own machine as a place for VPS: the capability that *)
(* is probed over the socket of LXD and kept for some seconds, and the one *)
(* row of nodes that stands for the machine.                               *)
(*                                                                         *)
(* The requests of a process interleave at every await.  LXD and its       *)
(* socket come and go between two calls.  They are external.               *)
(***************************************************************************)
EXTENDS Naturals, Sequences, SequencesExt

CONSTANTS
    Task,       \* requests in flight: a bound
    NoTask

ASSUME LocalAssumption == NoTask \notin Task

VARIABLES
    host,       \* LXD: no socket, silent, answering with a part missing, whole
    cache,      \* the last capability, whether it is fresh, and who had asked when it was probed
    holder,     \* who holds the lock of the cache
    waiting,    \* who waits for it, first come first served
    rows,       \* the committed nodes of kind local
    named,      \* whether an agent's node has the name of the local machine
    task        \* the requests

vars == <<host, cache, holder, waiting, rows, named, task>>

Kind == {"status", "refresh", "create", "boot"}
None == [state |-> "none", fresh |-> FALSE, after |-> {}]
Idle == [kind |-> "none", pc |-> "idle", row |-> FALSE, state |-> "none", after |-> {}]

Init ==
    /\ host \in {"absent", "silent", "partial", "whole"}
    /\ cache = None /\ holder = NoTask /\ waiting = <<>>
    /\ rows = 0 /\ named = FALSE /\ task = [t \in Task |-> Idle]

At(t, pc) == task[t].pc = pc
Goto(t, pc) == task' = [task EXCEPT ![t].pc = pc]
End(t) == task' = [task EXCEPT ![t] = Idle]
Present == host # "absent"
Answers == host \in {"partial", "whole"}
Database == <<rows, named>>
Lock == <<holder, waiting>>

HostChanges ==
    /\ host' \in {"absent", "silent", "partial", "whole"} \ {host}
    /\ UNCHANGED <<cache, Lock, Database, task>>
\* The time to live ends.
CacheExpires == cache.fresh /\ cache' = [cache EXCEPT !.fresh = FALSE]
                /\ UNCHANGED <<host, Lock, Database, task>>
\* An administrator gives the name to an agent's node.
NameTaken == rows = 0 /\ ~named /\ named' = TRUE
             /\ (\A t \in Task : ~At(t, "inserted"))
             /\ UNCHANGED <<host, cache, Lock, rows, task>>

-----------------------------------------------------------------------------
(* Requests begin.  Who begins now had not asked before: t leaves the      *)
(* history of every probe.                                                 *)
Forget(t, r) == [r EXCEPT !.after = @ \ {t}]
Begin(t, kind, pc, row) ==
    /\ task[t] = Idle
    /\ task' = [u \in Task |-> IF u = t THEN [Idle EXCEPT !.kind = kind, !.pc = pc, !.row = row]
                                        ELSE Forget(t, task[u])]

BeginStatus(t) ==
    /\ Begin(t, "status", "wait", FALSE) /\ waiting' = Append(waiting, t)
    /\ cache' = Forget(t, cache) /\ UNCHANGED <<host, holder, Database>>

\* The cache is emptied first, without its lock.
BeginRefresh(t) ==
    /\ Begin(t, "refresh", "check", FALSE)
    /\ cache' = None /\ UNCHANGED <<host, Lock, Database>>

\* The row is looked up; without a socket the request is refused.
CheckRefresh(t) ==
    /\ At(t, "check")
    /\ \/ /\ Present /\ waiting' = Append(waiting, t)
          /\ task' = [task EXCEPT ![t].pc = "wait", ![t].row = rows > 0]
       \/ ~Present /\ End(t) /\ UNCHANGED waiting
    /\ UNCHANGED <<host, cache, holder, Database>>

\* A create in local mode, or the start of a process: the row is looked up.  The
\* row is never removed, so that there is nothing to revive.
BeginNode(t) ==
    /\ rows = 0 /\ Present /\ \E kind \in {"create", "boot"} : Begin(t, kind, "capacity", FALSE)
    /\ cache' = Forget(t, cache) /\ UNCHANGED <<host, Lock, Database>>

-----------------------------------------------------------------------------
(* The capability.                                                         *)

\* Seeded fault of MayProbe: the lock is not taken.
MayProbeUnlocked(t) == TRUE
MayProbe(t) == holder = NoTask /\ Head(waiting) = t

FromCache(t) == task[t].kind # "refresh" /\ cache.state # "none" /\ cache.fresh

Leave(t) == \E i \in 1..Len(waiting) : waiting[i] = t /\ waiting' = RemoveAt(waiting, i)
Known(t, state, after) ==
    task' = [task EXCEPT ![t].pc = "answered", ![t].state = state, ![t].after = after]

\* Seeded fault of Served: the early return leaves the lock taken.
ServedHolding(t) ==
    /\ At(t, "wait") /\ MayProbe(t) /\ FromCache(t) /\ Leave(t) /\ holder' = t
    /\ Known(t, cache.state, cache.after) /\ UNCHANGED <<host, cache, Database>>
Served(t) ==
    /\ At(t, "wait") /\ MayProbe(t) /\ FromCache(t) /\ Leave(t)
    /\ Known(t, cache.state, cache.after) /\ UNCHANGED <<host, cache, holder, Database>>

Asked == {t \in Task : ~At(t, "idle")}
StartProbe(t) ==
    /\ At(t, "wait") /\ MayProbe(t) /\ ~FromCache(t) /\ Leave(t) /\ holder' = t
    /\ task' = [task EXCEPT ![t].pc = IF Present THEN "daemon" ELSE "noSocket", ![t].after = Asked]
    /\ UNCHANGED <<host, cache, Database>>

\* The answer is stored with the time its probe began: it may have expired.
Stores(t, state) ==
    /\ \E fresh \in BOOLEAN : cache' = [state |-> state, fresh |-> fresh, after |-> task[t].after]
    /\ Known(t, state, task[t].after) /\ UNCHANGED <<host, waiting, Database>>
\* Seeded fault of Unlocks: an exception of the client leaves the lock taken.
UnlocksAnswered == holder' = IF Answers THEN NoTask ELSE holder
Unlocks == holder' = NoTask

FindsNoSocket(t) == At(t, "noSocket") /\ Stores(t, "not_configured") /\ Unlocks
\* A refusal, or an exception of the client, whose socket has vanished meanwhile.
DaemonSilent(t) == At(t, "daemon") /\ ~Answers /\ Stores(t, "unavailable") /\ Unlocks
DaemonAnswers(t) == At(t, "daemon") /\ Answers /\ Goto(t, "inspect")
                    /\ UNCHANGED <<host, cache, Lock, Database>>
\* The lists of pools and of networks are read from keys that LXD's replies do not
\* have, so that every list is empty, and without a pool no capacity is asked for.
PoolsSeen == {}
Inspect(t) ==
    At(t, "inspect") /\ Stores(t, IF PoolsSeen = {} \/ host # "whole" THEN "degraded" ELSE "ready")
                     /\ Unlocks

\* Without the capacity of the host the refresh has nothing to write to the row.
Respond(t) ==
    /\ At(t, "answered")
    /\ IF task[t].kind = "refresh" /\ ~task[t].row
       THEN \/ rows = 0 /\ Present /\ Goto(t, "capacity")
            \/ (rows > 0 \/ ~Present) /\ End(t)
       ELSE End(t)
    /\ UNCHANGED <<host, cache, Lock, Database>>

-----------------------------------------------------------------------------
(* The row.                                                                *)

CapacityFails(t) == At(t, "capacity") /\ ~Answers /\ End(t) /\ UNCHANGED <<host, cache, Lock, Database>>
CapacityKnown(t) == At(t, "capacity") /\ Answers /\ Goto(t, "insert")
                    /\ UNCHANGED <<host, cache, Lock, Database>>

\* The name is unique: an insert waits for one that is not committed, and then fails
\* or goes on.
InsertIsFree == rows = 0 /\ ~named /\ \A u \in Task : ~At(u, "inserted")
InsertRow(t) == At(t, "insert") /\ InsertIsFree /\ Goto(t, "inserted")
                /\ UNCHANGED <<host, cache, Lock, Database>>
InsertFails(t) == At(t, "insert") /\ (rows > 0 \/ named) /\ End(t)
                  /\ UNCHANGED <<host, cache, Lock, Database>>
CommitRow(t) == At(t, "inserted") /\ End(t) /\ rows' = rows + 1
                /\ UNCHANGED <<host, cache, Lock, named>>
\* What the request does next fails, or the process ends.
RollbackRow(t) == At(t, "inserted") /\ End(t) /\ UNCHANGED <<host, cache, Lock, Database>>

Step(t) ==
    \/ CheckRefresh(t) \/ Served(t) \/ StartProbe(t) \/ FindsNoSocket(t) \/ DaemonSilent(t)
    \/ DaemonAnswers(t) \/ Inspect(t) \/ Respond(t)
    \/ CapacityFails(t) \/ CapacityKnown(t)
    \/ InsertRow(t) \/ InsertFails(t) \/ CommitRow(t) \/ RollbackRow(t)

Next ==
    \/ \E t \in Task : BeginStatus(t) \/ BeginRefresh(t) \/ BeginNode(t) \/ Step(t)
    \/ HostChanges \/ CacheExpires \/ NameTaken

\* Every call of LXD has a timeout, and the event loop resumes whoever can go on.  The
\* end of an insert wakes every insert that waits for it: none is passed over for ever.
Fairness == \A t \in Task : WF_vars(Step(t)) /\ SF_vars(InsertRow(t))
Spec == Init /\ [][Next]_vars /\ Fairness

-----------------------------------------------------------------------------
(* Properties.                                                             *)

\* What a refresh answers was probed after it was asked for, although other probes
\* run across it and the cache is emptied without its lock; and from then on nobody
\* gets an older answer: neither the cache nor a probe under way is older.
RefreshHolds ==
    \A t \in Task : task[t].kind = "refresh" /\ At(t, "answered") =>
        /\ t \in task[t].after
        /\ cache = None \/ t \in cache.after
        /\ \A u \in Task : task[u].pc \in {"daemon", "inspect", "noSocket"} => t \in task[u].after

\* No wake-up is lost: whoever waits for the cache's lock waits for a probe that is
\* under way, or the lock is free and the first of the queue may take it, whatever
\* ends a probe and although a request may be served without one (async with _lock,
\* in get_local_capability).
Probing(t) == task[t].pc \in {"noSocket", "daemon", "inspect"}
NoLostWakeUp ==
    \A t \in Task : At(t, "wait") =>
        \/ holder \in Task /\ Probing(holder)
        \/ \E u \in Task : At(u, "wait") /\ MayProbe(u)

\* Every request is answered: the probe that others wait for ends, whatever LXD does,
\* and leaves the lock free.
EveryRequestEnds == \A t \in Task : ~At(t, "idle") ~> At(t, "idle")

-----------------------------------------------------------------------------
(* What the documentation says and the code does not keep.                 *)

\* "READY: everything needed for instance creation is in place": a probe that finds
\* all of it answers ready.
WholeHostIsReady ==
    [][\A t \in Task : At(t, "inspect") /\ At(t, "answered")' /\ host = "whole" =>
          task'[t].state = "ready"]_vars
=============================================================================
