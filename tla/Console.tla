------------------------------- MODULE Console -------------------------------
(***************************************************************************)
(* The web consoles: the control plane's handler of one WebSocket per      *)
(* console, its counter of consoles per user, the revalidation loop, and   *)
(* the bridge that the node's agent runs around a shell.  A console of a   *)
(* VPS on the control plane's own host talks to LXD directly instead.      *)
(*                                                                         *)
(* The counter is read before the handler awaits the database and LXD, and *)
(* written after.  Times (60 s, 4 h) are steps that may always happen.     *)
(***************************************************************************)
EXTENDS Naturals, FiniteSets

CONSTANTS
    User, Vps, Console,
    Local,          \* the VPS that are on the control plane's own host
    MaxPerUser,     \* MAX_CONSOLES_PER_USER
    MaxStops,       \* bound on the times the control plane stops
    NoUser, NoVps

ASSUME ConsoleAssumption ==
    Local \subseteq Vps /\ IsFiniteSet(Console) /\ MaxPerUser \in Nat \ {0} /\ MaxStops \in Nat
    /\ NoUser \notin User /\ NoVps \notin Vps

VARIABLES
    ended,      \* the consoles whose session has ended
    disabled,   \* the users that are disabled
    gone,       \* the VPS that are deleted
    pc,         \* the handler of a console
    who, vps,   \* whose console it is, and of which VPS
    active,     \* _active_consoles
    link,       \* the WebSocket between control plane and agent
    shell,      \* the agent's bridge and its lxc exec process
    frame,      \* the frame on its way to the agent
    raced,      \* history: another console of the user was being set up too
    stops       \* stops so far

rights == <<ended, disabled, gone>>
host   == <<pc, who, vps, active, raced, stops>>
agent  == <<link, shell, frame>>
vars   == <<rights, host, agent>>

Init ==
    /\ ended = {} /\ disabled = {} /\ gone = {}
    /\ pc = [c \in Console |-> "none"] /\ active = [u \in User |-> 0]
    /\ who = [c \in Console |-> NoUser] /\ vps = [c \in Console |-> NoVps]
    /\ link = [c \in Console |-> "none"] /\ shell = [c \in Console |-> "none"]
    /\ frame = [c \in Console |-> "none"] /\ raced = {} /\ stops = 0

\* What the revalidation loop asks: not, as at the connection, for can_access.
StillGood(c) == c \notin ended /\ who[c] \notin disabled /\ vps[c] \notin gone
SettingUp(u) == {c \in Console : pc[c] = "setup" /\ who[c] = u}

-----------------------------------------------------------------------------
(* What others do.                                                         *)

\* Logout, revocation, expiry: Accounts shows that a session does not come back.
EndSession(c) ==
    /\ pc[c] # "none" /\ c \notin ended /\ ended' = ended \cup {c}
    /\ UNCHANGED <<disabled, gone, host, agent>>
Disable(u) ==
    /\ u \notin disabled /\ disabled' = disabled \cup {u} /\ UNCHANGED <<ended, gone, host, agent>>
Enable(u) ==
    /\ u \in disabled /\ disabled' = disabled \ {u} /\ UNCHANGED <<ended, gone, host, agent>>
DeleteVps(v) ==
    /\ v \notin gone /\ gone' = gone \cup {v} /\ UNCHANGED <<ended, disabled, host, agent>>

-----------------------------------------------------------------------------
(* The control plane's handler.                                            *)

\* Seeded fault of Connect: one console too many.
ConnectOneMore(c, u, v) ==
    /\ pc[c] = "none" /\ u \notin disabled /\ active[u] <= MaxPerUser /\ v \notin gone
    /\ pc' = [pc EXCEPT ![c] = "setup"]
    /\ who' = [who EXCEPT ![c] = u] /\ vps' = [vps EXCEPT ![c] = v]
    /\ raced' = IF SettingUp(u) = {} THEN raced ELSE raced \cup SettingUp(u) \cup {c}
    /\ UNCHANGED <<rights, active, stops, agent>>

\* The checks, the first of them the counter; the refusals change nothing.
Connect(c, u, v) ==
    /\ pc[c] = "none" /\ u \notin disabled /\ active[u] < MaxPerUser /\ v \notin gone
    /\ pc' = [pc EXCEPT ![c] = "setup"]
    /\ who' = [who EXCEPT ![c] = u] /\ vps' = [vps EXCEPT ![c] = v]
    /\ raced' = IF SettingUp(u) = {} THEN raced ELSE raced \cup SettingUp(u) \cup {c}
    /\ UNCHANGED <<rights, active, stops, agent>>

\* LXD refuses the exec of a local console, or the database fails: 1011.
SetupFails(c) ==
    /\ pc[c] = "setup" /\ pc' = [pc EXCEPT ![c] = "refused"]
    /\ UNCHANGED <<rights, who, vps, active, raced, stops, agent>>

\* The audit record is committed; the console is counted.
Admit(c) ==
    /\ pc[c] = "setup" /\ active' = [active EXCEPT ![who[c]] = @ + 1]
    /\ pc' = [pc EXCEPT ![c] = IF vps[c] \in Local THEN "relay" ELSE "dial"]
    /\ UNCHANGED <<rights, who, vps, raced, stops, agent>>

\* Seeded fault of Uncount: the counter is not given back.
UncountNothing(c) == UNCHANGED active
\* The finally clause of the agent's branch; the local branch returns before it.
Uncount(c) == active' = [active EXCEPT ![who[c]] = IF @ = 0 THEN 0 ELSE @ - 1]
Cut(c) == link' = [link EXCEPT ![c] = IF @ = "up" THEN "down" ELSE @]

\* The agent answers, or it does not: it may have accepted all the same.
Dial(c) ==
    /\ pc[c] = "dial" /\ pc' = [pc EXCEPT ![c] = "relay"]
    /\ link' = [link EXCEPT ![c] = "up"] /\ shell' = [shell EXCEPT ![c] = "starting"]
    /\ frame' = [frame EXCEPT ![c] = "start"]
    /\ UNCHANGED <<rights, who, vps, active, raced, stops>>
DialFails(c) ==
    /\ pc[c] = "dial" /\ pc' = [pc EXCEPT ![c] = "closed"] /\ Uncount(c)
    /\ \/ UNCHANGED <<link, shell>>
       \/ link' = [link EXCEPT ![c] = "down"] /\ shell' = [shell EXCEPT ![c] = "starting"]
    /\ UNCHANGED <<rights, who, vps, raced, stops, frame>>

\* One of the pumps or the revalidation has ended, or none has for four hours: the
\* others are cancelled and the connection to the agent is closed.
Close(c) ==
    /\ pc[c] = "relay" /\ vps[c] \notin Local /\ pc' = [pc EXCEPT ![c] = "closed"]
    /\ Uncount(c) /\ Cut(c) /\ UNCHANGED <<rights, who, vps, raced, stops, shell, frame>>
\* pump_to_agent: the browser leaves, or sends what is not a JSON object.
BrowserLeaves(c) == Close(c)
\* pump_to_client: the agent has closed.
AgentLeft(c) == link[c] = "down" /\ Close(c)
\* Seeded fault of LifetimeEnds: the timeout is forgotten.
LifetimeForgotten(c) == FALSE /\ UNCHANGED vars
\* asyncio.wait with its timeout of CONSOLE_MAX_LIFETIME_SECONDS.
LifetimeEnds(c) == Close(c)

\* Seeded fault of Revalidate: the session is checked, the VPS is not.
RevalidateSession(c) == (c \in ended \/ who[c] \in disabled) /\ Close(c)
\* revalidate_loop, when the database answers: errors count as valid.
Revalidate(c) == ~StillGood(c) /\ Close(c)

\* _relay_lxd_console: the browser leaves, or LXD's side ends.  It is awaited
\* without a revalidation loop and without a time limit, and nothing is counted
\* down when it returns.
LocalEnds(c) ==
    /\ pc[c] = "relay" /\ vps[c] \in Local /\ pc' = [pc EXCEPT ![c] = "closed"]
    /\ UNCHANGED <<rights, who, vps, active, raced, stops, agent>>

\* The frames of the browser: a resize is passed on as JSON, input as it is.
Forward(c, kind) ==
    /\ pc[c] = "relay" /\ link[c] = "up" /\ frame[c] = "none"
    /\ frame' = [frame EXCEPT ![c] = kind] /\ UNCHANGED <<rights, host, link, shell>>

\* The process stops: the counters are gone, the connections are closed.
Stop ==
    /\ stops < MaxStops /\ stops' = stops + 1
    /\ pc' = [c \in Console |-> IF pc[c] = "none" THEN "none" ELSE "cut"]
    /\ active' = [u \in User |-> 0]
    /\ link' = [c \in Console |-> IF link[c] = "up" THEN "down" ELSE link[c]]
    /\ UNCHANGED <<rights, who, vps, raced, shell, frame>>

-----------------------------------------------------------------------------
(* The agent's bridge.                                                     *)

Unheard == <<rights, host>>
\* The lxc exec process is spawned after the WebSocket is accepted, or is not.
Spawn(c) ==
    /\ shell[c] = "starting" /\ shell' = [shell EXCEPT ![c] = "running"]
    /\ UNCHANGED <<Unheard, link, frame>>
SpawnFails(c) ==
    /\ shell[c] = "starting" /\ shell' = [shell EXCEPT ![c] = "dead"] /\ Cut(c)
    /\ UNCHANGED <<Unheard, frame>>
\* read_ws: every frame is parsed as JSON; what is not ends it and kills the shell.
ReadFrame(c) ==
    /\ shell[c] = "running" /\ link[c] = "up" /\ frame[c] # "none"
    /\ frame' = [frame EXCEPT ![c] = "none"]
    /\ IF frame[c] \in {"start", "resize"} THEN UNCHANGED <<link, shell>>
       ELSE shell' = [shell EXCEPT ![c] = "dead"] /\ Cut(c)
    /\ UNCHANGED Unheard
\* Seeded fault of Hangup: the disconnection is not noticed until the shell ends.
HangupNever(c) == FALSE /\ UNCHANGED vars
\* read_ws: the other side has disconnected.
Hangup(c) ==
    /\ shell[c] = "running" /\ link[c] = "down" /\ shell' = [shell EXCEPT ![c] = "dead"]
    /\ UNCHANGED <<Unheard, link, frame>>
\* write_ws: the user's shell has ended.
ShellExits(c) ==
    /\ shell[c] = "running" /\ shell' = [shell EXCEPT ![c] = "dead"] /\ Cut(c)
    /\ UNCHANGED <<Unheard, frame>>
\* The network between the two is cut, and both sides notice (pings).
LinkBreaks(c) == link[c] = "up" /\ Cut(c) /\ UNCHANGED <<Unheard, shell, frame>>

-----------------------------------------------------------------------------
Bridge(c) == Spawn(c) \/ SpawnFails(c) \/ ReadFrame(c) \/ Hangup(c)
Handler(c) ==
    \/ Admit(c) \/ SetupFails(c) \/ Dial(c) \/ DialFails(c) \/ AgentLeft(c)
    \/ Revalidate(c) \/ LifetimeEnds(c)

Next ==
    \/ \E u \in User : Disable(u) \/ Enable(u)
    \/ \E v \in Vps : DeleteVps(v)
    \/ \E c \in Console :
          \/ \E u \in User, v \in Vps : Connect(c, u, v)
          \/ \E kind \in {"resize", "input"} : Forward(c, kind)
          \/ EndSession(c) \/ Handler(c) \/ BrowserLeaves(c) \/ LocalEnds(c)
          \/ Bridge(c) \/ ShellExits(c) \/ LinkBreaks(c)
    \/ Stop

Spec == Init /\ [][Next]_vars

\* The event loops run what can run, and the database does not fail at every
\* revalidation.  Nobody has to leave: not the browser, not the shell; and the
\* four hours are not counted on, except where a property says so.
Fairness ==
    \A c \in Console :
       /\ WF_vars(Admit(c) \/ SetupFails(c)) /\ WF_vars(Dial(c) \/ DialFails(c))
       /\ WF_vars(Revalidate(c)) /\ WF_vars(AgentLeft(c)) /\ WF_vars(Bridge(c))
FairSpec == Spec /\ Fairness

-----------------------------------------------------------------------------
(* Properties.                                                             *)
Open(c) == pc[c] \in {"dial", "relay"}
Remote(c) == vps[c] \in Vps \ Local

\* The counter is exact for the consoles of agents, whichever way they end; for
\* those of the local machine it counts the ones ever opened.
CounterCounts ==
    \A u \in User : active[u] = Cardinality({c \in Console : who[c] = u /\
        (IF Remote(c) THEN Open(c) ELSE pc[c] \in {"relay", "closed"})})

\* A user has more consoles open than allowed only when their set-ups overlapped,
\* each having read the counter before the other was counted.
CapOnlyRaced ==
    \A u \in User : Cardinality({c \in Console : Open(c) /\ who[c] = u}) > MaxPerUser
        => \E c \in raced : Open(c) /\ who[c] = u

\* Logout, revocation, a disabled user and the deletion of the VPS close an agent's
\* console long before its lifetime does, unless the right comes back first.
LostRightsClose ==
    \A c \in Console : (Open(c) /\ Remote(c) /\ ~StillGood(c)) ~> (~Open(c) \/ StillGood(c))

\* An agent's console ends although nobody ends it, when its four hours pass.
LifetimeIsBounded ==
    (\A c \in Console : WF_vars(LifetimeEnds(c)))
        => \A c \in Console : (Open(c) /\ Remote(c)) ~> ~Open(c)

\* The shell of a console that is over is killed, even when the console ended
\* while the agent was still starting it or its control plane has stopped.
NoOrphanShell ==
    \A c \in Console : (~Open(c) /\ shell[c] \in {"starting", "running"}) ~> shell[c] = "dead"

-----------------------------------------------------------------------------
(* What the documentation says and the code does not keep.                 *)

\* "relays JSON frames {type: start|resize|input} toward the agent": what a user
\* types reaches the shell instead of ending it.
InputReachesShell ==
    [][\A c \in Console : frame[c] = "input" /\ frame'[c] = "none" => shell'[c] = "running"]_vars
=============================================================================
