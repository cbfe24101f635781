---------------------------- MODULE ConsoleProofs ----------------------------
(* Proofs about Console, for any number of users, VPS and consoles, any cap *)
(* and any number of stops.                                                 *)
EXTENDS Console, FiniteSetTheorems, TLAPS

-----------------------------------------------------------------------------
(* The inductive invariant.                                                *)
Typed ==
    /\ pc \in [Console -> {"none", "setup", "dial", "relay", "closed", "refused", "cut"}]
    /\ who \in [Console -> User \cup {NoUser}] /\ vps \in [Console -> Vps \cup {NoVps}]
    /\ active \in [User -> Nat]

\* A console that was connected has a user and a VPS, and only an agent is dialled.
Shape == \A c \in Console : /\ pc[c] # "none" => who[c] \in User /\ vps[c] \in Vps
                            /\ pc[c] = "dial" => Remote(c)

Counts(c) == IF Remote(c) THEN Open(c) ELSE pc[c] \in {"relay", "closed"}
Counted(u) == {c \in Console : who[c] = u /\ Counts(c)}

\* A set-up that no other has overlapped still has the room that it read.
RoomLeft ==
    \A c \in Console : pc[c] = "setup" /\ c \notin raced =>
        active[who[c]] < MaxPerUser /\ SettingUp(who[c]) = {c}
\* The consoles whose set-up nobody overlapped fit the cap.
Unraced(u) == {c \in Console : who[c] = u /\ Open(c) /\ c \notin raced}
UnracedFit == \A u \in User : Cardinality(Unraced(u)) <= MaxPerUser

Inv == Typed /\ Shape /\ CounterCounts /\ RoomLeft /\ UnracedFit

LEMMA CountersCount == CounterCounts <=> \A u \in User : active[u] = Cardinality(Counted(u))
BY DEF CounterCounts, Counted, Counts

LEMMA Finite ==
    \A u : /\ IsFiniteSet(Counted(u)) /\ Cardinality(Counted(u)) \in Nat
           /\ IsFiniteSet(Unraced(u)) /\ Cardinality(Unraced(u)) \in Nat
<1> SUFFICES ASSUME NEW u
             PROVE  /\ IsFiniteSet(Counted(u)) /\ Cardinality(Counted(u)) \in Nat
                    /\ IsFiniteSet(Unraced(u)) /\ Cardinality(Unraced(u)) \in Nat
  OBVIOUS
<1>1. Counted(u) \in SUBSET Console /\ Unraced(u) \in SUBSET Console
  BY DEF Counted, Unraced
<1>2. IsFiniteSet(Counted(u)) /\ IsFiniteSet(Unraced(u))
  BY <1>1, FS_Subset, ConsoleAssumption
<1> QED BY <1>2, FS_CardinalityType

\* Open consoles are counted ones: the cap that is read bounds them.
LEMMA UnracedAreCounted ==
    ASSUME Shape, CounterCounts, NEW u \in User
    PROVE  Cardinality(Unraced(u)) <= active[u]
<1>1. Unraced(u) \in SUBSET Counted(u)
  BY DEF Shape, Unraced, Counted, Counts, Open
<1>2. Cardinality(Unraced(u)) <= Cardinality(Counted(u))
  BY <1>1, Finite, FS_Subset
<1> QED BY <1>2, CountersCount

\* How a step may move a counter and what it counts.
LEMMA CounterKeeps ==
    ASSUME CounterCounts, active \in [User -> Nat],
           \A u \in User :
              \/ active'[u] = active[u] /\ Counted(u)' = Counted(u)
              \/ /\ active'[u] = active[u] + 1
                 /\ \E c : c \notin Counted(u) /\ Counted(u)' = Counted(u) \cup {c}
              \/ /\ active'[u] = IF active[u] = 0 THEN 0 ELSE active[u] - 1
                 /\ \E c \in Counted(u) : Counted(u)' = Counted(u) \ {c}
    PROVE  CounterCounts'
<1>1. ASSUME NEW u \in User PROVE active'[u] = Cardinality(Counted(u)')
  <2>1. active[u] = Cardinality(Counted(u)) /\ active[u] \in Nat /\ IsFiniteSet(Counted(u))
    BY CountersCount, Finite
  <2>2. CASE active'[u] = active[u] /\ Counted(u)' = Counted(u)
    BY <2>1, <2>2
  <2>3. ASSUME active'[u] = active[u] + 1, NEW c, c \notin Counted(u), Counted(u)' = Counted(u) \cup {c}
        PROVE  active'[u] = Cardinality(Counted(u)')
    <3>1. Cardinality(Counted(u) \cup {c}) = Cardinality(Counted(u)) + 1
      BY <2>1, <2>3, FS_AddElement
    <3> QED BY <2>1, <2>3, <3>1
  <2>4. ASSUME active'[u] = IF active[u] = 0 THEN 0 ELSE active[u] - 1, NEW c \in Counted(u),
               Counted(u)' = Counted(u) \ {c}
        PROVE  active'[u] = Cardinality(Counted(u)')
    <3>1. Cardinality(Counted(u) \ {c}) = Cardinality(Counted(u)) - 1
      BY <2>1, <2>4, FS_RemoveElement
    <3>2. Cardinality(Counted(u)) # 0
      BY <2>1, <2>4, FS_EmptySet
    <3> QED BY <2>1, <2>4, <3>1, <3>2
  <2> QED BY <2>2, <2>3, <2>4
<1> QED BY <1>1 DEF CounterCounts, Counted, Counts

\* Fewer consoles are open, or more of them raced.
LEMMA FewerFit ==
    ASSUME UnracedFit, NEW u \in User, Unraced(u)' \subseteq Unraced(u)
    PROVE  Cardinality(Unraced(u)') <= MaxPerUser
<1>1. Cardinality(Unraced(u)') <= Cardinality(Unraced(u)) /\ IsFiniteSet(Unraced(u)')
  BY Finite, FS_Subset
<1>2. /\ Cardinality(Unraced(u)') \in Nat /\ Cardinality(Unraced(u)) \in Nat /\ MaxPerUser \in Nat
      /\ Cardinality(Unraced(u)) <= MaxPerUser
  BY <1>1, Finite, FS_CardinalityType, ConsoleAssumption DEF UnracedFit
<1> QED BY <1>1, <1>2

-----------------------------------------------------------------------------
(* The steps.                                                              *)

LEMMA ConnectKeeps ==
    ASSUME Inv, NEW c \in Console, NEW u \in User, NEW v \in Vps, Connect(c, u, v)
    PROVE  Inv'
<1>1. /\ pc[c] = "none" /\ pc' = [pc EXCEPT ![c] = "setup"] /\ active[u] < MaxPerUser
      /\ who' = [who EXCEPT ![c] = u] /\ vps' = [vps EXCEPT ![c] = v] /\ active' = active
      /\ raced' = IF SettingUp(u) = {} THEN raced ELSE raced \cup SettingUp(u) \cup {c}
  BY DEF Connect
<1>2. /\ pc'[c] = "setup" /\ who'[c] = u /\ vps'[c] = v
      /\ \A d \in Console \ {c} : pc'[d] = pc[d] /\ who'[d] = who[d] /\ vps'[d] = vps[d]
  BY <1>1 DEF Inv, Typed
<1>3. Typed'
  BY <1>1 DEF Inv, Typed
<1>4. Shape'
  BY <1>2 DEF Inv, Shape, Remote
<1>5. \A w \in User : Counted(w)' = Counted(w)
  BY <1>1, <1>2 DEF Counted, Counts, Open, Remote
<1>6. CounterCounts'
  BY <1>1, <1>5, CounterKeeps DEF Inv, Typed
<1>7. RoomLeft'
  <2> SUFFICES ASSUME NEW d \in Console, pc'[d] = "setup", d \notin raced'
               PROVE  /\ active[who'[d]] < MaxPerUser
                      /\ {e \in Console : pc'[e] = "setup" /\ who'[e] = who'[d]} = {d}
    BY <1>1 DEF RoomLeft, SettingUp
  <2>1. CASE d = c
    <3>1. SettingUp(u) = {}
      BY <1>1, <2>1
    <3> QED BY <1>1, <1>2, <2>1, <3>1 DEF SettingUp
  <2>2. CASE d # c
    <3>1. pc[d] = "setup" /\ who'[d] = who[d] /\ d \notin raced /\ d \in SettingUp(who[d])
      BY <1>1, <1>2, <2>2 DEF SettingUp
    <3>2. active[who[d]] < MaxPerUser /\ SettingUp(who[d]) = {d}
      BY <3>1 DEF Inv, RoomLeft
    <3>3. who[d] # u
      BY <1>1, <3>1
    <3> QED BY <1>2, <3>1, <3>2, <3>3 DEF SettingUp
  <2> QED BY <2>1, <2>2
<1>8. \A w \in User : Unraced(w)' \subseteq Unraced(w)
  BY <1>1, <1>2 DEF Unraced, Open
<1>9. UnracedFit'
  BY <1>8, FewerFit DEF Inv, UnracedFit
<1> QED BY <1>3, <1>4, <1>6, <1>7, <1>9 DEF Inv

\* A console moves on.
Moves(c, to) == pc' = [pc EXCEPT ![c] = to] /\ UNCHANGED <<who, vps, raced>>
LEMMA MovesTyped ==
    ASSUME Typed, NEW c \in Console, NEW to, Moves(c, to),
           to \in {"none", "setup", "dial", "relay", "closed", "refused", "cut"}
    PROVE  /\ pc' \in [Console -> {"none", "setup", "dial", "relay", "closed", "refused", "cut"}]
           /\ pc'[c] = to /\ \A d \in Console \ {c} : pc'[d] = pc[d]
BY DEF Typed, Moves

\* A set-up ends: what the others have read still holds, if their counter is not moved.
LEMMA RoomKeeps ==
    ASSUME RoomLeft, UNCHANGED <<who, raced>>,
           \A d \in Console : pc'[d] = "setup" => pc[d] = "setup",
           \A d \in Console : pc'[d] = "setup" /\ d \notin raced =>
              active'[who[d]] < MaxPerUser
    PROVE  RoomLeft'
<1> SUFFICES ASSUME NEW d \in Console, pc'[d] = "setup", d \notin raced
             PROVE  active'[who[d]] < MaxPerUser /\ SettingUp(who[d])' = {d}
  BY DEF RoomLeft, SettingUp
<1>1. SettingUp(who[d]) = {d}
  BY DEF RoomLeft
<1> QED BY <1>1 DEF SettingUp

LEMMA AdmitKeeps == ASSUME Inv, NEW c \in Console, Admit(c), NEW u, who[c] = u PROVE Inv'
<1> DEFINE to == IF vps[c] \in Local THEN "relay" ELSE "dial"
<1>1. /\ pc[c] = "setup" /\ Moves(c, to) /\ u \in User /\ vps[c] \in Vps
      /\ active' = [active EXCEPT ![u] = @ + 1]
  BY DEF Admit, Moves, Inv, Shape
<1>2. /\ pc' \in [Console -> {"none", "setup", "dial", "relay", "closed", "refused", "cut"}]
      /\ pc'[c] = to /\ \A d \in Console \ {c} : pc'[d] = pc[d]
  BY <1>1, MovesTyped DEF Inv
<1>3. /\ active' \in [User -> Nat] /\ active'[u] = active[u] + 1
      /\ \A w \in User \ {u} : active'[w] = active[w]
  BY <1>1 DEF Inv, Typed
<1>4. Typed'
  BY <1>1, <1>2, <1>3 DEF Inv, Typed, Moves
<1>5. Shape'
  BY <1>1, <1>2 DEF Inv, Shape, Moves, Remote
<1>6. c \notin Counted(u) /\ Counted(u)' = Counted(u) \cup {c}
  BY <1>1, <1>2 DEF Counted, Counts, Open, Remote, Moves
<1>7. \A w \in User \ {u} : Counted(w)' = Counted(w)
  BY <1>1, <1>2 DEF Counted, Counts, Open, Remote, Moves
<1>8. CounterCounts'
  <2> SUFFICES ASSUME NEW w \in User
               PROVE  \/ active'[w] = active[w] /\ Counted(w)' = Counted(w)
                      \/ /\ active'[w] = active[w] + 1
                         /\ \E d : d \notin Counted(w) /\ Counted(w)' = Counted(w) \cup {d}
    BY CounterKeeps DEF Inv, Typed
  <2> QED BY <1>3, <1>6, <1>7
<1>9. ASSUME NEW d \in Console, pc'[d] = "setup", d \notin raced PROVE active'[who[d]] < MaxPerUser
  <2>1. pc[d] = "setup" /\ d # c /\ who[d] \in User
    BY <1>2, <1>9 DEF Inv, Shape
  <2>2. active[who[d]] < MaxPerUser /\ SettingUp(who[d]) = {d}
    BY <1>9, <2>1 DEF Inv, RoomLeft
  <2>3. who[d] # u
    BY <1>1, <2>1, <2>2 DEF SettingUp
  <2> QED BY <1>3, <2>1, <2>2, <2>3
<1>10. RoomLeft'
  BY <1>1, <1>2, <1>9, RoomKeeps DEF Inv, Moves
<1>11. UnracedFit'
  <2> SUFFICES ASSUME NEW w \in User PROVE Cardinality(Unraced(w)') <= MaxPerUser
    BY DEF UnracedFit
  <2>1. CASE w # u \/ c \in raced
    <3>1. Unraced(w)' \subseteq Unraced(w)
      BY <1>1, <1>2, <2>1 DEF Unraced, Open, Moves
    <3> QED BY <3>1, FewerFit DEF Inv
  <2>2. CASE w = u /\ c \notin raced
    <3>1. active[u] < MaxPerUser
      BY <1>1, <2>2 DEF Inv, RoomLeft
    <3>2. Cardinality(Unraced(u)) <= active[u]
      BY <1>1, UnracedAreCounted DEF Inv
    <3>3. Unraced(u)' = Unraced(u) \cup {c} /\ c \notin Unraced(u)
      BY <1>1, <1>2, <2>2 DEF Unraced, Open, Moves
    <3>4. Cardinality(Unraced(u) \cup {c}) = Cardinality(Unraced(u)) + 1
      BY <3>3, Finite, FS_AddElement
    <3>5. Cardinality(Unraced(u)) \in Nat /\ active[u] \in Nat /\ MaxPerUser \in Nat
      BY <1>1, Finite, ConsoleAssumption DEF Inv, Typed
    <3>6. Cardinality(Unraced(u)) + 1 <= MaxPerUser
      BY <3>1, <3>2, <3>5
    <3> QED BY <2>2, <3>3, <3>4, <3>6
  <2> QED BY <2>1, <2>2
<1> QED BY <1>4, <1>5, <1>8, <1>10, <1>11 DEF Inv

\* A console of an agent ends and is uncounted.
LEMMA UncountKeeps ==
    ASSUME Inv, NEW c \in Console, pc[c] \in {"dial", "relay"}, Remote(c), Moves(c, "closed"), Uncount(c),
           NEW u, who[c] = u
    PROVE  Inv'
<1>1. /\ u \in User /\ active' = [active EXCEPT ![u] = IF @ = 0 THEN 0 ELSE @ - 1]
      /\ UNCHANGED <<who, vps, raced>>
  BY DEF Inv, Shape, Uncount, Moves
<1>2. /\ pc' \in [Console -> {"none", "setup", "dial", "relay", "closed", "refused", "cut"}]
      /\ pc'[c] = "closed" /\ \A d \in Console \ {c} : pc'[d] = pc[d]
  BY MovesTyped DEF Inv
<1>3. /\ active' \in [User -> Nat] /\ active'[u] = IF active[u] = 0 THEN 0 ELSE active[u] - 1
      /\ \A w \in User \ {u} : active'[w] = active[w]
  BY <1>1 DEF Inv, Typed
<1>4. Typed' /\ Shape'
  BY <1>1, <1>2, <1>3 DEF Inv, Typed, Shape, Remote
<1>5. c \in Counted(u) /\ Counted(u)' = Counted(u) \ {c}
  BY <1>1, <1>2 DEF Counted, Counts, Open, Remote
<1>6. \A w \in User \ {u} : Counted(w)' = Counted(w)
  BY <1>1, <1>2 DEF Counted, Counts, Open, Remote
<1>7. CounterCounts'
  <2> SUFFICES ASSUME NEW w \in User
               PROVE  \/ active'[w] = active[w] /\ Counted(w)' = Counted(w)
                      \/ /\ active'[w] = IF active[w] = 0 THEN 0 ELSE active[w] - 1
                         /\ \E d \in Counted(w) : Counted(w)' = Counted(w) \ {d}
    BY CounterKeeps DEF Inv, Typed
  <2> QED BY <1>3, <1>5, <1>6
<1>8. ASSUME NEW d \in Console, pc'[d] = "setup", d \notin raced PROVE active'[who[d]] < MaxPerUser
  <2>1. pc[d] = "setup" /\ who[d] \in User
    BY <1>2, <1>8 DEF Inv, Shape
  <2>2. active[who[d]] < MaxPerUser /\ active[who[d]] \in Nat /\ MaxPerUser \in Nat
    BY <1>8, <2>1, ConsoleAssumption DEF Inv, RoomLeft, Typed
  <2> QED BY <1>3, <2>1, <2>2
<1>9. RoomLeft'
  BY <1>1, <1>2, <1>8, RoomKeeps DEF Inv
<1>10. UnracedFit'
  <2>1. \A w \in User : Unraced(w)' \subseteq Unraced(w)
    BY <1>1, <1>2 DEF Unraced, Open
  <2> QED BY <2>1, FewerFit DEF Inv, UnracedFit
<1> QED BY <1>4, <1>7, <1>9, <1>10 DEF Inv

\* A console moves on and the counter stays.
LEMMA QuietKeeps ==
    ASSUME Inv, NEW c \in Console,
           \/ pc[c] = "setup" /\ Moves(c, "refused")
           \/ pc[c] = "dial" /\ Moves(c, "relay")
           \/ pc[c] = "relay" /\ vps[c] \in Local /\ Moves(c, "closed"),
           UNCHANGED active
    PROVE  Inv'
<1>1. UNCHANGED <<who, vps, raced>>
  BY DEF Moves
<1>2. /\ pc' \in [Console -> {"none", "setup", "dial", "relay", "closed", "refused", "cut"}]
      /\ pc'[c] \in {"refused", "relay", "closed"} /\ \A d \in Console \ {c} : pc'[d] = pc[d]
      /\ pc[c] = "setup" => pc'[c] = "refused"
      /\ pc[c] = "dial" => pc'[c] = "relay"
      /\ pc[c] = "relay" => pc'[c] = "closed" /\ vps[c] \in Local
      /\ pc[c] \in {"setup", "dial", "relay"}
  BY MovesTyped DEF Inv
<1>3. Typed' /\ Shape'
  BY <1>1, <1>2 DEF Inv, Typed, Shape, Remote
<1>4. \A w \in User : Counted(w)' = Counted(w)
  BY <1>1, <1>2 DEF Counted, Counts, Open, Remote, Inv, Shape
<1>5. CounterCounts'
  BY <1>4, CounterKeeps DEF Inv, Typed
<1>6. RoomLeft'
  BY <1>1, <1>2, RoomKeeps DEF Inv, RoomLeft
<1>7. \A w \in User : Unraced(w)' \subseteq Unraced(w)
  BY <1>1, <1>2 DEF Unraced, Open
<1>8. UnracedFit'
  BY <1>7, FewerFit DEF Inv, UnracedFit
<1> QED BY <1>3, <1>5, <1>6, <1>8 DEF Inv

\* The process stops, and its counters with it.
LEMMA StopKeeps == ASSUME Inv, Stop PROVE Inv'
<1>1. /\ pc' = [c \in Console |-> IF pc[c] = "none" THEN "none" ELSE "cut"]
      /\ active' = [u \in User |-> 0] /\ UNCHANGED <<who, vps, raced>>
  BY DEF Stop
<1>2. Typed' /\ Shape'
  BY <1>1 DEF Inv, Typed, Shape, Remote
<1>3. \A u \in User : Counted(u)' = {} /\ Unraced(u)' = {}
  BY <1>1 DEF Counted, Counts, Unraced, Open
<1>4. CounterCounts'
  <2>1. \A u \in User : active'[u] = Cardinality(Counted(u)')
    BY <1>1, <1>3, FS_EmptySet
  <2> QED BY <2>1 DEF CounterCounts, Counted, Counts
<1>5. RoomLeft'
  BY <1>1 DEF RoomLeft
<1>6. UnracedFit'
  BY <1>3, FS_EmptySet, ConsoleAssumption DEF UnracedFit
<1> QED BY <1>2, <1>4, <1>5, <1>6 DEF Inv

LEMMA SameKeeps == ASSUME Inv, UNCHANGED <<pc, who, vps, active, raced>> PROVE Inv'
<1>1. Typed' /\ Shape'
  BY DEF Inv, Typed, Shape, Remote
<1>2. CounterCounts'
  BY DEF Inv, CounterCounts, Open, Remote
<1>3. RoomLeft' /\ UnracedFit'
  BY DEF Inv, RoomLeft, SettingUp, UnracedFit, Unraced, Open
<1> QED BY <1>1, <1>2, <1>3 DEF Inv

-----------------------------------------------------------------------------
LEMMA InitInv == Init => Inv
<1> SUFFICES ASSUME Init PROVE Inv
  OBVIOUS
<1>1. Typed /\ Shape
  BY DEF Init, Typed, Shape
<1>2. \A u \in User : Counted(u) = {} /\ Unraced(u) = {}
  BY DEF Init, Counted, Counts, Unraced, Open
<1>3. CounterCounts /\ UnracedFit
  BY <1>2, FS_EmptySet, CountersCount, ConsoleAssumption DEF Init, UnracedFit
<1>4. RoomLeft
  BY DEF Init, RoomLeft
<1> QED BY <1>1, <1>3, <1>4 DEF Inv

LEMMA NextKeeps == Inv /\ [Next]_vars => Inv'
<1> SUFFICES ASSUME Inv, [Next]_vars PROVE Inv'
  OBVIOUS
<1>1. ASSUME NEW c \in Console, NEW u \in User, NEW v \in Vps, Connect(c, u, v) PROVE Inv'
  BY <1>1, ConnectKeeps
<1>2. ASSUME NEW c \in Console, Admit(c) PROVE Inv'
  BY <1>2, AdmitKeeps
<1>3. ASSUME NEW c \in Console, SetupFails(c) \/ Dial(c) \/ LocalEnds(c) PROVE Inv'
  BY <1>3, QuietKeeps DEF SetupFails, Dial, LocalEnds, Moves
<1>4. ASSUME NEW c \in Console, DialFails(c) \/ Close(c) PROVE Inv'
  <2>1. pc[c] \in {"dial", "relay"} /\ Moves(c, "closed") /\ Uncount(c)
    BY <1>4 DEF DialFails, Close, Moves
  <2>2. Remote(c)
    BY <1>4 DEF DialFails, Close, Inv, Shape, Remote
  <2> QED BY <2>1, <2>2, UncountKeeps
<1>5. ASSUME NEW c \in Console, Bridge(c) \/ ShellExits(c) \/ LinkBreaks(c) \/ EndSession(c)
                                \/ \E kind \in {"resize", "input"} : Forward(c, kind)
      PROVE  Inv'
  BY <1>5, SameKeeps DEF Bridge, Spawn, SpawnFails, ReadFrame, Hangup, ShellExits, LinkBreaks,
     EndSession, Forward, Unheard, host
<1>6. ASSUME NEW c \in Console, Handler(c) \/ BrowserLeaves(c) PROVE Inv'
  BY <1>2, <1>3, <1>4, <1>6 DEF Handler, AgentLeft, Revalidate, LifetimeEnds, BrowserLeaves
<1>7. CASE (\E u \in User : Disable(u) \/ Enable(u)) \/ (\E v \in Vps : DeleteVps(v)) \/ UNCHANGED vars
  BY <1>7, SameKeeps DEF Disable, Enable, DeleteVps, vars, host
<1> QED BY <1>1, <1>3, <1>5, <1>6, <1>7, StopKeeps DEF Next

LEMMA Invariance == Spec => []Inv
BY InitInv, NextKeeps, PTL DEF Spec

-----------------------------------------------------------------------------
(* The agent's side: a link is up only under a handler that relays, and a   *)
(* shell always has a link to hear the end of.                             *)
AgentTyped ==
    /\ link \in [Console -> {"none", "up", "down"}]
    /\ shell \in [Console -> {"none", "starting", "running", "dead"}]
    /\ frame \in [Console -> {"none", "start", "resize", "input"}]
LinksRelayed == \A c \in Console : link[c] = "up" => pc[c] = "relay" /\ Remote(c)
ShellsLinked == \A c \in Console : shell[c] # "none" => link[c] # "none"
AgentInv == AgentTyped /\ LinksRelayed /\ ShellsLinked

\* The agent loses its link, or not, and does what it does with its shell.
LEMMA BridgeKeeps ==
    ASSUME Inv, AgentInv, NEW c \in Console, UNCHANGED host,
           link' = link \/ Cut(c),
           NEW x \in {"none", "starting", "running", "dead"},
           shell' = shell \/ (shell[c] # "none" /\ shell' = [shell EXCEPT ![c] = x]),
           frame' = frame \/ frame' = [frame EXCEPT ![c] = "none"]
    PROVE  AgentInv'
<1>1. /\ link' \in [Console -> {"none", "up", "down"}]
      /\ \A d \in Console : (link'[d] = "up" => link[d] = "up") /\ (link[d] # "none" => link'[d] # "none")
  BY DEF AgentInv, AgentTyped, Cut
<1>2. /\ shell' \in [Console -> {"none", "starting", "running", "dead"}]
      /\ \A d \in Console : shell'[d] # "none" => shell[d] # "none"
  BY DEF AgentInv, AgentTyped
<1>3. frame' \in [Console -> {"none", "start", "resize", "input"}]
  BY DEF AgentInv, AgentTyped
<1>4. LinksRelayed'
  BY <1>1 DEF AgentInv, LinksRelayed, Remote, host
<1>5. ShellsLinked'
  BY <1>1, <1>2 DEF AgentInv, ShellsLinked
<1> QED BY <1>1, <1>2, <1>3, <1>4, <1>5 DEF AgentInv, AgentTyped

\* A handler moves while its link stays, is cut, or is not there.
LEMMA HandlerKeeps ==
    ASSUME Inv, AgentInv, NEW c \in Console, UNCHANGED <<shell, frame>>,
           \A d \in Console \ {c} : pc'[d] = pc[d] /\ vps'[d] = vps[d],
           \/ UNCHANGED link /\ (pc[c] # "relay" \/ ~Remote(c))
           \/ Cut(c)
    PROVE  AgentInv'
<1>1. /\ link' \in [Console -> {"none", "up", "down"}] /\ link'[c] # "up"
      /\ \A d \in Console : (link'[d] = "up" => link[d] = "up") /\ (link[d] # "none" => link'[d] # "none")
  BY DEF AgentInv, AgentTyped, LinksRelayed, Cut
<1>2. LinksRelayed'
  BY <1>1 DEF AgentInv, LinksRelayed, Remote
<1>3. ShellsLinked'
  BY <1>1 DEF AgentInv, ShellsLinked
<1> QED BY <1>1, <1>2, <1>3 DEF AgentInv, AgentTyped

LEMMA DialKeeps ==
    ASSUME Inv, AgentInv, NEW c \in Console, Dial(c) \/ DialFails(c) PROVE AgentInv'
<1>1. Remote(c) /\ link[c] # "up" /\ vps' = vps
  BY DEF Dial, DialFails, Inv, Shape, AgentInv, LinksRelayed
<1>2. CASE Dial(c)
  <2>1. /\ link' = [link EXCEPT ![c] = "up"] /\ shell' = [shell EXCEPT ![c] = "starting"]
        /\ frame' = [frame EXCEPT ![c] = "start"] /\ pc' = [pc EXCEPT ![c] = "relay"]
    BY <1>2 DEF Dial
  <2>2. AgentTyped'
    BY <2>1 DEF AgentInv, AgentTyped
  <2>3. LinksRelayed'
    BY <1>1, <2>1 DEF Inv, Typed, AgentInv, AgentTyped, LinksRelayed, Remote
  <2>4. ShellsLinked'
    BY <2>1 DEF AgentInv, AgentTyped, ShellsLinked
  <2> QED BY <2>2, <2>3, <2>4 DEF AgentInv
<1>3. CASE DialFails(c)
  <2>1. /\ frame' = frame /\ pc' = [pc EXCEPT ![c] = "closed"] /\ pc[c] = "dial"
        /\ \/ UNCHANGED <<link, shell>>
           \/ link' = [link EXCEPT ![c] = "down"] /\ shell' = [shell EXCEPT ![c] = "starting"]
    BY <1>3 DEF DialFails
  <2>2. AgentTyped'
    BY <2>1 DEF AgentInv, AgentTyped
  <2>3. LinksRelayed'
    BY <1>1, <2>1 DEF Inv, Typed, AgentInv, AgentTyped, LinksRelayed, Remote
  <2>4. ShellsLinked'
    BY <2>1 DEF AgentInv, AgentTyped, ShellsLinked
  <2> QED BY <2>2, <2>3, <2>4 DEF AgentInv
<1> QED BY <1>2, <1>3

LEMMA NextAgent == Inv /\ AgentInv /\ [Next]_vars => AgentInv'
<1> SUFFICES ASSUME Inv, AgentInv, [Next]_vars PROVE AgentInv'
  OBVIOUS
<1>1. ASSUME UNCHANGED <<pc, vps, agent>> PROVE AgentInv'
  BY <1>1 DEF agent, AgentInv, AgentTyped, LinksRelayed, Remote, ShellsLinked
<1>2. CASE (\E u \in User : Disable(u) \/ Enable(u)) \/ (\E v \in Vps : DeleteVps(v)) \/ UNCHANGED vars
  BY <1>1, <1>2 DEF Disable, Enable, DeleteVps, vars, host
<1>3. ASSUME NEW c \in Console, NEW u \in User, NEW v \in Vps, Connect(c, u, v) PROVE AgentInv'
  <2>1. \A d \in Console \ {c} : pc'[d] = pc[d] /\ vps'[d] = vps[d]
    BY <1>3 DEF Connect, Inv, Typed
  <2> QED BY <1>3, <2>1, HandlerKeeps DEF Connect, agent
<1>4. ASSUME NEW c \in Console, SetupFails(c) \/ Admit(c) \/ LocalEnds(c) PROVE AgentInv'
  <2>1. \A d \in Console \ {c} : pc'[d] = pc[d] /\ vps'[d] = vps[d]
    BY <1>4 DEF SetupFails, Admit, LocalEnds, Inv, Typed
  <2>2. pc[c] # "relay" \/ ~Remote(c)
    BY <1>4 DEF SetupFails, Admit, LocalEnds, Remote
  <2>3. UNCHANGED <<link, shell, frame>>
    BY <1>4 DEF SetupFails, Admit, LocalEnds, agent
  <2> QED BY <2>1, <2>2, <2>3, HandlerKeeps
<1>5. ASSUME NEW c \in Console, Close(c) PROVE AgentInv'
  <2>1. \A d \in Console \ {c} : pc'[d] = pc[d] /\ vps'[d] = vps[d]
    BY <1>5 DEF Close, Inv, Typed
  <2> QED BY <1>5, <2>1, HandlerKeeps DEF Close
<1>6. ASSUME NEW c \in Console, Dial(c) \/ DialFails(c) PROVE AgentInv'
  BY <1>6, DialKeeps
<1>7. ASSUME NEW c \in Console, EndSession(c) PROVE AgentInv'
  BY <1>1, <1>7 DEF EndSession, host
<1>8. ASSUME NEW c \in Console, NEW kind \in {"resize", "input"}, Forward(c, kind) PROVE AgentInv'
  <2>1. frame' \in [Console -> {"none", "start", "resize", "input"}]
    BY <1>8 DEF Forward, AgentInv, AgentTyped
  <2> QED BY <1>8, <2>1 DEF Forward, host, AgentInv, AgentTyped, LinksRelayed, Remote, ShellsLinked
<1>9. ASSUME NEW c \in Console, Bridge(c) \/ ShellExits(c) \/ LinkBreaks(c) PROVE AgentInv'
  <2>1. CASE Spawn(c)
    BY <2>1, BridgeKeeps DEF Spawn, Unheard
  <2>2. CASE SpawnFails(c)
    BY <2>2, BridgeKeeps DEF SpawnFails, Unheard
  <2>3. CASE ReadFrame(c)
    BY <2>3, BridgeKeeps DEF ReadFrame, Unheard
  <2>4. CASE Hangup(c)
    BY <2>4, BridgeKeeps DEF Hangup, Unheard
  <2>5. CASE ShellExits(c)
    BY <2>5, BridgeKeeps DEF ShellExits, Unheard
  <2>6. CASE LinkBreaks(c)
    BY <2>6, BridgeKeeps DEF LinkBreaks, Unheard
  <2> QED BY <1>9, <2>1, <2>2, <2>3, <2>4, <2>5, <2>6 DEF Bridge
<1>10. CASE Stop
  <2>1. /\ link' \in [Console -> {"none", "up", "down"}]
        /\ \A c \in Console : link'[c] # "up" /\ (link[c] # "none" => link'[c] # "none")
    BY <1>10 DEF Stop, AgentInv, AgentTyped
  <2>2. UNCHANGED <<shell, frame>>
    BY <1>10 DEF Stop
  <2> QED BY <2>1, <2>2 DEF AgentInv, AgentTyped, LinksRelayed, ShellsLinked
<1>11. ASSUME NEW c \in Console, Handler(c) \/ BrowserLeaves(c) PROVE AgentInv'
  BY <1>4, <1>5, <1>6, <1>11 DEF Handler, AgentLeft, Revalidate, LifetimeEnds, BrowserLeaves
<1> QED BY <1>2, <1>3, <1>4, <1>7, <1>8, <1>9, <1>10, <1>11 DEF Next

-----------------------------------------------------------------------------
(* The theorems.                                                           *)

\* _active_consoles counts a user's open consoles on agents, and the ones on the local
\* machine ever opened, whichever way they end (console_ws, _relay_lxd_console).
THEOREM CounterIsExact == Spec => []CounterCounts
BY Invariance, PTL DEF Inv

\* More consoles than the cap are open only when their set-ups overlapped
\* (the check and the count of console_ws, with the awaits in between).
THEOREM CapHoldsButForRaces == Spec => []CapOnlyRaced
<1>1. Inv => CapOnlyRaced
  <2> SUFFICES ASSUME Inv, NEW u \in User, ~\E c \in raced : Open(c) /\ who[c] = u
               PROVE  ~(Cardinality({c \in Console : Open(c) /\ who[c] = u}) > MaxPerUser)
    BY DEF CapOnlyRaced
  <2>1. {c \in Console : Open(c) /\ who[c] = u} = Unraced(u)
    BY DEF Unraced
  <2>2. Cardinality(Unraced(u)) <= MaxPerUser /\ Cardinality(Unraced(u)) \in Nat /\ MaxPerUser \in Nat
    BY Finite, ConsoleAssumption DEF Inv, UnracedFit
  <2> QED BY <2>1, <2>2
<1> QED BY <1>1, Invariance, PTL

\* No connection to an agent outlives the handler that opened it, and so whatever is
\* over has only shells whose bridge can hear it: the console of the local machine
\* never has one (console_ws, the agent's console bridge).
OverIsHeard ==
    \A c \in Console : shell[c] \in {"starting", "running"} /\ ~(Open(c) /\ Remote(c)) => link[c] = "down"
THEOREM OrphansHearOfIt == Spec => []OverIsHeard
<1>1. Init => AgentInv
  BY DEF Init, AgentInv, AgentTyped, LinksRelayed, ShellsLinked
<1>2. Inv /\ AgentInv /\ [Next]_vars => AgentInv'
  BY NextAgent
<1>3. AgentInv => OverIsHeard
  BY DEF AgentInv, AgentTyped, LinksRelayed, ShellsLinked, OverIsHeard, Open
<1> QED BY <1>1, <1>2, <1>3, Invariance, PTL DEF Spec
=============================================================================
