---------------------------- MODULE PortalProofs ----------------------------
(***************************************************************************)
(* The safety of the smaller components, for every number of pages that    *)
(* load, configurations, connections and probes, and all times.            *)
(***************************************************************************)
EXTENDS Portal, PagesProofs, FiniteSetTheorems, SequenceTheorems,
        WellFoundedInduction

-----------------------------------------------------------------------------
(* Drawer.                                                                 *)

\* A request without a 'then', or a call that is kept for one, means that the
\* drawer was reopened; without it a closed drawer has an empty body, whatever
\* is under way.
DrawerInv ==
    /\ D!TypeOK
    /\ waiting => ajax # "none"
    /\ waiting \/ ajax = "bare" => reopened
    /\ ~open /\ ~reopened => body = "empty"

LEMMA DrawerInit == D!Init => DrawerInv
  BY DEF D!Init, DrawerInv, D!TypeOK

LEMMA DrawerStep == ASSUME DrawerInv, [D!Next]_drawerVars PROVE DrawerInv'
<1> USE DEF DrawerInv, D!TypeOK
<1>1. CASE UNCHANGED drawerVars
  BY <1>1 DEF drawerVars
<1>2. CASE D!OpenDrawer
  BY <1>2 DEF D!OpenDrawer, D!Ajax
<1>3. CASE D!CloseDrawer
  BY <1>3 DEF D!CloseDrawer
<1>4. CASE D!Answer \/ D!Fail
  BY <1>4 DEF D!Answer, D!Fail, D!SendNext
<1> QED
  BY <1>1, <1>2, <1>3, <1>4 DEF D!Next

-----------------------------------------------------------------------------
(* Navigation.                                                             *)

\* How a step changes a call: it moves on, begins, or waits for a tick.
Moves(c) ==
    \E s \in {"idle", "call", "lookup", "store", "clear"} :
        /\ calls'[c] = [calls[c] EXCEPT !.step = s]
        /\ s # "idle" => calls[c].step # "idle"
        /\ s = "store" => c \in NavPages /\ (calls[c].step = "store" \/ calls[c].age <= Timeout)
        /\ s = "clear" => c \notin NavPages
Begins(c) == calls'[c] = [step |-> "call", client |-> cur, age |-> 0]

LEMMA CallMoves == ASSUME N!TypeOK, N!Next, ~N!Tick
                   PROVE  \A c \in N!Callers : (calls'[c] = calls[c] \/ Moves(c) \/ Begins(c))
<1> USE NavAssumption DEF N!TypeOK
<1>1. ASSUME NEW d \in N!Callers, N!Calling(d)
      PROVE  \A c \in N!Callers : (calls'[c] = calls[c] \/ Moves(c))
  <2>1. PICK s \in {"idle", "call", "lookup", "store", "clear"} :
           /\ calls' = [calls EXCEPT ![d].step = s]
           /\ s = "store" => d \in NavPages /\ calls[d].age <= Timeout
           /\ s = "clear" => d \notin NavPages
    BY <1>1 DEF N!Calling, N!LookUp, N!LookedUp, N!LookUpFails, N!List, N!ListFails, N!Failed, N!After,
                N!InTime
  <2>2. calls[d].step # "idle"
    BY <1>1 DEF N!Calling, N!LookUp, N!LookedUp, N!LookUpFails, N!List, N!ListFails
  <2> QED
    BY <2>1, <2>2 DEF Moves
<1>2. CASE \E p \in NavPages : N!Miss(p)
  BY <1>2 DEF N!Miss, N!Start, N!Callers, Begins
<1>3. CASE \E p \in NavPages : N!Store(p)
  BY <1>3 DEF N!Store, N!Callers, Moves
<1>4. CASE N!Probe \/ N!Reconnect
  BY <1>4 DEF N!Probe, N!Reconnect, N!Start, N!Callers, Begins
<1>5. CASE N!ClearAfterReconnect \/ N!StopMonitor
  BY <1>5 DEF N!ClearAfterReconnect, N!StopMonitor, N!Callers, Moves
<1>6. CASE N!Save \/ N!Install \/ N!Clear \/ N!Flip
  BY <1>6 DEF N!Save, N!Install, N!Clear, N!Flip
<1> QED
  BY <1>1, <1>2, <1>3, <1>4, <1>5, <1>6 DEF N!Next, N!Serving, N!Saving

\* A configuration that is replaced ages, one tick at a time, from the moment
\* when it was replaced; a page's call is at least as old as the replacement of
\* its client for as long as it can still be stored, and the entry's age counts
\* on from there.
NavInv ==
    /\ N!TypeOK
    /\ save = "reload" => cur < MaxCfg
    /\ \A v \in N!Configs : v >= cur => replaced[v] = 0
    /\ \A p \in NavPages :
          /\ calls[p].step # "clear"
          /\ calls[p].step = "store" => calls[p].age <= Timeout
          /\ calls[p].step # "idle" /\ calls[p].age <= Timeout
             => replaced[calls[p].client] <= calls[p].age
    /\ nav.libs # 0 /\ nav.age < TTL => replaced[nav.libs] <= Timeout + nav.age

\* Whatever is not current, and is shown or may yet be stored, is of a call that
\* the last save found under way.
SavedInv ==
    save = "idle" =>
        /\ \A p \in NavPages :
              calls[p].step # "idle" => calls[p].client \in late \cup {cur}
        /\ nav.libs \in late \cup {0, cur}

LEMMA NavTicks == ASSUME NavInv, N!Tick, N!History PROVE NavInv'
<1> USE NavAssumption DEF NavInv, N!TypeOK, N!Configs, N!Horizon
<1>1. \A v \in N!Configs : /\ replaced'[v] \in 0 .. N!Horizon
                           /\ replaced'[v] <= replaced[v] + 1
                           /\ v >= cur => replaced'[v] = 0
  BY DEF N!Tick, N!History, N!Older
<1>2. replaced' \in [N!Configs -> 0 .. N!Horizon] /\ late' \subseteq N!Configs
  <2>1. replaced' = [v \in N!Configs |-> replaced'[v]]
    BY DEF N!History
  <2>2. \A p \in NavPages : calls[p].client \in N!Configs
    BY DEF N!Callers
  <2>3. late' \subseteq N!Configs
    BY <2>2 DEF N!History
  <2> QED
    BY <1>1, <2>1, <2>3
<1>3. /\ nav' \in [libs : 0 .. MaxCfg, age : 0 .. TTL] /\ nav'.libs = nav.libs
      /\ nav'.libs # 0 /\ nav'.age < TTL => nav'.age = nav.age + 1
  <2> DEFINE age == IF nav = N!Empty THEN 0 ELSE N!Older(nav.age, TTL)
  <2>1. nav' = [nav EXCEPT !.age = age]
    BY DEF N!Tick
  <2>2. nav.age \in 0 .. TTL
    OBVIOUS
  <2>3. age \in 0 .. TTL /\ (nav.libs # 0 /\ age < TTL => age = nav.age + 1)
    BY <2>2 DEF N!Older, N!Empty
  <2> HIDE DEF age
  <2> QED
    BY <2>1, <2>3
<1>4. \A c \in N!Callers :
          /\ calls'[c].step = calls[c].step /\ calls'[c].client = calls[c].client
          /\ calls'[c] \in [step : {"idle", "call", "lookup", "store", "clear"},
                            client : N!Configs, age : 0 .. Timeout + 1]
          /\ c \in NavPages /\ calls[c].step # "idle" /\ calls'[c].age <= Timeout
             => calls'[c].age = calls[c].age + 1
  <2> TAKE c \in N!Callers
  <2> DEFINE age == N!Older(calls[c].age, Timeout + 1)
  <2>1. calls'[c] = IF c \in NavPages /\ calls[c].step # "idle"
                    THEN [calls[c] EXCEPT !.age = age] ELSE calls[c]
    BY DEF N!Tick
  <2>2. calls[c] \in [step : {"idle", "call", "lookup", "store", "clear"},
                     client : N!Configs, age : 0 .. Timeout + 1]
    OBVIOUS
  <2>3. age \in 0 .. Timeout + 1 /\ (age <= Timeout => age = calls[c].age + 1)
    BY <2>2 DEF N!Older
  <2> HIDE DEF age
  <2> QED
    BY <2>1, <2>2, <2>3
<1>5. calls' \in [N!Callers -> [step : {"idle", "call", "lookup", "store", "clear"},
                              client : N!Configs, age : 0 .. Timeout + 1]]
  <2>1. calls' = [c \in N!Callers |-> calls'[c]]
    BY DEF N!Tick
  <2> QED
    BY <1>4, <2>1
<1>6. N!TypeOK' /\ (save = "reload" => cur < MaxCfg)'
  BY <1>2, <1>3, <1>5 DEF N!Tick
<1>7. ASSUME NEW p \in NavPages
      PROVE  /\ calls'[p].step # "clear" /\ calls'[p].step # "store"
             /\ calls'[p].step # "idle" /\ calls'[p].age <= Timeout
                => replaced'[calls'[p].client] <= calls'[p].age
  <2>1. p \in N!Callers
    BY DEF N!Callers
  <2>2. calls[p].client \in N!Configs /\ calls[p].age \in 0 .. Timeout + 1
    BY <2>1
  <2>3. calls'[p].step = calls[p].step /\ calls'[p].client = calls[p].client
    BY <1>4, <2>1
  <2>4. calls[p].step # "store"
    BY DEF N!Tick, N!MayWait
  <2>5. ASSUME calls'[p].step # "idle", calls'[p].age <= Timeout
        PROVE  replaced'[calls'[p].client] <= calls'[p].age
    <3>1. calls'[p].age = calls[p].age + 1
      BY <1>4, <2>1, <2>3, <2>5
    <3>2. replaced[calls[p].client] <= calls[p].age
      BY <2>2, <2>3, <2>5, <3>1
    <3>3. replaced'[calls[p].client] <= replaced[calls[p].client] + 1
      BY <1>1, <2>2
    <3>4. replaced[calls[p].client] \in Nat /\ replaced'[calls[p].client] \in Nat
      BY <1>1, <2>2
    <3> QED
      BY <2>2, <2>3, <3>1, <3>2, <3>3, <3>4
  <2> QED
    BY <2>3, <2>4, <2>5
<1>8. (nav.libs # 0 /\ nav.age < TTL => replaced[nav.libs] <= Timeout + nav.age)'
  <2> SUFFICES ASSUME nav'.libs # 0, nav'.age < TTL
               PROVE  replaced'[nav'.libs] <= Timeout + nav'.age
    OBVIOUS
  <2>1. nav.libs \in N!Configs /\ nav.age \in 0 .. TTL
    BY <1>3
  <2>2. replaced[nav.libs] <= Timeout + nav.age
    BY <1>3, <2>1
  <2>3. replaced'[nav.libs] <= replaced[nav.libs] + 1
    BY <1>1, <2>1
  <2>4. replaced[nav.libs] \in Nat /\ replaced'[nav.libs] \in Nat
    BY <1>1, <2>1
  <2> QED
    BY <1>3, <2>1, <2>2, <2>3, <2>4
<1>9. (\A v \in N!Configs : v >= cur => replaced[v] = 0)'
  BY <1>1 DEF N!Tick
<1> QED
  BY <1>6, <1>7, <1>8, <1>9

\* The parts of the type that a step other than a tick changes.
LEMMA NavTypes == ASSUME N!TypeOK, save = "reload" => cur < MaxCfg, N!Next, ~N!Tick
                  PROVE  N!TypeOK' /\ (save = "reload" => cur < MaxCfg)'
<1> USE NavAssumption DEF N!TypeOK
<1>1. replaced' \in [N!Configs -> 0 .. N!Horizon] /\ late' \subseteq N!Configs
  <2>1. \A p \in NavPages : calls[p].client \in N!Configs
    BY DEF N!Callers
  <2>2. replaced' = [v \in N!Configs |-> replaced[v]]
    BY DEF N!Next, N!History
  <2>3. late' \subseteq N!Configs
    BY <2>1 DEF N!Next, N!History
  <2> QED
    BY <2>2, <2>3
<1> DEFINE Rest ==
      /\ up' \in BOOLEAN /\ cur' \in N!Configs
      /\ user' \in [N!Configs -> {"none", "busy", "ok", "failed"}]
      /\ health' \in {"ok", "down"}
      /\ nav' \in [libs : 0 .. MaxCfg, age : 0 .. TTL]
      /\ calls' \in [N!Callers -> [step : {"idle", "call", "lookup", "store", "clear"},
                                client : N!Configs, age : 0 .. Timeout + 1]]
      /\ save' \in {"idle", "reload", "clear"}
      /\ save' = "reload" => cur' < MaxCfg
<1>2. ASSUME NEW c \in N!Callers, N!Calling(c) PROVE Rest
  <2>1. PICK s \in {"idle", "call", "lookup", "store", "clear"} :
           calls' = [calls EXCEPT ![c].step = s]
    BY <1>2 DEF N!Calling, N!LookUp, N!LookedUp, N!LookUpFails, N!List, N!ListFails, N!Failed, N!After
  <2>2. UNCHANGED <<up, cur, nav, save>>
    BY <1>2 DEF N!Calling, N!LookUp, N!LookedUp, N!LookUpFails, N!List, N!ListFails
  <2>3. user' \in [N!Configs -> {"none", "busy", "ok", "failed"}]
    BY <1>2 DEF N!Calling, N!LookUp, N!LookedUp, N!LookUpFails, N!List, N!ListFails
  <2>4. health' \in {"ok", "down"}
    BY <1>2 DEF N!Calling, N!LookUp, N!LookedUp, N!LookUpFails, N!List, N!ListFails, N!Failed
  <2>5. calls' \in [N!Callers -> [step : {"idle", "call", "lookup", "store", "clear"},
                                client : N!Configs, age : 0 .. Timeout + 1]]
    BY <2>1
  <2> QED
    BY <2>2, <2>3, <2>4, <2>5
<1>3. ASSUME NEW p \in NavPages, N!Miss(p) PROVE Rest
  BY <1>3 DEF N!Miss, N!Start, N!Configs, N!Callers
<1>4. ASSUME NEW p \in NavPages, N!Store(p) PROVE Rest
  <2>1. p \in N!Callers /\ calls[p].client \in 0 .. MaxCfg
    BY DEF N!Callers, N!Configs
  <2>2. nav' \in [libs : 0 .. MaxCfg, age : 0 .. TTL]
    BY <1>4, <2>1 DEF N!Store
  <2> QED
    BY <1>4, <2>1, <2>2 DEF N!Store
<1>5. ASSUME N!Probe PROVE Rest
  BY <1>5 DEF N!Probe, N!Start, N!Configs, N!Callers
<1>6. ASSUME N!Reconnect PROVE Rest
  BY <1>6 DEF N!Reconnect, N!Start, N!Configs, N!Callers
<1>7. ASSUME N!ClearAfterReconnect PROVE Rest
  BY <1>7 DEF N!ClearAfterReconnect, N!Empty, N!Callers
<1>8. ASSUME N!Save PROVE Rest
  BY <1>8 DEF N!Save
<1>9. ASSUME N!StopMonitor PROVE Rest
  <2>1. user' \in [N!Configs -> {"none", "busy", "ok", "failed"}]
    BY <1>9 DEF N!StopMonitor
  <2> QED
    BY <1>9, <2>1 DEF N!StopMonitor, N!Callers
<1>10. ASSUME N!Install PROVE Rest
  BY <1>10 DEF N!Install, N!Configs
<1>11. ASSUME N!Clear PROVE Rest
  BY <1>11 DEF N!Clear, N!Empty
<1>12. ASSUME N!Flip PROVE Rest
  BY <1>12 DEF N!Flip
<1>13. Rest
  BY <1>2, <1>3, <1>4, <1>5, <1>6, <1>7, <1>8, <1>9, <1>10, <1>11, <1>12
     DEF N!Next, N!Serving, N!Saving
<1> QED
  BY <1>1, <1>13

\* What a step other than a tick does to the entry and the configurations.
LEMMA NavMoves == ASSUME N!TypeOK, N!Next, ~N!Tick
                  PROVE  /\ replaced' = replaced /\ cur' \in {cur, cur + 1}
                         /\ cur' = cur \/ save' = "clear"
                         /\ \/ nav' = nav \/ nav' = N!Empty
                            \/ /\ nav'.age = 0 /\ save' = save
                               /\ \E p \in NavPages : /\ calls[p].step = "store"
                                                     /\ nav'.libs = calls[p].client
                         /\ IF N!Clear
                            THEN /\ nav' = N!Empty /\ calls' = calls /\ cur' = cur
                                 /\ \A p \in NavPages : calls[p].step # "idle"
                                       => calls[p].client \in late' \cup {cur}
                            ELSE late' = late /\ (save' = "idle" => save = "idle")
<1> USE DEF N!TypeOK
<1>1. replaced' = replaced
  BY DEF N!Next, N!History
<1>2. /\ cur' \in {cur, cur + 1} /\ (cur' = cur \/ save' = "clear")
      /\ N!Clear \/ (save' = "idle" => save = "idle")
      /\ \/ nav' = nav \/ nav' = N!Empty
         \/ \E p \in NavPages : N!Store(p)
  <2>1. ASSUME NEW c \in N!Callers, N!Calling(c) PROVE UNCHANGED <<cur, save, nav>>
    BY <2>1 DEF N!Calling, N!LookUp, N!LookedUp, N!LookUpFails, N!List, N!ListFails
  <2>2. ASSUME NEW p \in NavPages, N!Miss(p) PROVE UNCHANGED <<cur, save, nav>>
    BY <2>2 DEF N!Miss
  <2>3. ASSUME NEW p \in NavPages, N!Store(p) PROVE UNCHANGED <<cur, save>>
    BY <2>3 DEF N!Store
  <2>4. CASE N!Probe \/ N!Reconnect \/ N!ClearAfterReconnect \/ N!Flip \/ N!StopMonitor
    BY <2>4 DEF N!Probe, N!Reconnect, N!ClearAfterReconnect, N!Flip, N!StopMonitor
  <2>5. CASE N!Save \/ N!Install \/ N!Clear
    BY <2>5 DEF N!Save, N!Install, N!Clear
  <2> QED
    BY <2>1, <2>2, <2>3, <2>4, <2>5 DEF N!Next, N!Serving, N!Saving
<1>3. CASE N!Clear
  BY <1>1, <1>2, <1>3 DEF N!Next, N!History, N!Clear
<1>4. CASE ~N!Clear
  <2>1. late' = late
    BY <1>4 DEF N!Next, N!History
  <2> QED
    BY <1>1, <1>2, <1>4, <2>1 DEF N!Store
<1> QED
  BY <1>3, <1>4

LEMMA NavStep == ASSUME NavInv, [N!Next]_sidebarVars PROVE NavInv'
<1>1. CASE UNCHANGED sidebarVars
  BY <1>1 DEF sidebarVars, NavInv, N!TypeOK, N!Configs, N!Callers, N!Horizon
<1>2. CASE N!Next /\ N!Tick
  BY <1>2, NavTicks DEF N!Next
<1>3. CASE N!Next /\ ~N!Tick
  <2> USE NavAssumption
  <2>1. N!TypeOK /\ N!TypeOK' /\ (save = "reload" => cur < MaxCfg)'
    BY <1>3, NavTypes DEF NavInv
  <2>2. /\ replaced' = replaced /\ cur' \in {cur, cur + 1}
        /\ nav' = nav \/ nav' = N!Empty
           \/ (nav'.age = 0 /\ \E p \in NavPages : calls[p].step = "store" /\ nav'.libs = calls[p].client)
    BY <1>3, <2>1, NavMoves
  <2>3. \A v \in N!Configs : v >= cur' => replaced'[v] = 0
    BY <2>1, <2>2 DEF NavInv, N!TypeOK, N!Configs
  <2>4. ASSUME NEW p \in NavPages
        PROVE  /\ calls'[p].step # "clear"
               /\ calls'[p].step = "store" => calls'[p].age <= Timeout
               /\ calls'[p].step # "idle" /\ calls'[p].age <= Timeout
                  => replaced'[calls'[p].client] <= calls'[p].age
    <3>1. p \in N!Callers
      BY DEF N!Callers
    <3>2. calls[p] \in [step : {"idle", "call", "lookup", "store", "clear"},
                       client : N!Configs, age : 0 .. Timeout + 1]
      BY <2>1, <3>1 DEF N!TypeOK
    <3>3. /\ calls[p].step # "clear"
          /\ calls[p].step = "store" => calls[p].age <= Timeout
          /\ calls[p].step # "idle" /\ calls[p].age <= Timeout
             => replaced[calls[p].client] <= calls[p].age
      BY DEF NavInv
    <3>4. CASE calls'[p] = calls[p]
      BY <2>2, <3>3, <3>4
    <3>5. CASE Moves(p)
      BY <2>2, <3>2, <3>3, <3>5 DEF Moves
    <3>6. CASE Begins(p)
      <4>1. replaced[cur] = 0
        BY <2>1 DEF NavInv, N!TypeOK, N!Configs
      <4> QED
        BY <2>2, <3>6, <4>1 DEF Begins
    <3> QED
      BY <1>3, <2>1, <3>1, <3>4, <3>5, <3>6, CallMoves
  <2>5. (nav.libs # 0 /\ nav.age < TTL => replaced[nav.libs] <= Timeout + nav.age)'
    <3>1. CASE nav' = nav
      BY <2>2, <3>1 DEF NavInv
    <3>2. CASE nav' = N!Empty
      BY <3>2 DEF N!Empty
    <3>3. ASSUME NEW p \in NavPages, nav'.age = 0, calls[p].step = "store", nav'.libs = calls[p].client
          PROVE  replaced'[nav'.libs] <= Timeout + nav'.age
      <4>1. calls[p].client \in N!Configs /\ calls[p].age \in 0 .. Timeout + 1
        BY <2>1 DEF N!TypeOK, N!Callers
      <4>2. calls[p].age <= Timeout /\ replaced[calls[p].client] <= calls[p].age
        BY <3>3 DEF NavInv
      <4>3. replaced[calls[p].client] \in Nat
        BY <2>1, <4>1 DEF N!TypeOK, N!Horizon
      <4> QED
        BY <2>2, <3>3, <4>1, <4>2, <4>3
    <3> QED
      BY <2>2, <3>1, <3>2, <3>3
  <2> QED
    BY <2>1, <2>3, <2>4, <2>5 DEF NavInv
<1> QED
  BY <1>1, <1>2, <1>3

LEMMA SavedStep == ASSUME NavInv, SavedInv, [N!Next]_sidebarVars PROVE SavedInv'
<1>1. CASE UNCHANGED sidebarVars
  BY <1>1 DEF sidebarVars, SavedInv
<1>2. CASE N!Next /\ N!Tick
  <2>1. /\ \A p \in NavPages : calls'[p].step = calls[p].step /\ calls'[p].client = calls[p].client
        /\ nav'.libs = nav.libs /\ late' = late
    BY <1>2 DEF N!Tick, N!Callers, N!Next, N!History, N!Clear, NavInv, N!TypeOK
  <2> QED
    BY <1>2, <2>1 DEF SavedInv, N!Tick
<1>3. CASE N!Next /\ ~N!Tick
  <2>1. N!TypeOK
    BY DEF NavInv
  <2>2. /\ cur' = cur \/ save' = "clear"
        /\ \/ nav' = nav \/ nav' = N!Empty
           \/ \E p \in NavPages : calls[p].step = "store" /\ nav'.libs = calls[p].client
        /\ IF N!Clear
           THEN /\ nav' = N!Empty /\ calls' = calls /\ cur' = cur
                /\ \A p \in NavPages : calls[p].step # "idle" => calls[p].client \in late' \cup {cur}
           ELSE late' = late /\ (save' = "idle" => save = "idle")
    BY <1>3, <2>1, NavMoves
  <2> SUFFICES ASSUME save' = "idle"
               PROVE  /\ \A p \in NavPages :
                            calls'[p].step # "idle" => calls'[p].client \in late' \cup {cur'}
                      /\ nav'.libs \in late' \cup {0, cur'}
    BY DEF SavedInv
  <2>3. CASE N!Clear
    BY <2>2, <2>3 DEF N!Empty
  <2>4. CASE ~N!Clear
    <3>1. cur' = cur /\ late' = late /\ save = "idle"
      BY <2>2, <2>4
    <3>2. ASSUME NEW p \in NavPages, calls'[p].step # "idle"
          PROVE  calls'[p].client \in late' \cup {cur'}
      <4>1. p \in N!Callers
        BY DEF N!Callers
      <4>2. calls[p] \in [step : {"idle", "call", "lookup", "store", "clear"},
                         client : N!Configs, age : 0 .. Timeout + 1]
        BY <2>1, <4>1 DEF N!TypeOK
      <4>3. calls'[p] = calls[p] \/ Moves(p) \/ Begins(p)
        BY <1>3, <2>1, <4>1, CallMoves
      <4> QED
        BY <3>1, <3>2, <4>2, <4>3 DEF SavedInv, Moves, Begins
    <3>3. nav'.libs \in late' \cup {0, cur'}
      BY <2>2, <3>1 DEF SavedInv, N!Empty
    <3> QED
      BY <3>2, <3>3
  <2> QED
    BY <2>3, <2>4
<1> QED
  BY <1>1, <1>2, <1>3

LEMMA NavInit == N!Init => NavInv /\ SavedInv
<1> SUFFICES ASSUME N!Init PROVE NavInv /\ SavedInv
  OBVIOUS
<1> USE NavAssumption
<1>1. N!TypeOK
  BY DEF N!Init, N!TypeOK, N!Configs, N!Callers, N!Horizon, N!Empty, N!NoCall
<1>2. \A p \in NavPages : calls[p].step = "idle"
  BY DEF N!Init, N!Callers, N!NoCall
<1> QED
  BY <1>1, <1>2 DEF NavInv, SavedInv, N!Init, N!Configs, N!Empty

LEMMA NavSafe == NavInv => N!BoundedStaleness
<1> SUFFICES ASSUME NavInv, N!Fresh PROVE replaced[nav.libs] < TTL + Timeout
  BY DEF N!BoundedStaleness
<1>1. replaced[nav.libs] <= Timeout + nav.age /\ nav.age < TTL
  BY DEF NavInv, N!Fresh
<1>2. nav.libs \in N!Configs /\ nav.age \in 0 .. TTL
  BY DEF NavInv, N!TypeOK, N!Fresh, N!Configs
<1>3. replaced[nav.libs] \in Nat
  BY <1>2, NavAssumption DEF NavInv, N!TypeOK, N!Horizon
<1> QED
  BY <1>1, <1>2, <1>3, NavAssumption

LEMMA SavedSafe == SavedInv => N!SavedIsShown
  BY DEF SavedInv, N!SavedIsShown

-----------------------------------------------------------------------------
(* Discovery.                                                              *)

\* Connections in the order in which rankConnections puts them.
Ranked(s) == \A a, b \in DOMAIN s : a < b => F!ConnRank(s[a].kind) <= F!ConnRank(s[b].kind)

LEMMA SameCount == \A S : F!Cardinality(S) = Cardinality(S)
  BY DEF F!Cardinality, Cardinality

\* The sort: the number of connections before one is a place of its own, so that
\* every place is taken, and the places go up with the ranks.
LEMMA RankSorts == ASSUME NEW L \in Nat, NEW adv \in [1 .. L -> F!Connections]
                   PROVE  /\ F!RankConnections(adv) \in [1 .. L -> F!Connections]
                          /\ Ranked(F!RankConnections(adv))
<1> DEFINE Rank(i) == F!ConnRank(adv[i].kind)
           Before(i, j) == Rank(i) < Rank(j) \/ (Rank(i) = Rank(j) /\ i < j)
           Ahead(j) == {i \in DOMAIN adv : Before(i, j)}
           Place(j) == F!Cardinality(Ahead(j)) + 1
           Of(n) == CHOOSE j \in DOMAIN adv : Place(j) = n
<1>0. DOMAIN adv = 1 .. L
  OBVIOUS
<1>1. \A i \in 1 .. L : Rank(i) \in Nat
  BY DEF F!ConnRank, F!Connections
<1>2. /\ \A i, j \in 1 .. L : i # j => Before(i, j) \/ Before(j, i)
      /\ \A i \in 1 .. L : ~Before(i, i)
      /\ \A i, j, k \in 1 .. L : Before(i, j) /\ Before(j, k) => Before(i, k)
      /\ \A i, j \in 1 .. L : Before(i, j) => Rank(i) <= Rank(j)
  <2> HIDE DEF Rank
  <2> QED
    BY <1>1
<1>3. F!RankConnections(adv) = [n \in DOMAIN adv |-> adv[Of(n)]]
  BY DEF F!RankConnections
<1> HIDE DEF Before, Rank
<1> USE <1>0, SameCount
<1>4. IsFiniteSet(1 .. L) /\ Cardinality(1 .. L) = L
  BY FS_Interval
<1>5. ASSUME NEW j \in 1 .. L PROVE Place(j) \in 1 .. L
  <2>1. Ahead(j) \in SUBSET (1 .. L) /\ Ahead(j) # 1 .. L
    BY <1>2
  <2> HIDE DEF Ahead
  <2>2. IsFiniteSet(Ahead(j)) /\ Cardinality(Ahead(j)) <= L /\ Cardinality(Ahead(j)) # L
    BY <1>4, <2>1, FS_Subset
  <2>3. Cardinality(Ahead(j)) \in Nat
    BY <2>2, FS_CardinalityType
  <2> QED
    BY <2>2, <2>3
<1>6. ASSUME NEW i \in 1 .. L, NEW j \in 1 .. L, Before(i, j) PROVE Place(i) < Place(j)
  <2>1. Ahead(i) \in SUBSET Ahead(j) /\ Ahead(i) # Ahead(j) /\ Ahead(j) \in SUBSET (1 .. L)
    BY <1>2, <1>6
  <2> HIDE DEF Ahead
  <2>2. IsFiniteSet(Ahead(j))
    BY <1>4, <2>1, FS_Subset
  <2>3. /\ IsFiniteSet(Ahead(i)) /\ Cardinality(Ahead(i)) <= Cardinality(Ahead(j))
        /\ Cardinality(Ahead(i)) # Cardinality(Ahead(j))
    BY <2>1, <2>2, FS_Subset
  <2>4. Cardinality(Ahead(i)) \in Nat /\ Cardinality(Ahead(j)) \in Nat
    BY <2>2, <2>3, FS_CardinalityType
  <2> QED
    BY <2>3, <2>4
<1> HIDE DEF Place
<1>7. ASSUME NEW n \in 1 .. L PROVE Of(n) \in 1 .. L /\ Place(Of(n)) = n
  <2> DEFINE f == [j \in 1 .. L |-> Place(j)]
  <2>1. f \in Injection(1 .. L, 1 .. L)
    <3>1. f \in [1 .. L -> 1 .. L]
      BY <1>5
    <3>2. \A i, j \in 1 .. L : f[i] = f[j] => i = j
      <4> SUFFICES ASSUME NEW i \in 1 .. L, NEW j \in 1 .. L, Place(i) = Place(j), i # j
                   PROVE  FALSE
        OBVIOUS
      <4>1. Place(i) < Place(j) \/ Place(j) < Place(i)
        BY <1>2, <1>6
      <4> QED
        BY <1>5, <4>1
    <3> HIDE DEF f
    <3> QED
      BY <3>1, <3>2 DEF Injection, IsInjective
  <2> HIDE DEF f
  <2>2. f \in Surjection(1 .. L, 1 .. L)
    BY <1>4, <2>1, FS_Injection
  <2>3. \E j \in 1 .. L : f[j] = n
    BY <2>2 DEF Surjection
  <2>4. \E j \in 1 .. L : Place(j) = n
    BY <2>3 DEF f
  <2> QED
    BY <2>4
<1> HIDE DEF Of
<1>8. F!RankConnections(adv) \in [1 .. L -> F!Connections]
  BY <1>3, <1>7
<1>9. ASSUME NEW a \in 1 .. L, NEW b \in 1 .. L, a < b PROVE Rank(Of(a)) <= Rank(Of(b))
  <2>1. ~Before(Of(b), Of(a)) /\ Of(a) # Of(b)
    BY <1>6, <1>7, <1>9
  <2> QED
    BY <1>2, <1>7, <2>1
<1>10. \A n \in 1 .. L : F!ConnRank(F!RankConnections(adv)[n].kind) = Rank(Of(n))
  BY <1>3 DEF Rank
<1> QED
  BY <1>8, <1>9, <1>10 DEF Ranked

Silent(n) == {m \in 1 .. n : conns[m].net = "silent"}

\* A connection answers, and is probed before the time is used up.
Answers(n) == conns[n].net = "answers" /\ Cardinality(Silent(n - 1)) < opts.budget

\* The first m connections have been probed: what is left of the time is what the
\* silent ones among them have left, and the first that answers is chosen.
Probed(m) ==
    /\ \A n \in DOMAIN conns : reached[n] # "nil" <=> n <= m
    /\ left = IF Cardinality(Silent(m)) < opts.budget THEN opts.budget - Cardinality(Silent(m)) ELSE 0
    /\ chosen = 0 => \A n \in 1 .. m : ~Answers(n)
    /\ chosen # 0 => /\ chosen <= m /\ Answers(chosen)
                     /\ \A n \in 1 .. chosen - 1 : ~Answers(n)

DiscoveryInv ==
    /\ F!TypeOK
    /\ opts \in [all : BOOLEAN, budget : Nat]
    /\ conns \in Seq(F!Connections) /\ Ranked(conns)
    /\ step = "select" => chosen = 0
    /\ step \in {"probe", "done"} =>
          conns # <<>> /\ server.server /\ server.matches /\ server.token
    /\ step = "probe" => \E m \in 0 .. Len(conns) : Probed(m)
    /\ F!PicksBest

LEMMA SilentCounts == ASSUME NEW n \in Nat
                      PROVE  /\ Cardinality(Silent(n)) \in Nat
                             /\ Cardinality(Silent(n)) =
                                  IF n = 0 THEN 0
                                  ELSE IF conns[n].net = "silent"
                                       THEN Cardinality(Silent(n - 1)) + 1
                                       ELSE Cardinality(Silent(n - 1))
<1>1. \A i \in Nat : IsFiniteSet(Silent(i)) /\ Cardinality(Silent(i)) \in Nat
  <2> TAKE i \in Nat
  <2>1. Silent(i) \in SUBSET (1 .. i)
    BY DEF Silent
  <2>2. IsFiniteSet(1 .. i)
    BY FS_Interval
  <2> QED
    BY <2>1, <2>2, FS_Subset, FS_CardinalityType
<1>2. CASE n = 0
  <2>1. Silent(n) = {}
    BY <1>2 DEF Silent
  <2> QED
    BY <1>2, <2>1, FS_EmptySet
<1>3. CASE n # 0 /\ conns[n].net = "silent"
  <2>1. Silent(n) = Silent(n - 1) \cup {n} /\ n \notin Silent(n - 1)
    BY <1>3 DEF Silent
  <2>2. IsFiniteSet(Silent(n - 1))
    BY <1>1, <1>3
  <2>3. Cardinality(Silent(n - 1) \cup {n}) = Cardinality(Silent(n - 1)) + 1
    BY <2>1, <2>2, FS_AddElement
  <2> QED
    BY <1>1, <1>3, <2>1, <2>3
<1>4. CASE n # 0 /\ conns[n].net # "silent"
  <2>1. Silent(n) = Silent(n - 1)
    BY <1>4 DEF Silent
  <2> QED
    BY <1>1, <1>4, <2>1
<1> QED
  BY <1>2, <1>3, <1>4

LEMMA ProbesNext == ASSUME NEW m \in 0 .. Len(conns), conns \in Seq(F!Connections), Probed(m)
                    PROVE  F!Probing = m + 1
<1>1. {n \in DOMAIN conns : reached[n] # "nil"} = 1 .. m
  BY LenProperties DEF Probed
<1>2. Cardinality(1 .. m) = m
  BY FS_Interval
<1> QED
  BY <1>1, <1>2, SameCount DEF F!Probing

LEMMA DiscoveryInit == F!Init => DiscoveryInv
<1> SUFFICES ASSUME F!Init PROVE DiscoveryInv
  OBVIOUS
<1>1. opts \in [all : BOOLEAN, budget : Nat]
  BY DiscoveryAssumption DEF F!Init
<1>2. conns \in Seq(F!Connections) /\ Len(conns) = 0 /\ DOMAIN conns = {}
  BY EmptySeq DEF F!Init
<1>3. reached \in [DOMAIN conns -> {"nil", "yes", "no"}]
  BY DEF F!Init
<1> QED
  BY <1>1, <1>2, <1>3 DEF F!Init, DiscoveryInv, F!TypeOK, F!PicksBest, Ranked

\* Better ranks are the better connections.
LEMMA Ranks == ASSUME NEW c \in F!Connections
               PROVE  /\ F!ConnRank(c.kind) \in 0 .. 4
                      /\ F!Goodness(c.kind) = IF F!ConnRank(c.kind) >= 3 THEN 1 ELSE 4 - F!ConnRank(c.kind)
<1>1. c.kind \in {"remote", "local", "http", "relay", "httpRelay"}
  BY DEF F!Connections
<1>2. CASE c.kind = "remote"
  BY <1>2 DEF F!ConnRank, F!Goodness
<1>3. CASE c.kind = "local"
  BY <1>3 DEF F!ConnRank, F!Goodness
<1>4. CASE c.kind = "http"
  BY <1>4 DEF F!ConnRank, F!Goodness
<1>5. CASE c.kind = "relay"
  BY <1>5 DEF F!ConnRank, F!Goodness
<1>6. CASE c.kind = "httpRelay"
  BY <1>6 DEF F!ConnRank, F!Goodness
<1> QED
  BY <1>1, <1>2, <1>3, <1>4, <1>5, <1>6

LEMMA RankIsGoodness ==
    ASSUME NEW c \in F!Connections, NEW d \in F!Connections, F!ConnRank(c.kind) <= F!ConnRank(d.kind)
    PROVE  F!Goodness(c.kind) >= F!Goodness(d.kind)
<1>1. \A q, r \in 0 .. 4 : q <= r => (IF q >= 3 THEN 1 ELSE 4 - q) >= (IF r >= 3 THEN 1 ELSE 4 - r)
  OBVIOUS
<1> QED
  BY <1>1, Ranks

LEMMA SelectBegins == ASSUME DiscoveryInv, F!SelectServer PROVE DiscoveryInv'
<1>1. PICK adv \in F!UpTo(F!Connections, MaxConns) \ {<<>>} :
        conns' = F!RankConnections(adv) /\ reached' = [n \in DOMAIN adv |-> "nil"]
  BY DEF F!SelectServer
<1>2. PICK L \in 0 .. MaxConns : adv \in [1 .. L -> F!Connections]
  BY <1>1 DEF F!UpTo
<1>3. L \in Nat /\ L # 0
  BY <1>1, <1>2, DiscoveryAssumption
<1>4. /\ conns' \in [1 .. L -> F!Connections] /\ Ranked(conns)'
  BY <1>1, <1>2, <1>3, RankSorts DEF Ranked
<1>5. conns' \in Seq(F!Connections) /\ Len(conns') = L /\ DOMAIN conns' = 1 .. L
  BY <1>3, <1>4, SeqDef, LenProperties
<1>6. Cardinality(Silent(0)') = 0
  <2>1. Silent(0)' = {}
    BY DEF Silent
  <2> QED
    BY <2>1, FS_EmptySet
<1>7. UNCHANGED <<opts, chosen>> /\ left' = opts.budget /\ step' = "probe"
  BY DEF F!SelectServer
<1>8. opts.budget \in Nat /\ chosen = 0
  BY DEF DiscoveryInv, F!SelectServer
<1>9. reached' \in [DOMAIN conns' -> {"nil", "yes", "no"}] /\ \A n \in DOMAIN conns' : reached'[n] = "nil"
  BY <1>1, <1>2, <1>5
<1>10. Probed(0)'
  BY <1>5, <1>6, <1>7, <1>8, <1>9 DEF Probed
<1>11. server'.server /\ server'.matches /\ server'.token
  BY DEF F!SelectServer, F!Matches
<1>12. F!TypeOK'
  BY <1>5, <1>7, <1>8, <1>9 DEF F!TypeOK
<1>13. conns' # <<>> /\ \E m \in 0 .. Len(conns') : Probed(m)'
  BY <1>3, <1>5, <1>10
<1>14. F!PicksBest' /\ opts' \in [all : BOOLEAN, budget : Nat]
  BY <1>7 DEF F!PicksBest, DiscoveryInv
<1> QED
  BY <1>4, <1>5, <1>7, <1>11, <1>12, <1>13, <1>14 DEF DiscoveryInv

LEMMA ProbeMoves == ASSUME DiscoveryInv, F!Probe PROVE DiscoveryInv'
<1>1. PICK m \in 0 .. Len(conns) : Probed(m)
  BY DEF DiscoveryInv, F!Probe
<1>2. /\ conns \in Seq(F!Connections) /\ Len(conns) \in Nat /\ DOMAIN conns = 1 .. Len(conns)
      /\ opts.budget \in Nat /\ chosen \in 0 .. Len(conns) /\ left \in 0 .. opts.budget
      /\ reached \in [DOMAIN conns -> {"nil", "yes", "no"}]
  BY LenProperties DEF DiscoveryInv, F!TypeOK
<1> DEFINE n == m + 1
           ok == conns[n].net = "answers" /\ left > 0
<1>3. F!Probing = n /\ n \in 1 .. Len(conns)
  BY <1>1, <1>2, ProbesNext DEF F!Probe
<1>4. /\ reached' = [reached EXCEPT ![n] = IF ok THEN "yes" ELSE "no"]
      /\ left' = IF conns[n].net = "silent" /\ left > 0 THEN left - 1 ELSE left
      /\ chosen' = IF ok /\ chosen = 0 THEN n ELSE chosen
      /\ UNCHANGED <<opts, step, server, conns>> /\ step = "probe"
  BY <1>3 DEF F!Probe, F!Pick
<1>5. /\ \A i : Silent(i)' = Silent(i)
      /\ \A i : Answers(i)' <=> Answers(i)
  BY <1>4 DEF Silent, Answers
<1>6. /\ Cardinality(Silent(m)) \in Nat
      /\ Cardinality(Silent(n)) = IF conns[n].net = "silent" THEN Cardinality(Silent(m)) + 1
                                  ELSE Cardinality(Silent(m))
  BY <1>3, SilentCounts, n \in Nat, m \in Nat, n # 0, n - 1 = m
<1>7. ok <=> Answers(n)
  BY <1>1, <1>2, <1>6, n - 1 = m DEF Answers, Probed
<1>8. Probed(n)'
  <2>1. \A i \in DOMAIN conns : reached'[i] # "nil" <=> i <= n
    BY <1>1, <1>2, <1>3, <1>4 DEF Probed
  <2>2. left' = IF Cardinality(Silent(n)) < opts.budget THEN opts.budget - Cardinality(Silent(n)) ELSE 0
    BY <1>1, <1>2, <1>4, <1>6 DEF Probed
  <2>3. chosen' = 0 => \A i \in 1 .. n : ~Answers(i)
    BY <1>1, <1>3, <1>4, <1>7 DEF Probed
  <2>4. chosen' # 0 => /\ chosen' <= n /\ Answers(chosen')
                      /\ \A i \in 1 .. chosen' - 1 : ~Answers(i)
    BY <1>1, <1>2, <1>3, <1>4, <1>7 DEF Probed
  <2>5. Cardinality(Silent(n))' = Cardinality(Silent(n))
    BY <1>5
  <2>6. Answers(chosen)' <=> Answers(chosen')
    BY <1>4 DEF Answers, Silent
  <2> HIDE DEF n, ok
  <2> QED
    BY <1>4, <1>5, <2>1, <2>2, <2>3, <2>4, <2>5, <2>6 DEF Probed
<1>9. F!TypeOK'
  BY <1>2, <1>3, <1>4 DEF DiscoveryInv, F!TypeOK
<1> HIDE DEF n, ok
<1>10. \E i \in 0 .. Len(conns') : Probed(i)'
  BY <1>2, <1>3, <1>4, <1>8
<1> QED
  BY <1>4, <1>9, <1>10 DEF DiscoveryInv, F!PicksBest, Ranked

LEMMA ReturnPicks == ASSUME DiscoveryInv, F!Return PROVE DiscoveryInv'
<1>1. PICK m \in 0 .. Len(conns) : Probed(m)
  BY DEF DiscoveryInv, F!Return
<1>2. /\ conns \in Seq(F!Connections) /\ Len(conns) \in Nat /\ DOMAIN conns = 1 .. Len(conns)
      /\ Len(conns) # 0 /\ chosen \in 0 .. Len(conns)
  BY LenProperties, EmptySeq DEF DiscoveryInv, F!TypeOK, F!Return
<1>3. UNCHANGED <<opts, server, conns, left, reached>> /\ step' = "done" /\ step = "probe"
      /\ chosen' = IF chosen = 0 THEN 1 ELSE chosen
  BY DEF F!Return
<1>4. chosen = 0 => \A n \in DOMAIN conns : ~Answers(n)
  <2> HAVE chosen = 0
  <2>1. m = Len(conns)
    <3>1. F!Probing = m + 1
      BY <1>1, <1>2, ProbesNext
    <3>2. F!Probing \notin DOMAIN conns
      BY DEF F!Return
    <3>3. m + 1 \notin 1 .. Len(conns)
      BY <1>2, <3>1, <3>2
    <3>4. Len(conns) \in Nat
      BY <1>2
    <3> QED
      BY <3>3, <3>4
  <2> QED
    BY <1>1, <1>2, <2>1 DEF Probed
<1>5. ASSUME NEW n \in DOMAIN conns, Answers(n)
      PROVE  conns[chosen'].net = "answers" /\ F!Goodness(conns[chosen'].kind) >= F!Goodness(conns[n].kind)
  <2>1. chosen # 0 /\ chosen' = chosen /\ Answers(chosen) /\ chosen <= n
    BY <1>1, <1>2, <1>3, <1>4, <1>5 DEF Probed
  <2>2. conns[chosen] \in F!Connections /\ conns[n] \in F!Connections /\ chosen \in DOMAIN conns
    BY <1>2, <2>1, ElementOfSeq
  <2>3. F!ConnRank(conns[chosen].kind) <= F!ConnRank(conns[n].kind)
    <3>1. CASE chosen = n
      BY <2>2, <3>1, Ranks
    <3>2. CASE chosen < n
      BY <2>2, <3>2 DEF DiscoveryInv, Ranked
    <3> QED
      BY <1>2, <2>1, <3>1, <3>2
  <2> QED
    BY <2>1, <2>2, <2>3, RankIsGoodness DEF Answers
<1>6. server.server /\ server.matches /\ server.token
  BY <1>3 DEF DiscoveryInv
<1>7. F!PicksBest'
  BY <1>3, <1>5, <1>6, SameCount DEF F!PicksBest, Answers, Silent
<1>8. F!TypeOK'
  BY <1>2, <1>3 DEF DiscoveryInv, F!TypeOK
<1> QED
  BY <1>3, <1>7, <1>8 DEF DiscoveryInv, Ranked

LEMMA DiscoveryStep == ASSUME DiscoveryInv, [F!Next]_discoveryVars PROVE DiscoveryInv'
<1>1. CASE UNCHANGED discoveryVars
  <2>1. \A m : Probed(m)' <=> Probed(m)
    BY <1>1 DEF discoveryVars, Probed, Answers, Silent
  <2> QED
    BY <1>1, <2>1 DEF discoveryVars, DiscoveryInv, F!TypeOK, F!PicksBest, Ranked
<1>2. CASE F!Fail
  BY <1>2 DEF F!Fail, DiscoveryInv, F!TypeOK, F!PicksBest, Ranked
<1> QED
  BY <1>1, <1>2, SelectBegins, ProbeMoves, ReturnPicks DEF F!Next

-----------------------------------------------------------------------------
(* Sequences as sets: what Bulk's walk appends, cuts and drops.            *)

LEMMA ElementsType == ASSUME NEW S, NEW s \in Seq(S)
                      PROVE  /\ B!Elements(s) = {s[i] : i \in 1 .. Len(s)} /\ B!Elements(s) \subseteq S
                             /\ Len(s) \in Nat /\ (s = <<>> <=> B!Elements(s) = {})
<1>1. Len(s) \in Nat /\ s \in [1 .. Len(s) -> S] /\ DOMAIN s = 1 .. Len(s)
  BY LenProperties
<1>2. s = <<>> <=> Len(s) = 0
  BY EmptySeq
<1>3. B!Elements(s) = {s[i] : i \in 1 .. Len(s)}
  BY <1>1 DEF B!Elements
<1>4. B!Elements(s) = {} <=> Len(s) = 0
  BY <1>1, <1>3
<1> QED
  BY <1>1, <1>2, <1>3, <1>4

LEMMA Appended == ASSUME NEW S, NEW s \in Seq(S), NEW t \in Seq(S)
                  PROVE  s \o t \in Seq(S) /\ B!Elements(s \o t) = B!Elements(s) \cup B!Elements(t)
<1> DEFINE st == s \o t
<1>1. /\ st \in Seq(S) /\ Len(st) = Len(s) + Len(t) /\ Len(s) \in Nat /\ Len(t) \in Nat
      /\ \A i \in 1 .. Len(s) + Len(t) : st[i] = IF i <= Len(s) THEN s[i] ELSE t[i - Len(s)]
  BY ConcatProperties, LenProperties
<1> HIDE DEF st
<1>2. B!Elements(st) \subseteq B!Elements(s) \cup B!Elements(t)
  <2> SUFFICES ASSUME NEW i \in 1 .. Len(s) + Len(t) PROVE st[i] \in B!Elements(s) \cup B!Elements(t)
    BY <1>1, ElementsType
  <2>1. i <= Len(s) \/ i - Len(s) \in 1 .. Len(t)
    BY <1>1
  <2> QED
    BY <1>1, <2>1, ElementsType
<1>3. B!Elements(s) \subseteq B!Elements(st)
  <2> SUFFICES ASSUME NEW i \in 1 .. Len(s) PROVE s[i] \in B!Elements(st)
    BY ElementsType
  <2>1. st[i] = s[i] /\ i \in 1 .. Len(st)
    BY <1>1
  <2> QED
    BY <1>1, <2>1, ElementsType
<1>4. B!Elements(t) \subseteq B!Elements(st)
  <2> SUFFICES ASSUME NEW i \in 1 .. Len(t) PROVE t[i] \in B!Elements(st)
    BY ElementsType
  <2>1. i + Len(s) \in 1 .. Len(st) /\ ~(i + Len(s) <= Len(s)) /\ (i + Len(s)) - Len(s) = i
    BY <1>1
  <2>2. st[i + Len(s)] = t[i]
    BY <1>1, <2>1
  <2>3. PICK j \in 1 .. Len(st) : st[j] = t[i]
    BY <2>1, <2>2
  <2>4. B!Elements(st) = {st[n] : n \in 1 .. Len(st)}
    BY <1>1, ElementsType
  <2> QED
    BY <2>3, <2>4
<1> QED
  BY <1>1, <1>2, <1>3, <1>4 DEF st

LEMMA HeadAndTail == ASSUME NEW S, NEW s \in Seq(S), s # <<>>
                     PROVE  /\ Head(s) \in S /\ Tail(s) \in Seq(S)
                            /\ B!Elements(s) = {Head(s)} \cup B!Elements(Tail(s))
<1> DEFINE t == Tail(s)
<1>1. /\ Head(s) \in S /\ t \in Seq(S) /\ Len(t) = Len(s) - 1 /\ Len(s) \in Nat \ {0}
      /\ \A i \in 1 .. Len(t) : t[i] = s[i + 1]
  BY HeadTailProperties, EmptySeq, LenProperties
<1>2. Head(s) = s[1]
  BY <1>1
<1> HIDE DEF t
<1>3. B!Elements(s) \subseteq {s[1]} \cup B!Elements(t)
  <2> SUFFICES ASSUME NEW i \in 1 .. Len(s), i # 1 PROVE s[i] \in B!Elements(t)
    BY ElementsType
  <2>1. i - 1 \in 1 .. Len(t) /\ t[i - 1] = s[i]
    BY <1>1
  <2> QED
    BY <1>1, <2>1, ElementsType
<1>4. {s[1]} \cup B!Elements(t) \subseteq B!Elements(s)
  <2> SUFFICES ASSUME NEW i \in 1 .. Len(t) PROVE t[i] \in B!Elements(s) /\ s[1] \in B!Elements(s)
    BY <1>1, ElementsType
  <2>1. i + 1 \in 1 .. Len(s) /\ t[i] = s[i + 1]
    BY <1>1
  <2> QED
    BY <1>1, <2>1, ElementsType
<1> QED
  BY <1>1, <1>2, <1>3, <1>4 DEF t

\* The part of s from place a + 1 on, to place b.
LEMMA CutOut == ASSUME NEW S, NEW s \in Seq(S), NEW a \in Nat, NEW b \in 0 .. Len(s)
                PROVE  /\ SubSeq(s, a + 1, b) \in Seq(S)
                       /\ B!Elements(SubSeq(s, a + 1, b)) = {s[i] : i \in a + 1 .. b}
                       /\ Len(SubSeq(s, a + 1, b)) = IF a < b THEN b - a ELSE 0
<1> DEFINE t == SubSeq(s, a + 1, b)
<1>1. s \in [1 .. Len(s) -> S] /\ Len(s) \in Nat
  BY LenProperties
<1>2. \A i \in a + 1 .. b : s[i] \in S
  BY <1>1
<1>3. /\ t \in Seq(S)
      /\ Len(t) = IF a + 1 <= b THEN b - (a + 1) + 1 ELSE 0
      /\ \A i \in 1 .. b - (a + 1) + 1 : t[i] = s[(a + 1) + i - 1]
  BY <1>1, <1>2, a + 1 \in Int, b \in Int, SubSeqProperties
<1> HIDE DEF t
<1>4. Len(t) = (IF a < b THEN b - a ELSE 0) /\ \A i \in 1 .. Len(t) : t[i] = s[a + i]
  BY <1>1, <1>3
<1>5. B!Elements(t) = {t[i] : i \in 1 .. Len(t)}
  BY <1>3, ElementsType
<1>6. ASSUME NEW i \in 1 .. Len(t) PROVE t[i] \in {s[j] : j \in a + 1 .. b}
  <2>1. a + i \in a + 1 .. b
    BY <1>1, <1>4
  <2> QED
    BY <1>4, <2>1
<1>7. ASSUME NEW j \in a + 1 .. b PROVE s[j] \in B!Elements(t)
  <2>1. j - a \in 1 .. Len(t) /\ a + (j - a) = j
    BY <1>1, <1>4
  <2>2. t[j - a] = s[j]
    BY <1>4, <2>1
  <2> QED
    BY <1>5, <2>1, <2>2
<1> QED
  BY <1>3, <1>4, <1>5, <1>6, <1>7 DEF t

\* Induction over places: the predicate is a set of them.
LEMMA PlaceInduction == ASSUME NEW L \in Nat, NEW P, 0 \in P, \A n \in 1 .. L : n - 1 \in P => n \in P
                        PROVE  0 .. L \subseteq P
<1> SUFFICES ASSUME NEW u \in (0 .. L) \ P PROVE FALSE
  OBVIOUS
<1> DEFINE Missing == (0 .. L) \ P
           R == {ss \in Nat \X Nat : ss[1] < ss[2]}
<1>1. IsWellFoundedOn(R, Nat)
  BY NatLessThanWellFounded DEF OpToRel
<1>2. \A x, y \in Nat : <<y, x>> \in R <=> y < x
  OBVIOUS
<1>3. Missing \subseteq Nat /\ Missing # {}
  OBVIOUS
<1> HIDE DEF R, Missing
<1>4. PICK x \in Missing : \A y \in Missing : ~ (<<y, x>> \in R)
  BY <1>1, <1>3, WFMin, Zenon
<1> USE DEF Missing
<1>5. x \in 1 .. L /\ x - 1 \in Nat /\ x - 1 < x
  OBVIOUS
<1>6. x - 1 \notin Missing
  BY <1>2, <1>3, <1>4, <1>5
<1> QED
  BY <1>5, <1>6

LEMMA OneMore == ASSUME NEW S, NEW s \in Seq(S), NEW x \in S
                 PROVE  Append(s, x) \in Seq(S) /\ B!Elements(Append(s, x)) = B!Elements(s) \cup {x}
<1> DEFINE t == <<x>>
<1>1. Append(s, x) = s \o t /\ t \in Seq(S)
  OBVIOUS
<1>2. B!Elements(t) = {x}
  BY DEF B!Elements
<1> HIDE DEF t
<1>3. s \o t \in Seq(S) /\ B!Elements(s \o t) = B!Elements(s) \cup B!Elements(t)
  BY <1>1, Appended, Zenon
<1> QED
  BY <1>1, <1>2, <1>3, Zenon

\* The recursive function of Only is one, and what it takes is what it should.
LEMMA OnlyTakes == ASSUME NEW T, NEW s \in Seq(T), NEW S
                   PROVE  /\ B!Only(s, S) \in Seq(T \cap S)
                          /\ B!Elements(B!Only(s, S)) = B!Elements(s) \cap S
<1> DEFINE L == Len(s)
           Take(g, n) == IF n = 0 THEN <<>> ELSE IF s[n] \in S THEN Append(g[n - 1], s[n]) ELSE g[n - 1]
           taken == CHOOSE g : g = [n \in 0 .. L |-> Take(g, n)]
           Taken(g, n) == \A i \in 0 .. n : g[i] = Take(g, i)
           Right(g, n) == /\ g[n] \in Seq(T \cap S)
                          /\ B!Elements(g[n]) = {s[i] : i \in 1 .. n} \cap S
<1>1. B!Only(s, S) = taken[L]
  BY DEF B!Only
<1>2. L \in Nat /\ \A i \in 1 .. L : s[i] \in T
  BY LenProperties
<1> HIDE DEF L
<1>3. \E g : g = [n \in 0 .. L |-> Take(g, n)]
  <2> DEFINE P == {n \in 0 .. L : \E g : g = [i \in 0 .. n |-> Take(g, i)]}
  <2>1. 0 \in P
    <3>1. [i \in 0 .. 0 |-> <<>>] = [i \in 0 .. 0 |-> Take([j \in 0 .. 0 |-> <<>>], i)]
      OBVIOUS
    <3> HIDE DEF Take
    <3> QED
      BY <1>2, <3>1
  <2>2. ASSUME NEW n \in 1 .. L, n - 1 \in P PROVE n \in P
    <3>1. PICK g : g = [i \in 0 .. n - 1 |-> Take(g, i)]
      BY <2>2
    <3> DEFINE h == [i \in 0 .. n |-> IF i = n THEN Take(g, n) ELSE g[i]]
    <3>2. ASSUME NEW i \in 0 .. n PROVE h[i] = Take(h, i)
      <4>1. n \in Nat /\ (i # 0 => i - 1 \in 0 .. n - 1 /\ i - 1 \in 0 .. n /\ i - 1 # n)
        BY <1>2
      <4>2. i # 0 => h[i - 1] = g[i - 1]
        BY <4>1
      <4>3. Take(h, i) = Take(g, i)
        BY <4>2
      <4>4. i # n => g[i] = Take(g, i)
        <5> HIDE DEF Take
        <5> QED
          BY <3>1, <4>1
      <4> HIDE DEF Take
      <4> QED
        BY <4>3, <4>4
    <3>3. h = [i \in 0 .. n |-> Take(h, i)]
      <4> HIDE DEF Take
      <4>1. h = [i \in 0 .. n |-> h[i]]
        OBVIOUS
      <4> HIDE DEF h
      <4> QED
        BY <3>2, <4>1
    <3> HIDE DEF h, Take
    <3> QED
      BY <3>3
  <2> HIDE DEF P
  <2>3. 0 .. L \subseteq P
    BY <1>2, <2>1, <2>2, PlaceInduction
  <2>4. L \in P
    BY <1>2, <2>3
  <2> HIDE DEF Take
  <2> QED
    BY <2>4, Zenon DEF P
<1>4. taken = [n \in 0 .. L |-> Take(taken, n)]
  <2> HIDE DEF Take
  <2> QED
    BY <1>3
<1> HIDE DEF taken
<1>5. \A n \in 0 .. L : taken[n] = Take(taken, n)
  <2> HIDE DEF Take
  <2> QED
    BY <1>4
<1> DEFINE Q == {n \in 0 .. L : Right(taken, n)}
<1>6. 0 \in Q
  <2>1. taken[0] = <<>>
    BY <1>2, <1>5
  <2>2. <<>> \in Seq(T \cap S) /\ B!Elements(<<>>) = {}
    BY EmptySeq DEF B!Elements
  <2>3. {s[i] : i \in 1 .. 0} \cap S = {}
    OBVIOUS
  <2>4. Right(taken, 0)
    BY <2>1, <2>2, <2>3
  <2> HIDE DEF Right
  <2> QED
    BY <1>2, <2>4
<1>7. ASSUME NEW n \in 1 .. L, n - 1 \in Q PROVE n \in Q
  <2>1. n # 0 /\ n \in 0 .. L /\ 1 .. n = (1 .. n - 1) \cup {n}
    BY <1>2
  <2>2. Right(taken, n - 1)
    BY <1>7
  <2>3. {s[i] : i \in 1 .. n} = {s[i] : i \in 1 .. n - 1} \cup {s[n]}
    BY <2>1
  <2>4. CASE s[n] \in S
    <3>1. taken[n] = Append(taken[n - 1], s[n])
      BY <1>5, <2>1, <2>4
    <3>2. s[n] \in T \cap S
      BY <1>2, <2>4
    <3>3. /\ taken[n] \in Seq(T \cap S)
          /\ B!Elements(taken[n]) = B!Elements(taken[n - 1]) \cup {s[n]}
      BY <2>2, <3>1, <3>2, OneMore
    <3>4. B!Elements(taken[n]) = {s[i] : i \in 1 .. n} \cap S
      BY <2>2, <2>3, <2>4, <3>3
    <3> QED
      BY <2>1, <3>3, <3>4
  <2>5. CASE s[n] \notin S
    <3>1. taken[n] = taken[n - 1]
      BY <1>5, <2>1, <2>5
    <3> QED
      BY <2>1, <2>2, <2>3, <2>5, <3>1
  <2> QED
    BY <2>4, <2>5
<1> HIDE DEF Q
<1>8. 0 .. L \subseteq Q
  BY <1>2, <1>6, <1>7, PlaceInduction
<1>9. Right(taken, L)
  <2>1. L \in Q
    BY <1>2, <1>8
  <2> HIDE DEF Right
  <2> QED
    BY <2>1, Zenon DEF Q
<1> QED
  BY <1>1, <1>9, ElementsType DEF L

-----------------------------------------------------------------------------
(* Bulk.                                                                   *)

\* What the walk of a container comes upon, if walking a child yields f: the tree
\* is three containers deep at the most (maxChildDepth).
FromKids(E, f) == (E \cap Keys) \cup UNION {f[c] : c \in E \cap B!Containers}
Kids(c) == B!Elements(tree[c])
Yields ==
    LET none == [c \in B!Containers |-> {}]
        last == [c \in B!Containers |-> FromKids(Kids(c), none)]
        mid == [c \in B!Containers |-> FromKids(Kids(c), last)]
        top == [c \in B!Containers |-> FromKids(Kids(c), mid)]
    IN  [d \in 0 .. 3 |-> IF d = 0 THEN top ELSE IF d = 1 THEN mid ELSE IF d = 2 THEN last ELSE none]

\* What a walk has found, and will find yet if upstream stays as it is.
Unread(c, n) == {tree[c][i] : i \in {j \in 1 .. Len(tree[c]) : j > n}}
AtHead(w) == FromKids(B!Elements(w.batch) \cup Unread(Head(w.todo).of, w.offset),
                      Yields[Head(w.todo).depth + 1])
InTail(w) == UNION {Yields[e.depth][e.of] : e \in B!Elements(Tail(w.todo))}
Ahead(w) == B!Elements(w.leaves) \cup IF w.todo = <<>> THEN {} ELSE AtHead(w) \cup InTail(w)
AllLeaves == Yields[0][Root]

Calls == [op : {"queue", "evict"}, ask : BOOLEAN, confirmed : BOOLEAN, step : {"walk", "act"},
          todo : Seq([of : B!Containers, depth : 0 .. 2]), batch : Seq(Seasons \cup Keys), offset : Nat,
          leaves : Seq(Keys), rows : [Keys -> Rows], failed : SUBSET Keys]

BulkType ==
    /\ tree \in [B!Containers -> Seq(Seasons \cup Keys)]
    /\ call = B!NoCall \/ call \in Calls
    /\ dialog \in [op : {"none", "queue", "evict"}, leaves : SUBSET Keys]
    /\ dialog.op = "none" => dialog = B!NoDialog
    /\ owed \subseteq Keys /\ changed \in BOOLEAN

\* A walk misses nothing that was there all along and, as long as nothing
\* changes, finds exactly the leaves of the tree.
WalkInv ==
    call.step = "walk" =>
        /\ owed \subseteq Ahead(call)
        /\ ~changed => Ahead(call) = AllLeaves
        /\ call.confirmed => dialog.op = call.op

\* A leaf that was to be handled all along is neither skipped nor mistaken for
\* another: its row is still the one that was read.
ActInv ==
    call.step = "act" =>
        /\ AllKnown(call.rows)
        /\ owed \subseteq B!Elements(call.leaves) \cup call.failed
        /\ \A k \in owed : /\ k \in B!ToHandle(call.op) /\ ~B!Skips(call.op, call.rows[k])
                           /\ call.op = "evict" => items[k].id = call.rows[k].id

DialogInv ==
    ~changed /\ dialog.op # "none" =>
        dialog.leaves = {k \in AllLeaves : B!Counts(dialog.op, items[k])}

BulkInv ==
    /\ TableInv /\ BulkType
    /\ call.step = "idle" => owed = {}
    /\ WalkInv /\ ActInv /\ DialogInv

\* Bulk changes the table as the pages' other users do.
LEMMA BulkTable ==
    /\ \A k \in Keys : (B!Enqueue(k) => Enqueue(k)) /\ (B!Evict(k) => Evict(k))
    /\ B!TableNext => TableNext
    /\ B!tableVars = tableVars
<1>1. \A k : (B!Enqueue(k) <=> Enqueue(k)) /\ (B!Evict(k) <=> Evict(k)) /\ (B!Delete(k) <=> Delete(k))
  BY DEF B!Enqueue, Enqueue, B!Evict, Evict, B!Delete, Delete, B!Absent, Absent
<1>2. \A k : (B!Mark(k) <=> Mark(k)) /\ (B!Fail(k) <=> Fail(k)) /\ (B!Deliver(k) <=> Deliver(k))
  BY DEF B!Mark, Mark, B!Fail, Fail, B!Deliver, Deliver, B!Absent, Absent, B!InFlight, InFlight
<1>3. (B!Claim <=> Claim) /\ (B!Release <=> Release) /\ (B!Restart <=> Restart)
  BY DEF B!Claim, Claim, B!Release, Release, B!Restart, Restart
<1>4. B!TableNext => TableNext
  BY <1>1, <1>2, <1>3 DEF B!TableNext, TableNext, B!Engine, Engine, B!Request, Request
<1> QED
  BY <1>1, <1>4 DEF B!tableVars, tableVars

LEMMA YieldsFromKids ==
    \A d \in 0 .. 2 : \A c \in B!Containers : Yields[d][c] = FromKids(Kids(c), Yields[d + 1])
<1>1. /\ Yields[3] = [c \in B!Containers |-> {}]
      /\ Yields[2] = [c \in B!Containers |-> FromKids(Kids(c), Yields[3])]
      /\ Yields[1] = [c \in B!Containers |-> FromKids(Kids(c), Yields[2])]
      /\ Yields[0] = [c \in B!Containers |-> FromKids(Kids(c), Yields[1])]
  BY DEF Yields
<1>2. \A d \in 0 .. 2 : Yields[d] = [c \in B!Containers |-> FromKids(Kids(c), Yields[d + 1])]
  <2> TAKE d \in 0 .. 2
  <2>1. d = 0 \/ d = 1 \/ d = 2
    OBVIOUS
  <2>2. 0 + 1 = 1 /\ 1 + 1 = 2 /\ 2 + 1 = 3
    OBVIOUS
  <2> QED
    BY <1>1, <2>1, <2>2, Zenon
<1> QED
  BY <1>2

LEMMA YieldsAre ==
    /\ \A c \in B!Containers : Yields[3][c] = {}
    /\ \A d \in 0 .. 2 : \A c \in B!Containers : Yields[d][c] = FromKids(Kids(c), Yields[d + 1])
<1>1. Yields[3] = [c \in B!Containers |-> {}]
  BY DEF Yields
<1> QED
  BY <1>1, YieldsFromKids

LEMMA UnreadIs == ASSUME BulkType, NEW c \in B!Containers
                  PROVE  /\ tree[c] \in Seq(Seasons \cup Keys) /\ Len(tree[c]) \in Nat
                         /\ Unread(c, 0) = Kids(c) /\ Kids(c) \subseteq Seasons \cup Keys
<1>1. tree[c] \in Seq(Seasons \cup Keys)
  BY DEF BulkType
<1>2. /\ Kids(c) = {tree[c][i] : i \in 1 .. Len(tree[c])} /\ Len(tree[c]) \in Nat
      /\ Kids(c) \subseteq Seasons \cup Keys
  BY <1>1, ElementsType DEF Kids
<1>3. {j \in 1 .. Len(tree[c]) : j > 0} = 1 .. Len(tree[c])
  BY <1>2
<1> QED
  BY <1>1, <1>2, <1>3 DEF Unread

\* A walk at the beginning of a container will find what walking all of its list
\* yields.
LEMMA FreshAhead == ASSUME BulkType, NEW w \in Calls, w.batch = <<>>, w.offset = 0
                    PROVE  Ahead(w) = B!Elements(w.leaves)
                                        \cup UNION {Yields[e.depth][e.of] : e \in B!Elements(w.todo)}
<1> DEFINE Entries == [of : B!Containers, depth : 0 .. 2]
<1>1. w.todo \in Seq(Entries)
  BY DEF Calls
<1>2. CASE w.todo = <<>>
  <2>1. B!Elements(w.todo) = {}
    BY <1>1, <1>2, ElementsType
  <2> QED
    BY <1>2, <2>1 DEF Ahead
<1>3. CASE w.todo # <<>>
  <2> DEFINE h == Head(w.todo)
  <2>1. h \in Entries /\ B!Elements(w.todo) = {h} \cup B!Elements(Tail(w.todo))
    BY <1>1, <1>3, HeadAndTail
  <2> HIDE DEF h
  <2>2. h.of \in B!Containers /\ h.depth \in 0 .. 2
    BY <2>1
  <2>3. B!Elements(<<>>) = {}
    BY DEF B!Elements
  <2>4. AtHead(w) = FromKids(B!Elements(<<>>) \cup Unread(h.of, 0), Yields[h.depth + 1])
    BY DEF AtHead, h
  <2>5. B!Elements(<<>>) \cup Unread(h.of, 0) = Kids(h.of)
    BY <2>2, <2>3, UnreadIs
  <2>6. AtHead(w) = Yields[h.depth][h.of]
    BY <2>2, <2>4, <2>5, YieldsAre
  <2> QED
    BY <1>3, <2>1, <2>6 DEF Ahead, InTail
<1> QED
  BY <1>2, <1>3

LEMMA PageIs == ASSUME BulkType, NEW c \in B!Containers, NEW n \in Nat
                PROVE  LET chunk == B!Page(c, n)
                       IN  /\ chunk \in Seq(Seasons \cup Keys)
                           /\ B!Last(chunk) => B!Elements(chunk) = Unread(c, n)
                           /\ ~B!Last(chunk) => B!Elements(chunk) \cup Unread(c, n + PageSize) = Unread(c, n)
<1> DEFINE len == Len(tree[c])
           b == IF n + PageSize < len THEN n + PageSize ELSE len
           chunk == B!Page(c, n)
<1>1. tree[c] \in Seq(Seasons \cup Keys) /\ len \in Nat /\ PageSize \in Nat \ {0}
  BY UnreadIs, BulkAssumption
<1>2. chunk = SubSeq(tree[c], n + 1, b) /\ b \in 0 .. len
  BY <1>1 DEF B!Page
<1> HIDE DEF b
<1>3. /\ chunk \in Seq(Seasons \cup Keys)
      /\ B!Elements(chunk) = {tree[c][i] : i \in n + 1 .. b}
      /\ Len(chunk) = IF n < b THEN b - n ELSE 0
  <2>1. tree[c] \in Seq(Seasons \cup Keys) /\ n \in Nat /\ b \in 0 .. Len(tree[c])
    BY <1>1, <1>2
  <2>2. /\ SubSeq(tree[c], n + 1, b) \in Seq(Seasons \cup Keys)
        /\ B!Elements(SubSeq(tree[c], n + 1, b)) = {tree[c][i] : i \in n + 1 .. b}
        /\ Len(SubSeq(tree[c], n + 1, b)) = IF n < b THEN b - n ELSE 0
    BY <2>1, CutOut, Zenon
  <2> QED
    BY <1>2, <2>2, Zenon
<1> HIDE DEF chunk
<1>4. CASE B!Last(chunk)
  <2>1. b = len
    BY <1>1, <1>3, <1>4 DEF B!Last, b
  <2>2. n + 1 .. b = {j \in 1 .. len : j > n}
    BY <1>1, <2>1
  <2> QED
    BY <1>3, <1>4, <2>2 DEF Unread, chunk
<1>5. CASE ~B!Last(chunk)
  <2>1. b = n + PageSize /\ b \in 0 .. len
    BY <1>1, <1>2, <1>3, <1>5 DEF B!Last, b
  <2>2. (n + 1 .. b) \cup {j \in 1 .. len : j > n + PageSize} = {j \in 1 .. len : j > n}
    BY <1>1, <2>1
  <2> QED
    BY <1>3, <1>5, <2>2 DEF Unread, chunk
<1> QED
  BY <1>4, <1>5, <1>3 DEF chunk

LEMMA DescendIs == ASSUME NEW all \in Seq(Seasons \cup Keys), NEW d \in 0 .. 2
                   PROVE  /\ B!Descend(all, d) \in Seq([of : B!Containers, depth : 0 .. 2])
                          /\ B!Elements(B!Descend(all, d)) =
                               IF d = 2 THEN {}
                               ELSE {[of |-> c, depth |-> d + 1] : c \in B!Elements(all) \cap B!Containers}
<1> DEFINE Sub == B!Only(all, B!Containers)
           Entries == [of : B!Containers, depth : 0 .. 2]
           entries == [i \in DOMAIN Sub |-> [of |-> Sub[i], depth |-> d + 1]]
<1>1. /\ Sub \in Seq((Seasons \cup Keys) \cap B!Containers)
      /\ B!Elements(Sub) = B!Elements(all) \cap B!Containers
  BY OnlyTakes
<1>2. B!Descend(all, d) = IF d = 2 THEN <<>> ELSE entries
  BY DEF B!Descend, B!maxChildDepth
<1> HIDE DEF Sub
<1>3. Len(Sub) \in Nat /\ DOMAIN Sub = 1 .. Len(Sub) /\ \A i \in 1 .. Len(Sub) : Sub[i] \in B!Containers
  BY <1>1, LenProperties
<1>4. CASE d = 2
  BY <1>2, <1>4, EmptySeq DEF B!Elements
<1>5. CASE d # 2
  <2>1. \A i \in 1 .. Len(Sub) : [of |-> Sub[i], depth |-> d + 1] \in Entries
    BY <1>3, <1>5
  <2>2. entries \in [1 .. Len(Sub) -> Entries]
    BY <1>3, <2>1
  <2>3. entries \in Seq(Entries)
    BY <1>3, <2>2, SeqDef
  <2>4. B!Elements(entries) = {[of |-> Sub[i], depth |-> d + 1] : i \in DOMAIN Sub}
    BY DEF B!Elements
  <2>5. B!Elements(entries) = {[of |-> c, depth |-> d + 1] : c \in B!Elements(Sub)}
    BY <2>4 DEF B!Elements
  <2> HIDE DEF entries
  <2> QED
    BY <1>1, <1>2, <1>5, <2>3, <2>5
<1> QED
  BY <1>4, <1>5

\* Reading a page moves leaves from what will be found to what has been.
LEMMA FetchFinds == ASSUME BulkType, call \in Calls, B!FetchPage
                    PROVE  /\ call' \in Calls /\ call'.step = "walk"
                           /\ call'.op = call.op /\ call'.confirmed = call.confirmed
                           /\ Ahead(call') = Ahead(call)
<1> DEFINE Entries == [of : B!Containers, depth : 0 .. 2]
           h == Head(call.todo)
           rest == Tail(call.todo)
           chunk == B!Page(h.of, call.offset)
           all == call.batch \o chunk
           yields == Yields[h.depth + 1]
<1>1. /\ call.todo \in Seq(Entries) /\ call.batch \in Seq(Seasons \cup Keys) /\ call.offset \in Nat
      /\ call.leaves \in Seq(Keys) /\ call.todo # <<>> /\ call.step = "walk"
  BY DEF Calls, B!FetchPage
<1>2. /\ h \in Entries /\ rest \in Seq(Entries)
      /\ B!Elements(call.todo) = {h} \cup B!Elements(rest)
  BY <1>1, HeadAndTail
<1>3. call' = IF B!Last(chunk)
              THEN [call EXCEPT !.leaves = @ \o B!Only(all, Keys),
                                !.todo = B!Descend(all, h.depth) \o Tail(@),
                                !.batch = <<>>, !.offset = 0]
              ELSE [call EXCEPT !.batch = all, !.offset = @ + PageSize]
  BY DEF B!FetchPage
<1>4. h.of \in B!Containers /\ h.depth \in 0 .. 2
  BY <1>2
<1>5. /\ chunk \in Seq(Seasons \cup Keys)
      /\ B!Last(chunk) => B!Elements(chunk) = Unread(h.of, call.offset)
      /\ ~B!Last(chunk) => B!Elements(chunk) \cup Unread(h.of, call.offset + PageSize)
                           = Unread(h.of, call.offset)
  BY <1>1, <1>4, PageIs
<1> HIDE DEF h, chunk
<1>6. all \in Seq(Seasons \cup Keys) /\ B!Elements(all) = B!Elements(call.batch) \cup B!Elements(chunk)
  BY <1>1, <1>5, Appended
<1>7. Ahead(call) = B!Elements(call.leaves)
                      \cup FromKids(B!Elements(call.batch) \cup Unread(h.of, call.offset), yields)
                      \cup UNION {Yields[e.depth][e.of] : e \in B!Elements(rest)}
  BY <1>1 DEF Ahead, AtHead, InTail, h
<1> HIDE DEF all, rest
<1>8. CASE ~B!Last(chunk)
  <2>1. call' = [call EXCEPT !.batch = all, !.offset = @ + PageSize]
    BY <1>3, <1>8
  <2>2. call.offset + PageSize \in Nat
    BY <1>1, BulkAssumption
  <2>3. /\ call' \in Calls /\ call'.step = call.step /\ call'.op = call.op
        /\ call'.confirmed = call.confirmed
        /\ call'.todo = call.todo /\ call'.leaves = call.leaves
        /\ call'.batch = all /\ call'.offset = call.offset + PageSize
    BY <1>6, <2>1, <2>2 DEF Calls
  <2>4. B!Elements(all) \cup Unread(h.of, call.offset + PageSize)
          = B!Elements(call.batch) \cup Unread(h.of, call.offset)
    BY <1>5, <1>6, <1>8
  <2>5. Ahead(call') = B!Elements(call.leaves)
                         \cup FromKids(B!Elements(all) \cup Unread(h.of, call.offset + PageSize), yields)
                         \cup UNION {Yields[e.depth][e.of] : e \in B!Elements(rest)}
    BY <1>1, <2>3 DEF Ahead, AtHead, InTail, h, rest
  <2> QED
    BY <1>1, <1>7, <2>3, <2>4, <2>5
<1>9. CASE B!Last(chunk)
  <2> DEFINE taken == B!Only(all, Keys)
             below == B!Descend(all, h.depth)
             leaves == call.leaves \o taken
             todo == below \o rest
  <2>1. call' = [call EXCEPT !.leaves = leaves, !.todo = todo, !.batch = <<>>, !.offset = 0]
    BY <1>3, <1>9 DEF rest
  <2>2. taken \in Seq(Keys) /\ B!Elements(taken) = B!Elements(all) \cap Keys
    <3>1. taken \in Seq((Seasons \cup Keys) \cap Keys) /\ B!Elements(taken) = B!Elements(all) \cap Keys
      BY <1>6, OnlyTakes
    <3>2. (Seasons \cup Keys) \cap Keys = Keys
      OBVIOUS
    <3> QED
      BY <3>1, <3>2
  <2>3. /\ below \in Seq(Entries)
        /\ B!Elements(below) = IF h.depth = 2 THEN {}
                               ELSE {[of |-> c, depth |-> h.depth + 1] :
                                        c \in B!Elements(all) \cap B!Containers}
    BY <1>4, <1>6, DescendIs
  <2> HIDE DEF taken, below
  <2>4. leaves \in Seq(Keys) /\ B!Elements(leaves) = B!Elements(call.leaves) \cup B!Elements(taken)
    BY <1>1, <2>2, Appended
  <2>5. todo \in Seq(Entries) /\ B!Elements(todo) = B!Elements(below) \cup B!Elements(rest)
    BY <1>2, <2>3, Appended
  <2> HIDE DEF leaves, todo
  <2>6. /\ call' \in Calls /\ call'.step = call.step /\ call'.op = call.op
        /\ call'.confirmed = call.confirmed
        /\ call'.todo = todo /\ call'.leaves = leaves /\ call'.batch = <<>> /\ call'.offset = 0
    <3>1. <<>> \in Seq(Seasons \cup Keys) /\ 0 \in Nat
      BY EmptySeq
    <3> QED
      BY <2>1, <2>4, <2>5, <3>1 DEF Calls
  <2>7. Ahead(call') = B!Elements(leaves) \cup UNION {Yields[e.depth][e.of] : e \in B!Elements(todo)}
    BY <2>6, FreshAhead
  <2>8. UNION {Yields[e.depth][e.of] : e \in B!Elements(below)}
          = UNION {yields[c] : c \in B!Elements(all) \cap B!Containers}
    <3>1. CASE h.depth = 2
      <4>1. \A c \in B!Containers : yields[c] = {}
        BY <3>1, YieldsAre
      <4> QED
        BY <2>3, <3>1, <4>1
    <3>2. CASE h.depth # 2
      <4> HIDE DEF yields
      <4>1. ASSUME NEW e \in B!Elements(below), NEW x \in Yields[e.depth][e.of]
            PROVE  \E c \in B!Elements(all) \cap B!Containers : x \in yields[c]
        BY <2>3, <3>2, <4>1 DEF yields
      <4>2. ASSUME NEW c \in B!Elements(all) \cap B!Containers, NEW x \in yields[c]
            PROVE  \E e \in B!Elements(below) : x \in Yields[e.depth][e.of]
        <5>1. PICK e \in B!Elements(below) : e = [of |-> c, depth |-> h.depth + 1]
          BY <2>3, <3>2
        <5>2. e.of = c /\ e.depth = h.depth + 1
          BY <5>1
        <5> QED
          BY <4>2, <5>2 DEF yields
      <4> QED
        BY <4>1, <4>2
    <3> QED
      BY <3>1, <3>2
  <2>9. B!Elements(all) = B!Elements(call.batch) \cup Unread(h.of, call.offset)
    BY <1>5, <1>6, <1>9
  <2>10. FromKids(B!Elements(all), yields)
           = B!Elements(taken) \cup UNION {yields[c] : c \in B!Elements(all) \cap B!Containers}
    BY <2>2 DEF FromKids
  <2>11. UNION {Yields[e.depth][e.of] : e \in B!Elements(todo)}
           = (UNION {Yields[e.depth][e.of] : e \in B!Elements(below)})
               \cup UNION {Yields[e.depth][e.of] : e \in B!Elements(rest)}
    BY <2>5
  <2> HIDE DEF yields
  <2>12. Ahead(call') = Ahead(call)
    BY <1>7, <2>4, <2>7, <2>8, <2>9, <2>10, <2>11
  <2> QED
    BY <1>1, <2>6, <2>12
<1> QED
  BY <1>8, <1>9

\* A new episode moves others to later places, and what is unread stays so.
LEMMA InsertGrows == ASSUME BulkType, NEW c \in Seasons, NEW k \in Keys, NEW i \in 0 .. Len(tree[c]),
                            B!Insert(c, k, i)
                     PROVE  /\ tree' \in [B!Containers -> Seq(Seasons \cup Keys)] /\ tree' # tree
                            /\ \A d \in B!Containers : \A n \in Nat : Unread(d, n) \subseteq Unread(d, n)'
<1> DEFINE t == tree[c]
           T == Seasons \cup Keys
           before == SubSeq(t, 1, i)
           one == <<k>>
           after == SubSeq(t, i + 1, Len(t))
           begun == before \o one
           u == begun \o after
<1>1. c \in B!Containers /\ t \in Seq(T) /\ Len(t) \in Nat /\ t \in [1 .. Len(t) -> T]
  BY UnreadIs, LenProperties DEF B!Containers
<1>2. tree' = [tree EXCEPT ![c] = u]
  BY DEF B!Insert
<1> HIDE DEF t, T
<1>3. /\ before \in Seq(T) /\ Len(before) = i /\ i \in Nat
      /\ \A j \in 1 .. i : before[j] = t[j]
  <2>1. i \in Nat /\ \A j \in 1 .. i : t[j] \in T
    BY <1>1 DEF t
  <2>2. /\ before \in Seq(T) /\ Len(before) = IF 1 <= i THEN i - 1 + 1 ELSE 0
        /\ \A j \in 1 .. i - 1 + 1 : before[j] = t[1 + j - 1]
    BY <2>1, 1 \in Int, i \in Int, SubSeqProperties
  <2> HIDE DEF before
  <2> QED
    BY <2>1, <2>2
<1>4. /\ after \in Seq(T) /\ Len(after) = Len(t) - i
      /\ \A j \in 1 .. Len(t) - i : after[j] = t[i + j]
  <2>1. \A j \in i + 1 .. Len(t) : t[j] \in T
    BY <1>1, <1>3
  <2>2. /\ after \in Seq(T) /\ Len(after) = IF i + 1 <= Len(t) THEN Len(t) - (i + 1) + 1 ELSE 0
        /\ \A j \in 1 .. Len(t) - (i + 1) + 1 : after[j] = t[(i + 1) + j - 1]
    BY <1>1, <1>3, <2>1, i + 1 \in Int, Len(t) \in Int, SubSeqProperties
  <2>3. i \in Nat /\ Len(t) \in Nat /\ i <= Len(t)
    BY <1>1, <1>3 DEF t
  <2>4. /\ (IF i + 1 <= Len(t) THEN Len(t) - (i + 1) + 1 ELSE 0) = Len(t) - i
        /\ \A j \in 1 .. Len(t) - i : j \in 1 .. Len(t) - (i + 1) + 1 /\ (i + 1) + j - 1 = i + j
    BY <2>3
  <2> HIDE DEF after
  <2>5. ASSUME NEW j \in 1 .. Len(t) - i PROVE after[j] = t[i + j]
    <3>1. after[j] = t[(i + 1) + j - 1] /\ (i + 1) + j - 1 = i + j
      BY <2>2, <2>4, <2>5
    <3> QED
      BY <3>1
  <2> QED
    BY <2>2, <2>4, <2>5
<1>5. one \in Seq(T) /\ Len(one) = 1 /\ one[1] = k
  BY DEF T
<1> HIDE DEF before, one, after
<1>6. /\ begun \in Seq(T) /\ Len(begun) = i + 1
      /\ \A j \in 1 .. i + 1 : begun[j] = IF j <= i THEN before[j] ELSE one[j - i]
  <2>1. /\ begun \in Seq(T) /\ Len(begun) = Len(before) + Len(one)
        /\ \A j \in 1 .. Len(before) + Len(one) :
              begun[j] = IF j <= Len(before) THEN before[j] ELSE one[j - Len(before)]
    BY <1>3, <1>5, ConcatProperties, Zenon
  <2> HIDE DEF begun
  <2> QED
    BY <1>3, <1>5, <2>1
<1> HIDE DEF begun
<1>7. /\ u \in Seq(T) /\ Len(u) = Len(t) + 1
      /\ \A j \in 1 .. Len(t) + 1 : u[j] = IF j <= i + 1 THEN begun[j] ELSE after[j - (i + 1)]
  <2>1. /\ u \in Seq(T) /\ Len(u) = Len(begun) + Len(after)
        /\ \A j \in 1 .. Len(begun) + Len(after) :
              u[j] = IF j <= Len(begun) THEN begun[j] ELSE after[j - Len(begun)]
    BY <1>4, <1>6, ConcatProperties, Zenon
  <2>2. Len(begun) = i + 1 /\ Len(begun) + Len(after) = Len(t) + 1
    BY <1>1, <1>3, <1>4, <1>6
  <2> HIDE DEF u
  <2> QED
    BY <2>1, <2>2
<1> HIDE DEF u
<1>8. ASSUME NEW j \in 1 .. Len(t) PROVE \E m \in {j, j + 1} : m \in 1 .. Len(u) /\ u[m] = t[j]
  <2>1. CASE j <= i
    <3>1. j \in 1 .. i /\ j \in 1 .. i + 1 /\ j <= i + 1 /\ j \in 1 .. Len(t) + 1
      BY <1>1, <1>3, <2>1
    <3>2. u[j] = begun[j] /\ begun[j] = before[j] /\ before[j] = t[j]
      BY <1>3, <1>6, <1>7, <2>1, <3>1
    <3> QED
      BY <1>7, <3>1, <3>2
  <2>2. CASE ~(j <= i)
    <3>1. /\ j + 1 \in 1 .. Len(t) + 1 /\ ~(j + 1 <= i + 1) /\ (j + 1) - (i + 1) = j - i
          /\ j - i \in 1 .. Len(t) - i /\ i + (j - i) = j
      BY <1>1, <1>3, <2>2
    <3>2. u[j + 1] = after[(j + 1) - (i + 1)]
      BY <1>7, <3>1
    <3>3. after[j - i] = t[j]
      BY <1>4, <3>1
    <3> QED
      BY <1>7, <3>1, <3>2, <3>3
  <2> QED
    BY <2>1, <2>2
<1>9. tree' \in [B!Containers -> Seq(Seasons \cup Keys)] /\ tree'[c] = u
  BY <1>1, <1>2, <1>7 DEF BulkType, T
<1>10. tree' # tree
  BY <1>1, <1>7, <1>9 DEF t
<1>11. ASSUME NEW d \in B!Containers, NEW n \in Nat PROVE Unread(d, n) \subseteq Unread(d, n)'
  <2>1. CASE d # c
    <3>1. tree'[d] = tree[d]
      BY <1>2, <2>1 DEF BulkType
    <3> QED
      BY <3>1 DEF Unread
  <2>2. CASE d = c
    <3> SUFFICES ASSUME NEW j \in 1 .. Len(t), j > n PROVE t[j] \in Unread(d, n)'
      BY <2>2 DEF Unread, t
    <3>1. PICK m \in {j, j + 1} : m \in 1 .. Len(u) /\ u[m] = t[j]
      BY <1>8
    <3>2. m > n
      BY <3>1
    <3> QED
      BY <1>9, <2>2, <3>1, <3>2 DEF Unread
  <2> QED
    BY <2>1, <2>2
<1> QED
  BY <1>9, <1>10, <1>11

LEMMA SameTree == ASSUME tree' = tree
                  PROVE  /\ Yields' = Yields /\ AllLeaves' = AllLeaves
                         /\ \A w : Ahead(w)' = Ahead(w)
<1>1. Yields' = Yields
  BY DEF Yields, Kids
<1>2. \A c, n : Unread(c, n)' = Unread(c, n)
  BY DEF Unread
<1>3. \A w : AtHead(w)' = AtHead(w) /\ InTail(w)' = InTail(w)
  BY <1>1, <1>2 DEF AtHead, InTail
<1> QED
  BY <1>1, <1>3 DEF Ahead, AllLeaves

LEMMA KidsUnread == BulkType => \A c \in B!Containers : Unread(c, 0) = Kids(c)
  BY UnreadIs

LEMMA AheadGrows == ASSUME BulkType, BulkType', NEW w \in Calls,
                           \A c \in B!Containers : \A n \in Nat : Unread(c, n) \subseteq Unread(c, n)'
                    PROVE  Ahead(w) \subseteq Ahead(w)'
<1>0. (\A d \in 0 .. 2 : \A c \in B!Containers : Yields[d][c] = FromKids(Kids(c), Yields[d + 1]))'
  BY YieldsFromKids, PTL
<1>1. \A c \in B!Containers : Kids(c) \subseteq Kids(c)'
  <2>1. (BulkType => \A c \in B!Containers : Unread(c, 0) = Kids(c))'
    BY KidsUnread, PTL
  <2> QED
    BY <2>1, KidsUnread
<1>2. ASSUME NEW d \in 0 .. 2, \A c \in B!Containers : Yields[d + 1][c] \subseteq Yields'[d + 1][c]
      PROVE  \A c \in B!Containers : Yields[d][c] \subseteq Yields'[d][c]
  <2> TAKE c \in B!Containers
  <2>1. Yields[d][c] = FromKids(Kids(c), Yields[d + 1]) /\ Yields'[d][c] = FromKids(Kids(c)', Yields'[d + 1])
    BY <1>0, YieldsFromKids
  <2> QED
    BY <1>1, <1>2, <2>1 DEF FromKids
<1>3. \A d \in 0 .. 3 : \A c \in B!Containers : Yields[d][c] \subseteq Yields'[d][c]
  <2>1. \A c \in B!Containers : Yields[3][c] \subseteq Yields'[3][c]
    BY YieldsAre
  <2>2. \A c \in B!Containers : Yields[2][c] \subseteq Yields'[2][c]
    BY <1>2, <2>1, 2 + 1 = 3
  <2>3. \A c \in B!Containers : Yields[1][c] \subseteq Yields'[1][c]
    BY <1>2, <2>2, 1 + 1 = 2
  <2>4. \A c \in B!Containers : Yields[0][c] \subseteq Yields'[0][c]
    BY <1>2, <2>3, 0 + 1 = 1
  <2>5. \A d \in 0 .. 3 : d = 0 \/ d = 1 \/ d = 2 \/ d = 3
    OBVIOUS
  <2> QED
    BY <2>1, <2>2, <2>3, <2>4, <2>5
<1>4. CASE w.todo = <<>>
  BY <1>4 DEF Ahead
<1>5. CASE w.todo # <<>>
  <2> DEFINE h == Head(w.todo)
             Entries == [of : B!Containers, depth : 0 .. 2]
  <2>1. w.todo \in Seq(Entries) /\ w.offset \in Nat
    BY DEF Calls
  <2>2. /\ h \in Entries /\ Tail(w.todo) \in Seq(Entries)
    BY <1>5, <2>1, HeadAndTail
  <2>3. B!Elements(Tail(w.todo)) \subseteq Entries
    <3> DEFINE rest == Tail(w.todo)
    <3>1. rest \in Seq(Entries)
      BY <2>2
    <3> HIDE DEF rest, Entries
    <3>2. B!Elements(rest) \subseteq Entries
      BY <3>1, ElementsType
    <3> QED
      BY <3>2 DEF rest
  <2>4. h.of \in B!Containers /\ h.depth + 1 \in 0 .. 3
    BY <2>2
  <2> HIDE DEF h
  <2>5. Unread(h.of, w.offset) \subseteq Unread(h.of, w.offset)'
    BY <2>1, <2>4
  <2>6. AtHead(w) \subseteq AtHead(w)'
    BY <1>3, <2>4, <2>5 DEF AtHead, FromKids, h
  <2>7. InTail(w) \subseteq InTail(w)'
    <3>1. \A e \in B!Elements(Tail(w.todo)) : Yields[e.depth][e.of] \subseteq Yields'[e.depth][e.of]
      <4>1. \A e \in Entries : e.of \in B!Containers /\ e.depth \in 0 .. 3
        OBVIOUS
      <4> QED
        BY <1>3, <2>3, <4>1
    <3> QED
      BY <3>1 DEF InTail
  <2> QED
    BY <1>5, <2>6, <2>7 DEF Ahead
<1> QED
  BY <1>4, <1>5

LEMMA ReadyKeepsId == ASSUME TableInv, TableNext \/ UNCHANGED tableVars, NEW k \in Keys,
                             items[k].status = "ready", items'[k].status = "ready"
                      PROVE  items'[k].id = items[k].id
<1>1. items \in [Keys -> Rows] /\ \A r \in Rows : r = [id |-> r.id, status |-> r.status]
  BY Typed DEF TableInv
<1>2. ASSUME NEW q \in Keys, Enqueue(q) \/ Delete(q) \/ Evict(q) PROVE items'[k].id = items[k].id
  BY <1>1, <1>2 DEF Enqueue, Delete, Evict, Absent, Rows
<1>3. ASSUME NEW q \in Keys, Mark(q) \/ Fail(q) \/ Deliver(q) PROVE items'[k].id = items[k].id
  BY <1>1, <1>3 DEF Mark, Fail, Deliver, Absent, Rows
<1>4. CASE Claim \/ Release \/ UNCHANGED tableVars
  BY <1>4 DEF Claim, Release, tableVars
<1>5. CASE Restart
  BY <1>1, <1>5 DEF Restart, Rows
<1> QED
  BY <1>2, <1>3, <1>4, <1>5 DEF TableNext, Request, Engine

\* What a step owes, and what it notes.
LEMMA OwedMoves == ASSUME BulkType, B!History
                   PROVE  /\ owed' \subseteq Keys /\ changed' \in BOOLEAN
                          /\ call'.step = "idle" => owed' = {}
                          /\ call'.step # "idle" => owed' \subseteq B!ToHandle(call.op)'
                          /\ call'.step # "idle" /\ call.step # "idle" => owed' \subseteq owed
                          /\ ~changed' => \/ call.step = "idle" /\ call'.step = "walk" /\ call'.ask
                                          \/ ~changed /\ items' = items /\ tree' = tree
<1>1. changed' \in BOOLEAN
  BY DEF B!History, BulkType
<1>2. ~changed' => \/ call.step = "idle" /\ call'.step = "walk" /\ call'.ask
                   \/ ~changed /\ items' = items /\ tree' = tree
  BY DEF B!History
<1>3. CASE call'.step = "idle" /\ owed' = {}
  BY <1>1, <1>2, <1>3
<1>4. CASE \E op \in {"queue", "evict"} : call'.step # "idle" /\ call'.op = op /\ B!Owed(op)
  <2>1. PICK op \in {"queue", "evict"} : call'.step # "idle" /\ call'.op = op /\ B!Owed(op)
    BY <1>4
  <2>2. owed' = IF call.step = "idle" THEN B!ToHandle(op)' ELSE owed \cap B!ToHandle(op)'
    BY <2>1 DEF B!Owed
  <2>3. B!ToHandle(op)' \subseteq Keys
    BY DEF B!ToHandle
  <2>4. B!ToHandle(call.op)' = B!ToHandle(op)'
    BY <2>1
  <2> HIDE DEF B!ToHandle
  <2> QED
    BY <1>1, <1>2, <2>1, <2>2, <2>3, <2>4
<1> QED
  BY <1>3, <1>4 DEF B!History

\* A leaf in hand is one of the call's.
LEMMA LeafIs == ASSUME BulkType, call.step = "act", call.leaves # <<>>
                PROVE  /\ call \in Calls /\ B!Leaf \in Keys /\ Tail(call.leaves) \in Seq(Keys)
                       /\ B!Elements(call.leaves) = {B!Leaf} \cup B!Elements(Tail(call.leaves))
<1>1. call \in Calls
  BY DEF BulkType, B!NoCall
<1>2. call.leaves \in Seq(Keys)
  BY <1>1 DEF Calls
<1> QED
  BY <1>1, <1>2, HeadAndTail DEF B!Leaf

LEMMA BulkTableKept == ASSUME TableInv, BulkType, B!Next
                       PROVE  (TableNext \/ UNCHANGED tableVars) /\ TableKept
<1> DEFINE Goal == TableNext \/ UNCHANGED tableVars
<1>1. Goal
  <2>1. CASE B!Others
    <3>1. B!TableNext
      BY <2>1 DEF B!Others
    <3> QED
      BY <3>1, BulkTable
  <2>2. CASE B!Upstream \/ B!FetchPage \/ B!WalkFails \/ B!Snapshot \/ B!Dismiss \/ B!Skip \/ B!LeafFails
             \/ B!Finish \/ \E op \in {"queue", "evict"}, ask \in BOOLEAN : B!Begin(op, ask)
    <3>1. UNCHANGED B!tableVars
      BY <2>2 DEF B!Upstream, B!Insert, B!Begin, B!FetchPage, B!WalkFails, B!Snapshot, B!Dismiss, B!Skip,
                  B!LeafFails, B!Finish
    <3> QED
      BY <3>1 DEF B!tableVars, tableVars
  <2>3. CASE B!QueueLeaf
    <3>1. call.step = "act" /\ call.leaves # <<>>
      BY <2>3 DEF B!QueueLeaf, B!Acts
    <3>2. B!Leaf \in Keys
      BY <3>1, LeafIs
    <3>3. B!Enqueue(B!Leaf) \/ UNCHANGED B!tableVars
      BY <2>3 DEF B!QueueLeaf
    <3>4. Enqueue(B!Leaf) \/ UNCHANGED tableVars
      BY <3>2, <3>3, BulkTable DEF B!tableVars, tableVars
    <3> QED
      BY <3>2, <3>4 DEF TableNext, Request
  <2>4. CASE B!EvictLeaf
    <3>1. UNCHANGED B!tableVars \/ \E j \in Keys : B!Evict(j)
      BY <2>4 DEF B!EvictLeaf, B!Victims
    <3>2. UNCHANGED tableVars \/ \E j \in Keys : Evict(j)
      BY <3>1, BulkTable DEF B!tableVars, tableVars
    <3> QED
      BY <3>2 DEF TableNext, Request
  <2> HIDE DEF Goal
  <2> QED
    BY <2>1, <2>2, <2>3, <2>4 DEF B!Next, B!Call
<1> QED
  BY <1>1, TableKeeps

\* The rows that a call has read stay known, and those that it still owes stay
\* the same rows.
LEMMA ActStays == ASSUME BulkInv, B!History, TableNext \/ UNCHANGED tableVars, TableKept,
                         call.step = "act", call'.step = "act", call'.op = call.op, call'.rows = call.rows,
                         call.rows \in [Keys -> Rows],
                         owed' \subseteq B!Elements(call'.leaves) \cup call'.failed
                  PROVE  ActInv'
<1>1. owed' \subseteq owed /\ owed' \subseteq B!ToHandle(call.op)' /\ owed' \subseteq Keys
  BY OwedMoves DEF BulkInv
<1>2. AllKnown(call.rows)'
  <2>1. \A k \in Keys : Known(k, call.rows[k])
    BY DEF BulkInv, ActInv, AllKnown
  <2>2. \A k \in Keys : Known(k, call.rows[k])'
    BY <2>1 DEF TableKept
  <2> QED
    BY <2>2 DEF AllKnown
<1>3. ASSUME NEW k \in owed', call.op = "evict" PROVE items'[k].id = call.rows[k].id
  <2>1. k \in Keys /\ k \in owed /\ k \in B!ToHandle(call.op) /\ k \in B!ToHandle(call.op)'
        /\ items[k].id = call.rows[k].id
    BY <1>1, <1>3 DEF BulkInv, ActInv
  <2>2. k \in B!ToHandle("evict") /\ k \in B!ToHandle("evict")'
    BY <1>3, <2>1
  <2>3. items[k].status = "ready" /\ items'[k].status = "ready"
    BY <2>2 DEF B!ToHandle
  <2> QED
    BY <2>1, <2>3, ReadyKeepsId DEF BulkInv
<1>4. \A k \in owed' : ~B!Skips(call.op, call.rows[k])
  BY <1>1 DEF BulkInv, ActInv
<1>6. \A k \in owed' : ~B!Skips(call'.op, call'.rows[k])
  BY <1>4
<1>5. \A k \in owed' : call'.op = "evict" => items'[k].id = call'.rows[k].id
  BY <1>3
<1>7. \A k \in owed' : /\ k \in B!ToHandle(call.op)' /\ ~B!Skips(call'.op, call'.rows[k])
                       /\ call'.op = "evict" => items'[k].id = call'.rows[k].id
  BY <1>1, <1>5, <1>6, Zenon
<1> QED
  BY <1>2, <1>7, Zenon DEF ActInv

\* What a call has to handle is among what a walk finds.
HandledAhead == \A op \in {"queue", "evict"} : B!ToHandle(op) \subseteq AllLeaves

LEMMA LeavesToHandle == BulkType => HandledAhead
<1> SUFFICES ASSUME BulkType, NEW op \in {"queue", "evict"}, NEW k \in B!ToHandle(op)
             PROVE  k \in AllLeaves
  BY DEF HandledAhead
<1>1. PICK c \in B!Beneath : k \in Keys /\ k \in Kids(c)
  BY DEF B!ToHandle, Kids
<1>2. /\ Root \in B!Containers /\ c \in B!Containers
      /\ c = Root \/ c \in Kids(Root) \cap B!Containers
  BY DEF B!Beneath, B!Containers, Kids
<1>3. \A d \in B!Containers : /\ Yields[0][d] = FromKids(Kids(d), Yields[1])
                              /\ Yields[1][d] = FromKids(Kids(d), Yields[2])
  BY YieldsAre, 0 + 1 = 1, 1 + 1 = 2
<1>4. k \in Yields[1][c] /\ k \in Yields[0][c]
  BY <1>1, <1>2, <1>3 DEF FromKids
<1>5. ASSUME c \in Kids(Root) \cap B!Containers PROVE k \in Yields[0][Root]
  BY <1>2, <1>3, <1>4, <1>5 DEF FromKids
<1> QED
  BY <1>2, <1>4, <1>5 DEF AllLeaves

\* A dialog that stays holds what it says for as long as nothing changes.
LEMMA DialogStays == ASSUME BulkInv, B!History, dialog' = dialog \/ dialog' = B!NoDialog,
                            call'.step = "walk" /\ call'.ask /\ call.step = "idle" => dialog' = B!NoDialog
                     PROVE  DialogInv'
<1>1. B!NoDialog.op = "none"
  BY DEF B!NoDialog
<1>2. CASE dialog' = dialog /\ ~changed' /\ dialog'.op # "none"
  <2>1. ~changed /\ items' = items /\ tree' = tree
    BY <1>1, <1>2, OwedMoves DEF BulkInv
  <2>2. dialog.leaves = {k \in AllLeaves : B!Counts(dialog.op, items[k])}
    BY <1>2, <2>1 DEF BulkInv, DialogInv
  <2>3. AllLeaves' = AllLeaves
    BY <2>1, SameTree
  <2>4. dialog'.leaves = {k \in AllLeaves' : B!Counts(dialog'.op, items'[k])}
    BY <1>2, <2>1, <2>2, <2>3
  <2> QED
    BY <2>4, Zenon DEF DialogInv
<1> QED
  BY <1>1, <1>2 DEF DialogInv

\* A call that waits, or the table or upstream that goes on beside it.
LEMMA OthersKeep == ASSUME BulkInv, B!History, TableNext \/ UNCHANGED tableVars, TableKept,
                           UNCHANGED <<call, dialog>>,
                           tree' \in [B!Containers -> Seq(Seasons \cup Keys)],
                           \A d \in B!Containers : \A n \in Nat : Unread(d, n) \subseteq Unread(d, n)'
                    PROVE  BulkType' /\ WalkInv' /\ ActInv' /\ DialogInv'
<1>1. BulkType'
  BY OwedMoves DEF BulkInv, BulkType
<1>2. DialogInv'
  BY DialogStays
<1>3. CASE call.step = "idle"
  BY <1>1, <1>2, <1>3 DEF WalkInv, ActInv
<1>4. CASE call.step = "walk"
  <2>1. call \in Calls
    BY <1>4 DEF BulkInv, BulkType, B!NoCall
  <2>2. Ahead(call) \subseteq Ahead(call)'
    <3>1. \A w \in Calls : Ahead(w) \subseteq Ahead(w)'
      BY <1>1, AheadGrows DEF BulkInv
    <3> QED
      BY <2>1, <3>1
  <2>3. owed' \subseteq Ahead(call)'
    BY <1>4, <2>2, OwedMoves DEF BulkInv, WalkInv
  <2>4. ASSUME ~changed' PROVE Ahead(call)' = AllLeaves'
    <3>1. ~changed /\ tree' = tree
      BY <1>4, <2>4, OwedMoves DEF BulkInv
    <3>2. AllLeaves' = AllLeaves /\ \A w : Ahead(w)' = Ahead(w)
      BY <3>1, SameTree
    <3>3. Ahead(call) = AllLeaves
      BY <1>4, <3>1 DEF BulkInv, WalkInv
    <3> QED
      BY <3>2, <3>3
  <2>5. call'.confirmed => dialog'.op = call'.op
    BY <1>4 DEF BulkInv, WalkInv
  <2>6. WalkInv'
    BY <2>3, <2>4, <2>5 DEF WalkInv
  <2> QED
    BY <1>1, <1>2, <1>4, <2>6 DEF ActInv
<1>5. CASE call.step = "act"
  <2>1. call \in Calls
    BY <1>5 DEF BulkInv, BulkType, B!NoCall
  <2>2. call.rows \in [Keys -> Rows]
    BY <2>1 DEF Calls
  <2>3. owed' \subseteq B!Elements(call'.leaves) \cup call'.failed
    BY <1>5, OwedMoves DEF BulkInv, ActInv
  <2>4. ActInv'
    BY <1>5, <2>2, <2>3, ActStays
  <2> QED
    BY <1>1, <1>2, <1>5, <2>4 DEF WalkInv
<1> QED
  BY <1>3, <1>4, <1>5 DEF BulkInv, BulkType, B!NoCall, Calls

\* A walk begins at the show, and has all of its leaves ahead.
LEMMA BeginKeeps == ASSUME BulkInv, B!History, NEW op \in {"queue", "evict"}, NEW ask \in BOOLEAN,
                           B!Begin(op, ask)
                    PROVE  BulkType' /\ WalkInv' /\ ActInv' /\ DialogInv'
<1> DEFINE Entries == [of : B!Containers, depth : 0 .. 2]
           entry == [of |-> Root, depth |-> 0]
<1>1. /\ call' = [op |-> op, ask |-> ask, confirmed |-> ~ask /\ dialog # B!NoDialog, step |-> "walk",
                  todo |-> <<entry>>, batch |-> <<>>, offset |-> 0,
                  leaves |-> <<>>, rows |-> B!NoRows, failed |-> {}]
      /\ dialog' = IF ask THEN B!NoDialog ELSE dialog
      /\ tree' = tree /\ call.step = "idle"
      /\ ask \/ dialog = B!NoDialog \/ dialog.op = op
  BY DEF B!Begin
<1>2. <<entry>> \in Seq(Entries) /\ B!Elements(<<entry>>) = {entry}
  <2>1. entry \in Entries
    BY DEF B!Containers
  <2> HIDE DEF entry, Entries
  <2> QED
    BY <2>1 DEF B!Elements
<1>3. B!NoRows \in [Keys -> Rows]
  BY Typed DEF B!NoRows, B!Absent, Absent
<1>4. /\ call'.op = op /\ call'.ask = ask /\ call'.step = "walk" /\ call'.todo = <<entry>> /\ call'.batch = <<>>
      /\ call'.offset = 0 /\ call'.leaves = <<>>
      /\ call'.confirmed = (~ask /\ dialog # B!NoDialog)
  BY <1>1, Zenon
<1>5. call' \in Calls
  <2>1. <<>> \in Seq(Seasons \cup Keys) /\ <<>> \in Seq(Keys) /\ 0 \in Nat
    BY EmptySeq
  <2> HIDE DEF entry, Entries
  <2>2. Calls = [op : {"queue", "evict"}, ask : BOOLEAN, confirmed : BOOLEAN, step : {"walk", "act"},
          todo : Seq(Entries), batch : Seq(Seasons \cup Keys), offset : Nat,
          leaves : Seq(Keys), rows : [Keys -> Rows], failed : SUBSET Keys]
    BY DEF Calls, Entries
  <2> QED
    BY <1>1, <1>2, <1>3, <2>1, <2>2
<1>6. Ahead(call') = AllLeaves
  <2>1. Ahead(call') = B!Elements(<<>>) \cup UNION {Yields[e.depth][e.of] : e \in {entry}}
    BY <1>2, <1>4, <1>5, FreshAhead DEF BulkInv
  <2>2. B!Elements(<<>>) = {}
    BY DEF B!Elements
  <2>3. entry.depth = 0 /\ entry.of = Root
    OBVIOUS
  <2> HIDE DEF entry
  <2> QED
    BY <2>1, <2>2, <2>3 DEF AllLeaves
<1>7. Ahead(call)' = AllLeaves' /\ AllLeaves' = AllLeaves
  BY <1>1, <1>6, SameTree
<1>8. BulkType'
  BY <1>1, <1>5, OwedMoves DEF BulkInv, BulkType, B!NoDialog
<1>9. owed' \subseteq Ahead(call)'
  <2>1. owed' \subseteq B!ToHandle(call.op)'
    BY <1>4, OwedMoves DEF BulkInv
  <2>2. (BulkType => HandledAhead)'
    BY LeavesToHandle, PTL
  <2>3. B!ToHandle(call.op)' \subseteq AllLeaves'
    BY <1>4, <1>8, <2>2 DEF HandledAhead
  <2> QED
    BY <1>7, <2>1, <2>3
<1>10. call'.confirmed => dialog'.op = call'.op
  BY <1>1, <1>4
<1>11. WalkInv'
  BY <1>7, <1>9, <1>10 DEF WalkInv
<1>12. DialogInv'
  BY <1>1, <1>4, DialogStays
<1> QED
  BY <1>4, <1>8, <1>11, <1>12 DEF ActInv

LEMMA FetchKeeps == ASSUME BulkInv, B!History, B!FetchPage
                    PROVE  BulkType' /\ WalkInv' /\ ActInv' /\ DialogInv'
<1>1. call.step = "walk" /\ tree' = tree /\ dialog' = dialog
  BY DEF B!FetchPage
<1>2. call \in Calls /\ BulkType
  BY <1>1 DEF BulkInv, BulkType, B!NoCall
<1>3. /\ call' \in Calls /\ call'.step = "walk"
      /\ call'.op = call.op /\ call'.confirmed = call.confirmed
      /\ Ahead(call') = Ahead(call)
  BY <1>2, FetchFinds
<1>4. BulkType'
  BY <1>1, <1>3, OwedMoves DEF BulkInv, BulkType
<1>5. Ahead(call)' = Ahead(call') /\ AllLeaves' = AllLeaves
  BY <1>1, SameTree
<1>6. owed' \subseteq Ahead(call)'
  BY <1>1, <1>3, <1>5, OwedMoves DEF BulkInv, WalkInv
<1>7. ~changed' => Ahead(call)' = AllLeaves'
  BY <1>1, <1>3, <1>5, OwedMoves DEF BulkInv, WalkInv
<1>8. WalkInv'
  BY <1>1, <1>3, <1>6, <1>7 DEF BulkInv, WalkInv
<1>9. DialogInv'
  BY <1>1, DialogStays
<1> QED
  BY <1>3, <1>4, <1>8, <1>9 DEF ActInv

\* The rows are read once, when the walk has nothing ahead that it has not found.
LEMMA SnapshotKeeps == ASSUME BulkInv, B!History, TableKept, B!Snapshot
                       PROVE  BulkType' /\ WalkInv' /\ ActInv' /\ DialogInv'
<1>1. /\ call.step = "walk" /\ call.todo = <<>> /\ tree' = tree
      /\ items' = items /\ nextId' = nextId /\ claimed' = claimed
  BY DEF B!Snapshot, B!tableVars
<1>2. call \in Calls /\ BulkType
  BY <1>1 DEF BulkInv, BulkType, B!NoCall
<1>3. call.leaves \in Seq(Keys) /\ call.op \in {"queue", "evict"}
  BY <1>2 DEF Calls
<1>4. Ahead(call) = B!Elements(call.leaves)
  BY <1>1 DEF Ahead
<1>5. B!Elements(call.leaves) \subseteq Keys
  BY <1>3, ElementsType
<1>6. owed \subseteq B!Elements(call.leaves) /\ (~changed => B!Elements(call.leaves) = AllLeaves)
  BY <1>1, <1>4 DEF BulkInv, WalkInv
<1>7. CASE call.ask
  <2>1. /\ dialog' = [op |-> call.op,
                      leaves |-> {k \in B!Elements(call.leaves) : B!Counts(call.op, items[k])}]
        /\ call' = B!NoCall /\ call'.step = "idle"
    BY <1>7 DEF B!Snapshot, B!NoCall
  <2>2. dialog' \in [op : {"none", "queue", "evict"}, leaves : SUBSET Keys] /\ dialog'.op = call.op
    BY <1>3, <1>5, <2>1
  <2>3. BulkType'
    BY <1>1, <1>3, <2>1, <2>2, OwedMoves DEF BulkInv, BulkType
  <2>4. ASSUME ~changed' PROVE dialog'.leaves = {k \in AllLeaves' : B!Counts(dialog'.op, items'[k])}
    <3>1. ~changed
      BY <2>1, <2>4, OwedMoves DEF BulkInv
    <3>2. AllLeaves' = AllLeaves
      BY <1>1, SameTree
    <3>3. dialog'.leaves = {k \in B!Elements(call.leaves) : B!Counts(call.op, items[k])}
      BY <2>1
    <3> QED
      BY <1>1, <1>6, <2>2, <3>1, <3>2, <3>3
  <2>5. DialogInv'
    BY <2>4, Zenon DEF DialogInv
  <2> QED
    BY <2>1, <2>3, <2>5 DEF WalkInv, ActInv
<1>8. CASE ~call.ask
  <2>1. call' = [call EXCEPT !.step = "act", !.rows = items] /\ dialog' = B!NoDialog
    BY <1>8 DEF B!Snapshot
  <2>2. items \in [Keys -> Rows]
    BY DEF BulkInv, TableInv
  <2>3. /\ call' \in Calls /\ call'.step = "act" /\ call'.op = call.op /\ call'.leaves = call.leaves
        /\ call'.rows = items
    BY <1>2, <2>1, <2>2 DEF Calls
  <2>4. BulkType'
    BY <1>1, <2>1, <2>3, OwedMoves DEF BulkInv, BulkType, B!NoDialog
  <2>5. AllKnown(call.rows)'
    <3>1. \A k \in Keys : Known(k, items[k])'
      BY DEF TableKept, TableInv
    <3> QED
      BY <1>1, <2>2, <2>3, <3>1 DEF AllKnown
  <2>6. owed' \subseteq B!Elements(call'.leaves) /\ owed' \subseteq B!ToHandle(call.op)'
    BY <1>1, <1>6, <2>3, OwedMoves DEF BulkInv
  <2>7. ASSUME NEW k \in owed'
        PROVE  ~B!Skips(call'.op, call'.rows[k]) /\ items'[k].id = call'.rows[k].id
    <3>1. items'[k].status \in IF call'.op = "queue" THEN {"none", "error"} ELSE {"ready"}
      BY <2>6 DEF B!ToHandle
    <3>2. call'.rows[k] = items'[k]
      BY <1>1, <2>3
    <3> HIDE <2>1
    <3> QED
      BY <3>1, <3>2 DEF B!Skips
  <2>8. \A k \in owed' : /\ k \in B!ToHandle(call.op)' /\ ~B!Skips(call'.op, call'.rows[k])
                         /\ call'.op = "evict" => items'[k].id = call'.rows[k].id
    BY <2>6, <2>7
  <2>9. owed' \subseteq B!Elements(call'.leaves) \cup call'.failed
    BY <2>6
  <2>10. ActInv'
    BY <2>5, <2>8, <2>9, Zenon DEF ActInv
  <2>11. DialogInv'
    BY <2>1, <2>3, DialogStays
  <2> QED
    BY <2>3, <2>4, <2>10, <2>11 DEF WalkInv
<1> QED
  BY <1>7, <1>8

\* A leaf leaves the list when it is skipped, dealt with, or has failed.
LEMMA LeafLeaves == ASSUME BulkInv, B!History, TableNext \/ UNCHANGED tableVars, TableKept,
                           call.step = "act", call.leaves # <<>>, tree' = tree, dialog' = dialog,
                           call' \in Calls, call'.step = "act", call'.op = call.op, call'.rows = call.rows,
                           call'.leaves = Tail(call.leaves), call.failed \subseteq call'.failed,
                           B!Leaf \in owed' => B!Leaf \in call'.failed
                    PROVE  BulkType' /\ WalkInv' /\ ActInv' /\ DialogInv'
<1>1. /\ call \in Calls /\ B!Leaf \in Keys
      /\ B!Elements(call.leaves) = {B!Leaf} \cup B!Elements(Tail(call.leaves))
  BY LeafIs DEF BulkInv
<1>2. BulkType'
  BY OwedMoves DEF BulkInv, BulkType
<1>3. owed' \subseteq B!Elements(call'.leaves) \cup call'.failed
  <2>1. owed' \subseteq owed
    BY OwedMoves DEF BulkInv
  <2>2. owed \subseteq {B!Leaf} \cup B!Elements(call'.leaves) \cup call.failed
    BY <1>1 DEF BulkInv, ActInv
  <2> QED
    BY <2>1, <2>2
<1>4. call.rows \in [Keys -> Rows]
  BY <1>1 DEF Calls
<1>5. ActInv'
  BY <1>3, <1>4, ActStays
<1>6. DialogInv'
  BY DialogStays
<1> QED
  BY <1>2, <1>5, <1>6 DEF WalkInv

LEMMA HandledIs == ASSUME BulkType, call.step = "act", call.leaves # <<>>
                   PROVE  LET c == B!Handled(call)
                          IN  /\ c \in Calls /\ c.step = "act" /\ c.op = call.op /\ c.rows = call.rows
                              /\ c.leaves = Tail(call.leaves) /\ c.failed = call.failed
<1>1. call \in Calls /\ Tail(call.leaves) \in Seq(Keys)
  BY LeafIs
<1> QED
  BY <1>1 DEF Calls, B!Handled

LEMMA SkipKeeps == ASSUME BulkInv, B!History, TableNext \/ UNCHANGED tableVars, TableKept, B!Skip
                   PROVE  BulkType' /\ WalkInv' /\ ActInv' /\ DialogInv'
<1>1. /\ call.step = "act" /\ call.leaves # <<>> /\ tree' = tree /\ dialog' = dialog
      /\ call' = B!Handled(call) /\ B!Skips(call.op, call.rows[B!Leaf])
  BY DEF B!Skip
<1>2. /\ call' \in Calls /\ call'.step = "act" /\ call'.op = call.op /\ call'.rows = call.rows
      /\ call'.leaves = Tail(call.leaves) /\ call'.failed = call.failed
  BY <1>1, HandledIs DEF BulkInv
<1>3. B!Leaf \notin owed'
  BY <1>1, <1>2, OwedMoves DEF BulkInv, ActInv
<1> QED
  BY <1>1, <1>2, <1>3, LeafLeaves

LEMMA FailsKeeps == ASSUME BulkInv, B!History, TableNext \/ UNCHANGED tableVars, TableKept, B!LeafFails
                    PROVE  BulkType' /\ WalkInv' /\ ActInv' /\ DialogInv'
<1>1. /\ call.step = "act" /\ call.leaves # <<>> /\ tree' = tree /\ dialog' = dialog
      /\ call' = [B!Handled(call) EXCEPT !.failed = @ \cup {B!Leaf}]
  BY DEF B!LeafFails, B!Acts
<1>2. B!Leaf \in Keys
  BY <1>1, LeafIs DEF BulkInv
<1>3. /\ B!Handled(call) \in Calls /\ B!Handled(call).step = "act" /\ B!Handled(call).op = call.op
      /\ B!Handled(call).rows = call.rows /\ B!Handled(call).leaves = Tail(call.leaves)
      /\ B!Handled(call).failed = call.failed
  BY <1>1, HandledIs DEF BulkInv
<1>4. /\ call' \in Calls /\ call'.step = "act" /\ call'.op = call.op /\ call'.rows = call.rows
      /\ call'.leaves = Tail(call.leaves) /\ call'.failed = call.failed \cup {B!Leaf}
  BY <1>1, <1>2, <1>3 DEF Calls
<1> QED
  BY <1>1, <1>4, LeafLeaves

LEMMA QueueKeeps == ASSUME BulkInv, B!History, TableNext \/ UNCHANGED tableVars, TableKept, B!QueueLeaf
                    PROVE  BulkType' /\ WalkInv' /\ ActInv' /\ DialogInv'
<1>1. /\ call.step = "act" /\ call.leaves # <<>> /\ tree' = tree /\ dialog' = dialog
      /\ call.op = "queue" /\ call' = B!Handled(call)
      /\ B!Enqueue(B!Leaf) \/ items[B!Leaf].status \notin {"none", "error"}
  BY DEF B!QueueLeaf, B!Acts
<1>2. B!Leaf \in Keys
  BY <1>1, LeafIs DEF BulkInv
<1>3. /\ call' \in Calls /\ call'.step = "act" /\ call'.op = call.op /\ call'.rows = call.rows
      /\ call'.leaves = Tail(call.leaves) /\ call'.failed = call.failed
  BY <1>1, HandledIs DEF BulkInv
<1>4. owed' \subseteq owed /\ owed' \subseteq B!ToHandle(call.op)'
  BY <1>1, <1>3, OwedMoves DEF BulkInv
<1>5. \A k \in owed' : items[k].status \in {"none", "error"} /\ items'[k].status \in {"none", "error"}
  <2>1. B!ToHandle(call.op)' = B!ToHandle("queue")'
    BY <1>1, <1>3
  <2>2. B!ToHandle(call.op) = B!ToHandle("queue")
    BY <1>1
  <2>3. owed \subseteq B!ToHandle("queue")
    BY <1>1, <2>2 DEF BulkInv, ActInv
  <2>4. owed' \subseteq B!ToHandle("queue")' /\ owed' \subseteq B!ToHandle("queue")
    BY <1>4, <2>1, <2>3
  <2> QED
    BY <2>4 DEF B!ToHandle
<1>6. ASSUME B!Enqueue(B!Leaf) PROVE items'[B!Leaf].status = "queued"
  <2>1. items \in [Keys -> Rows] /\ items[B!Leaf] = [id |-> items[B!Leaf].id, status |-> items[B!Leaf].status]
    BY <1>2, Typed DEF BulkInv, TableInv
  <2> QED
    BY <1>2, <1>6, <2>1 DEF B!Enqueue
<1>7. B!Leaf \notin owed'
  BY <1>1, <1>5, <1>6
<1> QED
  BY <1>1, <1>3, <1>7, LeafLeaves

\* The row that was read is the leaf's own, and no other is evicted.
LEMMA VictimIs == ASSUME BulkInv, call.step = "act", NEW k \in Keys, ~B!Skips("evict", call.rows[k]),
                         NEW j \in B!Victims(k)
                  PROVE  j = k /\ items[k].status \in {"ready", "evicted"}
<1>1. /\ Known(k, call.rows[k]) /\ call.rows[k].status = "ready"
      /\ j \in Keys /\ items[j].id = call.rows[k].id
  BY DEF BulkInv, ActInv, AllKnown, B!Skips, B!Victims
<1>2. call.rows[k].id # 0
  BY <1>1 DEF Known
<1> QED
  BY <1>1, <1>2 DEF Known

LEMMA EvictKeeps == ASSUME BulkInv, B!History, TableNext \/ UNCHANGED tableVars, TableKept, B!EvictLeaf
                    PROVE  BulkType' /\ WalkInv' /\ ActInv' /\ DialogInv'
<1>1. /\ call.step = "act" /\ call.leaves # <<>> /\ tree' = tree /\ dialog' = dialog
      /\ call.op = "evict" /\ call' = B!Handled(call)
      /\ ~B!Skips("evict", call.rows[B!Leaf])
      /\ B!Victims(B!Leaf) = {} \/ \E j \in B!Victims(B!Leaf) : B!Evict(j)
  BY DEF B!EvictLeaf, B!Acts
<1>2. B!Leaf \in Keys
  BY <1>1, LeafIs DEF BulkInv
<1>3. /\ call' \in Calls /\ call'.step = "act" /\ call'.op = call.op /\ call'.rows = call.rows
      /\ call'.leaves = Tail(call.leaves) /\ call'.failed = call.failed
  BY <1>1, HandledIs DEF BulkInv
<1>4. ASSUME B!Leaf \in owed' PROVE FALSE
  <2>1. B!Leaf \in owed /\ B!Leaf \in B!ToHandle(call.op)'
    BY <1>1, <1>3, <1>4, OwedMoves DEF BulkInv
  <2>2. B!Leaf \in B!ToHandle("evict")'
    BY <1>1, <1>3, <2>1
  <2>3. items'[B!Leaf].status = "ready"
    BY <2>2 DEF B!ToHandle
  <2>4. items[B!Leaf].id = call.rows[B!Leaf].id
    BY <1>1, <2>1 DEF BulkInv, ActInv
  <2>5. B!Leaf \in B!Victims(B!Leaf)
    BY <1>2, <2>4 DEF B!Victims
  <2>6. B!Evict(B!Leaf)
    BY <1>1, <1>2, <2>5, VictimIs
  <2>7. items \in [Keys -> Rows] /\ items[B!Leaf] = [id |-> items[B!Leaf].id, status |-> items[B!Leaf].status]
    BY <1>2, Typed DEF BulkInv, TableInv
  <2>8. items'[B!Leaf].status = "evicted"
    BY <1>2, <2>6, <2>7 DEF B!Evict
  <2> QED
    BY <2>3, <2>8
<1> QED
  BY <1>1, <1>3, <1>4, LeafLeaves

\* What ends a call, or a dialog.
LEMMA EndsKeep == ASSUME BulkInv, B!History, B!WalkFails \/ B!Finish \/ B!Dismiss
                  PROVE  BulkType' /\ WalkInv' /\ ActInv' /\ DialogInv'
<1>1. /\ tree' = tree
      /\ dialog' = dialog \/ dialog' = B!NoDialog
      /\ call' = B!NoCall \/ (call' = call /\ call.step = "idle")
  BY DEF B!WalkFails, B!Finish, B!Dismiss
<1>2. call'.step = "idle"
  BY <1>1 DEF B!NoCall
<1>3. BulkType'
  BY <1>1, OwedMoves DEF BulkInv, BulkType, B!NoDialog
<1>4. DialogInv'
  BY <1>1, <1>2, DialogStays
<1> QED
  BY <1>2, <1>3, <1>4 DEF WalkInv, ActInv

LEMMA BulkStep == ASSUME BulkInv, [B!Next]_<<tableVars, bulkVars>>
                  PROVE  BulkInv'
<1>1. CASE UNCHANGED <<tableVars, bulkVars>>
  <2>1. UNCHANGED <<items, nextId, claimed, tree, call, dialog, owed, changed>>
    BY <1>1 DEF tableVars, bulkVars
  <2>2. TableInv'
    BY <2>1, TableKeeps DEF BulkInv, tableVars, TableKept
  <2>3. AllLeaves' = AllLeaves /\ Ahead(call)' = Ahead(call)
    BY <2>1, SameTree
  <2>4. BulkType' /\ (call'.step = "idle" => owed' = {})
    BY <2>1 DEF BulkInv, BulkType
  <2>5. WalkInv' /\ DialogInv'
    BY <2>1, <2>3 DEF BulkInv, WalkInv, DialogInv
  <2>6. ActInv'
    <3>1. AllKnown(call.rows)' = AllKnown(call.rows)
      BY <2>1 DEF AllKnown, Known
    <3>2. B!ToHandle(call.op)' = B!ToHandle(call.op)
      BY <2>1 DEF B!ToHandle, B!Beneath
    <3> QED
      BY <2>1, <3>1, <3>2 DEF BulkInv, ActInv
  <2> QED
    BY <2>2, <2>4, <2>5, <2>6 DEF BulkInv
<1>2. CASE B!Next
  <2>1. B!History /\ (TableNext \/ UNCHANGED tableVars) /\ TableKept
    BY <1>2, BulkTableKept DEF B!Next, BulkInv
  <2> DEFINE Rest == BulkType' /\ WalkInv' /\ ActInv' /\ DialogInv'
  <2>2. ASSUME B!Others
       PROVE  Rest
    <3>1. UNCHANGED <<tree, call, dialog>>
      BY <2>2 DEF B!Others
    <3>2. \A d \in B!Containers : \A n \in Nat : Unread(d, n) \subseteq Unread(d, n)'
      BY <3>1 DEF Unread
    <3>3. Rest
      BY <2>1, <3>1, <3>2, OthersKeep DEF BulkInv, BulkType
    <3> QED
      BY <3>3
  <2>3. ASSUME B!Upstream
       PROVE  Rest
    <3>1. PICK c \in Seasons, k \in Keys : \E i \in 0 .. Len(tree[c]) : B!Insert(c, k, i)
      BY <2>3 DEF B!Upstream
    <3>2. PICK i \in 0 .. Len(tree[c]) : B!Insert(c, k, i)
      BY <3>1
    <3>3. UNCHANGED <<call, dialog>>
      BY <3>2 DEF B!Insert
    <3> QED
      BY <2>1, <3>2, <3>3, InsertGrows, OthersKeep DEF BulkInv
  <2>4. ASSUME \E op \in {"queue", "evict"}, ask \in BOOLEAN : B!Begin(op, ask)
       PROVE  Rest
    BY <2>1, <2>4, BeginKeeps
  <2>5. ASSUME B!FetchPage
       PROVE  Rest
    BY <2>1, <2>5, FetchKeeps
  <2>6. ASSUME B!Snapshot
       PROVE  Rest
    BY <2>1, <2>6, SnapshotKeeps
  <2>7. ASSUME B!Skip \/ B!LeafFails
       PROVE  Rest
    BY <2>1, <2>7, SkipKeeps, FailsKeeps
  <2>8. ASSUME B!QueueLeaf
       PROVE  Rest
    BY <2>1, <2>8, QueueKeeps
  <2>9. ASSUME B!EvictLeaf
       PROVE  Rest
    BY <2>1, <2>9, EvictKeeps
  <2>10. ASSUME B!WalkFails \/ B!Finish \/ B!Dismiss
        PROVE  Rest
    BY <2>1, <2>10, EndsKeep
  <2> QED
    <3>1. call'.step = "idle" => owed' = {}
      BY <2>1, OwedMoves DEF BulkInv
    <3> HIDE DEF Rest
    <3>2. Rest
      BY <1>2, <2>2, <2>3, <2>4, <2>5, <2>6, <2>7, <2>8, <2>9, <2>10 DEF B!Next, B!Call
    <3> QED
      BY <2>1, <3>1, <3>2 DEF Rest, BulkInv, TableKept
<1> QED
  BY <1>1, <1>2

LEMMA BulkInit == B!Init => BulkInv
<1> SUFFICES ASSUME B!Init PROVE BulkInv
  OBVIOUS
<1>1. TableInv
  BY Typed DEF B!Init, B!TableInit, B!Absent, TableInv, Known, Absent
<1>2. BulkType /\ call.step = "idle" /\ owed = {} /\ dialog.op = "none"
  BY BulkAssumption DEF B!Init, BulkType, B!NoCall, B!NoDialog, B!Containers
<1> QED
  BY <1>1, <1>2 DEF BulkInv, WalkInv, ActInv, DialogInv

-----------------------------------------------------------------------------
(* The theorems.  The variables of a component are as they are initially   *)
(* when the scene is about another one.                                    *)

LEMMA SmallInit == PortalInit => /\ DrawerInv /\ NavInv /\ SavedInv
                                 /\ IF scene = "discovery" THEN DiscoveryInv ELSE DiscoveryRest
  BY DrawerInit, NavInit, DiscoveryInit DEF PortalInit

LEMMA SmallStep == [PortalNext]_portalVars => /\ scene' = scene
                                              /\ [D!Next]_drawerVars /\ [N!Next]_sidebarVars
                                              /\ [F!Next]_discoveryVars
                                              /\ scene # "discovery" => UNCHANGED discoveryVars
  BY DEF PortalNext, portalVars

\* Closing the drawer stops its poll, unless it was reopened while a request of
\* it was unanswered (layout.templ, htmx).
THEOREM DrawerIsQuiet == PortalSpec => []ClosedDrawerIsQuiet
<1>1. DrawerInv /\ [PortalNext]_portalVars => DrawerInv'
  BY SmallStep, DrawerStep
<1>2. DrawerInv => ClosedDrawerIsQuiet
  BY DEF DrawerInv, ClosedDrawerIsQuiet, D!ClosedDrawerIsQuiet, D!TypeOK
<1> QED
  BY <1>1, <1>2, SmallInit, PTL DEF PortalSpec

\* No page shows the libraries of a replaced source for longer than a call and an
\* entry of the cache may last together, for every TTL and timeout
\* (navLibraries, handleSettingsSave).
THEOREM StaleForABoundedTime == PortalSpec => []BoundedStaleness
<1>1. NavInv /\ [PortalNext]_portalVars => NavInv'
  BY SmallStep, NavStep
<1>2. NavInv => BoundedStaleness
  BY NavSafe DEF BoundedStaleness
<1> QED
  BY <1>1, <1>2, SmallInit, PTL DEF PortalSpec

\* And it shows them only if a page was asking for them when the save cleared
\* the cache (handleSettingsSave clears it after the swap).
THEOREM SaveIsShown == PortalSpec => []SavedIsShown
<1>1. NavInv /\ SavedInv /\ [PortalNext]_portalVars => NavInv' /\ SavedInv'
  BY SmallStep, NavStep, SavedStep
<1>2. SavedInv => SavedIsShown
  BY SavedSafe DEF SavedIsShown
<1> QED
  BY <1>1, <1>2, SmallInit, PTL DEF PortalSpec

DiscoveredPart == IF scene = "discovery" THEN DiscoveryInv ELSE DiscoveryRest

LEMMA DiscoveredStep == DiscoveredPart /\ [PortalNext]_portalVars => DiscoveredPart'
<1> SUFFICES ASSUME DiscoveredPart, [PortalNext]_portalVars PROVE DiscoveredPart'
  OBVIOUS
<1>1. CASE scene = "discovery"
  BY <1>1, SmallStep, DiscoveryStep DEF DiscoveredPart
<1>2. CASE scene # "discovery"
  BY <1>2, SmallStep DEF DiscoveredPart, DiscoveryRest, discoveryVars, F!NoServer
<1> QED
  BY <1>1, <1>2

\* Of any number of connections of any ranks, Discover returns the best that
\* answers in the time it has (rankConnections, probe, selectServer).
THEOREM DiscoverPicksBest == PortalSpec => []PicksBest
<1>1. PortalInit => DiscoveredPart
  BY SmallInit DEF DiscoveredPart
<1>2. DiscoveredPart => PicksBest
  BY DEF DiscoveredPart, DiscoveryInv, DiscoveryRest, PicksBest, F!PicksBest
<1> QED
  BY <1>1, <1>2, DiscoveredStep, PTL DEF PortalSpec

BulkPart == IF scene = "bulk" THEN BulkInv ELSE BulkRest

LEMMA BulkPartInit == PortalInit => BulkPart
  BY BulkInit DEF PortalInit, BulkPart

LEMMA BulkPartStep == BulkPart /\ [PortalNext]_portalVars => BulkPart'
<1> SUFFICES ASSUME BulkPart, [PortalNext]_portalVars PROVE BulkPart'
  OBVIOUS
<1>1. CASE scene = "bulk"
  <2>1. scene' = scene /\ [B!Next]_<<tableVars, bulkVars>>
    BY <1>1, ScenesAssumption DEF PortalNext, portalVars
  <2> QED
    BY <1>1, <2>1, BulkStep DEF BulkPart
<1>2. CASE scene # "bulk"
  <2>1. scene' = scene /\ UNCHANGED bulkVars
    BY <1>2 DEF PortalNext, portalVars
  <2> QED
    BY <1>2, <2>1 DEF BulkPart, BulkRest, bulkVars, B!NoCall, B!NoDialog
<1> QED
  BY <1>1, <1>2

LEMMA BulkPartHolds == PortalSpec => []BulkPart
  BY BulkPartInit, BulkPartStep, PTL DEF PortalSpec

LEMMA CallingInBulk == ASSUME BulkPart, call.step # "idle" PROVE BulkInv
  BY DEF BulkPart, BulkRest, B!NoCall

\* However many pages a container has, and wherever episodes are added while it
\* is read, a call that ends has handled every leaf that needed it all along, or
\* reported it as failed (listAllChildren, collectLeaves, QueueContainer,
\* EvictContainer).
THEOREM BulkLeavesNothingOut == PortalSpec => LeavesNothingOut
<1>1. ASSUME BulkPart PROVE [B!Finish => owed \subseteq call.failed]_(B!vars)
  <2> SUFFICES ASSUME B!Finish PROVE owed \subseteq call.failed
    OBVIOUS
  <2>1. call.step = "act" /\ call.leaves = <<>>
    BY DEF B!Finish
  <2>2. BulkInv
    BY <1>1, <2>1, CallingInBulk
  <2>3. B!Elements(<<>>) = {}
    BY DEF B!Elements
  <2> QED
    BY <2>1, <2>2, <2>3 DEF BulkInv, ActInv
<1> QED
  BY <1>1, BulkPartHolds, PTL DEF LeavesNothingOut, B!LeavesNothingOut

\* If nothing has changed since the dialog, the call does what the dialog said;
\* and whatever has changed since the rows were read, it evicts no row that is
\* being downloaded (PreviewContainer, PreviewEvict, EvictContainer).
THEOREM BulkDoesWhatItSaid == PortalSpec => DialogKeepsItsWord
<1>1. ASSUME BulkPart
      PROVE  [B!Snapshot /\ ~call.ask /\ call.confirmed /\ ~changed =>
                LET handled == {k \in B!Elements(call.leaves) : ~B!Skips(call.op, items[k])}
                IN  /\ handled \subseteq dialog.leaves
                    /\ call.op = "evict" => handled = dialog.leaves]_(B!vars)
  <2> DEFINE handled == {k \in B!Elements(call.leaves) : ~B!Skips(call.op, items[k])}
  <2> SUFFICES ASSUME B!Snapshot, call.confirmed, ~changed
               PROVE  handled \subseteq dialog.leaves /\ (call.op = "evict" => handled = dialog.leaves)
    OBVIOUS
  <2>1. call.step = "walk" /\ call.todo = <<>>
    BY DEF B!Snapshot
  <2>2. BulkInv
    BY <1>1, <2>1, CallingInBulk
  <2>3. call.op \in {"queue", "evict"}
    BY <2>1, <2>2 DEF BulkInv, BulkType, B!NoCall, Calls
  <2>4. B!Elements(call.leaves) = AllLeaves /\ dialog.op = call.op
    BY <2>1, <2>2 DEF BulkInv, WalkInv, Ahead
  <2>5. dialog.leaves = {k \in AllLeaves : B!Counts(call.op, items[k])}
    BY <2>2, <2>3, <2>4 DEF BulkInv, DialogInv
  <2>6. \A r : /\ ~B!Skips(call.op, r) => B!Counts(call.op, r)
               /\ call.op = "evict" /\ B!Counts(call.op, r) => ~B!Skips(call.op, r)
    BY <2>3 DEF B!Skips, B!Counts
  <2> QED
    BY <2>4, <2>5, <2>6
<1>2. ASSUME BulkPart
      PROVE  [B!EvictLeaf => \A k \in Keys : items'[k] # items[k] => items[k].status = "ready"]_(B!vars)
  <2> SUFFICES ASSUME B!EvictLeaf, NEW k \in Keys, items'[k] # items[k] PROVE items[k].status = "ready"
    OBVIOUS
  <2>1. /\ call.step = "act" /\ call.leaves # <<>> /\ call.op = "evict"
        /\ ~B!Skips("evict", call.rows[B!Leaf])
        /\ IF B!Victims(B!Leaf) = {} THEN UNCHANGED B!tableVars ELSE \E j \in B!Victims(B!Leaf) : B!Evict(j)
    BY DEF B!EvictLeaf, B!Acts
  <2>2. BulkInv
    BY <1>2, <2>1, CallingInBulk
  <2>3. B!Leaf \in Keys /\ items \in [Keys -> Rows]
    BY <2>1, <2>2, LeafIs DEF BulkInv, TableInv
  <2>4. PICK j \in B!Victims(B!Leaf) : B!Evict(j)
    BY <2>1 DEF B!tableVars
  <2>5. j = B!Leaf /\ items[j].status \in {"ready", "evicted"}
    BY <2>1, <2>2, <2>3, VictimIs
  <2>6. items' = [items EXCEPT ![j].status = "evicted"]
    BY <2>4 DEF B!Evict
  <2>7. k = j
    BY <2>3, <2>6
  <2>8. items[k] = [id |-> items[k].id, status |-> items[k].status]
    BY <2>3, Typed
  <2> QED
    BY <2>3, <2>5, <2>6, <2>7, <2>8
<1> QED
  BY <1>1, <1>2, BulkPartHolds, PTL DEF DialogKeepsItsWord, B!DialogKeepsItsWord, B!BulkEvictSparesDownloads

\* The pages in their scenes; the table beneath all of them.
PagesPart ==
    /\ TableInv
    /\ IF scene \in PageScenes THEN PagesInv /\ SeenOrReady ELSE PagesRest

LEMMA PagesPartInit == PortalInit => PagesPart
<1> SUFFICES ASSUME PortalInit PROVE PagesPart
  OBVIOUS
<1>1. CASE scene \in PageScenes
  BY <1>1, PagesInit DEF PortalInit, PagesPart, PagesInv, Init, SeenOrReady
<1>2. CASE scene \notin PageScenes
  <2>1. TableInv
    BY <1>2, Typed DEF PortalInit, B!TableInit, B!Absent, TableInv, Known, Absent
  <2> QED
    BY <1>2, <2>1 DEF PortalInit, PagesPart
<1> QED
  BY <1>1, <1>2

LEMMA PagesPartStep == BulkPart /\ PagesPart /\ [PortalNext]_portalVars => PagesPart'
<1> SUFFICES ASSUME BulkPart, PagesPart, [PortalNext]_portalVars PROVE PagesPart'
  OBVIOUS
<1>1. CASE scene \in PageScenes
  <2>1. scene' = scene /\ [Next]_vars
    BY <1>1, ScenesAssumption DEF PortalNext, portalVars, pageVars, tableVars, vars
  <2> QED
    BY <1>1, <2>1, PagesStep, SeenStep DEF PagesPart, PagesInv
<1>2. CASE scene \notin PageScenes
  <2>1. scene' = scene /\ UNCHANGED pageVars
    BY <1>2 DEF PortalNext, portalVars
  <2>2. CASE scene = "bulk"
    <3>1. TableInv'
      BY <2>1, <2>2, BulkPartStep DEF BulkPart, BulkInv
    <3> QED
      BY <1>2, <2>1, <3>1 DEF PagesPart, PagesRest, pageVars, Nothing, Idle, NoPoll
  <2>3. CASE scene # "bulk"
    <3>1. UNCHANGED tableVars
      BY <1>2, <2>3 DEF PortalNext, portalVars
    <3>2. TableInv'
      BY <3>1, TableKeeps DEF PagesPart, TableKept
    <3> QED
      BY <1>2, <2>1, <3>2 DEF PagesPart, PagesRest, pageVars, Nothing, Idle, NoPoll
  <2> QED
    BY <2>2, <2>3
<1> QED
  BY <1>1, <1>2

LEMMA PagesPartTypes == PagesPart => TypeOK
<1> SUFFICES ASSUME PagesPart PROVE TypeOK
  OBVIOUS
<1>1. CASE scene \in PageScenes
  BY <1>1, TypeFollows DEF PagesPart
<1>2. CASE scene \notin PageScenes
  <2>1. Nothing \in [Keys -> Rows]
    BY Typed DEF Nothing
  <2> QED
    BY <1>2, <2>1 DEF PagesPart, PagesRest, TypeOK, Idle, At
<1> QED
  BY <1>1, <1>2

LEMMA BulkTypes == BulkInv => B!TypeOK
<1> SUFFICES ASSUME BulkInv PROVE B!TypeOK
  OBVIOUS
<1>1. BulkType
  BY DEF BulkInv
<1>2. ASSUME call.step # "idle" PROVE B!Elements(call.leaves) \subseteq Keys
  <2>1. call.leaves \in Seq(Keys)
    BY <1>1, <1>2 DEF BulkType, B!NoCall, Calls
  <2> QED
    BY <2>1, ElementsType
<1>3. call.step \in {"idle", "walk", "act"}
  BY <1>1 DEF BulkType, B!NoCall, Calls
<1> QED
  BY <1>1, <1>2, <1>3 DEF BulkType, B!TypeOK

\* Each component keeps its type in its own scene, and the pages and the table
\* keep theirs in all of them.
THEOREM PortalTypeCorrect == PortalSpec => []PortalTypeOK
<1> DEFINE Inv == BulkPart /\ PagesPart /\ DrawerInv /\ NavInv /\ DiscoveredPart
<1>1. PortalInit => Inv
  BY BulkPartInit, PagesPartInit, SmallInit DEF DiscoveredPart
<1>2. Inv /\ [PortalNext]_portalVars => Inv'
  BY BulkPartStep, PagesPartStep, DiscoveredStep, SmallStep, DrawerStep, NavStep
<1>3. Inv => PortalTypeOK
  <2> SUFFICES ASSUME Inv PROVE PortalTypeOK
    OBVIOUS
  <2>1. TypeOK
    BY PagesPartTypes
  <2>2. scene = "bulk" => B!TypeOK
    BY BulkTypes DEF BulkPart
  <2>3. D!TypeOK
    BY DEF DrawerInv
  <2>4. N!TypeOK
    BY DEF NavInv
  <2>5. scene = "discovery" => F!TypeOK
    BY DEF DiscoveredPart, DiscoveryInv
  <2> QED
    BY <2>1, <2>2, <2>3, <2>4, <2>5 DEF PortalTypeOK
<1> QED
  BY <1>1, <1>2, <1>3, PTL DEF PortalSpec

\* Whatever the portal does, the table changes as ItemLifecycle says and in no
\* other way, as it does behind the engine (MirrorRefinement!Refinement): what is
\* proved about one of them holds beside the other.
THEOREM PortalKeepsLifecycle == PortalSpec => TableSpec
<1>1. PortalInit => TableInit
  BY DEF PortalInit, Init, B!TableInit, TableInit, B!Absent, Absent
<1>2. BulkPart /\ PagesPart /\ [PortalNext]_portalVars => [TableNext]_tableVars
  <2> SUFFICES ASSUME BulkPart, PagesPart, [PortalNext]_portalVars PROVE [TableNext]_tableVars
    OBVIOUS
  <2>1. CASE scene \in PageScenes /\ Next
    BY <2>1, TableMoves DEF PagesPart
  <2>2. CASE scene = "bulk" /\ B!Next
    BY <2>2, BulkTableKept DEF BulkPart, BulkInv
  <2>3. CASE UNCHANGED tableVars
    BY <2>3
  <2> QED
    BY <2>1, <2>2, <2>3 DEF PortalNext, portalVars
<1> QED
  BY <1>1, <1>2, BulkPartInit, BulkPartStep, PagesPartInit, PagesPartStep, PTL DEF PortalSpec, TableSpec
=============================================================================
