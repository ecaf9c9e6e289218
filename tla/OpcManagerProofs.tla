-------------------------- MODULE OpcManagerProofs --------------------------
(***************************************************************************)
(* The safety properties of OpcManager for every set of servers, devices    *)
(* and threads, and whether or not the background thread can start early.  *)
(*                                                                         *)
(* What the properties rest on is that a table entry which a thread has    *)
(* seen stays until that thread is done with it.  For the ping pass this   *)
(* is m_mutex (PassOwnsTable), for the reconnect threads it is the joins   *)
(* of doClear (ClearIsAlone, ClearOrder).                                  *)
(***************************************************************************)
EXTENDS OpcManager, TLAPS

\* The ping pass walks entries of m_connections, and holds m_mutex whenever
\* there is anything to walk; what it has heard, it heard from a client.
PassOwnsTable ==
  /\ toPing \subseteq ports
  /\ bgPc \notin {"pass", "ping"} => toPing = {}
  /\ bgPc = "pass" /\ toPing # {} => mutex = "held" /\ constructed
  /\ bgPc = "ping" =>
       /\ mutex = "held" /\ constructed
       /\ cur \in ports
       /\ \A n \in Name : result[n] # "absent" => client[cur][n] # "none"

\* The steps of doClear: who is known to have ended at each of them.
ClearOrder ==
  /\ clr # "idle" => bgStop
  /\ clr \in {"joinRec", "maps"} => bgPc = "done"
  /\ bgPc = "done" => bgStop /\ toPing = {}
  /\ ~constructed => ports = {} /\ clr = "idle" /\ ~bgStop

Safety ==
  /\ BadDevicesHaveClients
  /\ ReconnectFindsItsServer
  /\ ClearIsAlone
  /\ PassOwnsTable
  /\ ClearOrder

IInv == TypeOK /\ Safety

-----------------------------------------------------------------------------
(* Type correctness.                                                       *)

LEMMA TypeInit == Init => TypeOK
<1> SUFFICES ASSUME Init PROVE TypeOK
  OBVIOUS
<1>1. /\ client \in [Port -> [Name -> Session]]
      /\ bad \in [Port -> [Name -> BadStatus]]
      /\ result \in [Name -> ScaStatus \cup {"absent"}]
  BY DEF Init, NoDevices, Session, BadStatus
<1>2. /\ recPc \in [Port -> RecPcs]
      /\ recNames \in [Port -> SUBSET Name]
      /\ held \in [User -> Handle \cup {NoHandle}]
  BY DEF Init, RecPcs
<1> QED
  BY <1>1, <1>2 DEF Init, TypeOK, BgPcs, ClearPcs

\* Every step keeps every variable in its type.
LEMMA TypeStep == TypeOK /\ [Next]_vars => TypeOK'
<1> SUFFICES ASSUME TypeOK, [Next]_vars PROVE TypeOK'
  OBVIOUS
<1> USE OpcManagerAssumption DEF threads, tables
<1>1. ASSUME ConstructMembers PROVE TypeOK'
  BY <1>1 DEF TypeOK, ConstructMembers
<1>2. ASSUME BgLockEarly PROVE TypeOK'
  BY <1>2 DEF TypeOK, BgLockEarly, BgPcs
<1>3. ASSUME BgExit PROVE TypeOK'
  BY <1>3 DEF TypeOK, BgExit, BgPcs
<1>4. ASSUME BgLock PROVE TypeOK'
  BY <1>4 DEF TypeOK, BgLock, BgPcs
<1>5. ASSUME BgAnalyze PROVE TypeOK'
  <2>1. cur \in Port /\ result \in [Name -> ScaStatus \cup {"absent"}]
    BY <1>5 DEF TypeOK, BgAnalyze
  <2>2. NoDevices \in [Name -> BadStatus]
    BY DEF NoDevices, BadStatus
  <2>3. \A old \in BadStatus, s \in ScaStatus \cup {"absent"} :
          BadEntry(old, s) \in BadStatus
    BY DEF BadEntry, BadStatus, ScaStatus
  <2>4. bad' \in [Port -> [Name -> BadStatus]]
    <3>1. CASE bad' = [bad EXCEPT ![cur] = NoDevices]
      BY <2>2, <3>1 DEF TypeOK
    <3>2. CASE bad' = [bad EXCEPT ![cur] = [n \in Name |-> BadEntry(@[n], result[n])]]
      <4>1. [n \in Name |-> BadEntry(bad[cur][n],
      result[n])] \in [Name -> BadStatus]
        BY <2>1, <2>3 DEF TypeOK
      <4> QED
        BY <3>2, <4>1 DEF TypeOK
    <3> QED
      BY <1>5, <3>1, <3>2 DEF BgAnalyze
  <2>5. recPc' \in [Port -> RecPcs] /\ recNames' \in [Port -> SUBSET Name]
    <3>1. \/ UNCHANGED <<recPc, recNames>>
          \/ /\ recPc' = [recPc EXCEPT ![cur] = "check"]
             /\ recNames' = [recNames EXCEPT ![cur] = Connected(cur)]
      BY <1>5 DEF BgAnalyze
    <3>2. Connected(cur) \in SUBSET Name
      BY DEF Connected
    <3>3. recPc \in [Port -> RecPcs] /\ recNames \in [Port -> SUBSET Name]
      BY DEF TypeOK
    <3> QED
      BY <2>1, <3>1, <3>2, <3>3 DEF RecPcs
  <2>6. /\ bgPc' \in BgPcs
        /\ cur' \in Port \cup {NoPort}
        /\ result' \in [Name -> ScaStatus \cup {"absent"}]
        /\ badPorts' \in SUBSET Port
    BY <1>5, <2>1 DEF BgAnalyze, BgPcs, NoDevices, TypeOK
  <2> QED
    BY <1>5, <2>4, <2>5, <2>6 DEF TypeOK, BgAnalyze
<1>6. ASSUME BgUnlock PROVE TypeOK'
  BY <1>6 DEF TypeOK, BgUnlock, BgPcs
<1>7. ASSUME BgWake PROVE TypeOK'
  BY <1>7 DEF TypeOK, BgWake, BgPcs
<1>8. ASSUME ClearBegin PROVE TypeOK'
  BY <1>8 DEF TypeOK, ClearBegin, ClearUnchanged, ClearPcs
<1>9. ASSUME ClearJoinBg PROVE TypeOK'
  BY <1>9 DEF TypeOK, ClearJoinBg, ClearUnchanged, ClearPcs
<1>10. ASSUME ClearJoinRec PROVE TypeOK'
  BY <1>10 DEF TypeOK, ClearJoinRec, ClearUnchanged, ClearPcs
<1>11. ASSUME ClearMaps PROVE TypeOK'
  BY <1>11 DEF TypeOK, ClearMaps, ClearUnchanged, ClearPcs, NoDevices,
      BadStatus, Session
<1>12. ASSUME NEW p \in Port, BgNextPort(p) PROVE TypeOK'
  BY <1>12 DEF TypeOK, BgNextPort, NoDevices, BgPcs
<1>13. ASSUME NEW n \in Name, BgPingDevice(n) PROVE TypeOK'
  <2>1. cur \in Port
    BY <1>13 DEF TypeOK, BgPingDevice
  <2>2. PICK s \in ScaStatus :
          /\ result' = [result EXCEPT ![n] = s]
          /\ client' = [client EXCEPT ![cur][n] =
                          IF s = "SERVER_OFFLINE" THEN @ ELSE "open"]
    BY <1>13 DEF BgPingDevice, PingOutcome, ScaStatus
  <2>3. client' \in [Port -> [Name -> Session]]
    BY <2>1, <2>2 DEF TypeOK, Session
  <2> QED
    BY <1>13, <2>2, <2>3 DEF TypeOK, BgPingDevice
<1>14. ASSUME NEW p \in Port, ServerStops(p) PROVE TypeOK'
  BY <1>14 DEF TypeOK, ServerStops, Session
<1>15. ASSUME NEW p \in Port, ServerStarts(p) PROVE TypeOK'
  BY <1>15 DEF TypeOK, ServerStarts
<1>16. ASSUME NEW p \in Port, RecCheck(p) PROVE TypeOK'
  BY <1>16 DEF TypeOK, RecCheck, RecGoto, RecPcs
<1>17. ASSUME NEW p \in Port, RecWake(p) PROVE TypeOK'
  BY <1>17 DEF TypeOK, RecWake, RecGoto, RecPcs
<1>18. ASSUME NEW p \in Port, RecDecide(p) PROVE TypeOK'
  BY <1>18 DEF TypeOK, RecDecide, RecGoto, RecPcs
<1>19. ASSUME NEW p \in Port, RecClear(p) PROVE TypeOK'
  <2>1. held' \in [User -> Handle \cup {NoHandle}]
    <3> SUFFICES ASSUME NEW u \in User, held[u] # NoHandle
                 PROVE  [held[u] EXCEPT !.live = FALSE] \in Handle
      BY <1>19 DEF TypeOK, RecClear, Dangle
    <3>1. held[u] \in Handle
      BY DEF TypeOK
    <3> QED
      BY <3>1 DEF Handle
  <2>2. /\ client' \in [Port -> [Name -> Session]]
        /\ bad' \in [Port -> [Name -> BadStatus]]
    BY <1>19 DEF TypeOK, RecClear, ForgetServer, NoDevices, BadStatus, Session
  <2> QED
    BY <1>19, <2>1, <2>2 DEF TypeOK, RecClear, RecGoto, RecPcs
<1>20. ASSUME NEW u \in User, ReleaseHandle(u) PROVE TypeOK'
  BY <1>20 DEF TypeOK, ReleaseHandle
<1>21. ASSUME NEW u \in User, NEW p \in Port, NEW n \in Name, GetConnection(u, p, n)
      PROVE  TypeOK'
  <2>1. client' \in [Port -> [Name -> Session]]
    <3>1. client' = client \/ client' = [client EXCEPT ![p][n] = "open"]
      BY <1>21 DEF GetConnection
    <3>2. client \in [Port -> [Name -> Session]]
      BY DEF TypeOK
    <3> QED
      BY <3>1, <3>2 DEF Session
  <2>2. held' \in [User -> Handle \cup {NoHandle}]
    <3>1. [port |-> p, name |-> n, live |-> TRUE] \in Handle
      BY DEF Handle
    <3> QED
      BY <1>21, <3>1 DEF TypeOK, GetConnection
  <2> QED
    BY <1>21, <2>1, <2>2 DEF TypeOK, GetConnection
<1>22. CASE UNCHANGED vars
  BY <1>22 DEF TypeOK, vars
<1> QED
  BY <1>1, <1>2, <1>3, <1>4, <1>5, <1>6, <1>7, <1>8, <1>9, <1>10, <1>11,
      <1>12, <1>13, <1>14, <1>15, <1>16, <1>17, <1>18, <1>19, <1>20, <1>21,
      <1>22
  DEF Next, Background, Reconnect, ClearSteps

\* The type invariant of the manager, for every set of servers and devices.
THEOREM TypeCorrect == Spec => []TypeOK
<1>1. TypeOK /\ [Next]_vars => TypeOK'
  BY TypeStep
<1> QED
  BY TypeInit, <1>1, PTL DEF Spec
-----------------------------------------------------------------------------
(* The inductive invariant.                                                *)

LEMMA InvInit == Init => IInv
  BY TypeInit, OpcManagerAssumption
  DEF Init, IInv, Safety, NoDevices, BadDevicesHaveClients,
      ReconnectFindsItsServer,
      ClearIsAlone, PassOwnsTable, ClearOrder, RecActive

\* analyzePingResults: the entry it writes is about a client that is there,
\* and the reconnect thread it starts has devices and table entries.
LEMMA AnalyzeStep == IInv /\ BgAnalyze => Safety'
<1> SUFFICES ASSUME IInv, BgAnalyze PROVE Safety'
  OBVIOUS
<1> USE DEF BgAnalyze, threads, tables
<1>1. /\ cur \in Port /\ cur \in ports
      /\ bad \in [Port -> [Name -> BadStatus]] /\ recPc \in [Port -> RecPcs]
      /\ recNames \in [Port -> SUBSET Name]
  BY DEF TypeOK, IInv, Safety, PassOwnsTable
<1>2. BadDevicesHaveClients'
  <2> SUFFICES ASSUME NEW p \in Port, NEW n \in Name, bad'[p][n] # "absent"
               PROVE  client[p][n] # "none"
    BY DEF BadDevicesHaveClients
  <2>1. CASE p # cur
    <3>1. bad'[p] = bad[p]
      BY <1>1, <2>1
    <3> QED
      BY <3>1 DEF IInv, Safety, BadDevicesHaveClients
  <2>2. CASE p = cur
    <3>1. bad'[cur][n] = BadEntry(bad[cur][n], result[n])
      BY <1>1, <2>2 DEF NoDevices
    <3>2. CASE result[n] = "absent"
      BY <2>2, <3>1, <3>2 DEF BadEntry, IInv, Safety, BadDevicesHaveClients
    <3>3. CASE result[n] # "absent"
      BY <2>2, <3>3 DEF IInv, Safety, PassOwnsTable
    <3> QED
      BY <3>2, <3>3
  <2> QED
    BY <2>1, <2>2
<1>3. ReconnectFindsItsServer'
  <2> SUFFICES ASSUME NEW p \in Port, RecActive(p)'
               PROVE  p \in ports /\ p \in badPorts' /\ recNames'[p] # {}
    BY DEF ReconnectFindsItsServer
  <2>1. CASE recPc'[p] = recPc[p] /\ recNames'[p] = recNames[p]
    BY <2>1 DEF RecActive, IInv, Safety, ReconnectFindsItsServer
  <2>2. CASE /\ p = cur
             /\ ~AllReachable
             /\ recNames'[p] = Connected(cur)
    BY <1>1, <2>2 DEF AllReachable, AllAnswered
  <2> QED
    BY <1>1, <2>1, <2>2
<1>4. ClearIsAlone' /\ PassOwnsTable' /\ ClearOrder'
  BY <1>1 DEF IInv, Safety, ClearIsAlone, PassOwnsTable, ClearOrder, RecActive
<1> QED
  BY <1>2, <1>3, <1>4 DEF Safety

LEMMA InvStep == IInv /\ [Next]_vars => IInv'
<1> SUFFICES ASSUME IInv, [Next]_vars PROVE IInv'
  OBVIOUS
<1>a. TypeOK /\ TypeOK'
  BY TypeStep DEF IInv
<1> USE OpcManagerAssumption DEF threads, tables, IInv, TypeOK, Safety,
    BadDevicesHaveClients, ReconnectFindsItsServer, ClearIsAlone,
    PassOwnsTable, ClearOrder, RecActive
<1>1. ASSUME ConstructMembers PROVE Safety'
  BY <1>a, <1>1 DEF ConstructMembers
<1>2. ASSUME BgLockEarly PROVE Safety'
  BY <1>a, <1>2 DEF BgLockEarly
<1>3. ASSUME BgExit PROVE Safety'
  BY <1>a, <1>3 DEF BgExit
<1>4. ASSUME BgLock PROVE Safety'
  BY <1>a, <1>4 DEF BgLock
<1>5. ASSUME BgAnalyze PROVE Safety'
  BY <1>5, AnalyzeStep
<1>6. ASSUME BgUnlock PROVE Safety'
  BY <1>a, <1>6 DEF BgUnlock
<1>7. ASSUME BgWake PROVE Safety'
  BY <1>a, <1>7 DEF BgWake
<1>8. ASSUME ClearBegin PROVE Safety'
  BY <1>a, <1>8 DEF ClearBegin, ClearUnchanged
<1>9. ASSUME ClearJoinBg PROVE Safety'
  BY <1>a, <1>9 DEF ClearJoinBg, ClearUnchanged, BgJoined
<1>10. ASSUME ClearJoinRec PROVE Safety'
  BY <1>a, <1>10 DEF ClearJoinRec, ClearUnchanged, RecJoined
<1>11. ASSUME ClearMaps PROVE Safety'
  BY <1>a, <1>11 DEF ClearMaps, ClearUnchanged, NoDevices
<1>12. ASSUME NEW p \in Port, BgNextPort(p) PROVE Safety'
  BY <1>a, <1>12 DEF BgNextPort, NoDevices
<1>13. ASSUME NEW n \in Name, BgPingDevice(n) PROVE Safety'
  BY <1>a, <1>13 DEF BgPingDevice, PingOutcome, ScaStatus, Connected
<1>14. ASSUME NEW p \in Port, ServerStops(p) PROVE Safety'
  BY <1>a, <1>14 DEF ServerStops
<1>15. ASSUME NEW p \in Port, ServerStarts(p) PROVE Safety'
  BY <1>a, <1>15 DEF ServerStarts
<1>16. ASSUME NEW p \in Port, RecCheck(p) PROVE Safety'
  BY <1>a, <1>16 DEF RecCheck, RecGoto
<1>17. ASSUME NEW p \in Port, RecWake(p) PROVE Safety'
  BY <1>a, <1>17 DEF RecWake, RecGoto
<1>18. ASSUME NEW p \in Port, RecDecide(p) PROVE Safety'
  BY <1>a, <1>18 DEF RecDecide, RecGoto
<1>19. ASSUME NEW p \in Port, RecClear(p) PROVE Safety'
  BY <1>a, <1>19 DEF RecClear, RecGoto, ForgetServer, NoDevices
<1>20. ASSUME NEW u \in User, ReleaseHandle(u) PROVE Safety'
  BY <1>a, <1>20 DEF ReleaseHandle
<1>21. ASSUME NEW u \in User, NEW p \in Port, NEW n \in Name, GetConnection(u, p, n)
      PROVE  Safety'
  BY <1>a, <1>21 DEF GetConnection
<1>22. CASE UNCHANGED vars
  BY <1>22 DEF vars
<1> QED
  BY <1>a, <1>1, <1>2, <1>3, <1>4, <1>5, <1>6, <1>7, <1>8, <1>9, <1>10,
      <1>11, <1>12, <1>13, <1>14, <1>15, <1>16, <1>17, <1>18, <1>19, <1>20,
      <1>21, <1>22
  DEF Next, Background, Reconnect, ClearSteps

LEMMA Invariance == Spec => []IInv
<1>1. IInv /\ [Next]_vars => IInv'
  BY InvStep
<1> QED
  BY InvInit, <1>1, PTL DEF Spec

\* A bad-connection entry never outlives the client it is about.
THEOREM BadListCorrect == Spec => []BadDevicesHaveClients
<1>1. IInv => BadDevicesHaveClients
  BY DEF IInv, Safety
<1> QED
  BY <1>1, Invariance, PTL

\* A reconnect thread never misses the entries of its server, so it cannot
\* end the process with an exception of .at().
THEOREM ReconnectSafe == Spec => []ReconnectFindsItsServer
<1>1. IInv => ReconnectFindsItsServer
  BY DEF IInv, Safety
<1> QED
  BY <1>1, Invariance, PTL

\* doClear empties the maps without m_mutex, and needs none.
THEOREM ClearSafe == Spec => []ClearIsAlone
<1>1. IInv => ClearIsAlone
  BY DEF IInv, Safety
<1> QED
  BY <1>1, Invariance, PTL
=============================================================================
