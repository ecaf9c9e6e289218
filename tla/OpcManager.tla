------------------------------ MODULE OpcManager ------------------------------
(***************************************************************************)
(* nsw::OpcManager (src/src/hw/OpcManager.cpp): the one table of OPC       *)
(* clients of a process.  Three kinds of thread share it:                  *)
(*   - device operations call getConnection() and keep the raw pointer     *)
(*     after m_mutex is released;                                          *)
(*   - the background thread pings every client under m_mutex, keeps the   *)
(*     list of bad connections and, when a whole server is offline, starts *)
(*     one reconnect thread for it;                                        *)
(*   - a reconnect thread polls the server and, once it answers, drops the *)
(*     clients of that server so that the next getConnection() makes new   *)
(*     ones.                                                               *)
(* clear() stops and joins the threads and empties the table, without      *)
(* m_mutex.  Servers stop and start on their own.                          *)
(***************************************************************************)
EXTENDS Naturals

CONSTANTS
  Port,        \* OPC servers, by "ip:port"
  Name,        \* device names (SCA addresses)
  DeviceAt,    \* DeviceAt[p]: the devices behind server p
  User,        \* threads that operate on devices
  NoHandle,    \* "this thread holds no OpcClientPtr"
  NoPort,      \* "the background thread is not at a server"
  EarlyStart   \* the background thread may run before the members declared
               \* after it (h:165-169), m_mutex among them, are constructed

Handle == [port: Port, name: Name, live: BOOLEAN]

ASSUME OpcManagerAssumption ==
  /\ DeviceAt \in [Port -> SUBSET Name]
  /\ NoHandle \notin Handle
  /\ NoPort \notin Port
  /\ EarlyStart \in BOOLEAN

VARIABLES
  constructed,  \* the constructor of OpcManager has returned
  mutex,        \* m_mutex: "free" or "held"
  up,           \* up[p]: server p runs (environment)
  ports,        \* keys of m_connections
  client,       \* m_connections[p][n]: no client, an open or a broken session
  badPorts,     \* keys of m_badConnections
  bad,          \* m_badConnections[p][n]; "absent": not listed
  bgPc,         \* where m_backgroundThread is
  bgStop,       \* its stop token
  toPing,       \* servers this ping pass has still to visit
  cur,          \* the server it is at
  result,       \* the answers of cur's devices so far
  recPc,        \* recPc[p]: where m_reconnectThreads[p] is; "none": no entry
  recNames,     \* the device names that thread was given
  recStop,      \* the stop tokens of the reconnect threads
  clr,          \* where doClear() is; "idle": not running
  held          \* held[u]: the pointer thread u got from getConnection()

threads == <<bgPc, bgStop, toPing, cur, result, recPc, recNames, recStop, clr>>
tables  == <<ports, client, badPorts, bad>>
vars    == <<constructed, mutex, up, tables, threads, held>>

ScaStatus  == {"REACHABLE", "UNREACHABLE", "SERVER_OFFLINE"}
BadStatus  == {"absent", "UNREACHABLE", "SERVER_OFFLINE"}
Session    == {"none", "open", "broken"}
BgPcs      == {"top", "pass", "ping", "sleep", "stuck", "done"}
RecPcs     == {"none", "check", "sleep", "leave", "clear", "done"}
ClearPcs   == {"idle", "joinBg", "joinRec", "maps"}

Connected(p)    == {n \in Name : client[p][n] # "none"}
RecActive(p)    == recPc[p] \in {"check", "sleep", "leave", "clear"}
NoDevices       == [n \in Name |-> "absent"]

TypeOK ==
  /\ constructed \in BOOLEAN
  /\ mutex \in {"free", "held"}
  /\ up \in [Port -> BOOLEAN]
  /\ ports \in SUBSET Port
  /\ client \in [Port -> [Name -> Session]]
  /\ badPorts \in SUBSET Port
  /\ bad \in [Port -> [Name -> BadStatus]]
  /\ bgPc \in BgPcs
  /\ bgStop \in BOOLEAN
  /\ toPing \in SUBSET Port
  /\ cur \in Port \cup {NoPort} /\ (bgPc = "ping" => cur \in Port)
  /\ result \in [Name -> ScaStatus \cup {"absent"}]
  /\ recPc \in [Port -> RecPcs]
  /\ recNames \in [Port -> SUBSET Name]
  /\ recStop \in BOOLEAN
  /\ clr \in ClearPcs
  /\ held \in [User -> Handle \cup {NoHandle}]

\* The constructor starts the background thread in its initialiser list;
\* m_reconnectThreads, m_commandSender and m_mutex are constructed after it.
Init ==
  /\ constructed = FALSE
  /\ mutex = "free"
  /\ up \in [Port -> BOOLEAN]
  /\ ports = {}
  /\ client = [p \in Port |-> [n \in Name |-> "none"]]
  /\ badPorts = {}
  /\ bad = [p \in Port |-> NoDevices]
  /\ bgPc = "top"
  /\ bgStop = FALSE
  /\ toPing = {}
  /\ cur = NoPort
  /\ result = NoDevices
  /\ recPc = [p \in Port |-> "none"]
  /\ recNames = [p \in Port |-> {}]
  /\ recStop = FALSE
  /\ clr = "idle"
  /\ held = [u \in User |-> NoHandle]

ConstructMembers ==
  /\ ~constructed
  /\ constructed' = TRUE
  /\ mutex' = "free"
  /\ UNCHANGED <<up, tables, threads, held>>

-----------------------------------------------------------------------------
(* The servers.  A stop breaks every open session.                         *)

ServerStops(p) ==
  /\ up[p]
  /\ up' = [up EXCEPT ![p] = FALSE]
  /\ client' = [client EXCEPT ![p] =
       [n \in Name |-> IF @[n] = "none" THEN "none" ELSE "broken"]]
  /\ UNCHANGED <<constructed, mutex, ports, badPorts, bad, threads, held>>

ServerStarts(p) ==
  /\ ~up[p]
  /\ up' = [up EXCEPT ![p] = TRUE]
  /\ UNCHANGED <<constructed, mutex, tables, threads, held>>

\* testConnection: what a ping through an existing session may find.  The
\* client library may or may not re-establish a broken session by itself.
PingOutcome(p, n) ==
  IF ~up[p] THEN {"SERVER_OFFLINE"}
  ELSE IF client[p][n] = "broken" THEN ScaStatus
  ELSE {"REACHABLE", "UNREACHABLE"}

-----------------------------------------------------------------------------
(* Device operations.                                                      *)

\* getConnection: under the lock, make the client if there is none; the
\* pointer is used after the lock is released.  OpcClient's constructor
\* throws when the server is offline, after the port entry was made.
GetConnection(u, p, n) ==
  /\ constructed
  /\ mutex = "free"
  /\ clr = "idle"
  /\ held[u] = NoHandle
  /\ n \in DeviceAt[p]
  /\ ports' = ports \cup {p}
  /\ \/ /\ client[p][n] = "none"
        /\ up[p]
        /\ client' = [client EXCEPT ![p][n] = "open"]
        /\ held' = [held EXCEPT ![u] = [port |-> p, name |-> n, live |-> TRUE]]
     \/ /\ client[p][n] = "none"
        /\ ~up[p]
        /\ UNCHANGED <<client, held>>
     \/ /\ client[p][n] # "none"
        /\ held' = [held EXCEPT ![u] = [port |-> p, name |-> n, live |-> TRUE]]
        /\ UNCHANGED client
  /\ UNCHANGED <<constructed, mutex, up, badPorts, bad, threads>>

\* The operation on the device ends and its pointer goes out of scope.
ReleaseHandle(u) ==
  /\ held[u] # NoHandle
  /\ held' = [held EXCEPT ![u] = NoHandle]
  /\ UNCHANGED <<constructed, mutex, up, tables, threads>>

\* A client of p is destroyed: the pointers to it dangle.
Dangle(p) ==
  held' = [u \in User |->
    IF held[u] # NoHandle /\ held[u].port = p
    THEN [held[u] EXCEPT !.live = FALSE] ELSE held[u]]

-----------------------------------------------------------------------------
(* The background thread, pingConnections.                                 *)

BgExit ==
  /\ bgPc = "top"
  /\ bgStop
  /\ bgPc' = "done"
  /\ UNCHANGED <<constructed, mutex, up, tables, bgStop, toPing, cur, result,
                 recPc, recNames, recStop, clr, held>>

BgLock ==
  /\ bgPc = "top"
  /\ ~bgStop
  /\ constructed
  /\ mutex = "free"
  /\ mutex' = "held"
  /\ bgPc' = "pass"
  /\ toPing' = ports
  /\ UNCHANGED <<constructed, up, tables, bgStop, cur, result, recPc,
                 recNames, recStop, clr, held>>

\* Undefined behaviour: locking m_mutex before its constructor ran.  The
\* memory may look like a free mutex or like one that nobody will unlock.
BgLockEarly ==
  /\ EarlyStart
  /\ bgPc = "top"
  /\ ~bgStop
  /\ ~constructed
  /\ \/ mutex' = "held" /\ bgPc' = "pass" /\ toPing' = ports
     \/ bgPc' = "stuck" /\ UNCHANGED <<mutex, toPing>>
  /\ UNCHANGED <<constructed, up, tables, bgStop, cur, result, recPc,
                 recNames, recStop, clr, held>>

BgNextPort(p) ==
  /\ bgPc = "pass"
  /\ p \in toPing
  /\ bgPc' = "ping"
  /\ cur' = p
  /\ toPing' = toPing \ {p}
  /\ result' = NoDevices
  /\ UNCHANGED <<constructed, mutex, up, tables, bgStop, recPc, recNames,
                 recStop, clr, held>>

BgPingDevice(n) ==
  /\ bgPc = "ping"
  /\ n \in Connected(cur)
  /\ result[n] = "absent"
  /\ \E s \in PingOutcome(cur, n) :
       /\ result' = [result EXCEPT ![n] = s]
       /\ client' = [client EXCEPT ![cur][n] =
                       IF s = "SERVER_OFFLINE" THEN @ ELSE "open"]
  /\ UNCHANGED <<constructed, mutex, up, ports, badPorts, bad, bgPc, bgStop,
                 toPing, cur, recPc, recNames, recStop, clr, held>>

\* Faulty variant of BadEntry: a recovered device is updated, not erased.
BadEntry_NoErase(old, status) == IF status = "absent" THEN old ELSE status

\* Faulty variant of BadEntry: a listed device keeps its first status.
BadEntry_NoUpdate(old, status) ==
  CASE status = "absent"    -> old
    [] status = "REACHABLE" -> "absent"
    [] OTHER                -> IF old = "absent" THEN status ELSE old

\* The bad-connection entry of one device after its answer.
BadEntry(old, status) ==
  CASE status = "absent"    -> old
    [] status = "REACHABLE" -> "absent"
    [] OTHER                -> status

AllAnswered(S)  == \A n \in Connected(cur) : result[n] \in S
AllReachable    == AllAnswered({"REACHABLE"})
StartsReconnect == AllAnswered({"SERVER_OFFLINE"}) /\ recPc[cur] = "none"

\* analyzePingResults: with every answer REACHABLE (none at all included)
\* the list is emptied and nothing else happens.
BgAnalyze ==
  /\ bgPc = "ping"
  /\ AllAnswered(ScaStatus)
  /\ bgPc' = "pass"
  /\ cur' = NoPort
  /\ result' = NoDevices
  /\ badPorts' = badPorts \cup {cur}
  /\ IF AllReachable
     THEN /\ bad' = [bad EXCEPT ![cur] = NoDevices]
          /\ UNCHANGED <<recPc, recNames>>
     ELSE /\ bad' = [bad EXCEPT ![cur] =
                       [n \in Name |-> BadEntry(@[n], result[n])]]
          /\ IF StartsReconnect
             THEN /\ recPc' = [recPc EXCEPT ![cur] = "check"]
                  /\ recNames' = [recNames EXCEPT ![cur] = Connected(cur)]
             ELSE UNCHANGED <<recPc, recNames>>
  /\ UNCHANGED <<constructed, mutex, up, ports, client, bgStop, toPing,
                 recStop, clr, held>>

BgUnlock ==
  /\ bgPc = "pass"
  /\ toPing = {}
  /\ mutex' = "free"
  /\ bgPc' = "sleep"
  /\ UNCHANGED <<constructed, up, tables, bgStop, toPing, cur, result, recPc,
                 recNames, recStop, clr, held>>

\* wait_for ends: PING_INTERVAL is over, or the stop was requested.
BgWake ==
  /\ bgPc = "sleep"
  /\ bgPc' = "top"
  /\ UNCHANGED <<constructed, mutex, up, tables, bgStop, toPing, cur, result,
                 recPc, recNames, recStop, clr, held>>

-----------------------------------------------------------------------------
(* The reconnect thread of server p, testServerRestart.                    *)

RecGoto(p, from, to) ==
  /\ recPc[p] = from
  /\ recPc' = [recPc EXCEPT ![p] = to]
  /\ UNCHANGED <<bgPc, bgStop, toPing, cur, result, recNames, recStop, clr>>

\* Faulty variant of ServerAnswers: ask through the clients of the table.
ServerAnswers_OldClients(p) == \A n \in recNames[p] : client[p][n] = "open"

\* checkServerStatus: a new client per device, none of them offline.
ServerAnswers(p) == recNames[p] = {} \/ up[p]

\* Faulty variant of KeepTesting: the stop token does not end the loop.
KeepTesting_NoStop(p) == ~ServerAnswers(p)

\* The loop condition: the server is tried before the stop token is read.
KeepTesting(p) == ~ServerAnswers(p) /\ ~recStop

RecCheck(p) ==
  /\ \/ KeepTesting(p) /\ RecGoto(p, "check", "sleep")
     \/ ~KeepTesting(p) /\ RecGoto(p, "check", "leave")
  /\ UNCHANGED <<constructed, mutex, up, tables, held>>

RecWake(p) ==
  /\ RecGoto(p, "sleep", "check")
  /\ UNCHANGED <<constructed, mutex, up, tables, held>>

RecDecide(p) ==
  /\ \/ recStop /\ RecGoto(p, "leave", "done")
     \/ ~recStop /\ RecGoto(p, "leave", "clear")
  /\ UNCHANGED <<constructed, mutex, up, tables, held>>

\* Faulty variant of ForgetServer: the bad list of the server survives.
ForgetServer_KeepBad(p) ==
  /\ client' = [client EXCEPT ![p] = [n \in Name |-> "none"]]
  /\ bad' = bad

ForgetServer(p) ==
  /\ client' = [client EXCEPT ![p] = [n \in Name |-> "none"]]
  /\ bad' = [bad EXCEPT ![p] = NoDevices]

\* Under the lock: the server's clients and its bad list are emptied.  Both
\* are looked up with .at(), which ends the process if an entry is gone.
RecClear(p) ==
  /\ mutex = "free"
  /\ p \in ports /\ p \in badPorts
  /\ RecGoto(p, "clear", "done")
  /\ ForgetServer(p)
  /\ Dangle(p)
  /\ UNCHANGED <<constructed, mutex, up, ports, badPorts>>

-----------------------------------------------------------------------------
(* clear() and the destructor, doClear.  The callers (unconfigure and       *)
(* recoverOpc of NSWConfig) never run it beside a device operation.         *)

ClearUnchanged == UNCHANGED <<constructed, mutex, up, toPing, cur, result,
                              recNames>>

ClearBegin ==
  /\ constructed
  /\ clr = "idle"
  /\ \A u \in User : held[u] = NoHandle
  /\ bgStop' = TRUE
  /\ clr' = "joinBg"
  /\ ClearUnchanged
  /\ UNCHANGED <<tables, bgPc, recPc, recStop, held>>

\* Faulty variants of BgJoined and RecJoined: stop is requested, no join.
BgJoined_NoJoin  == TRUE
RecJoined_NoJoin == TRUE

BgJoined  == bgPc = "done"
RecJoined == \A p \in Port : ~RecActive(p)

ClearJoinBg ==
  /\ clr = "joinBg"
  /\ BgJoined
  /\ recStop' = TRUE
  /\ clr' = "joinRec"
  /\ ClearUnchanged
  /\ UNCHANGED <<tables, bgPc, bgStop, recPc, held>>

ClearJoinRec ==
  /\ clr = "joinRec"
  /\ RecJoined
  /\ clr' = "maps"
  /\ ClearUnchanged
  /\ UNCHANGED <<tables, bgPc, bgStop, recPc, recStop, held>>

\* m_reconnectThreads keeps its entries, and nothing restarts pinging.
ClearMaps ==
  /\ clr = "maps"
  /\ clr' = "idle"
  /\ ports' = {}
  /\ client' = [p \in Port |-> [n \in Name |-> "none"]]
  /\ badPorts' = {}
  /\ bad' = [p \in Port |-> NoDevices]
  /\ ClearUnchanged
  /\ UNCHANGED <<bgPc, bgStop, recPc, recStop, held>>

-----------------------------------------------------------------------------
Background ==
  \/ BgExit \/ BgLock \/ BgAnalyze \/ BgUnlock \/ BgWake
  \/ \E p \in Port : BgNextPort(p)
  \/ \E n \in Name : BgPingDevice(n)

Reconnect(p) == RecCheck(p) \/ RecWake(p) \/ RecDecide(p) \/ RecClear(p)

ClearSteps == ClearJoinBg \/ ClearJoinRec \/ ClearMaps

Next ==
  \/ ConstructMembers
  \/ BgLockEarly
  \/ Background
  \/ ClearBegin
  \/ ClearSteps
  \/ \E p \in Port : ServerStops(p) \/ ServerStarts(p) \/ Reconnect(p)
  \/ \E u \in User : ReleaseHandle(u)
  \/ \E u \in User, p \in Port, n \in Name : GetConnection(u, p, n)

\* Every thread that can run runs: waits time out and network calls return.
\* RecClear competes with the background thread for m_mutex, which is free
\* while that thread sleeps.  Servers, callers of getConnection and callers
\* of clear() owe nothing.
Fairness ==
  /\ WF_vars(ConstructMembers)
  /\ WF_vars(Background)
  /\ WF_vars(ClearSteps)
  /\ \A p \in Port : WF_vars(Reconnect(p)) /\ SF_vars(RecClear(p))
  /\ \A u \in User : WF_vars(ReleaseHandle(u))

Spec     == Init /\ [][Next]_vars
FairSpec == Spec /\ Fairness

-----------------------------------------------------------------------------
(* Safety.                                                                 *)

\* A device is on the bad list only while the manager has a client for it:
\* what getConnection() warns about is the client it is about to return,
\* never one the reconnect thread or clear() has destroyed.
BadDevicesHaveClients ==
  \A p \in Port, n \in Name : bad[p][n] # "absent" => client[p][n] # "none"

\* A reconnect thread that is still going to run m_connections.at(server)
\* and m_badConnections.at(server) finds both entries, however clear(), the
\* ping passes and new connections interleave; an exception there would
\* leave a jthread and end the process.  It was given at least one device:
\* with none it would call an offline server back online at once.
ReconnectFindsItsServer ==
  \A p \in Port :
    RecActive(p) => p \in ports /\ p \in badPorts /\ recNames[p] # {}

\* While doClear() empties the maps, which it does without m_mutex, no other
\* thread of the manager is left to touch them, and none is there after it.
ClearIsAlone ==
  clr = "maps" \/ (bgStop /\ clr = "idle") =>
    /\ bgPc = "done"
    /\ \A p \in Port : ~RecActive(p)

\* A pointer handed out by getConnection() stays valid while it is in use.
HandlesStayValid ==
  \A u \in User : held[u] # NoHandle => held[u].live

-----------------------------------------------------------------------------
(* Liveness.                                                               *)

\* clear() and the destructor return: the joins do not wait for each other,
\* for m_mutex or for an offline server (unless the background thread was
\* lost in the constructor).
ClearReturns == clr # "idle" /\ bgPc # "stuck" ~> clr = "idle"

\* When a server stops and stays away, all its clients get on the bad list
\* as SERVER_OFFLINE, whatever was known of them before, as long as the
\* manager has not been cleared.
OutageRecorded ==
  \A p \in Port :
    ~up[p] ~> \/ up[p] \/ bgStop \/ bgPc = "stuck"
              \/ \A n \in Connected(p) : bad[p][n] = "SERVER_OFFLINE"

\* A reconnect thread ends once its server is back for good.
ReconnectEnds ==
  \A p \in Port : <>[]up[p] => (RecActive(p) ~> ~RecActive(p))

\* Open connections are pinged: while there is one, a ping pass starts.
ConnectionsArePinged ==
  \A p \in Port : Connected(p) # {} ~> bgPc = "pass" \/ Connected(p) = {}
=============================================================================
