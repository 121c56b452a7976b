--------------------------- MODULE ShutdownProofs ---------------------------
(***************************************************************************)
(* Proofs about Shutdown, for any number of connections and events.        *)
(***************************************************************************)
EXTENDS Shutdown, FiniteSetTheorems, TLAPS

(* The sets the counters count are finite.                                 *)
LEMMA CountedFinite ==
    /\ \A p \in Drained : IsFiniteSet(Active(p)) /\ Cardinality(Active(p)) \in Nat
    /\ IsFiniteSet(Unreported) /\ Cardinality(Unreported) \in 0 .. Cardinality(Service)
    /\ Cardinality(Service) \in Nat
<1>1. ASSUME NEW p \in Drained PROVE IsFiniteSet(Active(p)) /\ Cardinality(Active(p)) \in Nat
  <2>1. Active(p) \subseteq Clients(p) BY DEF Active
  <2>2. IsFiniteSet(Clients(p)) BY ShutdownAssumption DEF Clients
  <2> QED BY <2>1, <2>2, FS_Subset, FS_CardinalityType
<1>2. Unreported \subseteq Service BY DEF Unreported
<1>3. IsFiniteSet(Service) BY ShutdownAssumption
<1>4. IsFiniteSet(Unreported) /\ Cardinality(Unreported) <= Cardinality(Service)
  BY <1>2, <1>3, FS_Subset
<1>5. Cardinality(Service) \in Nat /\ Cardinality(Unreported) \in Nat
  BY <1>3, <1>4, FS_CardinalityType
<1> QED BY <1>1, <1>4, <1>5

(* A connection is a client of its own server only.                        *)
LEMMA ClientsOf ==
    ASSUME NEW c \in Conn
    PROVE  /\ Protocol(c) \in Drained /\ Protocol(c) \in Service /\ c \in Clients(Protocol(c))
           /\ \A p \in Drained : c \in Clients(p) => p = Protocol(c)
BY ShutdownAssumption DEF Conn, Drained, Protocol, Clients

LEMMA InitIInv == Init => IInv
<1> SUFFICES ASSUME Init PROVE IInv OBVIOUS
<1>1. TypeOK
  <2>1. 0 \in 0 .. MaxEvents /\ 0 \in 0 .. Cardinality(Service)
    BY ShutdownAssumption, CountedFinite
  <2>2. MainTypes /\ ServiceTypes
    BY DEF Init, MainTypes, ServiceTypes
  <2>3. ReadyTypes /\ SessionTypes /\ EventTypes
    BY <2>1 DEF Init, ReadyTypes, SessionTypes, EventTypes
  <2> QED BY <2>2, <2>3 DEF Init, TypeOK
<1>2. WaitGroupsCount
  <2> SUFFICES ASSUME NEW p \in Drained PROVE wg[p] = Cardinality(Active(p)) BY DEF WaitGroupsCount
  <2>1. Clients(p) \subseteq Conn BY DEF Clients, Conn
  <2>2. Active(p) = {} BY <2>1 DEF Active, Init
  <2> QED BY <2>2, FS_EmptySet DEF Init
<1>3. ReadyCounts /\ ReadyMeansListening BY DEF Init, ReadyCounts, ReadyMeansListening
<1>4. StartOrder /\ NoFalseAlarm BY DEF Init, StartOrder, NoFalseAlarm
<1>5. AcceptOrder /\ StopOrder /\ DrainedFinish BY DEF Init, AcceptOrder, StopOrder, DrainedFinish
<1>6. events <= emitted BY DEF Init
<1> QED BY <1>1, <1>2, <1>3, <1>4, <1>5, <1>6 DEF IInv

-----------------------------------------------------------------------------
(* What keeps each part of the invariant, whatever the step is.            *)

LEMMA KeepTypes ==
    /\ MainTypes /\ UNCHANGED mainVars => MainTypes'
    /\ ServiceTypes /\ UNCHANGED serviceVars => ServiceTypes'
    /\ ReadyTypes /\ UNCHANGED readyVars => ReadyTypes'
    /\ SessionTypes /\ UNCHANGED sessionVars => SessionTypes'
    /\ EventTypes /\ events <= emitted /\ UNCHANGED eventVars => EventTypes' /\ events' <= emitted'
<1>1. MainTypes /\ UNCHANGED mainVars => MainTypes'
  BY DEF MainTypes, mainVars
<1>2. ServiceTypes /\ UNCHANGED serviceVars => ServiceTypes'
  BY DEF ServiceTypes, serviceVars
<1>3. ReadyTypes /\ UNCHANGED readyVars => ReadyTypes'
  BY DEF ReadyTypes, readyVars
<1>4. SessionTypes /\ UNCHANGED sessionVars => SessionTypes'
  BY DEF SessionTypes, sessionVars
<1>5. EventTypes /\ events <= emitted /\ UNCHANGED eventVars => EventTypes' /\ events' <= emitted'
  BY DEF EventTypes, eventVars
<1> QED BY <1>1, <1>2, <1>3, <1>4, <1>5

(* Every step but Register and EndSession leaves the active sessions and   *)
(* their count alone.                                                      *)
LEMMA SameActive ==
    ASSUME WaitGroupsCount, wg' = wg,
           \A c \in Conn : (conn[c] = "active") <=> (conn'[c] = "active")
    PROVE  WaitGroupsCount'
<1> SUFFICES ASSUME NEW p \in Drained PROVE wg'[p] = Cardinality(Active(p)') BY DEF WaitGroupsCount
<1>1. Clients(p) \subseteq Conn BY DEF Clients, Conn
<1>2. Active(p)' = Active(p) BY <1>1 DEF Active
<1> QED BY <1>2 DEF WaitGroupsCount

(* The services report to nobody while main assembles or after it failed   *)
(* to; otherwise the count is of those that are still to report.           *)
LEMMA KeepReady ==
    ASSUME ReadyCounts, ReadyMeansListening, UNCHANGED <<readyVars, Unreported>>,
           main' \in {"assembling", "fatal"} <=> main \in {"assembling", "fatal"},
           \A s \in Service : serve[s] # "none" => serve'[s] # "none"
    PROVE  ReadyCounts' /\ ReadyMeansListening'
BY DEF ReadyCounts, ReadyMeansListening, readyVars

LEMMA KeepStart ==
    ASSUME StartOrder, UNCHANGED <<start, serve>>, cancelled => cancelled',
           main' = "assembling" => main = "assembling" /\ timer' = timer /\ hub' = hub
    PROVE  StartOrder'
BY DEF StartOrder

LEMMA KeepAccepted ==
    ASSUME AcceptOrder, UNCHANGED <<conn, serve>> PROVE AcceptOrder'
BY DEF AcceptOrder, Protocol

LEMMA KeepStopped == ASSUME StopOrder, UNCHANGED <<conn, atStop>> PROVE StopOrder'
BY DEF StopOrder

LEMMA KeepAlarm == ASSUME NoFalseAlarm, UNCHANGED <<notify, broken, forward>> PROVE NoFalseAlarm'
BY DEF NoFalseAlarm

LEMMA KeepDrained ==
    ASSUME DrainedFinish, UNCHANGED <<conn, atStop, scanner>>,
           main' = main \/ main' \notin {"drain pop3", "join", "exited"}
    PROVE  DrainedFinish'
BY DEF DrainedFinish

(* The parts about the listeners and the sessions, together.               *)
LEMMA KeepServices ==
    ASSUME IInv, UNCHANGED <<serviceVars, forward, readyVars>>, cancelled => cancelled',
           main' \in {"assembling", "fatal"} <=> main \in {"assembling", "fatal"},
           main' = "assembling" => main = "assembling" /\ timer' = timer /\ hub' = hub
    PROVE  ServiceTypes' /\ ReadyTypes' /\ ReadyCounts' /\ ReadyMeansListening' /\ StartOrder' /\ NoFalseAlarm'
<1>1. UNCHANGED <<start, serve, notify, broken>> BY DEF serviceVars
<1>2. UNCHANGED Unreported BY <1>1 DEF Unreported
<1>3. ServiceTypes' /\ ReadyTypes' BY KeepTypes DEF IInv, TypeOK
<1>4. ReadyCounts' /\ ReadyMeansListening' BY <1>1, <1>2, KeepReady DEF IInv
<1>5. StartOrder' BY <1>1, KeepStart DEF IInv
<1>6. NoFalseAlarm' BY <1>1, KeepAlarm DEF IInv
<1> QED BY <1>3, <1>4, <1>5, <1>6

LEMMA KeepSessions ==
    ASSUME IInv, UNCHANGED <<sessionVars, atStop>>, \A s \in Service : serve[s] # "none" => serve'[s] # "none"
    PROVE  SessionTypes' /\ WaitGroupsCount' /\ AcceptOrder' /\ StopOrder'
<1>1. UNCHANGED <<wg, conn>> BY DEF sessionVars
<1>2. SessionTypes' BY KeepTypes DEF IInv, TypeOK
<1>3. WaitGroupsCount' BY <1>1, SameActive DEF IInv
<1>4. AcceptOrder' BY <1>1, ClientsOf DEF IInv, AcceptOrder
<1>5. StopOrder' BY <1>1, KeepStopped DEF IInv
<1> QED BY <1>2, <1>3, <1>4, <1>5

-----------------------------------------------------------------------------
(* The wait groups *)

LEMMA RegisterCounts ==
    ASSUME IInv, NEW c \in Conn, Register(c)
    PROVE  WaitGroupsCount'
<1> SUFFICES ASSUME NEW p \in Drained PROVE wg'[p] = Cardinality(Active(p)') BY DEF WaitGroupsCount
<1>1. Clients(p) \subseteq Conn BY DEF Clients, Conn
<1>2. conn' = [conn EXCEPT ![c] = "active"] /\ conn[c] = "accepted" /\ wg' = [wg EXCEPT ![Protocol(c)] = @ + 1]
  BY DEF Register
<1>3. conn \in [Conn -> {"none", "accepted", "active", "done"}] /\ wg \in [Drained -> Nat] BY DEF IInv, TypeOK, SessionTypes
<1>4. CASE p = Protocol(c)
  <2>1. Active(p)' = Active(p) \cup {c} /\ c \notin Active(p)
    BY <1>1, <1>2, <1>3, <1>4, ClientsOf DEF Active
  <2>2. Cardinality(Active(p)') = Cardinality(Active(p)) + 1
    BY <2>1, CountedFinite, FS_AddElement
  <2> QED BY <1>2, <1>3, <1>4, <2>2 DEF IInv, WaitGroupsCount
<1>5. CASE p # Protocol(c)
  <2>1. Active(p)' = Active(p)
    BY <1>1, <1>2, <1>3, <1>5, ClientsOf DEF Active
  <2> QED BY <1>2, <1>3, <1>5, <2>1 DEF IInv, WaitGroupsCount
<1> QED BY <1>4, <1>5

LEMMA EndSessionCounts ==
    ASSUME IInv, NEW c \in Conn, EndSession(c)
    PROVE  WaitGroupsCount' /\ wg' \in [Drained -> Nat]
<1>1. conn' = [conn EXCEPT ![c] = "done"] /\ conn[c] = "active" /\ wg' = [wg EXCEPT ![Protocol(c)] = @ - 1]
  BY DEF EndSession
<1>2. conn \in [Conn -> {"none", "accepted", "active", "done"}] /\ wg \in [Drained -> Nat] BY DEF IInv, TypeOK, SessionTypes
<1>3. ASSUME NEW p \in Drained PROVE wg'[p] = Cardinality(Active(p)') /\ wg'[p] \in Nat
  <2>1. Clients(p) \subseteq Conn BY DEF Clients, Conn
  <2>2. CASE p = Protocol(c)
    <3>1. Active(p)' = Active(p) \ {c} /\ c \in Active(p)
      BY <2>1, <1>1, <1>2, <2>2, ClientsOf DEF Active
    <3>2. Cardinality(Active(p)') = Cardinality(Active(p)) - 1 /\ IsFiniteSet(Active(p)')
      BY <3>1, CountedFinite, FS_RemoveElement
    <3>3. Cardinality(Active(p)') \in Nat BY <3>2, FS_CardinalityType
    <3> QED BY <1>1, <1>2, <2>2, <3>2, <3>3 DEF IInv, WaitGroupsCount
  <2>3. CASE p # Protocol(c)
    <3>1. Active(p)' = Active(p)
      BY <2>1, <1>1, <1>2, <2>3, ClientsOf DEF Active
    <3> QED BY <1>1, <1>2, <2>3, <3>1 DEF IInv, WaitGroupsCount
  <2> QED BY <2>2, <2>3
<1> QED BY <1>1, <1>2, <1>3 DEF WaitGroupsCount

-----------------------------------------------------------------------------
(* main *)

(* main goes on, while the services, their sessions and the scanner do     *)
(* what they did.                                                          *)
LEMMA MainMoves ==
    ASSUME IInv, MainTypes', DrainedFinish', UNCHANGED <<cancelled, timer, atStop>>,
           UNCHANGED <<serviceVars, forward, readyVars, sessionVars, scanner, eventVars>>,
           main' # "assembling", main' = "fatal" <=> main \in {"assembling", "fatal"}
    PROVE  IInv'
<1>1. ServiceTypes' /\ ReadyTypes' /\ ReadyCounts' /\ ReadyMeansListening' /\ StartOrder' /\ NoFalseAlarm'
  BY KeepServices
<1>2. SessionTypes' /\ WaitGroupsCount' /\ AcceptOrder' /\ StopOrder'
  BY KeepSessions DEF serviceVars
<1>3. EventTypes' /\ events' <= emitted' BY KeepTypes DEF IInv, TypeOK
<1>4. TypeOK' BY <1>1, <1>2, <1>3 DEF IInv, TypeOK
<1> QED BY <1>1, <1>2, <1>3, <1>4 DEF IInv

LEMMA AssemblyFailsStep == ASSUME IInv, AssemblyFails PROVE IInv'
<1>1. MainTypes' BY DEF IInv, TypeOK, MainTypes, AssemblyFails
<1>2. DrainedFinish' BY KeepDrained DEF IInv, AssemblyFails, sessionVars
<1> QED BY <1>1, <1>2, MainMoves DEF AssemblyFails

LEMMA StartServicesStep == ASSUME IInv, StartServices PROVE IInv'
<1>1. /\ main = "assembling" /\ main' = "running" /\ start' = [s \in Service |-> "starting"]
      /\ readyCount' = Cardinality(Service) /\ hub' = "running" /\ scanner' \in {"waiting", "stopped"}
      /\ UNCHANGED <<pidfile, cancelled, timer, atStop>> /\ UNCHANGED <<serve, notify, broken, forward, ready>>
      /\ UNCHANGED <<sessionVars, events, emitted>>
  BY DEF StartServices
<1>2. \A s \in Service : serve[s] = "none" BY <1>1 DEF IInv, StartOrder
<1>3. MainTypes' BY <1>1 DEF IInv, TypeOK, MainTypes
<1>4. ServiceTypes' BY <1>1 DEF IInv, TypeOK, ServiceTypes
<1>5. ReadyTypes' BY <1>1, CountedFinite DEF IInv, TypeOK, ReadyTypes
<1>6. EventTypes' /\ events' <= emitted' BY <1>1 DEF IInv, TypeOK, EventTypes
<1>7. SessionTypes' /\ WaitGroupsCount' /\ AcceptOrder' /\ StopOrder' BY <1>1, KeepSessions
<1>8. Unreported' = Service BY <1>1, <1>2 DEF Unreported
<1>9. ReadyCounts' BY <1>1, <1>8 DEF ReadyCounts
<1>10. ReadyMeansListening' BY <1>1 DEF IInv, ReadyCounts, ReadyMeansListening
<1>11. StartOrder' BY <1>1, <1>2 DEF StartOrder
<1>12. NoFalseAlarm' BY <1>1, KeepAlarm DEF IInv
<1>13. DrainedFinish' BY <1>1 DEF DrainedFinish
<1>14. TypeOK' BY <1>1, <1>3, <1>4, <1>5, <1>6, <1>7 DEF IInv, TypeOK
<1> QED BY <1>6, <1>7, <1>9, <1>10, <1>11, <1>12, <1>13, <1>14 DEF IInv

(* Signal and Notified: the sessions counted now are those to wait for.    *)
LEMMA StopStep ==
    ASSUME IInv, Stop, forward' = forward \/ (forward = "sent" /\ forward' = "read")
    PROVE  IInv'
<1>1. /\ main = "running" /\ main' = "drain smtp" /\ cancelled' = TRUE /\ timer' = TRUE
      /\ atStop' = {c \in Conn : conn[c] = "active"}
      /\ UNCHANGED <<pidfile, scanner>> /\ UNCHANGED <<serviceVars, readyVars, sessionVars, eventVars>>
  BY DEF Stop
<1>2. UNCHANGED <<start, serve, notify, broken, wg, conn>> BY <1>1 DEF serviceVars, sessionVars
<1>3. UNCHANGED Unreported BY <1>2 DEF Unreported
<1>4. MainTypes' BY <1>1 DEF IInv, TypeOK, MainTypes
<1>5. ServiceTypes' /\ ReadyTypes' /\ SessionTypes' /\ EventTypes' /\ events' <= emitted'
  BY <1>1, KeepTypes DEF IInv, TypeOK
<1>6. WaitGroupsCount' BY <1>2, SameActive DEF IInv
<1>7. ReadyCounts' /\ ReadyMeansListening' BY <1>1, <1>2, <1>3, KeepReady DEF IInv
<1>8. StartOrder' BY <1>1, <1>2, KeepStart DEF IInv
<1>9. AcceptOrder' BY <1>2, KeepAccepted DEF IInv
<1>10. StopOrder' BY <1>1, <1>2 DEF StopOrder
<1>11. NoFalseAlarm' BY <1>2 DEF IInv, NoFalseAlarm
<1>12. DrainedFinish' BY <1>1 DEF DrainedFinish
<1>13. TypeOK' BY <1>1, <1>4, <1>5 DEF IInv, TypeOK
<1> QED BY <1>5, <1>6, <1>7, <1>8, <1>9, <1>10, <1>11, <1>12, <1>13 DEF IInv

(* A wait group at zero: the sessions it counted at the stop have ended.   *)
LEMMA GroupIsEmpty ==
    ASSUME IInv, NEW p \in Drained, wg[p] = 0
    PROVE  \A c \in atStop \cap Clients(p) : conn[c] = "done"
<1>1. Cardinality(Active(p)) = 0 BY DEF IInv, WaitGroupsCount
<1>2. Active(p) = {} BY <1>1, CountedFinite, FS_EmptySet
<1>3. \A c \in Clients(p) : conn[c] # "active" BY <1>2 DEF Active
<1> QED BY <1>3 DEF IInv, StopOrder

LEMMA DrainSmtpStep == ASSUME IInv, DrainSmtp PROVE IInv'
<1>1. MainTypes' BY DEF IInv, TypeOK, MainTypes, DrainSmtp
<1>2. \A c \in atStop \cap SmtpConn : conn[c] = "done"
  BY GroupIsEmpty DEF DrainSmtp, Drained, Clients
<1>3. DrainedFinish' BY <1>2 DEF DrainedFinish, DrainSmtp, sessionVars
<1> QED BY <1>1, <1>3, MainMoves DEF DrainSmtp

LEMMA DrainPop3Step == ASSUME IInv, DrainPop3 PROVE IInv'
<1>1. MainTypes' BY DEF IInv, TypeOK, MainTypes, DrainPop3
<1>2. \A c \in atStop \cap Pop3Conn : conn[c] = "done"
  BY GroupIsEmpty DEF DrainPop3, Drained, Clients
<1>3. \A c \in atStop \cap SmtpConn : conn[c] = "done" BY DEF IInv, DrainedFinish, DrainPop3
<1>4. DrainedFinish' BY <1>2, <1>3 DEF DrainedFinish, DrainPop3, sessionVars
<1> QED BY <1>1, <1>4, MainMoves DEF DrainPop3

LEMMA JoinStep == ASSUME IInv, Join PROVE IInv'
<1>1. MainTypes' BY DEF IInv, TypeOK, MainTypes, Join
<1>2. DrainedFinish' BY DEF IInv, DrainedFinish, Join, sessionVars
<1> QED BY <1>1, <1>2, MainMoves DEF Join

LEMMA EndsAtOnce ==
    ASSUME IInv, TimedExit \/ EventPanics
    PROVE  IInv'
<1>1. /\ main \notin {"assembling", "fatal"} /\ main' \in {"forced", "crashed"} /\ pidfile' \in BOOLEAN
      /\ UNCHANGED <<cancelled, timer, atStop>>
      /\ UNCHANGED <<serviceVars, forward, readyVars, sessionVars, scanner, eventVars>>
  BY DEF IInv, TypeOK, MainTypes, StartOrder, TimedExit, EventPanics, Ended
<1>2. MainTypes' BY <1>1 DEF IInv, TypeOK, MainTypes
<1>3. DrainedFinish' BY <1>1 DEF DrainedFinish
<1> QED BY <1>1, <1>2, <1>3, MainMoves

-----------------------------------------------------------------------------
(* The background *)

(* Nothing but the scanner and the events moves.                           *)
LEMMA OthersMove ==
    ASSUME IInv, UNCHANGED <<mainVars, serviceVars, forward, readyVars, sessionVars>>,
           main = "assembling" => hub' = hub, main = "exited" => scanner' = scanner,
           scanner' \in {"none", "waiting", "scanning", "stopped"}, EventTypes', events' <= emitted'
    PROVE  IInv'
<1>1. UNCHANGED <<main, pidfile, cancelled, timer, atStop>> BY DEF mainVars
<1>2. ServiceTypes' /\ ReadyTypes' /\ ReadyCounts' /\ ReadyMeansListening' /\ StartOrder' /\ NoFalseAlarm'
  BY <1>1, KeepServices
<1>3. SessionTypes' /\ WaitGroupsCount' /\ AcceptOrder' /\ StopOrder'
  BY <1>1, KeepSessions DEF serviceVars
<1>4. MainTypes' BY KeepTypes DEF IInv, TypeOK
<1>5. DrainedFinish' BY <1>1 DEF IInv, DrainedFinish, sessionVars
<1>6. TypeOK' BY <1>2, <1>3, <1>4 DEF IInv, TypeOK
<1> QED BY <1>2, <1>3, <1>5, <1>6 DEF IInv

LEMMA AllReadyStep == ASSUME IInv, AllReady PROVE IInv'
<1>1. /\ main \notin {"assembling", "fatal"} /\ readyCount = 0 /\ ready' = TRUE /\ readyCount' = readyCount
      /\ UNCHANGED <<mainVars, serviceVars, forward, sessionVars, scanner, eventVars>>
  BY DEF AllReady, Ended
<1>2. UNCHANGED <<main, cancelled, timer, atStop, start, serve, notify, broken, hub, conn>>
  BY <1>1 DEF mainVars, serviceVars, eventVars, sessionVars
<1>3. MainTypes' /\ ServiceTypes' /\ EventTypes' /\ events' <= emitted' BY <1>1, KeepTypes DEF IInv, TypeOK
<1>4. ReadyTypes' BY <1>1 DEF IInv, TypeOK, ReadyTypes
<1>5. Unreported = {}
  <2>1. Cardinality(Unreported) = 0 BY <1>1 DEF IInv, ReadyCounts
  <2> QED BY <2>1, CountedFinite, FS_EmptySet
<1>6. ReadyMeansListening' BY <1>2, <1>5 DEF ReadyMeansListening, Unreported
<1>7. ReadyCounts' BY <1>1, <1>2 DEF IInv, ReadyCounts, Unreported
<1>8. SessionTypes' /\ WaitGroupsCount' /\ AcceptOrder' /\ StopOrder' BY <1>1, <1>2, KeepSessions
<1>9. StartOrder' BY <1>2, KeepStart DEF IInv
<1>10. NoFalseAlarm' BY <1>1, <1>2, KeepAlarm DEF IInv
<1>11. DrainedFinish' BY <1>1, <1>2, KeepDrained DEF IInv
<1>12. TypeOK' BY <1>1, <1>3, <1>4, <1>8 DEF IInv, TypeOK
<1> QED BY <1>3, <1>6, <1>7, <1>8, <1>9, <1>10, <1>11, <1>12 DEF IInv

LEMMA ForwardStep == ASSUME IInv, Forward PROVE IInv'
<1>1. PICK s \in Service : notify[s] = "error" /\ notify' = [notify EXCEPT ![s] = "taken"]
  BY DEF Forward, Watched
<1>2. /\ forward' = "sent" /\ UNCHANGED <<start, serve, broken>>
      /\ UNCHANGED <<mainVars, readyVars, sessionVars, scanner, eventVars>>
  BY DEF Forward
<1>3. UNCHANGED <<main, cancelled, timer, atStop, hub, conn>> BY <1>2 DEF mainVars, eventVars, sessionVars
<1>4. MainTypes' /\ ReadyTypes' /\ EventTypes' /\ events' <= emitted' BY <1>2, KeepTypes DEF IInv, TypeOK
<1>5. ServiceTypes' BY <1>1, <1>2 DEF IInv, TypeOK, ServiceTypes
<1>6. SessionTypes' /\ WaitGroupsCount' /\ AcceptOrder' /\ StopOrder' BY <1>2, <1>3, KeepSessions
<1>7. UNCHANGED Unreported BY <1>2 DEF Unreported
<1>8. ReadyCounts' /\ ReadyMeansListening' BY <1>2, <1>3, <1>7, KeepReady DEF IInv
<1>9. StartOrder' BY <1>2, <1>3, KeepStart DEF IInv
<1>10. NoFalseAlarm'
  <2>1. s \in broken BY <1>1 DEF IInv, NoFalseAlarm
  <2>2. \A x \in Service : notify'[x] # "open" => notify[x] # "open" \/ x = s
    BY <1>1 DEF IInv, TypeOK, ServiceTypes
  <2> QED BY <1>2, <2>1, <2>2 DEF IInv, NoFalseAlarm
<1>11. DrainedFinish' BY <1>2, <1>3, KeepDrained DEF IInv
<1>12. TypeOK' BY <1>2, <1>4, <1>5, <1>6 DEF IInv, TypeOK
<1> QED BY <1>4, <1>6, <1>8, <1>9, <1>10, <1>11, <1>12 DEF IInv

LEMMA DeliverEventStep == ASSUME IInv, DeliverEvent PROVE IInv'
<1>1. EventTypes' /\ events' <= emitted'
  <2>1. events' = events - 1 /\ events > 0 /\ UNCHANGED <<emitted, hub>> BY DEF DeliverEvent
  <2>2. MaxEvents \in Nat BY ShutdownAssumption
  <2> QED BY <2>1, <2>2 DEF IInv, TypeOK, EventTypes
<1> QED BY <1>1, OthersMove DEF DeliverEvent, IInv, TypeOK

LEMMA HubStopsStep == ASSUME IInv, HubStops PROVE IInv'
<1>1. EventTypes' /\ events' <= emitted' BY DEF HubStops, IInv, TypeOK, EventTypes
<1>2. main # "assembling" BY DEF HubStops, IInv, StartOrder
<1> QED BY <1>1, <1>2, OthersMove DEF HubStops, IInv, TypeOK

LEMMA ScannerStep == ASSUME IInv, StartScan \/ EndScan \/ ScannerStops PROVE IInv'
<1>1. UNCHANGED eventVars BY DEF StartScan, EndScan, ScannerStops
<1>2. EventTypes' /\ events' <= emitted' /\ hub' = hub BY <1>1, KeepTypes DEF IInv, TypeOK, eventVars
<1>3. main # "exited" /\ scanner' \in {"waiting", "scanning", "stopped"}
  BY DEF StartScan, EndScan, ScannerStops, Ended
<1> QED BY <1>2, <1>3, OthersMove DEF StartScan, EndScan, ScannerStops

-----------------------------------------------------------------------------
(* The services *)

(* A listener opens, fails, reports or closes: main, the sessions and the  *)
(* events stay as they are.                                                *)
LEMMA ServiceMoves ==
    ASSUME IInv, UNCHANGED <<mainVars, forward, ready, sessionVars, scanner, eventVars>>,
           ServiceTypes', ReadyTypes', ReadyCounts', StartOrder', NoFalseAlarm',
           \A s \in Service : serve[s] # "none" => serve'[s] # "none"
    PROVE  IInv'
<1>1. UNCHANGED <<main, atStop, conn>> BY DEF mainVars, sessionVars
<1>2. MainTypes' /\ EventTypes' /\ events' <= emitted' BY KeepTypes DEF IInv, TypeOK
<1>3. SessionTypes' /\ WaitGroupsCount' /\ AcceptOrder' /\ StopOrder' BY <1>1, KeepSessions
<1>4. ReadyMeansListening' BY DEF IInv, ReadyMeansListening
<1>5. DrainedFinish' BY <1>1, KeepDrained DEF IInv
<1>6. TypeOK' BY <1>2, <1>3 DEF IInv, TypeOK
<1> QED BY <1>2, <1>3, <1>4, <1>5, <1>6 DEF IInv

LEMMA ListenStep == ASSUME IInv, NEW s \in Service, Listen(s) PROVE IInv'
<1>1. /\ start[s] = "starting" /\ start' = [start EXCEPT ![s] = "listening"]
      /\ serve' = [serve EXCEPT ![s] = "accepting"] /\ UNCHANGED <<notify, broken>>
      /\ UNCHANGED <<mainVars, forward, readyVars, sessionVars, scanner, eventVars>>
  BY DEF Listen
<1>2. UNCHANGED <<main, timer, cancelled, hub, readyCount, ready>> BY <1>1 DEF mainVars, eventVars, readyVars
<1>3. serve[s] = "none" BY <1>1 DEF IInv, StartOrder
<1>4. ServiceTypes' BY <1>1 DEF IInv, TypeOK, ServiceTypes
<1>5. start \in [Service -> {"none", "starting", "listening", "waiting", "returned"}] /\ DOMAIN serve = Service
  BY DEF IInv, TypeOK, ServiceTypes
<1>6. Unreported' = Unreported BY <1>1, <1>3, <1>5 DEF Unreported
<1>7. ReadyTypes' BY <1>1, KeepTypes DEF IInv, TypeOK
<1>8. ReadyCounts' BY <1>2, <1>6 DEF IInv, ReadyCounts
<1>9. main # "assembling" BY <1>1 DEF IInv, StartOrder
<1>10. StartOrder' BY <1>1, <1>2, <1>5, <1>9 DEF IInv, StartOrder
<1>11. NoFalseAlarm' BY <1>1, KeepAlarm DEF IInv
<1>12. \A x \in Service : serve[x] # "none" => serve'[x] # "none" BY <1>1, <1>5
<1> QED BY <1>1, <1>2, <1>4, <1>7, <1>8, <1>10, <1>11, <1>12, ServiceMoves

LEMMA ListenFailsStep == ASSUME IInv, NEW s \in Service, ListenFails(s) PROVE IInv'
<1>1. /\ start[s] = "starting" /\ start' = [start EXCEPT ![s] = "returned"]
      /\ notify' = [notify EXCEPT ![s] = "error"] /\ broken' = broken \cup {s} /\ serve' = serve
      /\ UNCHANGED <<mainVars, forward, readyVars, sessionVars, scanner, eventVars>>
  BY DEF ListenFails
<1>2. UNCHANGED <<main, timer, cancelled, hub, readyCount, ready>> BY <1>1 DEF mainVars, eventVars, readyVars
<1>3. serve[s] = "none" /\ main # "assembling" BY <1>1 DEF IInv, StartOrder
<1>4. ServiceTypes' BY <1>1 DEF IInv, TypeOK, ServiceTypes
<1>5. DOMAIN start = Service /\ DOMAIN notify = Service BY DEF IInv, TypeOK, ServiceTypes
<1>6. Unreported' = Unreported BY <1>1, <1>3, <1>5 DEF Unreported
<1>7. ReadyTypes' BY <1>1, KeepTypes DEF IInv, TypeOK
<1>8. ReadyCounts' BY <1>2, <1>6 DEF IInv, ReadyCounts
<1>9. StartOrder' BY <1>1, <1>2, <1>3, <1>5 DEF IInv, StartOrder
<1>10. NoFalseAlarm' BY <1>1, <1>5 DEF IInv, NoFalseAlarm
<1> QED BY <1>1, <1>2, <1>4, <1>7, <1>8, <1>9, <1>10, ServiceMoves

(* A service leaves the set of those awaited as it reports.                *)
LEMMA ReportReadyStep == ASSUME IInv, NEW s \in Service, ReportReady(s) PROVE IInv'
<1>1. /\ start[s] = "listening" /\ start' = [start EXCEPT ![s] = "waiting"] /\ readyCount' = readyCount - 1
      /\ UNCHANGED <<serve, notify, broken, ready>>
      /\ UNCHANGED <<mainVars, forward, sessionVars, scanner, eventVars>>
  BY DEF ReportReady
<1>2. UNCHANGED <<main, timer, cancelled, hub>> BY <1>1 DEF mainVars, eventVars
<1>3. main \notin {"assembling", "fatal"} /\ serve[s] # "none"
  BY <1>1 DEF ReportReady, Ended, IInv, StartOrder
<1>4. ServiceTypes' BY <1>1 DEF IInv, TypeOK, ServiceTypes
<1>5. DOMAIN start = Service BY DEF IInv, TypeOK, ServiceTypes
<1>6. Unreported' = Unreported \ {s} /\ s \in Unreported BY <1>1, <1>3, <1>5 DEF Unreported
<1>7. Cardinality(Unreported') = Cardinality(Unreported) - 1 /\ IsFiniteSet(Unreported')
  BY <1>6, CountedFinite, FS_RemoveElement
<1>8. Cardinality(Unreported') \in Nat BY <1>7, FS_CardinalityType
<1>9. readyCount = Cardinality(Unreported) BY <1>3 DEF IInv, ReadyCounts
<1>10. ReadyCounts' BY <1>1, <1>2, <1>3, <1>7, <1>9 DEF ReadyCounts
<1>11. ReadyTypes' BY <1>1, <1>7, <1>8, <1>9, CountedFinite DEF IInv, TypeOK, ReadyTypes
<1>12. StartOrder' BY <1>1, <1>2, <1>3, <1>5 DEF IInv, StartOrder
<1>13. NoFalseAlarm' BY <1>1, KeepAlarm DEF IInv
<1> QED BY <1>1, <1>4, <1>10, <1>11, <1>12, <1>13, ServiceMoves

LEMMA AcceptErrorStep == ASSUME IInv, NEW s \in Service, AcceptError(s) PROVE IInv'
<1>1. /\ serve[s] = "accepting" /\ serve' = [serve EXCEPT ![s] = "returned"] /\ start' = start
      /\ notify' = IF cancelled THEN notify ELSE [notify EXCEPT ![s] = "error"]
      /\ broken' = IF start[s] \in {"listening", "waiting"} THEN broken \cup {s} ELSE broken
      /\ UNCHANGED <<mainVars, forward, readyVars, sessionVars, scanner, eventVars>>
  BY DEF AcceptError, ListenerOpen
<1>2. UNCHANGED <<main, timer, cancelled, hub, readyCount, ready>> BY <1>1 DEF mainVars, eventVars, readyVars
<1>3. ServiceTypes' BY <1>1 DEF IInv, TypeOK, ServiceTypes
<1>4. /\ start \in [Service -> {"none", "starting", "listening", "waiting", "returned"}]
      /\ DOMAIN serve = Service /\ DOMAIN notify = Service
  BY DEF IInv, TypeOK, ServiceTypes
<1>5. \A x \in Service : serve'[x] = "none" <=> serve[x] = "none" BY <1>1, <1>4
<1>6. Unreported' = Unreported BY <1>1, <1>5 DEF Unreported
<1>7. ReadyTypes' BY <1>1, KeepTypes DEF IInv, TypeOK
<1>8. ReadyCounts' BY <1>2, <1>6 DEF IInv, ReadyCounts
<1>9. StartOrder' BY <1>1, <1>2, <1>5 DEF IInv, StartOrder
<1>10. start[s] \in {"listening", "waiting"} \/ cancelled
  BY <1>1, <1>4 DEF IInv, StartOrder
<1>11. NoFalseAlarm'
  <2>1. \A x \in Service : notify'[x] # "open" => notify[x] # "open" \/ (x = s /\ ~cancelled) BY <1>1, <1>4
  <2>2. broken \subseteq broken' /\ (~cancelled => s \in broken') BY <1>1, <1>10
  <2> QED BY <1>1, <2>1, <2>2 DEF IInv, NoFalseAlarm
<1> QED BY <1>1, <1>2, <1>3, <1>5, <1>7, <1>8, <1>9, <1>11, ServiceMoves

LEMMA CloseListenerStep == ASSUME IInv, NEW s \in Service, CloseListener(s) PROVE IInv'
<1>1. /\ start[s] = "waiting" /\ cancelled /\ start' = [start EXCEPT ![s] = "returned"]
      /\ UNCHANGED <<serve, notify, broken>>
      /\ UNCHANGED <<mainVars, forward, readyVars, sessionVars, scanner, eventVars>>
  BY DEF CloseListener
<1>2. UNCHANGED <<main, timer, cancelled, hub, readyCount, ready>> BY <1>1 DEF mainVars, eventVars, readyVars
<1>3. ServiceTypes' BY <1>1 DEF IInv, TypeOK, ServiceTypes
<1>4. DOMAIN start = Service BY DEF IInv, TypeOK, ServiceTypes
<1>5. Unreported' = Unreported BY <1>1, <1>4 DEF Unreported
<1>6. ReadyTypes' BY <1>1, KeepTypes DEF IInv, TypeOK
<1>7. ReadyCounts' BY <1>2, <1>5 DEF IInv, ReadyCounts
<1>8. main # "assembling" /\ serve[s] # "none" BY <1>1 DEF IInv, StartOrder
<1>9. StartOrder' BY <1>1, <1>2, <1>4, <1>8 DEF IInv, StartOrder
<1>10. NoFalseAlarm' BY <1>1, KeepAlarm DEF IInv
<1> QED BY <1>1, <1>2, <1>3, <1>6, <1>7, <1>9, <1>10, ServiceMoves

-----------------------------------------------------------------------------
(* The sessions *)

(* A connection is accepted, counted or ends: no listener opens or closes. *)
LEMMA SessionMoves ==
    ASSUME IInv, UNCHANGED <<mainVars, start, notify, broken, forward, readyVars, scanner, eventVars>>,
           serve' \in [Service -> {"none", "accepting", "adding", "returned"}],
           \A s \in Service : serve'[s] = "none" <=> serve[s] = "none",
           SessionTypes', WaitGroupsCount', AcceptOrder', \A c \in Conn : conn[c] = "done" => conn'[c] = "done",
           \A c \in Conn : conn[c] = "active" => conn'[c] \in {"active", "done"}
    PROVE  IInv'
<1>1. UNCHANGED <<main, cancelled, timer, atStop, hub>> BY DEF mainVars, eventVars
<1>2. MainTypes' /\ ReadyTypes' /\ EventTypes' /\ events' <= emitted' BY KeepTypes DEF IInv, TypeOK
<1>3. ServiceTypes' BY DEF IInv, TypeOK, ServiceTypes
<1>4. UNCHANGED Unreported BY DEF Unreported
<1>5. ReadyCounts' /\ ReadyMeansListening' BY <1>1, <1>4, KeepReady DEF IInv
<1>6. StartOrder' BY <1>1 DEF IInv, StartOrder
<1>7. NoFalseAlarm' BY KeepAlarm DEF IInv
<1>8. atStop \subseteq Conn BY DEF IInv, TypeOK, MainTypes
<1>9. StopOrder' BY <1>1, <1>8 DEF IInv, StopOrder
<1>10. DrainedFinish' BY <1>1, <1>8 DEF IInv, DrainedFinish
<1>11. TypeOK' BY <1>2, <1>3 DEF IInv, TypeOK
<1> QED BY <1>2, <1>5, <1>6, <1>7, <1>9, <1>10, <1>11 DEF IInv

LEMMA AcceptStep == ASSUME IInv, NEW c \in Conn, Accept(c) PROVE IInv'
<1> DEFINE p == Protocol(c)
<1>1. /\ conn[c] = "none" /\ conn' = [conn EXCEPT ![c] = "accepted"]
      /\ p \in Service /\ serve[p] = "accepting"
      /\ serve' = [serve EXCEPT ![p] = IF p = "pop3" THEN "adding" ELSE @]
      /\ wg' = wg /\ UNCHANGED <<mainVars, start, notify, broken, forward, readyVars, scanner, eventVars>>
  BY ClientsOf DEF Accept
<1> HIDE DEF p
<1>2. /\ serve \in [Service -> {"none", "accepting", "adding", "returned"}]
      /\ wg \in [Drained -> Nat] /\ conn \in [Conn -> {"none", "accepted", "active", "done"}]
  BY DEF IInv, TypeOK, ServiceTypes, SessionTypes
<1>3. serve' \in [Service -> {"none", "accepting", "adding", "returned"}] BY <1>1, <1>2
<1>4. \A s \in Service : serve'[s] = "none" <=> serve[s] = "none" BY <1>1, <1>2
<1>5. SessionTypes' BY <1>1, <1>2 DEF SessionTypes
<1>6. \A d \in Conn : d # c => conn'[d] = conn[d] BY <1>1, <1>2
<1>7. conn'[c] = "accepted" BY <1>1, <1>2
<1>8. WaitGroupsCount' BY <1>1, <1>6, <1>7, SameActive DEF IInv
<1>9. AcceptOrder'
  <2> SUFFICES ASSUME NEW d \in Conn, conn'[d] # "none" PROVE serve'[Protocol(d)] # "none" BY DEF AcceptOrder, Protocol
  <2>1. CASE d = c BY <1>1, <1>4, <2>1 DEF p
  <2>2. CASE d # c BY <1>4, <1>6, <2>2, ClientsOf DEF IInv, AcceptOrder
  <2> QED BY <2>1, <2>2
<1> QED BY <1>1, <1>3, <1>4, <1>5, <1>6, <1>8, <1>9, SessionMoves

LEMMA RegisterStep == ASSUME IInv, NEW c \in Conn, Register(c) PROVE IInv'
<1> DEFINE p == Protocol(c)
<1>1. /\ conn[c] = "accepted" /\ conn' = [conn EXCEPT ![c] = "active"]
      /\ p \in Drained /\ wg' = [wg EXCEPT ![p] = @ + 1]
      /\ p \in Service /\ serve[p] # "none"
      /\ serve' = [serve EXCEPT ![p] = IF p = "pop3" THEN "accepting" ELSE @]
      /\ UNCHANGED <<mainVars, start, notify, broken, forward, readyVars, scanner, eventVars>>
  BY ClientsOf DEF Register, IInv, AcceptOrder
<1> HIDE DEF p
<1>2. /\ serve \in [Service -> {"none", "accepting", "adding", "returned"}]
      /\ wg \in [Drained -> Nat] /\ conn \in [Conn -> {"none", "accepted", "active", "done"}]
  BY DEF IInv, TypeOK, ServiceTypes, SessionTypes
<1>3. serve' \in [Service -> {"none", "accepting", "adding", "returned"}] BY <1>1, <1>2
<1>4. \A s \in Service : serve'[s] = "none" <=> serve[s] = "none" BY <1>1, <1>2
<1>5. wg' \in [Drained -> Nat] BY <1>1, <1>2
<1>6. SessionTypes' BY <1>1, <1>2, <1>5 DEF SessionTypes
<1>7. \A d \in Conn : d # c => conn'[d] = conn[d] BY <1>1, <1>2
<1>8. WaitGroupsCount' BY RegisterCounts
<1>9. AcceptOrder'
  <2> SUFFICES ASSUME NEW d \in Conn, conn'[d] # "none" PROVE serve'[Protocol(d)] # "none" BY DEF AcceptOrder, Protocol
  <2>1. CASE d = c BY <1>1, <1>4, <2>1 DEF p
  <2>2. CASE d # c BY <1>4, <1>7, <2>2, ClientsOf DEF IInv, AcceptOrder
  <2> QED BY <2>1, <2>2
<1> QED BY <1>1, <1>3, <1>4, <1>6, <1>7, <1>8, <1>9, SessionMoves

LEMMA EndSessionStep == ASSUME IInv, NEW c \in Conn, EndSession(c) PROVE IInv'
<1>1. /\ conn[c] = "active" /\ conn' = [conn EXCEPT ![c] = "done"] /\ UNCHANGED <<start, serve, notify, broken>>
      /\ UNCHANGED <<mainVars, forward, readyVars, scanner, eventVars>>
  BY DEF EndSession, serviceVars
<1>2. /\ serve \in [Service -> {"none", "accepting", "adding", "returned"}]
      /\ conn \in [Conn -> {"none", "accepted", "active", "done"}]
  BY DEF IInv, TypeOK, ServiceTypes, SessionTypes
<1>3. WaitGroupsCount' /\ wg' \in [Drained -> Nat] BY EndSessionCounts
<1>4. SessionTypes' BY <1>1, <1>2, <1>3 DEF SessionTypes
<1>5. conn'[c] = "done" /\ \A d \in Conn : d # c => conn'[d] = conn[d] BY <1>1, <1>2
<1>6. AcceptOrder' BY <1>1, <1>5 DEF IInv, AcceptOrder, Protocol
<1> QED BY <1>1, <1>2, <1>3, <1>4, <1>5, <1>6, SessionMoves

LEMMA EmitStep == ASSUME IInv, NEW c \in Conn, Emit(c) PROVE IInv'
<1>1. EventTypes' /\ events' <= emitted'
  <2>1. events' = events + 1 /\ emitted' = emitted + 1 /\ emitted < MaxEvents /\ UNCHANGED hub BY DEF Emit
  <2>2. MaxEvents \in Nat BY ShutdownAssumption
  <2> QED BY <2>1, <2>2 DEF IInv, TypeOK, EventTypes
<1> QED BY <1>1, OthersMove DEF Emit, IInv, TypeOK

-----------------------------------------------------------------------------
LEMMA StutterIInv == ASSUME IInv, UNCHANGED vars PROVE IInv'
<1>1. EventTypes' /\ events' <= emitted' BY KeepTypes DEF IInv, TypeOK, vars
<1>2. UNCHANGED <<mainVars, serviceVars, forward, readyVars, sessionVars>> /\ hub' = hub /\ scanner' = scanner
  BY DEF vars, eventVars
<1> QED BY <1>1, <1>2, OthersMove DEF IInv, TypeOK

LEMMA NextIInv == IInv /\ [Next]_vars => IInv'
<1> SUFFICES ASSUME IInv, [Next]_vars PROVE IInv' OBVIOUS
<1>1. CASE Main
  <2>1. CASE Signal BY <2>1, StopStep DEF Signal
  <2>2. CASE Notified BY <2>2, StopStep DEF Notified
  <2> QED BY <1>1, <2>1, <2>2, AssemblyFailsStep, StartServicesStep, DrainSmtpStep, DrainPop3Step, JoinStep, EndsAtOnce DEF Main
<1>2. CASE Background
  BY <1>2, AllReadyStep, ForwardStep, DeliverEventStep, HubStopsStep, EndsAtOnce, ScannerStep DEF Background
<1>3. ASSUME NEW s \in Service, Run(s) PROVE IInv'
  BY <1>3, ListenStep, ListenFailsStep, ReportReadyStep, AcceptErrorStep, CloseListenerStep DEF Run
<1>4. ASSUME NEW c \in Conn, Session(c) PROVE IInv'
  BY <1>4, AcceptStep, RegisterStep, EndSessionStep, EmitStep DEF Session
<1> QED BY <1>1, <1>2, <1>3, <1>4, StutterIInv DEF Next

THEOREM Invariance == Spec => []IInv
<1>1. Init => IInv BY InitIInv
<1>2. IInv /\ [Next]_vars => IInv' BY NextIInv
<1> QED BY <1>1, <1>2, PTL DEF Spec

(* Every variable keeps its type, the wait groups above all: no counter    *)
(* goes below zero, which would panic.                                     *)
THEOREM TypeCorrect == Spec => []TypeOK
<1>1. IInv => TypeOK BY DEF IInv
<1> QED BY <1>1, Invariance, PTL

(* main.go:122: when all services are reported ready, all are listening.   *)
THEOREM ReadyAfterListening == Spec => []ReadyMeansListening
<1>1. IInv => ReadyMeansListening BY DEF IInv
<1> QED BY <1>1, Invariance, PTL

(* The process never takes its own closing of a listener for a failure.    *)
THEOREM AlarmsAreReal == Spec => []NoFalseAlarm
<1>1. IInv => NoFalseAlarm BY DEF IInv
<1> QED BY <1>1, Invariance, PTL

(* main.go:151: the drains wait for every session counted at the stop, and *)
(* a clean exit for the scanner.                                           *)
THEOREM DrainsWait == Spec => []DrainedFinish
<1>1. IInv => DrainedFinish BY DEF IInv
<1> QED BY <1>1, Invariance, PTL

(* Both announcements, ready and failed, are true for any set of services  *)
(* and sessions.                                                           *)
THEOREM AnnouncementsAreTrue == Spec => []AnnouncementsTrue
<1>1. TypeOK /\ ReadyMeansListening /\ NoFalseAlarm => AnnouncementsTrue BY DEF AnnouncementsTrue
<1> QED BY <1>1, TypeCorrect, ReadyAfterListening, AlarmsAreReal, PTL
=============================================================================
