------------------------------ MODULE Shutdown ------------------------------
(***************************************************************************)
(* The life of the process: cmd/inbucket/main.go, the services of          *)
(* pkg/server/lifecycle.go, their listeners (smtp, pop3 and web: Start,    *)
(* serve, Drain), the retention scanner's Start and Join, and the hub's    *)
(* end.  Each service has two goroutines, Start and serve; each            *)
(* connection has one, which a wait group counts; each event of a session  *)
(* has one, which sends to the hub.                                        *)
(***************************************************************************)
EXTENDS Integers, FiniteSets

CONSTANTS
    Service,               \* the services started, of "web", "smtp" and "pop3"
    SmtpConn, Pop3Conn,    \* connections that clients may open
    MaxEvents              \* bound: events emitted

ASSUME ShutdownAssumption ==
    /\ IsFiniteSet(SmtpConn) /\ IsFiniteSet(Pop3Conn) /\ SmtpConn \cap Pop3Conn = {}
    /\ IsFiniteSet(Service) /\ Service \subseteq {"web", "smtp", "pop3"}
    /\ SmtpConn # {} => "smtp" \in Service
    /\ Pop3Conn # {} => "pop3" \in Service
    /\ MaxEvents \in Nat

Drained == {"smtp", "pop3"}
Conn == SmtpConn \cup Pop3Conn
Clients(p) == IF p = "smtp" THEN SmtpConn ELSE Pop3Conn
Protocol(c) == IF c \in SmtpConn THEN "smtp" ELSE "pop3"

VARIABLES
    main,       \* where main() is
    pidfile,    \* the pid file exists
    cancelled,  \* svcCancel was called
    timer,      \* timedExit is running
    start,      \* each service's Start
    serve,      \* each service's accept loop
    notify,     \* each service's notify channel
    forward,    \* the goroutine of setupNotify
    readyCount, \* Services.ready
    ready,      \* readyFunc was called
    wg,         \* the wait groups of the SMTP and POP3 servers
    conn,       \* each connection
    scanner,    \* the retention scanner
    hub,        \* the hub's goroutine
    events,     \* goroutines of events on their way to the hub
    emitted,    \* events emitted so far
    broken,     \* services that met a listener error of their own
    atStop      \* connections the wait groups counted when the shutdown began

mainVars == <<main, pidfile, cancelled, timer, atStop>>
serviceVars == <<start, serve, notify, broken>>
readyVars == <<readyCount, ready>>
sessionVars == <<wg, conn>>
eventVars == <<hub, events, emitted>>
vars == <<mainVars, serviceVars, forward, readyVars, sessionVars, scanner, eventVars>>

Ended == main \in {"exited", "forced", "fatal", "crashed"}
Active(p) == {c \in Clients(p) : conn[c] = "active"}

Init ==
    /\ main = "assembling" /\ pidfile = TRUE
    /\ cancelled = FALSE /\ timer = FALSE
    /\ start = [s \in Service |-> "none"]
    /\ serve = [s \in Service |-> "none"]
    /\ notify = [s \in Service |-> "open"]
    /\ forward = "waiting"
    /\ readyCount = 0 /\ ready = FALSE
    /\ wg = [p \in Drained |-> 0]
    /\ conn = [c \in Conn |-> "none"]
    /\ scanner = "none" /\ hub = "none"
    /\ events = 0 /\ emitted = 0
    /\ broken = {} /\ atStop = {}

-----------------------------------------------------------------------------
(* Starting *)

(* FullAssembly fails: Fatal ends the process at once.                     *)
AssemblyFails ==
    /\ main = "assembling"
    /\ main' = "fatal"
    /\ UNCHANGED <<pidfile, cancelled, timer, atStop, serviceVars, forward, readyVars, sessionVars, scanner, eventVars>>

(* Mutant: the services share one ready function.                          *)
StartServices_CountsOne ==
    /\ main = "assembling"
    /\ main' = "running"
    /\ start' = [s \in Service |-> "starting"]
    /\ readyCount' = 1
    /\ hub' = "running"
    /\ \E enabled \in BOOLEAN : scanner' = IF enabled THEN "waiting" ELSE "stopped"
    /\ UNCHANGED <<pidfile, cancelled, timer, atStop, serve, notify, broken, forward, ready, sessionVars, events, emitted>>

(* Mutant: the scanner, which reports nothing, is counted.                 *)
StartServices_CountsScanner ==
    /\ main = "assembling"
    /\ main' = "running"
    /\ start' = [s \in Service |-> "starting"]
    /\ readyCount' = Cardinality(Service) + 1
    /\ hub' = "running"
    /\ \E enabled \in BOOLEAN : scanner' = IF enabled THEN "waiting" ELSE "stopped"
    /\ UNCHANGED <<pidfile, cancelled, timer, atStop, serve, notify, broken, forward, ready, sessionVars, events, emitted>>

(* Services.Start: the makeReadyFunc calls, each of which adds to the wait *)
(* group, are arguments of the go statements, evaluated here.              *)
StartServices ==
    /\ main = "assembling"
    /\ main' = "running"
    /\ start' = [s \in Service |-> "starting"]
    /\ readyCount' = Cardinality(Service)
    /\ hub' = "running"
    /\ \E enabled \in BOOLEAN : scanner' = IF enabled THEN "waiting" ELSE "stopped"
    /\ UNCHANGED <<pidfile, cancelled, timer, atStop, serve, notify, broken, forward, ready, sessionVars, events, emitted>>

Listen(s) ==
    /\ ~Ended /\ start[s] = "starting"
    /\ start' = [start EXCEPT ![s] = "listening"]
    /\ serve' = [serve EXCEPT ![s] = "accepting"]
    /\ UNCHANGED <<mainVars, notify, broken, forward, readyVars, sessionVars, scanner, eventVars>>

ListenFails(s) ==
    /\ ~Ended /\ start[s] = "starting"
    /\ start' = [start EXCEPT ![s] = "returned"]
    /\ notify' = [notify EXCEPT ![s] = "error"]
    /\ broken' = broken \cup {s}
    /\ UNCHANGED <<mainVars, serve, forward, readyVars, sessionVars, scanner, eventVars>>

(* Mutant: without the sync.Once.                                          *)
ReportReady_Again(s) ==
    /\ ~Ended /\ start[s] = "listening"
    /\ UNCHANGED start
    /\ readyCount' = readyCount - 1
    /\ UNCHANGED <<mainVars, serve, notify, broken, forward, ready, sessionVars, scanner, eventVars>>

ReportReady(s) ==
    /\ ~Ended /\ start[s] = "listening"
    /\ start' = [start EXCEPT ![s] = "waiting"]
    /\ readyCount' = readyCount - 1
    /\ UNCHANGED <<mainVars, serve, notify, broken, forward, ready, sessionVars, scanner, eventVars>>

AllReady ==
    /\ ~Ended /\ main # "assembling"
    /\ readyCount = 0 /\ ~ready
    /\ ready' = TRUE
    /\ UNCHANGED <<mainVars, serviceVars, forward, readyCount, sessionVars, scanner, eventVars>>

-----------------------------------------------------------------------------
(* Listeners and connections *)

ListenerOpen(s) == start[s] \in {"listening", "waiting"}

(* SMTP starts the session's goroutine at once; POP3 adds first.           *)
Accept(c) ==
    LET p == Protocol(c)
    IN  /\ ~Ended /\ conn[c] = "none"
        /\ serve[p] = "accepting" /\ ListenerOpen(p)
        /\ conn' = [conn EXCEPT ![c] = "accepted"]
        /\ serve' = [serve EXCEPT ![p] = IF p = "pop3" THEN "adding" ELSE @]
        /\ UNCHANGED <<mainVars, start, notify, broken, forward, readyVars, wg, scanner, eventVars>>

(* The session adds itself (smtp), or the accept loop adds it (pop3).      *)
Register(c) ==
    LET p == Protocol(c)
    IN  /\ ~Ended /\ conn[c] = "accepted"
        /\ conn' = [conn EXCEPT ![c] = "active"]
        /\ wg' = [wg EXCEPT ![p] = @ + 1]
        /\ serve' = [serve EXCEPT ![p] = IF p = "pop3" THEN "accepting" ELSE @]
        /\ UNCHANGED <<mainVars, start, notify, broken, forward, readyVars, scanner, eventVars>>

EndSession(c) ==
    LET p == Protocol(c)
    IN  /\ ~Ended /\ conn[c] = "active"
        /\ conn' = [conn EXCEPT ![c] = "done"]
        /\ wg' = [wg EXCEPT ![p] = @ - 1]
        /\ UNCHANGED <<mainVars, serviceVars, forward, readyVars, scanner, eventVars>>

(* A session stores or deletes a message: the event gets a goroutine.      *)
Emit(c) ==
    /\ ~Ended /\ conn[c] = "active"
    /\ emitted < MaxEvents
    /\ emitted' = emitted + 1
    /\ events' = events + 1
    /\ UNCHANGED <<mainVars, serviceVars, forward, readyVars, sessionVars, scanner, hub>>

(* Mutant: the context is not asked.                                       *)
AcceptError_Unasked(s) ==
    /\ ~Ended /\ serve[s] = "accepting"
    /\ serve' = [serve EXCEPT ![s] = "returned"]
    /\ notify' = [notify EXCEPT ![s] = "error"]
    /\ broken' = IF ListenerOpen(s) THEN broken \cup {s} ELSE broken
    /\ UNCHANGED <<mainVars, start, forward, readyVars, sessionVars, scanner, eventVars>>

(* serve meets an error, of its own or because the listener was closed,    *)
(* and asks the context which of the two it was.                           *)
AcceptError(s) ==
    /\ ~Ended /\ serve[s] = "accepting"
    /\ serve' = [serve EXCEPT ![s] = "returned"]
    /\ notify' = IF cancelled THEN notify ELSE [notify EXCEPT ![s] = "error"]
    /\ broken' = IF ListenerOpen(s) THEN broken \cup {s} ELSE broken
    /\ UNCHANGED <<mainVars, start, forward, readyVars, sessionVars, scanner, eventVars>>

CloseListener(s) ==
    /\ ~Ended /\ start[s] = "waiting" /\ cancelled
    /\ start' = [start EXCEPT ![s] = "returned"]
    /\ UNCHANGED <<mainVars, serve, notify, broken, forward, readyVars, sessionVars, scanner, eventVars>>

-----------------------------------------------------------------------------
(* Failures, and what ends with the context *)

(* Mutant: one channel is missing from the select.                         *)
Watched_NotPop3 == Service \ {"pop3"}

(* setupNotify passes on the first error of any service, and returns.      *)
Watched == Service

Forward ==
    /\ ~Ended /\ forward = "waiting"
    /\ \E s \in Watched :
          /\ notify[s] = "error"
          /\ notify' = [notify EXCEPT ![s] = "taken"]
    /\ forward' = "sent"
    /\ UNCHANGED <<mainVars, start, serve, broken, readyVars, sessionVars, scanner, eventVars>>

DeliverEvent ==
    /\ ~Ended /\ events > 0 /\ hub = "running"
    /\ events' = events - 1
    /\ UNCHANGED <<mainVars, serviceVars, forward, readyVars, sessionVars, scanner, hub, emitted>>

(* The hub closes its channel when the context is cancelled, ...           *)
HubStops ==
    /\ ~Ended /\ hub = "running" /\ cancelled
    /\ hub' = "closed"
    /\ UNCHANGED <<mainVars, serviceVars, forward, readyVars, sessionVars, scanner, events, emitted>>

(* ... and a send on it panics in a goroutine that nothing recovers.       *)
EventPanics ==
    /\ ~Ended /\ events > 0 /\ hub = "closed"
    /\ main' = "crashed"
    /\ UNCHANGED <<pidfile, cancelled, timer, atStop, serviceVars, forward, readyVars, sessionVars, scanner, eventVars>>

(* The scanner's loop: a scan, cut short or not, and the sleep before it   *)
(* both look at the context.                                               *)
StartScan ==
    /\ ~Ended /\ scanner = "waiting"
    /\ scanner' = "scanning"
    /\ UNCHANGED <<mainVars, serviceVars, forward, readyVars, sessionVars, eventVars>>

EndScan ==
    /\ ~Ended /\ scanner = "scanning"
    /\ scanner' = IF cancelled THEN "stopped" ELSE "waiting"
    /\ UNCHANGED <<mainVars, serviceVars, forward, readyVars, sessionVars, eventVars>>

ScannerStops ==
    /\ ~Ended /\ scanner = "waiting" /\ cancelled
    /\ scanner' = "stopped"
    /\ UNCHANGED <<mainVars, serviceVars, forward, readyVars, sessionVars, eventVars>>

-----------------------------------------------------------------------------
(* main *)

(* Mutant: without timedExit.                                              *)
Stop_NoTimer ==
    /\ main = "running"
    /\ main' = "drain smtp"
    /\ cancelled' = TRUE /\ timer' = FALSE
    /\ atStop' = {c \in Conn : conn[c] = "active"}
    /\ UNCHANGED <<pidfile, serviceVars, readyVars, sessionVars, scanner, eventVars>>

(* svcCancel, then the drains with timedExit beside them.                  *)
Stop ==
    /\ main = "running"
    /\ main' = "drain smtp"
    /\ cancelled' = TRUE /\ timer' = TRUE
    /\ atStop' = {c \in Conn : conn[c] = "active"}
    /\ UNCHANGED <<pidfile, serviceVars, readyVars, sessionVars, scanner, eventVars>>

Signal == Stop /\ UNCHANGED forward

Notified == Stop /\ forward = "sent" /\ forward' = "read"

DrainSmtp ==
    /\ main = "drain smtp" /\ wg["smtp"] = 0
    /\ main' = "drain pop3"
    /\ UNCHANGED <<pidfile, cancelled, timer, atStop, serviceVars, forward, readyVars, sessionVars, scanner, eventVars>>

(* Mutant: the wait group of the other server.                             *)
DrainPop3_OtherGroup ==
    /\ main = "drain pop3" /\ wg["smtp"] = 0
    /\ main' = "join"
    /\ UNCHANGED <<pidfile, cancelled, timer, atStop, serviceVars, forward, readyVars, sessionVars, scanner, eventVars>>

DrainPop3 ==
    /\ main = "drain pop3" /\ wg["pop3"] = 0
    /\ main' = "join"
    /\ UNCHANGED <<pidfile, cancelled, timer, atStop, serviceVars, forward, readyVars, sessionVars, scanner, eventVars>>

Join ==
    /\ main = "join" /\ scanner = "stopped"
    /\ main' = "exited"
    /\ pidfile' = FALSE
    /\ UNCHANGED <<cancelled, timer, atStop, serviceVars, forward, readyVars, sessionVars, scanner, eventVars>>

(* timedExit: fifteen seconds have gone, wherever main is.                 *)
TimedExit ==
    /\ ~Ended /\ timer
    /\ main' = "forced"
    /\ pidfile' = FALSE
    /\ UNCHANGED <<cancelled, timer, atStop, serviceVars, forward, readyVars, sessionVars, scanner, eventVars>>

-----------------------------------------------------------------------------
Main == AssemblyFails \/ StartServices \/ Signal \/ Notified \/ DrainSmtp \/ DrainPop3 \/ Join \/ TimedExit
Run(s) == Listen(s) \/ ListenFails(s) \/ ReportReady(s) \/ AcceptError(s) \/ CloseListener(s)
Session(c) == Accept(c) \/ Register(c) \/ EndSession(c) \/ Emit(c)
Background == AllReady \/ Forward \/ DeliverEvent \/ HubStops \/ EventPanics \/ StartScan \/ EndScan \/ ScannerStops

Next == Main \/ Background \/ (\E s \in Service : Run(s)) \/ (\E c \in Conn : Session(c))

(* Goroutines run and timers fire.  Clients need do nothing, so sessions   *)
(* need not end, and nobody need send a signal.                            *)
Fairness ==
    /\ WF_vars(StartServices) /\ WF_vars(Notified) /\ WF_vars(TimedExit)
    /\ WF_vars(Forward) /\ WF_vars(AllReady)
    /\ \A s \in Service : WF_vars(Listen(s) \/ ListenFails(s)) /\ WF_vars(ReportReady(s))

Spec == Init /\ [][Next]_vars
FairSpec == Spec /\ Fairness

-----------------------------------------------------------------------------
MainTypes ==
    /\ main \in {"assembling", "running", "drain smtp", "drain pop3", "join", "exited", "forced", "fatal", "crashed"}
    /\ pidfile \in BOOLEAN /\ cancelled \in BOOLEAN /\ timer \in BOOLEAN
    /\ atStop \subseteq Conn

ServiceTypes ==
    /\ start \in [Service -> {"none", "starting", "listening", "waiting", "returned"}]
    /\ serve \in [Service -> {"none", "accepting", "adding", "returned"}]
    /\ notify \in [Service -> {"open", "error", "taken"}]
    /\ broken \subseteq Service

ReadyTypes == readyCount \in 0 .. Cardinality(Service) /\ ready \in BOOLEAN

SessionTypes ==
    /\ wg \in [Drained -> Nat]
    /\ conn \in [Conn -> {"none", "accepted", "active", "done"}]

EventTypes ==
    /\ hub \in {"none", "running", "closed"}
    /\ events \in 0 .. MaxEvents /\ emitted \in 0 .. MaxEvents

TypeOK ==
    /\ MainTypes /\ ServiceTypes /\ ReadyTypes /\ SessionTypes /\ EventTypes
    /\ forward \in {"waiting", "sent", "read"}
    /\ scanner \in {"none", "waiting", "scanning", "stopped"}

(* main.go:122, "All services report ready": every service has opened its  *)
(* listener by then, however their starts interleave with the waiter's.    *)
ReadyMeansListening == ready => \A s \in Service : serve[s] # "none"

(* A listener that the shutdown closes is no failure: what setupNotify     *)
(* passes on, and main takes for a reason to stop, comes from a service    *)
(* that met an error of its own.                                           *)
NoFalseAlarm ==
    /\ \A s \in Service : notify[s] # "open" => s \in broken
    /\ forward # "waiting" => broken # {}

(* The two announcements of the services, ready and failed, are true.      *)
AnnouncementsTrue == TypeOK /\ ReadyMeansListening /\ NoFalseAlarm

(* main.go:151, "Wait for active connections to finish": past each drain,  *)
(* every session that its wait group counted when the shutdown began is    *)
(* over, and at the end the scanner is too: nobody is inside the store.    *)
DrainedFinish ==
    /\ main \in {"drain pop3", "join", "exited"} => \A c \in atStop \cap SmtpConn : conn[c] = "done"
    /\ main \in {"join", "exited"} => \A c \in atStop \cap Pop3Conn : conn[c] = "done"
    /\ main = "exited" => scanner = "stopped"

(* Services.Start: once started, all services report ready, unless one of  *)
(* them fails or the process is told to stop first.                        *)
BecomesReady == main = "running" ~> ready \/ broken # {} \/ cancelled

(* A service that fails stops the process, whichever fails and when.       *)
FailureNoticed == \A s \in Service : s \in broken ~> cancelled \/ Ended

(* Neither of them fails to come.                                          *)
AnnouncementsCome == BecomesReady /\ FailureNoticed

(* A shutdown once begun ends the process, though clients stay connected.  *)
ShutdownEnds == cancelled ~> Ended

(* Why these hold.  The wait groups count the active sessions; a session   *)
(* counted at the stop can only end.  The ready count is the number of     *)
(* services that have not called readyFunc, failed ones included.  An      *)
(* accept loop loses its listener only after the context is cancelled.     *)
Unreported == {s \in Service : serve[s] = "none" \/ start[s] = "listening"}

WaitGroupsCount == \A p \in Drained : wg[p] = Cardinality(Active(p))
ReadyCounts == IF main \in {"assembling", "fatal"} THEN readyCount = 0 /\ ~ready ELSE readyCount = Cardinality(Unreported)
StartOrder ==
    /\ main = "assembling" => ~timer /\ hub = "none" /\ \A s \in Service : start[s] = "none"
    /\ \A s \in Service :
        /\ start[s] \in {"none", "starting"} => serve[s] = "none"
        /\ start[s] \in {"listening", "waiting"} => serve[s] # "none"
        /\ start[s] = "returned" /\ serve[s] # "none" => cancelled
AcceptOrder == \A c \in Conn : conn[c] # "none" => serve[Protocol(c)] # "none"
StopOrder == \A c \in atStop : conn[c] \in {"active", "done"}

IInv ==
    /\ TypeOK /\ events <= emitted
    /\ WaitGroupsCount /\ ReadyCounts /\ StartOrder /\ AcceptOrder /\ StopOrder
    /\ ReadyMeansListening /\ NoFalseAlarm /\ DrainedFinish
=============================================================================
