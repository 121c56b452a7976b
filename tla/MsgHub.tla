------------------------------- MODULE MsgHub -------------------------------
(***************************************************************************)
(* The message hub, pkg/msghub, between the extension host's events and    *)
(* the monitor's websockets, pkg/rest/socketv1 and socketv2.               *)
(*                                                                         *)
(* Emit starts one goroutine per event and listener, so the hub's two      *)
(* event listeners run in any order; each blocks until its operation fits  *)
(* the channel opChan.  One goroutine, Start, runs the operations; it      *)
(* relays an event to a websocket by sending on that websocket's channel,  *)
(* and blocks while the channel is full.  Each websocket has a reader and  *)
(* a writer goroutine, and both call Close when they end.                  *)
(***************************************************************************)
EXTENDS Integers, Sequences, FiniteSets

CONSTANTS
    Message,      \* messages stored during the run
    Listener,     \* websockets that connect during the run
    Watches,      \* Watches[l]: the messages of the mailbox l monitors
    SkipsDeletes, \* listeners of the v1 API, whose Delete does nothing
    HistoryLen,   \* config.Web.MonitorHistory
    OpChanLen,    \* capacity of opChan, 100 in the code
    QueueLen,     \* capacity of a listener's channel, 100 in the code
    CanBreak,     \* whether connections break during the run
    CanStop,      \* whether the service context is cancelled during the run
    None

MessageOp == [do : {"dispatch", "delete"}, msg : Message]
ListenerOp == [do : {"add", "remove"}, listener : Listener]
Op == MessageOp \cup ListenerOp

(* JSONMonitorEventV2: what is queued for the websocket.                   *)
Event == [variant : {"stored", "deleted"}, msg : Message]

ASSUME HubAssumption ==
    /\ HistoryLen \in Nat
    /\ OpChanLen \in Nat \ {0}
    /\ QueueLen \in Nat \ {0}
    /\ Watches \in [Listener -> SUBSET Message]
    /\ SkipsDeletes \subseteq Listener
    /\ CanBreak \in BOOLEAN /\ CanStop \in BOOLEAN
    /\ None \notin Message \cup Listener \cup Event

(* The goroutines of a websocket: WSReader and WSWriter.                    *)
Side == {"reader", "writer"}

VARIABLES
    stored, deleted,    \* messages AfterMessageStored, AfterMessageDeleted was emitted for
    senders,            \* operations whose goroutine still waits to send
    opChan,             \* operations queued for the hub
    stopping, stopped,  \* the context is cancelled; the hub has closed opChan
    history,            \* the ring, from the slot the next message goes to
    listeners,          \* the registered listeners
    relay, left,        \* event the hub relays, listeners that have not had it
    playback, adding,   \* history still to be played to the listener being added
    side,               \* side[l][s]: where l's reader and writer goroutines are
    conn,               \* connections that work
    queue, closed,      \* the listeners' channels
    got,                \* events written to the websocket, in order
    crashed,            \* a goroutine outside net/http panicked
    log, removed, feed  \* auxiliary: messages dispatched, those deleted after,
                        \* and what the hub owed each listener, in order

hubVars == <<history, listeners, relay, left, playback, adding, log, removed, feed>>
sockVars == <<side, conn, queue, closed, got>>
srcVars == <<stored, deleted, senders>>
vars == <<stored, deleted, senders, opChan, stopping, stopped, history, listeners,
          relay, left, playback, adding, side, conn, queue, closed, got, crashed,
          log, removed, feed>>

TypeOK ==
    /\ stored \in SUBSET Message /\ deleted \in SUBSET stored
    /\ senders \in SUBSET MessageOp
    /\ opChan \in Seq(Op) /\ Len(opChan) <= OpChanLen
    /\ history \in [1 .. HistoryLen -> Message \cup {None}]
    /\ listeners \in SUBSET Listener
    /\ relay \in Event \cup {None} /\ left \in SUBSET Listener
    /\ playback \in Seq(Message) /\ adding \in Listener \cup {None}
    /\ side \in [Listener -> [Side -> {"none", "run", "close", "unregister", "closing", "done"}]]
    /\ conn \in SUBSET Listener
    /\ queue \in [Listener -> Seq(Event)] /\ \A l \in Listener : Len(queue[l]) <= QueueLen
    /\ closed \in SUBSET Listener
    /\ got \in [Listener -> Seq(Event)]
    /\ {stopping, stopped, crashed} \subseteq BOOLEAN
    /\ log \in Seq(Message) /\ removed \in SUBSET Message
    /\ feed \in [Listener -> Seq(Event)]

Init ==
    /\ stored = {} /\ deleted = {} /\ senders = {}
    /\ opChan = <<>>
    /\ stopping = FALSE /\ stopped = FALSE
    /\ history = [k \in 1 .. HistoryLen |-> None]
    /\ listeners = {}
    /\ relay = None /\ left = {}
    /\ playback = <<>> /\ adding = None
    /\ side = [l \in Listener |-> [s \in Side |-> "none"]]
    /\ conn = {}
    /\ queue = [l \in Listener |-> <<>>]
    /\ closed = {}
    /\ got = [l \in Listener |-> <<>>]
    /\ crashed = FALSE
    /\ log = <<>> /\ removed = {}
    /\ feed = [l \in Listener |-> <<>>]

-----------------------------------------------------------------------------
(* Events come in *)

(* StoreManager.Deliver emits AfterMessageStored: the broker starts the    *)
(* hub's listener, Dispatch, in a goroutine.                               *)
EmitStored(m) ==
    /\ ~crashed
    /\ m \notin stored
    /\ stored' = stored \cup {m}
    /\ senders' = senders \cup {[do |-> "dispatch", msg |-> m]}
    /\ UNCHANGED <<deleted, opChan, stopping, stopped, hubVars, sockVars, crashed>>

(* The store emits AfterMessageDeleted for a message it had.               *)
EmitDeleted(m) ==
    /\ ~crashed
    /\ m \in stored \ deleted
    /\ deleted' = deleted \cup {m}
    /\ senders' = senders \cup {[do |-> "delete", msg |-> m]}
    /\ UNCHANGED <<stored, opChan, stopping, stopped, hubVars, sockVars, crashed>>

(* hub.opChan <- op in one of those goroutines: any of them goes first.    *)
Send(op) ==
    /\ ~crashed
    /\ op \in senders
    /\ ~stopped /\ Len(opChan) < OpChanLen
    /\ opChan' = Append(opChan, op)
    /\ senders' = senders \ {op}
    /\ UNCHANGED <<stored, deleted, stopping, stopped, hubVars, sockVars, crashed>>

(* The same send once the hub closed the channel: the goroutine panics.    *)
SendOnClosed(op) ==
    /\ ~crashed
    /\ op \in senders
    /\ stopped
    /\ crashed' = TRUE
    /\ UNCHANGED <<srcVars, opChan, stopping, stopped, hubVars, sockVars>>

-----------------------------------------------------------------------------
(* The hub's goroutine *)

HubIdle == relay = None /\ adding = None

NextOp(kind) ==
    /\ ~crashed /\ ~stopped
    /\ HubIdle
    /\ opChan # <<>>
    /\ Head(opChan).do = kind
    /\ opChan' = Tail(opChan)

(* h.history.Value = msg; h.history = h.history.Next().                    *)
Remember(m) == Append(Tail(history), m)

(* The slot the Delete loop clears: the first of the ring to hold m, which *)
(* it visits whole, one slot ahead of its pointer.                         *)
Forget_SkipsLast(m) ==
    [k \in 1 .. HistoryLen |-> IF history[k] = m /\ k # 1 THEN None ELSE history[k]]
Forget(m) == [k \in 1 .. HistoryLen |-> IF history[k] = m THEN None ELSE history[k]]

(* The members of S in the sequence s, in its order.                       *)
Kept(s, S) ==
    LET kept[k \in 0 .. Len(s)] ==
            IF k = 0 THEN <<>>
            ELSE IF s[k] \in S THEN Append(kept[k - 1], s[k]) ELSE kept[k - 1]
    IN  kept[Len(s)]

(* What h.history.Do plays back to l: the ring from its oldest slot, no    *)
(* holes, and of its messages those that Receive does not pass over.       *)
Replay_NewestFirst(l) ==
    Kept(SubSeq(history, HistoryLen, HistoryLen) \o SubSeq(history, 1, HistoryLen - 1), Watches[l])
Replay(l) == Kept(history, Watches[l])

(* The events a listener takes: its mailbox only, deletions not in v1.     *)
Wants(l, e) == e.msg \in Watches[l] /\ (e.variant = "stored" \/ l \notin SkipsDeletes)

(* Auxiliary: what the hub owes the listeners for an event, and a new one  *)
(* for the history, reckoned from the operations and not from the ring.    *)
Owe(e) == [l \in Listener |-> IF l \in listeners /\ Wants(l, e) THEN Append(feed[l], e) ELSE feed[l]]
Recent(l) ==
    LET n == IF Len(log) > HistoryLen THEN Len(log) - HistoryLen ELSE 0
    IN  Kept(SubSeq(log, n + 1, Len(log)), Watches[l] \ removed)

(* The events of stored messages.                                          *)
StoredEvents(s) == [k \in DOMAIN s |-> [variant |-> "stored", msg |-> s[k]]]

(* A send on l's channel does not have to wait.                            *)
Room_OneTooMany(l) == Len(queue[l]) <= QueueLen
Room(l) == Len(queue[l]) < QueueLen

RunDispatch ==
    /\ NextOp("dispatch")
    /\ LET m == Head(opChan).msg
           e == [variant |-> "stored", msg |-> m]
       IN  IF HistoryLen = 0
           THEN UNCHANGED <<history, relay, left, log, feed>>
           ELSE /\ history' = Remember(m)
                /\ relay' = e
                /\ left' = listeners
                /\ log' = Append(log, m)
                /\ feed' = Owe(e)
    /\ UNCHANGED <<srcVars, stopping, stopped, listeners, playback, adding, removed, sockVars, crashed>>

RunDelete ==
    /\ NextOp("delete")
    /\ LET m == Head(opChan).msg
           e == [variant |-> "deleted", msg |-> m]
       IN  IF HistoryLen = 0
           THEN UNCHANGED <<history, relay, left, removed, feed>>
           ELSE /\ history' = Forget(m)
                /\ relay' = e
                /\ left' = listeners
                /\ removed' = IF \E k \in DOMAIN log : log[k] = m THEN removed \cup {m} ELSE removed
                /\ feed' = Owe(e)
    /\ UNCHANGED <<srcVars, stopping, stopped, listeners, playback, adding, log, sockVars, crashed>>

(* l.Receive or l.Delete for one of the registered listeners, in the map's *)
(* order; it waits while the channel of l is full.                         *)
Relay_DropsWhenFull(l) ==
    /\ ~crashed
    /\ relay # None
    /\ l \in left
    /\ l \notin closed
    /\ queue' = IF Wants(l, relay) /\ Room(l) THEN [queue EXCEPT ![l] = Append(@, relay)] ELSE queue
    /\ left' = left \ {l}
    /\ UNCHANGED <<srcVars, opChan, stopping, stopped, history, listeners, relay, playback, adding,
                   side, conn, closed, got, crashed, log, removed, feed>>

Relay(l) ==
    /\ ~crashed
    /\ relay # None
    /\ l \in left
    /\ IF Wants(l, relay)
       THEN /\ l \notin closed
            /\ Room(l)
            /\ queue' = [queue EXCEPT ![l] = Append(@, relay)]
       ELSE UNCHANGED queue
    /\ left' = left \ {l}
    /\ UNCHANGED <<srcVars, opChan, stopping, stopped, history, listeners, relay, playback, adding,
                   side, conn, closed, got, crashed, log, removed, feed>>

(* The same on a closed channel: the send panics, runOp recovers, and the  *)
(* operation ends where it was.                                            *)
RelayPanics(l) ==
    /\ ~crashed
    /\ relay # None
    /\ l \in left
    /\ Wants(l, relay)
    /\ l \in closed
    /\ relay' = None
    /\ left' = {}
    /\ UNCHANGED <<srcVars, opChan, stopping, stopped, history, listeners, playback, adding, sockVars,
                   crashed, log, removed, feed>>

RelayDone ==
    /\ ~crashed
    /\ relay # None
    /\ left = {}
    /\ relay' = None
    /\ UNCHANGED <<srcVars, opChan, stopping, stopped, history, listeners, left, playback, adding,
                   sockVars, crashed, log, removed, feed>>

(* AddListener: the playback of the history comes first.                   *)
RunAdd ==
    /\ NextOp("add")
    /\ LET l == Head(opChan).listener
       IN  /\ adding' = l
           /\ playback' = Replay(l)
           /\ feed' = [feed EXCEPT ![l] = StoredEvents(Recent(l))]
    /\ UNCHANGED <<srcVars, stopping, stopped, history, listeners, relay, left, sockVars, crashed, log, removed>>

PlayBack ==
    /\ ~crashed
    /\ adding # None
    /\ playback # <<>>
    /\ adding \notin closed
    /\ Room(adding)
    /\ queue' = [queue EXCEPT ![adding] = Append(@, [variant |-> "stored", msg |-> Head(playback)])]
    /\ playback' = Tail(playback)
    /\ UNCHANGED <<srcVars, opChan, stopping, stopped, history, listeners, relay, left, adding,
                   side, conn, closed, got, crashed, log, removed, feed>>

(* The listener closed while its playback was running: runOp recovers, and *)
(* the listener is not registered.                                         *)
PlayBackPanics ==
    /\ ~crashed
    /\ adding # None
    /\ playback # <<>>
    /\ adding \in closed
    /\ adding' = None
    /\ playback' = <<>>
    /\ UNCHANGED <<srcVars, opChan, stopping, stopped, history, listeners, relay, left, sockVars,
                   crashed, log, removed, feed>>

(* h.listeners[l] = struct{}{}.                                            *)
AddDone ==
    /\ ~crashed
    /\ adding # None
    /\ playback = <<>>
    /\ listeners' = listeners \cup {adding}
    /\ adding' = None
    /\ UNCHANGED <<srcVars, opChan, stopping, stopped, history, relay, left, playback, sockVars,
                   crashed, log, removed, feed>>

RunRemove ==
    /\ NextOp("remove")
    /\ listeners' = listeners \ {Head(opChan).listener}
    /\ UNCHANGED <<srcVars, stopping, stopped, history, relay, left, playback, adding, sockVars,
                   crashed, log, removed, feed>>

(* main cancels the service context, and Start takes the Done branch.      *)
Cancel ==
    /\ ~crashed
    /\ CanStop
    /\ ~stopping
    /\ stopping' = TRUE
    /\ UNCHANGED <<srcVars, opChan, stopped, hubVars, sockVars, crashed>>

Stop ==
    /\ ~crashed
    /\ stopping /\ ~stopped
    /\ HubIdle
    /\ stopped' = TRUE
    /\ UNCHANGED <<srcVars, opChan, stopping, hubVars, sockVars, crashed>>

-----------------------------------------------------------------------------
(* A websocket *)

(* MonitorAllMessages and MonitorMailboxMessages: the upgrade, the         *)
(* registration, then the two goroutines.                                  *)
Connect(l) ==
    /\ ~crashed
    /\ side[l] = [s \in Side |-> "none"]
    /\ ~stopped /\ Len(opChan) < OpChanLen
    /\ opChan' = Append(opChan, [do |-> "add", listener |-> l])
    /\ side' = [side EXCEPT ![l] = [s \in Side |-> "run"]]
    /\ conn' = conn \cup {l}
    /\ UNCHANGED <<srcVars, stopping, stopped, hubVars, queue, closed, got, crashed>>

(* The peer goes away, or misses its pong.                                 *)
Break(l) ==
    /\ ~crashed
    /\ CanBreak
    /\ l \in conn
    /\ conn' = conn \ {l}
    /\ UNCHANGED <<srcVars, opChan, stopping, stopped, hubVars, side, queue, closed, got, crashed>>

MoveTo(l, s, step) == side' = [side EXCEPT ![l][s] = step]

(* conn.ReadMessage fails, or a ping cannot be written.                    *)
NoticeBreak(l, s) ==
    /\ ~crashed
    /\ side[l][s] = "run"
    /\ l \notin conn
    /\ MoveTo(l, s, "close")
    /\ UNCHANGED <<srcVars, opChan, stopping, stopped, hubVars, conn, queue, closed, got, crashed>>

(* WSWriter takes an event off the channel and writes it.                  *)
Write_Once(l) ==
    /\ ~crashed
    /\ side[l]["writer"] = "run"
    /\ queue[l] # <<>>
    /\ queue' = [queue EXCEPT ![l] = Tail(@)]
    /\ got' = [got EXCEPT ![l] = Append(@, Head(queue[l]))]
    /\ MoveTo(l, "writer", "done")
    /\ UNCHANGED <<srcVars, opChan, stopping, stopped, hubVars, conn, closed, crashed>>

Write(l) ==
    /\ ~crashed
    /\ side[l]["writer"] = "run"
    /\ queue[l] # <<>>
    /\ queue' = [queue EXCEPT ![l] = Tail(@)]
    /\ IF l \in conn
       THEN /\ got' = [got EXCEPT ![l] = Append(@, Head(queue[l]))]
            /\ UNCHANGED side
       ELSE /\ MoveTo(l, "writer", "close")
            /\ UNCHANGED got
    /\ UNCHANGED <<srcVars, opChan, stopping, stopped, hubVars, conn, closed, crashed>>

(* WSWriter finds the channel closed.                                      *)
WriterSeesClose(l) ==
    /\ ~crashed
    /\ side[l]["writer"] = "run"
    /\ queue[l] = <<>> /\ l \in closed
    /\ MoveTo(l, "writer", "close")
    /\ UNCHANGED <<srcVars, opChan, stopping, stopped, hubVars, conn, queue, closed, got, crashed>>

(* Close: select with a case that receives from the channel.  It is taken  *)
(* when the channel is closed, and also when an event is waiting in it.    *)
CloseSelect_ClosesFirst(l, s) ==
    /\ ~crashed
    /\ side[l][s] = "close"
    /\ IF queue[l] # <<>>
       THEN queue' = [queue EXCEPT ![l] = Tail(@)] /\ MoveTo(l, s, "done") /\ UNCHANGED closed
       ELSE UNCHANGED queue /\ MoveTo(l, s, "unregister") /\ closed' = closed \cup {l}
    /\ UNCHANGED <<srcVars, opChan, stopping, stopped, hubVars, conn, got, crashed>>

CloseSelect(l, s) ==
    /\ ~crashed
    /\ side[l][s] = "close"
    /\ IF queue[l] # <<>>
       THEN queue' = [queue EXCEPT ![l] = Tail(@)] /\ MoveTo(l, s, "done")
       ELSE UNCHANGED queue /\ MoveTo(l, s, IF l \in closed THEN "done" ELSE "unregister")
    /\ UNCHANGED <<srcVars, opChan, stopping, stopped, hubVars, conn, closed, got, crashed>>

(* hub.RemoveListener in Close waits for room in opChan.                   *)
Unregister(l, s) ==
    /\ ~crashed
    /\ side[l][s] = "unregister"
    /\ ~stopped /\ Len(opChan) < OpChanLen
    /\ opChan' = Append(opChan, [do |-> "remove", listener |-> l])
    /\ MoveTo(l, s, "closing")
    /\ UNCHANGED <<srcVars, stopping, stopped, hubVars, conn, queue, closed, got, crashed>>

CloseChannel(l, s) ==
    /\ ~crashed
    /\ side[l][s] = "closing"
    /\ l \notin closed
    /\ closed' = closed \cup {l}
    /\ MoveTo(l, s, "done")
    /\ UNCHANGED <<srcVars, opChan, stopping, stopped, hubVars, conn, queue, got, crashed>>

(* A send or close on a closed channel in Close.  The reader runs in the   *)
(* HTTP handler, where net/http recovers; the writer takes the process     *)
(* down.                                                                   *)
ClosePanics(l, s) ==
    /\ ~crashed
    /\ \/ side[l][s] = "unregister" /\ stopped
       \/ side[l][s] = "closing" /\ l \in closed
    /\ MoveTo(l, s, "done")
    /\ crashed' = (s = "writer")
    /\ UNCHANGED <<srcVars, opChan, stopping, stopped, hubVars, conn, queue, closed, got>>

-----------------------------------------------------------------------------
RunHub ==
    \/ RunDispatch \/ RunDelete \/ RunAdd \/ RunRemove
    \/ \E l \in Listener : Relay(l) \/ RelayPanics(l)
    \/ RelayDone \/ PlayBack \/ PlayBackPanics \/ AddDone

RunSide(l, s) ==
    \/ NoticeBreak(l, s)
    \/ CloseSelect(l, s) \/ Unregister(l, s) \/ CloseChannel(l, s) \/ ClosePanics(l, s)

RunWriter(l) == Write(l) \/ WriterSeesClose(l)

Next ==
    \/ \E m \in Message : EmitStored(m) \/ EmitDeleted(m)
    \/ \E op \in senders : Send(op) \/ SendOnClosed(op)
    \/ RunHub
    \/ Cancel \/ Stop
    \/ \E l \in Listener :
        \/ Connect(l) \/ Break(l) \/ RunWriter(l)
        \/ \E s \in Side : RunSide(l, s)

Spec == Init /\ [][Next]_vars

(* Runnable goroutines run.  A goroutine blocked on opChan waits in that   *)
(* channel's FIFO queue, so it is not overtaken for ever.                  *)
Fairness ==
    /\ WF_vars(RunHub) /\ WF_vars(Stop)
    /\ \A op \in MessageOp : SF_vars(Send(op) \/ SendOnClosed(op))
    /\ \A l \in Listener :
        /\ WF_vars(RunWriter(l))
        /\ \A s \in Side : SF_vars(RunSide(l, s))

FairSpec == Spec /\ Fairness

-----------------------------------------------------------------------------
(* Properties *)

(* The ring holds the last HistoryLen messages dispatched, in their order, *)
(* with a hole for each that was deleted since, and nothing else.          *)
HistoryExact ==
    \A k \in 1 .. HistoryLen :
        LET j == Len(log) - HistoryLen + k
        IN  history[k] = IF j >= 1 /\ log[j] \notin removed THEN log[j] ELSE None

Healthy(l) == \A s \in Side : side[l][s] = "run"

IsPrefixOf(s, t) == Len(s) <= Len(t) /\ \A k \in DOMAIN s : s[k] = t[k]

QueuedToAdd(l) == \E k \in DOMAIN opChan : opChan[k] = [do |-> "add", listener |-> l]

(* "Listener receives the contents of the history buffer, followed by new  *)
(* messages": a websocket whose two goroutines run is sent the playback    *)
(* and then every event it wants, in the hub's order, none twice, and none *)
(* is missing once the hub is done with its operation, which leaves it     *)
(* registered.                                                             *)
FedInOrder ==
    \A l \in Listener : Healthy(l) =>
        /\ IsPrefixOf(got[l] \o queue[l], feed[l])
        /\ HubIdle /\ ~QueuedToAdd(l) => l \in listeners /\ got[l] \o queue[l] = feed[l]

(* Channels never hold more than their capacity, and what they bring to a  *)
(* websocket is its feed.                                                  *)
FeedsSound == TypeOK /\ FedInOrder

QueuedToRemove(l) == \E k \in DOMAIN opChan : opChan[k] = [do |-> "remove", listener |-> l]

(* A channel is closed only once its removal is queued: the hub can meet   *)
(* it in the operations ahead of the removal, and never again.             *)
ClosedIsLeaving == \A l \in closed \cap listeners : QueuedToRemove(l)

(* The hub always gets back to its channel: no listener holds it for ever. *)
HubReturns == ~HubIdle ~> (HubIdle \/ crashed)

(* Whatever the hub owes a listener reaches its websocket.                 *)
FeedIsDelivered ==
    \A l \in Listener : \A k \in 1 .. 2 * Cardinality(Message) :
        Len(feed[l]) >= k ~> (Len(got[l]) >= k \/ crashed)

(* No listener holds the hub, and each gets what the hub owes it.          *)
EventsArrive == HubReturns /\ FeedIsDelivered
=============================================================================
