------------------------------ MODULE MemStore ------------------------------
(***************************************************************************)
(* The in-memory store, pkg/storage/mem: mailboxes behind their locks, the *)
(* callers of the Store interface (SMTP deliveries, the POP3 and web       *)
(* sessions, the retention scanner), and the goroutine maxSizeEnforcer     *)
(* that every caller hands its additions and removals to over two          *)
(* unbuffered channels, after the mailbox lock was dropped.                *)
(*                                                                         *)
(* withMailbox takes the store lock only to look the mailbox up, then the  *)
(* mailbox lock around a function that calls nothing outside: one action   *)
(* here is one such critical section, with the local code that follows it  *)
(* up to the next channel operation.                                       *)
(***************************************************************************)
EXTENDS Integers, Sequences, FiniteSets

CONSTANTS
    Client,     \* goroutines that call the store
    Mailbox,    \* mailbox names
    Size,       \* sizes a message may have
    Cap,        \* config.Storage.MailboxMsgCap, 0 for no cap
    MaxSize,    \* Params["maxkb"] in the unit of Size, 0 for no enforcer
    MaxIndex,   \* bound: additions explored per mailbox
    Idle        \* enforcer state: waiting in its select

ASSUME StoreAssumption ==
    /\ Size \subseteq Nat \ {0}
    /\ Cap \in Nat
    /\ MaxSize \in Nat
    /\ MaxIndex \in Nat
    /\ Idle \notin Client

(* A *Message: its mailbox, the index that becomes its id, its length.     *)
Message == [mailbox : Mailbox, index : Nat \ {0}, size : Size]

VARIABLES
    boxes,      \* boxes[mb]: counters and messages of a mailbox
    seen,       \* messages whose seen flag is set
    pc,         \* where each client is in its call
    todo,       \* messages a client has still to report to the enforcer
    batch,      \* messages whose delete event a purge has still to emit
    view,       \* what the client's last GetMessages returned
    events,     \* messages AfterMessageDeleted was emitted for
    all,        \* the enforcer's list, oldest arrival first
    curSize,    \* the enforcer's running total
    pushed,     \* messages with m.el set: the enforcer has had them
    serving,    \* client whose md.done the enforcer will close, or Idle
    crashed     \* the enforcer dereferenced nil: the process is gone

boxVars == <<boxes, seen>>
enfVars == <<all, curSize, pushed, serving>>
vars == <<boxes, seen, pc, todo, batch, view, events, all, curSize, pushed, serving, crashed>>

TypeOK ==
    /\ boxes \in [Mailbox -> [first : Nat, last : Nat, messages : SUBSET Message]]
    /\ seen \in SUBSET Message
    /\ pc \in [Client -> {"idle", "deliver", "await", "remove"}]
    /\ todo \in [Client -> SUBSET Message]
    /\ batch \in [Client -> SUBSET Message]
    /\ view \in [Client -> SUBSET Message]
    /\ events \in SUBSET Message
    /\ all \in Seq(Message)
    /\ curSize \in Int
    /\ pushed \in SUBSET Message
    /\ serving \in Client \cup {Idle}
    /\ crashed \in BOOLEAN

Init ==
    /\ boxes = [mb \in Mailbox |-> [first |-> 0, last |-> 0, messages |-> {}]]
    /\ seen = {}
    /\ pc = [c \in Client |-> "idle"]
    /\ todo = [c \in Client |-> {}]
    /\ batch = [c \in Client |-> {}]
    /\ view = [c \in Client |-> {}]
    /\ events = {}
    /\ all = <<>>
    /\ curSize = 0
    /\ pushed = {}
    /\ serving = Idle
    /\ crashed = FALSE

-----------------------------------------------------------------------------
(* Mailboxes *)

HasEnforcer == MaxSize > 0

(* The index of the next message: mb.last is incremented, then read.       *)
NextIndex_BeforeIncrement(b) == b.last
NextIndex(b) == b.last + 1

(* A purged mailbox: an empty map, the counters first and last unchanged.  *)
PurgedBox_Fresh(b) == [first |-> 0, last |-> 0, messages |-> {}]
PurgedBox_Kept(b) == b
PurgedBox(b) == [b EXCEPT !.messages = {}]

(* The message RemoveMessage and GetMessage find under an id, as a set.    *)
Find(mb, i) == {m \in boxes[mb].messages : m.index = i}

(* What the cap loop leaves when it has counted first up to f: each pass   *)
(* deletes the one id it counts over, which may be gone already.           *)
Uncut(b, f) == {m \in b.messages : m.index < b.first \/ m.index >= f}

(* The loop condition: len(mb.messages) > s.cap, with a cap configured.    *)
OverCap_Inclusive(messages) == Cap > 0 /\ Cardinality(messages) >= Cap
OverCap(messages) == Cap > 0 /\ Cardinality(messages) > Cap

(* f is the value of first the cap loop stops at.                          *)
CapLoopStopsAt_OnePass(b, f) == f = IF OverCap(b.messages) THEN b.first + 1 ELSE b.first
CapLoopStopsAt(b, f) ==
    /\ f \in b.first .. (b.last + 1)
    /\ ~OverCap(Uncut(b, f))
    /\ \A g \in b.first .. (f - 1) : OverCap(Uncut(b, g))

(* AddMessage: a fresh id, the insertion, the cap loop, all under the lock.*)
AddMessage(c, mb, size) ==
    /\ ~crashed
    /\ pc[c] = "idle"
    /\ boxes[mb].last < MaxIndex
    /\ LET i == NextIndex(boxes[mb])
           m == [mailbox |-> mb, index |-> i, size |-> size]
           b == [first |-> boxes[mb].first, last |-> i, messages |-> boxes[mb].messages \cup {m}]
       IN  /\ \E f \in b.first .. (i + 1) :
                /\ CapLoopStopsAt(b, f)
                /\ boxes' = [boxes EXCEPT ![mb] = [first |-> f, last |-> i, messages |-> Uncut(b, f)]]
           /\ IF HasEnforcer
              THEN /\ pc' = [pc EXCEPT ![c] = "deliver"]
                   /\ todo' = [todo EXCEPT ![c] = {m}]
              ELSE UNCHANGED <<pc, todo>>
    /\ UNCHANGED <<seen, batch, view, events, enfVars, crashed>>

(* GetMessages and, for its last element, GetMessage "latest".             *)
GetMessages(c, mb) ==
    /\ ~crashed
    /\ pc[c] = "idle"
    /\ view' = [view EXCEPT ![c] = boxes[mb].messages]
    /\ UNCHANGED <<boxVars, pc, todo, batch, events, enfVars, crashed>>

MarkSeen(c, mb, i) ==
    /\ ~crashed
    /\ pc[c] = "idle"
    /\ Find(mb, i) # {}
    /\ seen' = seen \cup Find(mb, i)
    /\ UNCHANGED <<boxes, pc, todo, batch, view, events, enfVars, crashed>>

(* removeMessage called by RemoveMessage: the deletion under the lock, the *)
(* event, and the message goes on to enforcerRemove.                       *)
RemoveMessage(c, mb, i) ==
    /\ ~crashed
    /\ pc[c] = "idle"
    /\ Find(mb, i) # {}
    /\ boxes' = [boxes EXCEPT ![mb].messages = @ \ Find(mb, i)]
    /\ events' = events \cup Find(mb, i)
    /\ IF HasEnforcer
       THEN /\ pc' = [pc EXCEPT ![c] = "remove"]
            /\ todo' = [todo EXCEPT ![c] = Find(mb, i)]
       ELSE UNCHANGED <<pc, todo>>
    /\ UNCHANGED <<seen, batch, view, enfVars, crashed>>

(* PurgeMessages: the messages are taken out under the lock and reported   *)
(* to the enforcer one by one, in the map's order, which is any order.     *)
PurgeMessages(c, mb) ==
    /\ ~crashed
    /\ pc[c] = "idle"
    /\ boxes' = [boxes EXCEPT ![mb] = PurgedBox(@)]
    /\ pc' = [pc EXCEPT ![c] = "remove"]
    /\ todo' = [todo EXCEPT ![c] = IF HasEnforcer THEN boxes[mb].messages ELSE {}]
    /\ batch' = [batch EXCEPT ![c] = boxes[mb].messages]
    /\ UNCHANGED <<seen, view, events, enfVars, crashed>>

(* The end of RemoveMessage and of PurgeMessages, whose events come last.  *)
RemoveReturns_Silent(c) ==
    /\ ~crashed
    /\ pc[c] = "remove"
    /\ todo[c] = {}
    /\ batch' = [batch EXCEPT ![c] = {}]
    /\ pc' = [pc EXCEPT ![c] = "idle"]
    /\ UNCHANGED <<boxVars, todo, view, events, enfVars, crashed>>

RemoveReturns(c) ==
    /\ ~crashed
    /\ pc[c] = "remove"
    /\ todo[c] = {}
    /\ events' = events \cup batch[c]
    /\ batch' = [batch EXCEPT ![c] = {}]
    /\ pc' = [pc EXCEPT ![c] = "idle"]
    /\ UNCHANGED <<boxVars, todo, view, enfVars, crashed>>

-----------------------------------------------------------------------------
(* maxSizeEnforcer *)

(* all.PushBack(m).                                                        *)
PushBack(m) == Append(all, m)

(* all.Remove(m.el), for a message that may have been evicted meanwhile.   *)
Unlink_Front(m) == SubSeq(all, 2, Len(all))
Unlink(m) ==
    IF \E k \in DOMAIN all : all[k] = m
    THEN LET k == CHOOSE k \in DOMAIN all : all[k] = m
         IN  SubSeq(all, 1, k - 1) \o SubSeq(all, k + 1, Len(all))
    ELSE all

(* m.el = el.                                                              *)
Linked(m) == pushed \cup {m}

(* What an eviction takes off curSize: nothing when the message is gone    *)
(* from its mailbox, for its remover reports it in a request of its own.   *)
PaidBack_Always(m, found) == m.size
PaidBack(m, found) == IF found # {} THEN m.size ELSE 0

(* case md := <-s.incoming: the rendezvous with enforcerDeliver.           *)
EnforcerIncoming(c) ==
    /\ ~crashed
    /\ serving = Idle
    /\ pc[c] = "deliver"
    /\ \E m \in todo[c] :
         /\ all' = PushBack(m)
         /\ curSize' = curSize + m.size
         /\ pushed' = Linked(m)
    /\ serving' = c
    /\ pc' = [pc EXCEPT ![c] = "await"]
    /\ UNCHANGED <<boxVars, todo, batch, view, events, crashed>>

(* One pass of the eviction loop: the front of the list is unlinked and    *)
(* removed from its mailbox, and paid back only if it was still there.     *)
EnforcerEvict ==
    /\ ~crashed
    /\ serving # Idle
    /\ curSize > MaxSize
    /\ all # <<>>
    /\ LET m == Head(all)
           found == Find(m.mailbox, m.index)
       IN  /\ all' = Tail(all)
           /\ boxes' = [boxes EXCEPT ![m.mailbox].messages = @ \ found]
           /\ events' = events \cup found
           /\ curSize' = curSize - PaidBack(m, found)
    /\ UNCHANGED <<seen, pc, todo, batch, view, pushed, serving, crashed>>

(* The loop finds its list empty: all.Remove(nil) panics.                  *)
EnforcerEvictNil ==
    /\ ~crashed
    /\ serving # Idle
    /\ curSize > MaxSize
    /\ all = <<>>
    /\ crashed' = TRUE
    /\ UNCHANGED <<boxVars, pc, todo, batch, view, events, enfVars>>

(* close(md.done): AddMessage returns to its caller.                       *)
EnforcerDone_AfterOnePass ==
    /\ ~crashed
    /\ serving # Idle
    /\ pc' = [pc EXCEPT ![serving] = "idle"]
    /\ todo' = [todo EXCEPT ![serving] = {}]
    /\ serving' = Idle
    /\ UNCHANGED <<boxVars, batch, view, events, all, curSize, pushed, crashed>>

EnforcerDone ==
    /\ ~crashed
    /\ serving # Idle
    /\ curSize <= MaxSize
    /\ pc' = [pc EXCEPT ![serving] = "idle"]
    /\ todo' = [todo EXCEPT ![serving] = {}]
    /\ serving' = Idle
    /\ UNCHANGED <<boxVars, batch, view, events, all, curSize, pushed, crashed>>

(* case md := <-s.remove, for a message whose el is set.  list.Remove      *)
(* returns the element's value even when it is no longer in the list, so   *)
(* the size is paid back every time.                                       *)
EnforcerRemove_OnlyIfListed(c) ==
    /\ ~crashed
    /\ serving = Idle
    /\ pc[c] = "remove"
    /\ \E m \in todo[c] \cap pushed :
         /\ \E i \in DOMAIN all : all[i] = m
         /\ all' = Unlink(m)
         /\ curSize' = curSize - m.size
         /\ todo' = [todo EXCEPT ![c] = @ \ {m}]
    /\ UNCHANGED <<boxVars, pc, batch, view, events, pushed, serving, crashed>>

EnforcerRemove(c) ==
    /\ ~crashed
    /\ serving = Idle
    /\ pc[c] = "remove"
    /\ \E m \in todo[c] \cap pushed :
         /\ all' = Unlink(m)
         /\ curSize' = curSize - m.size
         /\ todo' = [todo EXCEPT ![c] = @ \ {m}]
    /\ UNCHANGED <<boxVars, pc, batch, view, events, pushed, serving, crashed>>

(* The same request for a message whose AddMessage has not reached the     *)
(* enforcer yet: m.el is nil and all.Remove(nil) panics.                   *)
EnforcerRemoveNil(c) ==
    /\ ~crashed
    /\ serving = Idle
    /\ pc[c] = "remove"
    /\ todo[c] \ pushed # {}
    /\ crashed' = TRUE
    /\ UNCHANGED <<boxVars, pc, todo, batch, view, events, enfVars>>

-----------------------------------------------------------------------------
Operation(c) ==
    \E mb \in Mailbox :
        \/ \E size \in Size : AddMessage(c, mb, size)
        \/ GetMessages(c, mb)
        \/ \E i \in 1 .. MaxIndex : MarkSeen(c, mb, i) \/ RemoveMessage(c, mb, i)
        \/ PurgeMessages(c, mb)

Serve(c) == EnforcerIncoming(c) \/ EnforcerRemove(c) \/ EnforcerRemoveNil(c)

EnforcerLoop == EnforcerEvict \/ EnforcerEvictNil \/ EnforcerDone

Next ==
    \/ \E c \in Client : Operation(c) \/ RemoveReturns(c) \/ Serve(c)
    \/ EnforcerLoop

Spec == Init /\ [][Next]_vars

(* The runtime runs every goroutine that can run; a client blocked on a    *)
(* channel waits in that channel's FIFO queue and select picks a ready     *)
(* channel at random, so a client that waits is served again and again.    *)
Fairness ==
    /\ WF_vars(EnforcerLoop)
    /\ \A c \in Client : WF_vars(RemoveReturns(c)) /\ SF_vars(Serve(c))

FairSpec == Spec /\ Fairness

-----------------------------------------------------------------------------
(* Properties *)

Stored == UNION {boxes[mb].messages : mb \in Mailbox}

(* Removed from their mailbox, the enforcer not told yet.                  *)
InFlight == UNION {todo[c] : c \in {d \in Client : pc[d] = "remove"}}

(* A message of a size is as many bytes.                                   *)
Bytes(M) == UNION {{m} \X (1 .. m.size) : m \in M}
SizeOf(M) == Cardinality(Bytes(M))

(* The counters of a mailbox enclose its messages, whose ids are distinct: *)
(* the cap loop counts first over every id it needs and never past the     *)
(* message AddMessage has just inserted.                                   *)
IdsInRange ==
    \A mb \in Mailbox :
        LET b == boxes[mb]
        IN  /\ b.first <= b.last
            /\ \A m \in b.messages : m.mailbox = mb /\ m.index \in b.first .. b.last
            /\ \A m, n \in b.messages : m.index = n.index => m = n

(* No mailbox holds more messages than its cap once its lock is released,  *)
(* however many ids in between were removed by others.                     *)
CapRespected ==
    Cap > 0 => \A mb \in Mailbox : Cardinality(boxes[mb].messages) <= Cap

(* The cap gives up the oldest messages of a mailbox and no more of them   *)
(* than it must; the message just added is always kept.                    *)
CapDropsOldest ==
    [][\A mb \in Mailbox : boxes'[mb].last > boxes[mb].last =>
          LET kept == boxes'[mb].messages
              dropped == boxes[mb].messages \ kept
          IN  /\ \E m \in kept : m.index = boxes'[mb].last
              /\ \A m \in dropped, k \in kept : m.index < k.index
              /\ dropped # {} => Cardinality(kept) = Cap]_vars

(* An id a client has read keeps naming the message it named: whatever was *)
(* removed, purged, cut or added since, acting on a stale listing never    *)
(* reaches another message.                                                *)
StaleViewSafe ==
    \A c \in Client : \A m \in view[c], n \in Stored :
        m.mailbox = n.mailbox /\ m.index = n.index => m = n

(* A removed message has one remover: it is never in a mailbox and on its  *)
(* way out at once, never on its way out in two calls, and no delete event *)
(* is emitted twice.                                                       *)
OwnedOnce ==
    /\ Stored \cap (InFlight \cup events) = {}
    /\ \A c \in Client : batch[c] \cap (Stored \cup events) = {}
    /\ \A c, d \in Client : c # d /\ pc[c] = "remove" /\ pc[d] = "remove" =>
          todo[c] \cap todo[d] = {} /\ batch[c] \cap batch[d] = {}

(* No message disappears without a delete event, except over the cap: each *)
(* id handed out is stored, reported, owed by a purge, or below first.     *)
Accounted ==
    \A mb \in Mailbox : \A i \in 1 .. boxes[mb].last :
        \/ i < boxes[mb].first
        \/ \E m \in Stored \cup events \cup UNION {batch[c] : c \in Client} :
              m.mailbox = mb /\ m.index = i

(* What a mailbox gives out and keeps: ids in range, no more messages than *)
(* the cap, and each id handed out in exactly one place - stored, cut by   *)
(* the cap, or with its one remover - until its event is out.              *)
MailboxesSound == TypeOK /\ IdsInRange /\ CapRespected /\ OwnedOnce /\ Accounted

(* The messages the enforcer knows of and has not been paid back for.      *)
Charged == pushed \cap (Stored \cup InFlight)

(* The enforcer's total never falls short of what the messages it knows of *)
(* weigh, and without a cap it is exactly that: an eviction racing a       *)
(* removal is paid back once, by one of them.                              *)
Ledger == IF Cap = 0 THEN curSize = SizeOf(Charged) ELSE curSize >= SizeOf(Charged)

(* Between two requests the messages the enforcer has had fit maxSize.     *)
Budget == HasEnforcer /\ serving = Idle => SizeOf(Stored \cap pushed) <= MaxSize

(* The enforcer's books: the total is right, and what it permits fits.     *)
BooksBalance == Ledger /\ Budget

(* The enforcer can still find every stored message it has had: each is in *)
(* its list, once.                                                         *)
ListCoversStore ==
    /\ \A m \in Stored \cap pushed : \E i \in DOMAIN all : all[i] = m
    /\ \A i, j \in DOMAIN all : all[i] = all[j] => i = j

(* Every call returns: no client waits for ever on the enforcer, whatever  *)
(* the other clients ask of it, unless the process is gone.                *)
CallsReturn == \A c \in Client : pc[c] # "idle" ~> pc[c] = "idle" \/ crashed
-----------------------------------------------------------------------------
(* The storage contract *)

(* A message is known to callers by its mailbox and id.                    *)
Name(m) == <<m.mailbox, m.index>>

(* s lists the names N of one mailbox, all of them, by ascending id.       *)
Lists(s, N) ==
    /\ \A x \in N : \E k \in DOMAIN s : s[k] = x
    /\ \A j, k \in DOMAIN s : j < k => s[j][2] < s[k][2]

(* The mailboxes as GetMessages returns them: sorted by index.             *)
ListingOf(N) == CHOOSE s \in [1 .. Cardinality(N) -> N] : Lists(s, N)
Listing == [mb \in Mailbox |-> ListingOf({Name(m) : m \in boxes[mb].messages})]

(* The ids that were ever given out.                                       *)
HandedOut == UNION {{mb} \X (1 .. boxes[mb].last) : mb \in Mailbox}

Contract == INSTANCE MailStore
    WITH Message <- Mailbox \X (1 .. MaxIndex),
         box <- Listing,
         used <- HandedOut,
         seen <- {Name(m) : m \in seen}

(* The in-memory store does what every storage.Store promises: deliveries  *)
(* append under a fresh id, the cap cuts the head of the list, and nothing *)
(* but one message or one whole mailbox is ever taken out, the enforcer's  *)
(* evictions included.                                                     *)
ImplementsMailStore == Contract!Spec
=============================================================================
