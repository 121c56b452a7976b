----------------------------- MODULE Pop3Server -----------------------------
(***************************************************************************)
(* POP3 sessions on one mailbox, pkg/server/pop3, next to everything else  *)
(* that changes the mailbox: deliveries, and removals by the web API, the  *)
(* retention scanner and the size limits.                                  *)
(*                                                                         *)
(* A session works on the listing it loaded when the client logged in.     *)
(* DELE only marks; the messages go when the client quits, one             *)
(* Store.RemoveMessage at a time.  Sessions share the Server they embed,   *)
(* and with it tlsState.                                                   *)
(***************************************************************************)
EXTENDS Integers, Sequences, FiniteSets

CONSTANTS
    Session,
    TLSEnabled,   \* config.POP3.TLSEnabled
    ForceTLS,     \* config.POP3.ForceTLS
    MaxId         \* bound: messages delivered to the mailbox

ASSUME ServerAssumption ==
    /\ TLSEnabled \in BOOLEAN /\ ForceTLS \in BOOLEAN
    /\ MaxId \in Nat

VARIABLES
    box, last,    \* ids in the mailbox, the last id given out
    tlsState,     \* Server.tlsState is set
    state,        \* Session.state; "UPDATE" in processDeletes, "none" and "closed"
    user,         \* the session has had a USER command
    messages,     \* Session.messages: the ids listed at login
    retain,       \* Session.retain: the numbers of the messages kept
    msgCount,     \* Session.msgCount
    deletes,      \* numbers processDeletes has still to look at
    sendError,    \* Session.sendError is set
    link,         \* the connection
    asked,        \* auxiliary: ids the client has deleted, by its own listing
    promised,     \* auxiliary: those of "+OK We will process your deletes"
    removed,      \* auxiliary: ids the session removed from the mailbox
    failed        \* auxiliary: ids the store could not remove for it

sessionVars == <<state, user, messages, retain, msgCount, deletes, sendError, link, asked, promised, removed, failed>>
vars == <<box, last, tlsState, sessionVars>>

Numbers(s) == 1 .. Len(messages[s])

TypeOK ==
    /\ box \subseteq 1 .. last /\ last \in 0 .. MaxId
    /\ tlsState \in BOOLEAN
    /\ state \in [Session -> {"none", "AUTHORIZATION", "TRANSACTION", "UPDATE", "QUIT", "closed"}]
    /\ user \in [Session -> BOOLEAN]
    /\ messages \in [Session -> Seq(1 .. MaxId)]
    /\ retain \in [Session -> SUBSET Nat] /\ deletes \in [Session -> SUBSET Nat]
    /\ \A s \in Session : retain[s] \subseteq Numbers(s) /\ deletes[s] \subseteq Numbers(s)
    /\ msgCount \in [Session -> 0 .. MaxId]
    /\ sendError \in [Session -> BOOLEAN]
    /\ link \in [Session -> {"up", "down"}]
    /\ asked \in [Session -> SUBSET (1 .. MaxId)] /\ promised \in [Session -> SUBSET (1 .. MaxId)]
    /\ removed \in [Session -> SUBSET (1 .. MaxId)] /\ failed \in [Session -> SUBSET (1 .. MaxId)]

Init ==
    /\ box = {} /\ last = 0
    /\ tlsState = FALSE
    /\ state = [s \in Session |-> "none"]
    /\ user = [s \in Session |-> FALSE]
    /\ messages = [s \in Session |-> <<>>]
    /\ retain = [s \in Session |-> {}]
    /\ msgCount = [s \in Session |-> 0]
    /\ deletes = [s \in Session |-> {}]
    /\ sendError = [s \in Session |-> FALSE]
    /\ link = [s \in Session |-> "up"]
    /\ asked = [s \in Session |-> {}]
    /\ promised = [s \in Session |-> {}]
    /\ removed = [s \in Session |-> {}]
    /\ failed = [s \in Session |-> {}]

-----------------------------------------------------------------------------
(* The mailbox, and those who change it *)

(* What GetMessages may return: the mailbox, oldest first, or nothing, for *)
(* a mailbox that the store cannot list.                                   *)
Ascending(S) == {f \in [1 .. Cardinality(S) -> S] : \A i, j \in DOMAIN f : i < j => f[i] < f[j]}
InOrder == Ascending(box)
Listings == InOrder \cup {<<>>}

Deliver ==
    /\ last < MaxId
    /\ last' = last + 1
    /\ box' = box \cup {last + 1}
    /\ UNCHANGED <<tlsState, sessionVars>>

RemoveByOthers(i) ==
    /\ i \in box
    /\ box' = box \ {i}
    /\ UNCHANGED <<last, tlsState, sessionVars>>

-----------------------------------------------------------------------------
(* Sessions *)

(* send: on a broken connection the error may or may not show.             *)
Send(s) ==
    IF link[s] = "up"
    THEN UNCHANGED sendError
    ELSE \E e \in {sendError[s], TRUE} : sendError' = [sendError EXCEPT ![s] = e]

AtPrompt(s, st) == state[s] = st /\ ~sendError[s]

Enter(s, st) == state' = [state EXCEPT ![s] = st]

(* startSession; with ForceTLS it marks the whole server.                  *)
Connect(s) ==
    /\ state[s] = "none"
    /\ Enter(s, "AUTHORIZATION")
    /\ tlsState' = (tlsState \/ ForceTLS)
    /\ UNCHANGED <<box, last, user, messages, retain, msgCount, deletes, sendError, link, asked, promised, removed, failed>>

(* Every reply that changes nothing: errors, CAPA, NOOP, STAT, LIST, UIDL, *)
(* and RETR and TOP, which take marked messages too.                       *)
Answer(s) ==
    /\ AtPrompt(s, "AUTHORIZATION") \/ AtPrompt(s, "TRANSACTION")
    /\ Send(s)
    /\ UNCHANGED <<box, last, tlsState, state, user, messages, retain, msgCount, deletes, link,
                   asked, promised, removed, failed>>

(* STLS: a failed handshake is answered, and marked as TLS all the same;   *)
(* it leaves a connection that cannot be read.  The mark is the server's:  *)
(* STLS is refused from then on, in every session.                         *)
Stls(s) ==
    /\ AtPrompt(s, "AUTHORIZATION")
    /\ TLSEnabled /\ ~ForceTLS
    /\ ~tlsState
    /\ tlsState' = TRUE
    /\ \/ Send(s) /\ UNCHANGED link
       \/ /\ link' = [link EXCEPT ![s] = "down"]
          /\ \E e \in BOOLEAN : sendError' = [sendError EXCEPT ![s] = e]
    /\ UNCHANGED <<box, last, state, user, messages, retain, msgCount, deletes, asked, promised, removed, failed>>

User(s) ==
    /\ AtPrompt(s, "AUTHORIZATION")
    /\ user' = [user EXCEPT ![s] = TRUE]
    /\ Send(s)
    /\ UNCHANGED <<box, last, tlsState, state, messages, retain, msgCount, deletes, link, asked, promised, removed, failed>>

(* retainAll, after messages were loaded or for RSET.                      *)
RetainAll_MarksOnly(s, listing) == retain' = [retain EXCEPT ![s] = DOMAIN listing] /\ UNCHANGED msgCount
RetainAll(s, listing) ==
    /\ retain' = [retain EXCEPT ![s] = DOMAIN listing]
    /\ msgCount' = [msgCount EXCEPT ![s] = Len(listing)]

(* loadMailbox: a mailbox the store cannot list is an empty one.           *)
LoadMailbox(s) ==
    \E listing \in Listings :
        /\ messages' = [messages EXCEPT ![s] = listing]
        /\ RetainAll(s, listing)

Login(s) ==
    /\ AtPrompt(s, "AUTHORIZATION")
    /\ LoadMailbox(s)
    /\ Enter(s, "TRANSACTION")
    /\ Send(s)
    /\ UNCHANGED <<box, last, tlsState, deletes, link, asked, promised, removed, failed>>

Pass(s) ==
    /\ user[s]
    /\ Login(s)
    /\ UNCHANGED user

Apop(s) ==
    /\ Login(s)
    /\ user' = [user EXCEPT ![s] = TRUE]

Dele_Again(s, n) ==
    /\ AtPrompt(s, "TRANSACTION")
    /\ retain' = [retain EXCEPT ![s] = @ \ {n}]
    /\ msgCount' = [msgCount EXCEPT ![s] = @ - 1]
    /\ asked' = [asked EXCEPT ![s] = @ \cup {messages[s][n]}]
    /\ Send(s)
    /\ UNCHANGED <<box, last, tlsState, state, user, messages, deletes, link, promised, removed, failed>>

Dele(s, n) ==
    /\ AtPrompt(s, "TRANSACTION")
    /\ n \in retain[s]
    /\ retain' = [retain EXCEPT ![s] = @ \ {n}]
    /\ msgCount' = [msgCount EXCEPT ![s] = @ - 1]
    /\ asked' = [asked EXCEPT ![s] = @ \cup {messages[s][n]}]
    /\ Send(s)
    /\ UNCHANGED <<box, last, tlsState, state, user, messages, deletes, link, promised, removed, failed>>

Rset(s) ==
    /\ AtPrompt(s, "TRANSACTION")
    /\ RetainAll(s, messages[s])
    /\ asked' = [asked EXCEPT ![s] = {}]
    /\ Send(s)
    /\ UNCHANGED <<box, last, tlsState, state, user, messages, deletes, link, promised, removed, failed>>

(* QUIT: after a login, it promises the deletions and goes on to make them.*)
Quit(s) ==
    /\ \/ /\ AtPrompt(s, "AUTHORIZATION")
          /\ Enter(s, "QUIT")
          /\ UNCHANGED <<deletes, promised>>
       \/ /\ AtPrompt(s, "TRANSACTION")
          /\ Enter(s, "UPDATE")
          /\ deletes' = [deletes EXCEPT ![s] = Numbers(s) \ retain[s]]
          /\ promised' = [promised EXCEPT ![s] = asked[s]]
    /\ Send(s)
    /\ UNCHANGED <<box, last, tlsState, user, messages, retain, msgCount, link, asked, removed, failed>>

(* RemoveMessage of a message in the session's listing: the message goes,  *)
(* is gone already, or stays with an error, which is only logged.          *)
Remove(s, id) ==
    /\ \/ /\ box' = box \ {id}
          /\ UNCHANGED failed
       \/ /\ id \in box
          /\ UNCHANGED box
          /\ failed' = [failed EXCEPT ![s] = @ \cup {id}]
    /\ removed' = [removed EXCEPT ![s] = @ \cup (box \ box')]
    /\ UNCHANGED <<last, tlsState, state, user, messages, retain, msgCount, sendError, link, asked, promised>>

(* One turn of processDeletes; it does not look at sendError.              *)
DeleteNext_ByPosition(s) ==
    /\ state[s] = "UPDATE"
    /\ \E n \in deletes[s], current \in InOrder :
        /\ \A k \in deletes[s] : n <= k
        /\ Remove(s, IF n \in DOMAIN current THEN current[n] ELSE 0)
        /\ deletes' = [deletes EXCEPT ![s] = @ \ {n}]

DeleteNext_StopsWhenGone(s) ==
    /\ state[s] = "UPDATE"
    /\ \E n \in deletes[s] :
        /\ \A k \in deletes[s] : n <= k
        /\ Remove(s, messages[s][n])
        /\ deletes' = [deletes EXCEPT ![s] = IF messages[s][n] \in box THEN @ \ {n} ELSE {}]

DeleteNext_Retries(s) ==
    /\ state[s] = "UPDATE"
    /\ \E n \in deletes[s] :
        /\ \A k \in deletes[s] : n <= k
        /\ Remove(s, messages[s][n])
        /\ deletes' = [deletes EXCEPT ![s] = IF messages[s][n] \in box THEN @ \ {n} ELSE @]

DeleteNext(s) ==
    /\ state[s] = "UPDATE"
    /\ \E n \in deletes[s] :
        /\ \A k \in deletes[s] : n <= k
        /\ Remove(s, messages[s][n])
        /\ deletes' = [deletes EXCEPT ![s] = @ \ {n}]

(* enterState(QUIT) after processDeletes.                                  *)
Updated(s) ==
    /\ state[s] = "UPDATE" /\ deletes[s] = {}
    /\ Enter(s, "QUIT")
    /\ UNCHANGED <<box, last, tlsState, user, messages, retain, msgCount, deletes, sendError, link,
                   asked, promised, removed, failed>>

(* readLine fails, or the loop condition does: the connection is closed.   *)
Close(s) ==
    /\ state[s] \in {"AUTHORIZATION", "TRANSACTION", "QUIT"}
    /\ Enter(s, "closed")
    /\ UNCHANGED <<box, last, tlsState, user, messages, retain, msgCount, deletes, sendError, link,
                   asked, promised, removed, failed>>

Break(s) ==
    /\ state[s] \notin {"none", "closed"}
    /\ link[s] = "up"
    /\ link' = [link EXCEPT ![s] = "down"]
    /\ UNCHANGED <<box, last, tlsState, state, user, messages, retain, msgCount, deletes, sendError,
                   asked, promised, removed, failed>>

Command(s) ==
    \/ Answer(s) \/ Stls(s) \/ User(s) \/ Pass(s) \/ Apop(s) \/ Rset(s) \/ Quit(s)
    \/ \E n \in Numbers(s) : Dele(s, n)

Next ==
    \/ Deliver
    \/ \E i \in box : RemoveByOthers(i)
    \/ \E s \in Session :
        Connect(s) \/ Command(s) \/ DeleteNext(s) \/ Updated(s) \/ Close(s) \/ Break(s)

Spec == Init /\ [][Next]_vars

(* A session that can run runs, and its reads have a deadline: one whose   *)
(* peer is gone, or that has nothing more to do, comes to its end.         *)
Ends(s) == Close(s) /\ (link[s] = "down" \/ state[s] = "QUIT" \/ sendError[s])
Fairness == \A s \in Session : WF_vars(DeleteNext(s) \/ Updated(s)) /\ SF_vars(Ends(s))

FairSpec == Spec /\ Fairness

-----------------------------------------------------------------------------
(* Properties *)

(* What STAT counts, what DELE has marked and what the client believes it  *)
(* has deleted are the same messages, through any mix of DELE and RSET and *)
(* whatever happens to the mailbox meanwhile.                              *)
MarksAgree ==
    \A s \in Session : state[s] = "TRANSACTION" =>
        /\ msgCount[s] = Cardinality(retain[s])
        /\ asked[s] = {messages[s][n] : n \in Numbers(s) \ retain[s]}

(* A session removes nothing but the messages that its client marked by    *)
(* the listing it logged in with, and confirmed with QUIT: a connection    *)
(* that breaks before, or a mailbox that has changed, deletes no other.    *)
OnlyPromised == \A s \in Session : removed[s] \subseteq promised[s]

(* When a session has processed its deletes, every message it promised to  *)
(* delete is gone, though others may have removed some of them first, or   *)
(* is one whose removal the store refused: one failure does not keep the   *)
(* others from being deleted.                                              *)
PromiseKept ==
    \A s \in Session : state[s] \in {"QUIT", "closed"} => promised[s] \cap box \subseteq failed[s]

(* What a session deletes is what its client marked, was told of and       *)
(* confirmed, all of it and nothing else.                                  *)
DeletesAsPromised == TypeOK /\ MarksAgree /\ OnlyPromised /\ PromiseKept

(* Drain waits for every session: one that was told to quit, or whose peer *)
(* is gone, ends.                                                          *)
SessionEnds ==
    \A s \in Session :
        (state[s] = "UPDATE" \/ (state[s] # "none" /\ link[s] = "down")) ~> state[s] = "closed"
=============================================================================
