-------------------------- MODULE Pop3ServerProofs --------------------------
(***************************************************************************)
(* Proofs about Pop3Server and Pop3Replies, for every set of sessions,     *)
(* either TLS setting, either store and every number of deliveries.        *)
(***************************************************************************)
EXTENDS Pop3Replies, FiniteSetTheorems, SequenceTheorems, TLAPS

Id == 1 .. MaxId

(* Numbers(s) are the positions of the listing; its ids were given out.    *)
LEMMA ListingFacts ==
    ASSUME TypeOK, NEW listing \in Listings
    PROVE  /\ listing \in Seq(Id)
           /\ DOMAIN listing = 1 .. Len(listing)
           /\ Len(listing) \in 0 .. MaxId
           /\ Cardinality(DOMAIN listing) = Len(listing)
           /\ \A n \in DOMAIN listing : listing[n] \in 1 .. last
<1>1. IsFiniteSet(1 .. MaxId) /\ Cardinality(1 .. MaxId) = MaxId /\ box \subseteq 1 .. MaxId
  <2>1. MaxId \in Nat /\ box \subseteq 1 .. MaxId
    BY ServerAssumption DEF TypeOK
  <2>2. IsFiniteSet(1 .. MaxId) /\ Cardinality(1 .. MaxId) = MaxId
    <3>1. Cardinality(1 .. MaxId) = IF 1 > MaxId THEN 0 ELSE MaxId - 1 + 1
      BY <2>1, FS_Interval
    <3> QED BY <2>1, <3>1, FS_Interval
  <2> QED BY <2>1, <2>2
<1>2. IsFiniteSet(box) /\ Cardinality(box) \in 0 .. MaxId
  <2>1. IsFiniteSet(box) /\ Cardinality(box) <= Cardinality(1 .. MaxId)
    BY <1>1, FS_Subset
  <2> QED BY <1>1, <2>1, FS_CardinalityType, ServerAssumption
<1>3. CASE listing = <<>>
  <2>1. DOMAIN listing = 1 .. 0 /\ Len(listing) = 0 /\ listing \in Seq(Id)
    BY <1>3
  <2>2. Cardinality(DOMAIN listing) = 0
    BY <2>1, FS_Interval
  <2> QED BY <2>1, <2>2, ServerAssumption
<1>4. CASE listing \in InOrder
  <2>1. listing \in [1 .. Cardinality(box) -> box]
    BY <1>4 DEF InOrder, Ascending
  <2>2. listing \in Seq(box) /\ Len(listing) = Cardinality(box)
    BY <1>2, <2>1
  <2>3. listing \in Seq(Id)
    BY <1>1, <2>2, SeqMonotonic DEF Id
  <2>4. Cardinality(DOMAIN listing) = Len(listing)
    BY <1>2, <2>1, <2>2, FS_Interval
  <2> QED BY <1>2, <2>1, <2>2, <2>3, <2>4 DEF TypeOK
<1> QED BY <1>3, <1>4 DEF Listings

LEMMA RetainAllTypes ==
    ASSUME TypeOK, NEW s \in Session, NEW listing, DOMAIN listing = 1 .. Len(listing),
           Len(listing) \in 0 .. MaxId, RetainAll(s, listing)
    PROVE  /\ retain' \in [Session -> SUBSET Nat] /\ msgCount' \in [Session -> 0 .. MaxId]
           /\ retain'[s] = 1 .. Len(listing) /\ msgCount'[s] = Len(listing)
           /\ \A t \in Session \ {s} : retain'[t] = retain[t] /\ msgCount'[t] = msgCount[t]
BY DEF TypeOK, RetainAll

-----------------------------------------------------------------------------
(* The invariant, session by session *)

(* The message numbers that processDeletes has still to look at, as ids.   *)
Pending(s) == {messages[s][n] : n \in deletes[s]}

Marked(s) == {messages[s][n] : n \in Numbers(s) \ retain[s]}

(* Every id a session knows of was given out before, so a message that is  *)
(* delivered later is none of them.                                        *)
Known(s) ==
    /\ Len(messages[s]) <= MaxId
    /\ \A n \in Numbers(s) : messages[s][n] \in 1 .. last
    /\ asked[s] \subseteq 1 .. last
    /\ promised[s] \subseteq 1 .. last

Counted(s) == msgCount[s] = Cardinality(retain[s])

BeforeQuit(s) ==
    /\ state[s] \in {"none", "AUTHORIZATION"} => asked[s] = {}
    /\ state[s] \in {"none", "AUTHORIZATION", "TRANSACTION"} =>
         promised[s] = {} /\ removed[s] = {} /\ deletes[s] = {}
    /\ state[s] = "TRANSACTION" => asked[s] = Marked(s)

AfterQuit(s) ==
    /\ removed[s] \subseteq promised[s]
    /\ state[s] = "UPDATE" =>
         /\ Pending(s) \subseteq promised[s]
         /\ promised[s] \cap box \subseteq failed[s] \cup Pending(s)
    /\ state[s] \in {"QUIT", "closed"} => promised[s] \cap box \subseteq failed[s]

SessionInv(s) == Known(s) /\ Counted(s) /\ BeforeQuit(s) /\ AfterQuit(s)

Inv == TypeOK /\ \A s \in Session : SessionInv(s)

(* What the invariant says of a session depends only on its own variables  *)
(* and on the mailbox, which takes in new ids alone.                       *)
Keeps(s) ==
    /\ state'[s] = state[s] /\ messages'[s] = messages[s] /\ retain'[s] = retain[s]
    /\ msgCount'[s] = msgCount[s] /\ deletes'[s] = deletes[s]
    /\ asked'[s] = asked[s] /\ promised'[s] = promised[s]
    /\ removed'[s] = removed[s] /\ failed'[s] = failed[s]

OnlyNewIds ==
    /\ last' \in Nat /\ last <= last'
    /\ box' \cap (1 .. last) \subseteq box

LEMMA KeepsSessionInv ==
    ASSUME TypeOK, NEW s \in Session, SessionInv(s), Keeps(s), OnlyNewIds
    PROVE  SessionInv(s)'
<1>1. 1 .. last \subseteq 1 .. last' /\ last \in Nat
  BY DEF TypeOK, OnlyNewIds
<1>2. Numbers(s)' = Numbers(s) /\ Pending(s)' = Pending(s) /\ Marked(s)' = Marked(s)
  BY DEF Keeps, Numbers, Pending, Marked
<1>3. promised[s] \cap box' \subseteq promised[s] \cap box
  BY DEF SessionInv, Known, OnlyNewIds
<1>4. Known(s)'
  BY <1>1, <1>2 DEF SessionInv, Known, Keeps
<1>5. Counted(s)'
  BY DEF SessionInv, Counted, Keeps
<1>6. BeforeQuit(s)'
  BY <1>2 DEF SessionInv, BeforeQuit, Keeps
<1>7. AfterQuit(s)'
  BY <1>2, <1>3 DEF SessionInv, AfterQuit, Keeps
<1> QED BY <1>4, <1>5, <1>6, <1>7 DEF SessionInv

LEMMA InitInv == Init => Inv
<1> SUFFICES ASSUME Init PROVE Inv
  OBVIOUS
<1>1. \A s \in Session : Numbers(s) = {}
  BY DEF Init, Numbers
<1>2. messages \in [Session -> Seq(1 .. MaxId)]
  <2>1. <<>> \in Seq(1 .. MaxId) OBVIOUS
  <2> QED BY <2>1 DEF Init
<1>3. TypeOK
  <2>1. /\ user \in [Session -> BOOLEAN] /\ sendError \in [Session -> BOOLEAN]
        /\ tlsState \in BOOLEAN
    BY DEF Init
  <2>2. /\ box \subseteq 1 .. last /\ last \in 0 .. MaxId
        /\ retain \in [Session -> SUBSET Nat] /\ deletes \in [Session -> SUBSET Nat]
        /\ msgCount \in [Session -> 0 .. MaxId]
    BY ServerAssumption DEF Init
  <2>3. /\ asked \in [Session -> SUBSET (1 .. MaxId)] /\ promised \in [Session -> SUBSET (1 .. MaxId)]
        /\ removed \in [Session -> SUBSET (1 .. MaxId)] /\ failed \in [Session -> SUBSET (1 .. MaxId)]
    BY DEF Init
  <2>4. /\ state \in [Session -> {"none", "AUTHORIZATION", "TRANSACTION", "UPDATE", "QUIT", "closed"}]
        /\ link \in [Session -> {"up", "down"}]
        /\ \A s \in Session : retain[s] \subseteq Numbers(s) /\ deletes[s] \subseteq Numbers(s)
    BY DEF Init
  <2> QED BY <1>2, <2>1, <2>2, <2>3, <2>4 DEF TypeOK
<1>4. ASSUME NEW s \in Session PROVE SessionInv(s)
  <2>1. Cardinality({}) = 0
    BY FS_EmptySet
  <2>2. Len(messages[s]) = 0
    BY DEF Init
  <2>3. Len(messages[s]) <= MaxId
    BY <2>2, ServerAssumption
  <2>4. Known(s)
    BY <1>1, <2>3 DEF Init, Known
  <2> QED
    BY <2>1, <2>4 DEF Init, SessionInv, Counted, BeforeQuit, AfterQuit
<1> QED BY <1>3, <1>4 DEF Inv

-----------------------------------------------------------------------------
(* The steps *)

LEMMA SendType == \A s \in Session : TypeOK /\ Send(s) => sendError' \in [Session -> BOOLEAN]
<1> TAKE s \in Session
<1> HAVE TypeOK /\ Send(s)
<1>1. sendError \in [Session -> BOOLEAN]
  BY DEF TypeOK
<1>2. CASE UNCHANGED sendError
  BY <1>1, <1>2
<1>3. ASSUME NEW e \in {sendError[s], TRUE}, sendError' = [sendError EXCEPT ![s] = e]
      PROVE  sendError' \in [Session -> BOOLEAN]
  <2>1. e \in BOOLEAN BY <1>1
  <2> QED BY <1>1, <1>3, <2>1
<1> QED BY <1>2, <1>3 DEF Send

(* A step of one session: the others keep what they have.                  *)
LEMMA OneSession ==
    ASSUME Inv, NEW s \in Session, TypeOK', SessionInv(s)',
           \A t \in Session \ {s} : Keeps(t), OnlyNewIds
    PROVE  Inv'
<1>1. ASSUME NEW t \in Session PROVE SessionInv(t)'
  <2>1. CASE t = s
    BY <2>1
  <2>2. CASE t # s
    BY <2>2, KeepsSessionInv DEF Inv
  <2> QED BY <2>1, <2>2
<1> QED BY <1>1 DEF Inv

(* Steps that change no variable the invariant is about, but the state.    *)
LEMMA QuietStep ==
    ASSUME Inv, TypeOK',
           UNCHANGED <<box, last, state, messages, retain, msgCount, deletes, asked, promised, removed, failed>>
    PROVE  Inv'
<1>1. OnlyNewIds
  BY DEF Inv, TypeOK, OnlyNewIds
<1>2. \A s \in Session : Keeps(s)
  BY DEF Keeps
<1> QED BY <1>1, <1>2, KeepsSessionInv DEF Inv

LEMMA StateStep ==
    ASSUME Inv, NEW s \in Session, TypeOK',
           NEW st \in {"AUTHORIZATION", "QUIT", "closed"}, Enter(s, st),
           \/ state[s] = "none" /\ st = "AUTHORIZATION"
           \/ state[s] \in {"AUTHORIZATION", "TRANSACTION", "QUIT"} /\ st \in {"QUIT", "closed"}
           \/ state[s] = "UPDATE" /\ deletes[s] = {} /\ st = "QUIT",
           UNCHANGED <<box, last, messages, retain, msgCount, deletes, asked, promised, removed, failed>>
    PROVE  Inv'
<1>1. OnlyNewIds
  BY DEF Inv, TypeOK, OnlyNewIds
<1>2. state'[s] = st /\ \A t \in Session \ {s} : Keeps(t)
  BY DEF Inv, TypeOK, Enter, Keeps
<1>3. SessionInv(s)
  BY DEF Inv
<1>4. SessionInv(s)'
  <2>1. Known(s)' /\ Counted(s)'
    BY <1>3 DEF SessionInv, Known, Counted, Numbers
  <2>2. BeforeQuit(s)'
    BY <1>2, <1>3 DEF SessionInv, BeforeQuit
  <2>3. deletes[s] = {} => Pending(s) = {}
    BY DEF Pending
  <2>4. AfterQuit(s)'
    BY <1>2, <1>3, <2>3 DEF SessionInv, AfterQuit, BeforeQuit, Pending
  <2> QED BY <2>1, <2>2, <2>4 DEF SessionInv
<1> QED BY <1>1, <1>2, <1>4, OneSession

LEMMA DeliverKeepsInv == Inv /\ Deliver => Inv'
<1> SUFFICES ASSUME Inv, Deliver PROVE Inv'
  OBVIOUS
<1>1. TypeOK'
  BY ServerAssumption DEF Inv, TypeOK, Deliver, sessionVars, Numbers
<1>2. OnlyNewIds
  BY DEF Inv, TypeOK, Deliver, OnlyNewIds
<1>3. \A s \in Session : Keeps(s)
  BY DEF Deliver, sessionVars, Keeps
<1> QED BY <1>1, <1>2, <1>3, KeepsSessionInv DEF Inv

LEMMA OthersKeepInv == \A i : Inv /\ RemoveByOthers(i) => Inv'
<1> TAKE i
<1> HAVE Inv /\ RemoveByOthers(i)
<1>1. TypeOK'
  BY DEF Inv, TypeOK, RemoveByOthers, sessionVars, Numbers
<1>2. OnlyNewIds
  BY DEF Inv, TypeOK, RemoveByOthers, OnlyNewIds
<1>3. \A s \in Session : Keeps(s)
  BY DEF RemoveByOthers, sessionVars, Keeps
<1> QED BY <1>1, <1>2, <1>3, KeepsSessionInv DEF Inv

(* A login starts from a listing with no marks.                            *)
LEMMA LoginKeepsInv ==
    ASSUME Inv, NEW s \in Session, Login(s), user' \in [Session -> BOOLEAN]
    PROVE  Inv'
<1>1. PICK listing \in Listings : messages' = [messages EXCEPT ![s] = listing] /\ RetainAll(s, listing)
  BY DEF Login, LoadMailbox
<1>2. TypeOK /\ SessionInv(s)
  BY DEF Inv
<1>3. /\ listing \in Seq(1 .. MaxId) /\ DOMAIN listing = 1 .. Len(listing) /\ Len(listing) \in 0 .. MaxId
      /\ Cardinality(DOMAIN listing) = Len(listing)
      /\ \A n \in DOMAIN listing : listing[n] \in 1 .. last
  BY <1>2, ListingFacts DEF Id
<1>4. /\ retain' \in [Session -> SUBSET Nat] /\ msgCount' \in [Session -> 0 .. MaxId]
      /\ retain'[s] = 1 .. Len(listing) /\ msgCount'[s] = Len(listing)
      /\ \A t \in Session \ {s} : retain'[t] = retain[t] /\ msgCount'[t] = msgCount[t]
  BY <1>1, <1>2, <1>3, RetainAllTypes
<1>5. /\ messages' \in [Session -> Seq(1 .. MaxId)] /\ messages'[s] = listing
      /\ \A t \in Session \ {s} : messages'[t] = messages[t]
  BY <1>1, <1>2, <1>3 DEF TypeOK
<1>6. /\ state' \in [Session -> {"none", "AUTHORIZATION", "TRANSACTION", "UPDATE", "QUIT", "closed"}]
      /\ state[s] = "AUTHORIZATION" /\ state'[s] = "TRANSACTION"
      /\ \A t \in Session \ {s} : state'[t] = state[t]
  BY <1>2 DEF TypeOK, Login, Enter, AtPrompt
<1>7. \A t \in Session \ {s} : Keeps(t) /\ Numbers(t)' = Numbers(t)
  BY <1>4, <1>5, <1>6 DEF Login, Keeps, Numbers
<1>8. OnlyNewIds
  BY <1>2 DEF TypeOK, Login, OnlyNewIds
<1>9. Numbers(s)' = 1 .. Len(listing) /\ deletes'[s] = {}
  BY <1>2, <1>5, <1>6 DEF Numbers, Login, SessionInv, BeforeQuit
<1>10. TypeOK'
  <2>1. sendError' \in [Session -> BOOLEAN] /\ tlsState' \in BOOLEAN
    BY <1>2, SendType DEF Login, TypeOK
  <2>2. \A t \in Session : retain'[t] \subseteq Numbers(t)' /\ deletes'[t] \subseteq Numbers(t)'
    <3>1. retain'[s] = Numbers(s)' /\ deletes'[s] \subseteq Numbers(s)'
      BY <1>4, <1>9
    <3>2. ASSUME NEW t \in Session, t # s
          PROVE  retain'[t] = retain[t] /\ Numbers(t)' = Numbers(t) /\ deletes'[t] = deletes[t]
      BY <1>4, <1>7, <3>2 DEF Login
    <3> QED
      BY <1>2, <3>1, <3>2 DEF TypeOK
  <2> QED
    BY <1>2, <1>4, <1>5, <1>6, <2>1, <2>2 DEF TypeOK, Login
<1>11. SessionInv(s)'
  <2>1. asked'[s] = {} /\ promised'[s] = {} /\ removed'[s] = {}
    BY <1>2, <1>6 DEF Login, SessionInv, BeforeQuit
  <2>2. Known(s)'
    BY <1>3, <1>5, <1>9, <2>1 DEF Known, Login
  <2>3. Counted(s)'
    BY <1>3, <1>4 DEF Counted
  <2>4. Marked(s)' = {}
    BY <1>4, <1>9 DEF Marked
  <2>5. BeforeQuit(s)' /\ AfterQuit(s)'
    BY <1>6, <1>9, <2>1, <2>4 DEF BeforeQuit, AfterQuit
  <2> QED BY <2>2, <2>3, <2>5 DEF SessionInv
<1> QED BY <1>7, <1>8, <1>10, <1>11, OneSession

LEMMA DeleKeepsInv ==
    ASSUME Inv, NEW s \in Session, NEW n \in Numbers(s), Dele(s, n)
    PROVE  Inv'
<1>1. TypeOK /\ SessionInv(s)
  BY DEF Inv
<1>2. /\ retain' \in [Session -> SUBSET Nat] /\ retain'[s] = retain[s] \ {n} /\ n \in retain[s]
      /\ \A t \in Session \ {s} : retain'[t] = retain[t]
  BY <1>1 DEF TypeOK, Dele
<1>3. /\ asked'[s] = asked[s] \cup {messages[s][n]}
      /\ \A t \in Session \ {s} : asked'[t] = asked[t]
  BY <1>1 DEF TypeOK, Dele
<1>4. Numbers(s) \subseteq Nat /\ Len(messages[s]) \in Nat /\ last \in 0 .. MaxId
  BY <1>1 DEF TypeOK, Numbers
<1>5. messages[s][n] \in 1 .. last /\ 1 .. last \subseteq 1 .. MaxId
  BY <1>1, <1>4, ServerAssumption DEF SessionInv, Known
<1>6. /\ IsFiniteSet(retain[s])
      /\ Cardinality(retain'[s]) = Cardinality(retain[s]) - 1
      /\ Cardinality(retain'[s]) \in Nat
  <2>1. IsFiniteSet(retain[s])
    <3>1. IsFiniteSet(Numbers(s))
      BY <1>4, FS_Interval DEF Numbers
    <3> QED BY <1>1, <3>1, FS_Subset DEF TypeOK
  <2>2. IsFiniteSet(retain[s] \ {n}) /\ Cardinality(retain[s] \ {n}) = Cardinality(retain[s]) - 1
    BY <1>2, <2>1, FS_RemoveElement
  <2> QED BY <1>2, <2>1, <2>2, FS_CardinalityType
<1>7. /\ msgCount' \in [Session -> 0 .. MaxId] /\ msgCount'[s] = Cardinality(retain'[s])
      /\ \A t \in Session \ {s} : msgCount'[t] = msgCount[t]
  <2>1. msgCount[s] = Cardinality(retain[s]) /\ msgCount[s] \in 0 .. MaxId
    BY <1>1 DEF SessionInv, Counted, TypeOK
  <2>2. msgCount[s] - 1 \in 0 .. MaxId /\ msgCount[s] - 1 = Cardinality(retain'[s])
    BY <1>6, <2>1, ServerAssumption
  <2> QED BY <1>1, <2>2 DEF TypeOK, Dele
<1>8. \A t \in Session \ {s} : Keeps(t)
  BY <1>2, <1>3, <1>7 DEF Dele, Keeps
<1>9. OnlyNewIds
  BY <1>1 DEF TypeOK, Dele, OnlyNewIds
<1>10. TypeOK'
  <2>1. sendError' \in [Session -> BOOLEAN] /\ tlsState' \in BOOLEAN /\ user' \in [Session -> BOOLEAN]
    BY <1>1, SendType DEF Dele, TypeOK
  <2>2. \A t \in Session : retain'[t] \subseteq Numbers(t)' /\ deletes'[t] \subseteq Numbers(t)'
    BY <1>1, <1>2 DEF TypeOK, Dele, Numbers
  <2>3. asked' \in [Session -> SUBSET (1 .. MaxId)]
    BY <1>1, <1>5 DEF TypeOK, Dele
  <2> QED
    BY <1>1, <1>2, <1>7, <2>1, <2>2, <2>3 DEF TypeOK, Dele
<1>11. SessionInv(s)'
  <2>1. Marked(s)' = Marked(s) \cup {messages[s][n]}
    BY <1>2 DEF Marked, Numbers, Dele
  <2>2. state[s] = "TRANSACTION" /\ UNCHANGED <<state, promised, removed, deletes, messages, last, box, failed>>
    BY DEF Dele, AtPrompt
  <2>3. Known(s)'
    BY <1>1, <1>3, <1>5, <2>2 DEF SessionInv, Known, Numbers
  <2>4. Counted(s)'
    BY <1>7 DEF Counted
  <2>5. BeforeQuit(s)' /\ AfterQuit(s)'
    BY <1>1, <1>3, <2>1, <2>2 DEF SessionInv, BeforeQuit, AfterQuit
  <2> QED BY <2>3, <2>4, <2>5 DEF SessionInv
<1> QED BY <1>8, <1>9, <1>10, <1>11, OneSession

LEMMA RsetKeepsInv ==
    ASSUME Inv, NEW s \in Session, Rset(s)
    PROVE  Inv'
<1>1. TypeOK /\ SessionInv(s)
  BY DEF Inv
<1>2. /\ DOMAIN messages[s] = 1 .. Len(messages[s]) /\ Len(messages[s]) \in Nat
      /\ messages[s] \in Seq(1 .. MaxId)
  BY <1>1 DEF TypeOK
<1>3. state[s] = "TRANSACTION" /\ UNCHANGED <<state, promised, removed, deletes, messages, last, box, failed>>
  BY DEF Rset, AtPrompt
<1>4. Cardinality(1 .. Len(messages[s])) = Len(messages[s])
  BY <1>2, FS_Interval
<1>5. /\ retain' \in [Session -> SUBSET Nat] /\ msgCount' \in [Session -> 0 .. MaxId]
      /\ retain'[s] = 1 .. Len(messages[s]) /\ msgCount'[s] = Len(messages[s])
      /\ \A t \in Session \ {s} : retain'[t] = retain[t] /\ msgCount'[t] = msgCount[t]
  <2>1. Len(messages[s]) \in 0 .. MaxId
    BY <1>1, <1>2, ServerAssumption DEF SessionInv, Known
  <2> QED BY <1>1, <1>2, <2>1, RetainAllTypes DEF Rset
<1>6. /\ asked' \in [Session -> SUBSET (1 .. MaxId)] /\ asked'[s] = {}
      /\ \A t \in Session \ {s} : asked'[t] = asked[t]
  BY <1>1 DEF TypeOK, Rset
<1>7. \A t \in Session \ {s} : Keeps(t)
  BY <1>5, <1>6 DEF Rset, Keeps
<1>8. OnlyNewIds
  BY <1>1 DEF TypeOK, Rset, OnlyNewIds
<1>9. TypeOK'
  <2>1. sendError' \in [Session -> BOOLEAN] /\ tlsState' \in BOOLEAN /\ user' \in [Session -> BOOLEAN]
    BY <1>1, SendType DEF Rset, TypeOK
  <2>2. \A t \in Session : retain'[t] \subseteq Numbers(t)' /\ deletes'[t] \subseteq Numbers(t)'
    BY <1>1, <1>3, <1>5 DEF TypeOK, Rset, Numbers
  <2> QED
    BY <1>1, <1>5, <1>6, <2>1, <2>2 DEF TypeOK, Rset
<1>10. SessionInv(s)'
  <2>1. Marked(s)' = {}
    BY <1>3, <1>5 DEF Marked, Numbers
  <2>2. Known(s)'
    BY <1>1, <1>3, <1>6 DEF SessionInv, Known, Numbers
  <2>3. Counted(s)'
    BY <1>4, <1>5 DEF Counted
  <2>4. BeforeQuit(s)' /\ AfterQuit(s)'
    BY <1>1, <1>3, <1>6, <2>1 DEF SessionInv, BeforeQuit, AfterQuit
  <2> QED BY <2>2, <2>3, <2>4 DEF SessionInv
<1> QED BY <1>7, <1>8, <1>9, <1>10, OneSession

(* QUIT promises what the client asked for, which is what is not retained. *)
LEMMA QuitKeepsInv ==
    ASSUME Inv, NEW s \in Session, Quit(s)
    PROVE  Inv'
<1>1. TypeOK /\ SessionInv(s)
  BY DEF Inv
<1>2. sendError' \in [Session -> BOOLEAN] /\ tlsState' \in BOOLEAN /\ user' \in [Session -> BOOLEAN]
  BY <1>1, SendType DEF Quit, TypeOK
<1>3. CASE AtPrompt(s, "AUTHORIZATION") /\ Enter(s, "QUIT") /\ UNCHANGED <<deletes, promised>>
  <2>1. TypeOK'
    BY <1>1, <1>2, <1>3 DEF TypeOK, Quit, Enter, Numbers
  <2>2. state[s] = "AUTHORIZATION"
    BY <1>3 DEF AtPrompt
  <2> QED BY <1>3, <2>1, <2>2, StateStep DEF Quit
<1>4. CASE AtPrompt(s, "TRANSACTION") /\ Enter(s, "UPDATE")
           /\ deletes' = [deletes EXCEPT ![s] = Numbers(s) \ retain[s]]
           /\ promised' = [promised EXCEPT ![s] = asked[s]]
  <2>1. Numbers(s) \subseteq Nat
    BY <1>1 DEF TypeOK, Numbers
  <2>2. /\ deletes' \in [Session -> SUBSET Nat] /\ deletes'[s] = Numbers(s) \ retain[s]
        /\ promised' \in [Session -> SUBSET (1 .. MaxId)] /\ promised'[s] = asked[s]
        /\ \A t \in Session \ {s} : deletes'[t] = deletes[t] /\ promised'[t] = promised[t]
    BY <1>1, <1>4, <2>1 DEF TypeOK
  <2>3. /\ state' \in [Session -> {"none", "AUTHORIZATION", "TRANSACTION", "UPDATE", "QUIT", "closed"}]
        /\ state[s] = "TRANSACTION" /\ state'[s] = "UPDATE"
        /\ \A t \in Session \ {s} : state'[t] = state[t]
    BY <1>1, <1>4 DEF TypeOK, Enter, AtPrompt
  <2>4. \A t \in Session : retain'[t] \subseteq Numbers(t)' /\ deletes'[t] \subseteq Numbers(t)'
    BY <1>1, <2>2 DEF TypeOK, Quit, Numbers
  <2>5. TypeOK'
    BY <1>1, <1>2, <2>2, <2>3, <2>4 DEF TypeOK, Quit
  <2>6. \A t \in Session \ {s} : Keeps(t)
    BY <2>2, <2>3 DEF Quit, Keeps
  <2>7. OnlyNewIds
    BY <1>1 DEF TypeOK, Quit, OnlyNewIds
  <2>8. SessionInv(s)'
    <3>1. Known(s)' /\ Counted(s)'
      BY <1>1, <2>2 DEF SessionInv, Known, Counted, Numbers, Quit
    <3>2. BeforeQuit(s)'
      BY <2>3 DEF BeforeQuit
    <3>3. Pending(s)' = Marked(s)
      BY <2>2 DEF Pending, Marked, Quit
    <3>4. promised'[s] = Marked(s) /\ removed'[s] = {}
      BY <1>1, <2>2, <2>3 DEF SessionInv, BeforeQuit, Quit
    <3>5. AfterQuit(s)'
      BY <2>3, <3>3, <3>4 DEF AfterQuit
    <3> QED BY <3>1, <3>2, <3>5 DEF SessionInv
  <2> QED BY <2>5, <2>6, <2>7, <2>8, OneSession
<1> QED BY <1>3, <1>4 DEF Quit

(* One deletion: the id leaves the mailbox, or is noted as failed, or was  *)
(* gone; whichever it is, it need not be pending any more.                 *)
LEMMA DeleteKeepsInv ==
    ASSUME Inv, NEW s \in Session, DeleteNext(s)
    PROVE  Inv'
<1>1. TypeOK /\ SessionInv(s)
  BY DEF Inv
<1>2. PICK n \in deletes[s] : Remove(s, messages[s][n]) /\ deletes' = [deletes EXCEPT ![s] = @ \ {n}]
  BY DEF DeleteNext
<1> DEFINE id == messages[s][n]
<1>3. state[s] = "UPDATE" /\ n \in Numbers(s) /\ id \in Pending(s)
  BY <1>1, <1>2 DEF DeleteNext, TypeOK, Pending
<1>4. id \in 1 .. last /\ id \in promised[s] /\ 1 .. last \subseteq 1 .. MaxId
  BY <1>1, <1>3, ServerAssumption DEF SessionInv, Known, AfterQuit, TypeOK
<1> HIDE DEF id
<1>5. UNCHANGED <<last, tlsState, state, user, messages, retain, msgCount, sendError, link, asked, promised>>
  BY <1>2 DEF Remove
<1>6. /\ box' \subseteq box /\ box \ box' \subseteq {id}
      /\ failed' \in [Session -> SUBSET (1 .. MaxId)]
      /\ id \in box' => id \in failed'[s]
      /\ failed[s] \subseteq failed'[s]
      /\ \A t \in Session \ {s} : failed'[t] = failed[t]
  <2>1. CASE box' = box \ {id} /\ UNCHANGED failed
    BY <1>1, <2>1 DEF TypeOK
  <2>2. CASE UNCHANGED box /\ failed' = [failed EXCEPT ![s] = @ \cup {id}]
    BY <1>1, <1>4, <2>2 DEF TypeOK
  <2> QED BY <1>2, <2>1, <2>2 DEF Remove, id
<1>7. /\ removed' \in [Session -> SUBSET (1 .. MaxId)] /\ removed'[s] \subseteq removed[s] \cup {id}
      /\ \A t \in Session \ {s} : removed'[t] = removed[t]
  <2>1. removed' = [removed EXCEPT ![s] = @ \cup (box \ box')]
    BY <1>2 DEF Remove
  <2>2. box \ box' \subseteq 1 .. MaxId
    BY <1>4, <1>6
  <2> QED BY <1>1, <1>6, <2>1, <2>2 DEF TypeOK
<1>8. /\ deletes' \in [Session -> SUBSET Nat] /\ deletes'[s] = deletes[s] \ {n}
      /\ \A t \in Session \ {s} : deletes'[t] = deletes[t]
  BY <1>1, <1>2 DEF TypeOK
<1>9. \A t \in Session \ {s} : Keeps(t)
  BY <1>5, <1>6, <1>7, <1>8 DEF Keeps
<1>10. OnlyNewIds
  BY <1>1, <1>5, <1>6 DEF TypeOK, OnlyNewIds
<1>11. TypeOK'
  <2>1. \A t \in Session : retain'[t] \subseteq Numbers(t)' /\ deletes'[t] \subseteq Numbers(t)'
    BY <1>1, <1>5, <1>8 DEF TypeOK, Numbers
  <2> QED BY <1>1, <1>5, <1>6, <1>7, <1>8, <2>1 DEF TypeOK
<1>12. SessionInv(s)'
  <2>1. Known(s)' /\ Counted(s)' /\ BeforeQuit(s)'
    BY <1>1, <1>3, <1>5 DEF SessionInv, Known, Counted, BeforeQuit, Numbers
  <2>2. Pending(s)' \subseteq Pending(s) /\ Pending(s) \subseteq Pending(s)' \cup {id}
    BY <1>5, <1>8 DEF Pending, id
  <2>3. removed'[s] \subseteq promised'[s] /\ Pending(s)' \subseteq promised'[s]
    BY <1>1, <1>3, <1>4, <1>5, <1>7, <2>2 DEF SessionInv, AfterQuit
  <2>4. promised'[s] \cap box' \subseteq failed'[s] \cup Pending(s)'
    <3>1. promised[s] \cap box \subseteq failed[s] \cup Pending(s)
      BY <1>1, <1>3 DEF SessionInv, AfterQuit
    <3> QED BY <1>5, <1>6, <2>2, <3>1
  <2>5. AfterQuit(s)'
    BY <1>3, <1>5, <2>3, <2>4 DEF AfterQuit
  <2> QED BY <2>1, <2>5 DEF SessionInv
<1> QED BY <1>9, <1>10, <1>11, <1>12, OneSession

LEMMA NextInv == Inv /\ [Next]_vars => Inv'
<1> SUFFICES ASSUME Inv, [Next]_vars PROVE Inv'
  OBVIOUS
<1>1. TypeOK
  BY DEF Inv
<1>2. CASE Deliver
  BY <1>2, DeliverKeepsInv
<1>3. ASSUME NEW i \in box, RemoveByOthers(i) PROVE Inv'
  BY <1>3, OthersKeepInv
<1>4. ASSUME NEW s \in Session, Connect(s) PROVE Inv'
  <2>1. TypeOK'
    BY <1>1, <1>4, ServerAssumption DEF TypeOK, Connect, Enter, Numbers
  <2> QED BY <1>4, <2>1, StateStep DEF Connect
<1>5. ASSUME NEW s \in Session, Answer(s) PROVE Inv'
  <2>1. TypeOK'
    BY <1>1, <1>5, SendType DEF TypeOK, Answer, Numbers
  <2> QED BY <1>5, <2>1, QuietStep DEF Answer
<1>6. ASSUME NEW s \in Session, Stls(s) PROVE Inv'
  <2>1. sendError' \in [Session -> BOOLEAN] /\ tlsState' \in BOOLEAN /\ user' \in [Session -> BOOLEAN]
    <3>1. ASSUME NEW e \in BOOLEAN, sendError' = [sendError EXCEPT ![s] = e]
          PROVE  sendError' \in [Session -> BOOLEAN]
      BY <1>1, <3>1 DEF TypeOK
    <3> QED BY <1>1, <1>6, <3>1, SendType DEF Stls, TypeOK
  <2>2. link' \in [Session -> {"up", "down"}]
    BY <1>1, <1>6 DEF Stls, TypeOK
  <2>3. TypeOK'
    BY <1>1, <1>6, <2>1, <2>2 DEF TypeOK, Stls, Numbers
  <2> QED BY <1>6, <2>3, QuietStep DEF Stls
<1>7. ASSUME NEW s \in Session, User(s) PROVE Inv'
  <2>1. sendError' \in [Session -> BOOLEAN] /\ user' \in [Session -> BOOLEAN]
    BY <1>1, <1>7, SendType DEF User, TypeOK
  <2>2. TypeOK'
    BY <1>1, <1>7, <2>1 DEF TypeOK, User, Numbers
  <2> QED BY <1>7, <2>2, QuietStep DEF User
<1>8. ASSUME NEW s \in Session, Pass(s) \/ Apop(s) PROVE Inv'
  <2>1. user' \in [Session -> BOOLEAN]
    BY <1>1, <1>8 DEF Pass, Apop, TypeOK
  <2> QED BY <1>8, <2>1, LoginKeepsInv DEF Pass, Apop
<1>9. ASSUME NEW s \in Session, NEW n \in Numbers(s), Dele(s, n) PROVE Inv'
  BY <1>9, DeleKeepsInv
<1>10. ASSUME NEW s \in Session, Rset(s) PROVE Inv'
  BY <1>10, RsetKeepsInv
<1>11. ASSUME NEW s \in Session, Quit(s) PROVE Inv'
  BY <1>11, QuitKeepsInv
<1>12. ASSUME NEW s \in Session, DeleteNext(s) PROVE Inv'
  BY <1>12, DeleteKeepsInv
<1>13. ASSUME NEW s \in Session, Updated(s) PROVE Inv'
  <2>1. TypeOK'
    BY <1>1, <1>13 DEF TypeOK, Updated, Enter, Numbers
  <2> QED BY <1>13, <2>1, StateStep DEF Updated
<1>14. ASSUME NEW s \in Session, Close(s) PROVE Inv'
  <2>1. TypeOK'
    BY <1>1, <1>14 DEF TypeOK, Close, Enter, Numbers
  <2> QED BY <1>14, <2>1, StateStep DEF Close
<1>15. ASSUME NEW s \in Session, Break(s) PROVE Inv'
  <2>1. TypeOK'
    BY <1>1, <1>15 DEF TypeOK, Break, Numbers
  <2> QED BY <1>15, <2>1, QuietStep DEF Break
<1>16. CASE UNCHANGED vars
  <2>1. TypeOK'
    BY <1>1, <1>16 DEF TypeOK, vars, sessionVars, Numbers
  <2> QED BY <1>16, <2>1, QuietStep DEF vars, sessionVars
<1> QED
  BY <1>2, <1>3, <1>4, <1>5, <1>6, <1>7, <1>8, <1>9, <1>10, <1>11, <1>12, <1>13, <1>14, <1>15, <1>16
  DEF Next, Command

LEMMA Invariant == Spec => []Inv
<1>1. Init => Inv BY InitInv
<1>2. Inv /\ [Next]_vars => Inv' BY NextInv
<1> QED BY <1>1, <1>2, PTL DEF Spec

-----------------------------------------------------------------------------
(* Results *)

(* Sessions keep their types: the marks are always message numbers of the  *)
(* session's own listing.                                                  *)
THEOREM TypeCorrect == Spec => []TypeOK
<1>1. Inv => TypeOK BY DEF Inv
<1> QED BY <1>1, Invariant, PTL

(* The count, the marks and what the client has asked for agree through    *)
(* any mix of DELE and RSET.                                               *)
THEOREM MarksAlwaysAgree == Spec => []MarksAgree
<1>1. Inv => MarksAgree
  BY DEF Inv, SessionInv, Counted, BeforeQuit, Marked, MarksAgree
<1> QED BY <1>1, Invariant, PTL

(* A session removes no message but those its client marked and confirmed, *)
(* however many sessions and others work on the mailbox.                   *)
THEOREM RemovesOnlyPromised == Spec => []OnlyPromised
<1>1. Inv => OnlyPromised
  BY DEF Inv, SessionInv, AfterQuit, OnlyPromised
<1> QED BY <1>1, Invariant, PTL

(* A session that has processed its deletes left none of the promised      *)
(* messages in the mailbox but those the store refused to remove.          *)
THEOREM PromisesAreKept == Spec => []PromiseKept
<1>1. Inv => PromiseKept
  BY DEF Inv, SessionInv, AfterQuit, PromiseKept
<1> QED BY <1>1, Invariant, PTL

(* What a session deletes is what its client marked, was told of and       *)
(* confirmed: processDeletes on the mailbox as it has become by then.      *)
THEOREM DeletesAreAsPromised == Spec => []DeletesAsPromised
<1>1. TypeOK /\ MarksAgree /\ OnlyPromised /\ PromiseKept => DeletesAsPromised
  BY DEF DeletesAsPromised
<1> QED BY <1>1, TypeCorrect, MarksAlwaysAgree, RemovesOnlyPromised, PromisesAreKept, PTL

-----------------------------------------------------------------------------
(* The replies: Pop3Replies.  A session's listing is in ascending order,   *)
(* what the client was told is of that listing, and what it promised to    *)
(* delete is marked from QUIT on.                                          *)

Ordered(s) == \A i, j \in Numbers(s) : i < j => messages[s][i] < messages[s][j]

Listing(s) ==
    /\ Ordered(s)
    /\ told[s] \subseteq {Named(s, n) : n \in Numbers(s)}
    /\ state[s] \in {"none", "AUTHORIZATION"} => told[s] = {}
    /\ promised[s] \subseteq Marked(s)

RepliesTypes ==
    /\ content \in Seq(Contents) /\ Len(content) = last
    /\ own \in [Session -> BOOLEAN]
    /\ told \in [Session -> SUBSET ((1 .. MaxId) \X (1 .. MaxId))]

OwnAgreed == \A s \in Session : own[s] => tlsState \/ ForceTLS

(* The last reply is true of the state that it was sent in, which is the   *)
(* present one: the next step of anybody takes it back.                    *)
ListingSent(s, cmd, kept) ==
    [cmd |-> cmd, to |-> s, count |-> msgCount[s], listed |-> [i \in DOMAIN kept |-> Named(s, kept[i])]]

TextSent(s, n) ==
    [cmd |-> "RETR", to |-> s, n |-> n,
     wire |-> Transfer(messages[s][n], SendMessage(content[messages[s][n]]))]

TopSent(s, n, k) ==
    [cmd |-> "TOP", to |-> s, n |-> n, top |-> k,
     wire |-> Transfer(messages[s][n], SendMessageTop(content[messages[s][n]], k))]

SentTo(s) ==
    \/ reply = [cmd |-> "CAPA", to |-> s, offers |-> TLSEnabled /\ ~tlsState /\ ~ForceTLS]
    \/ reply = [cmd |-> "STLS", to |-> s]
    \/ reply = [cmd |-> "STAT", to |-> s, count |-> Cardinality(retain[s])]
    \/ /\ state[s] = "TRANSACTION"
       /\ \E cmd \in {"LIST", "UIDL"}, kept \in Ascending(retain[s]) : reply = ListingSent(s, cmd, kept)
    \/ \E n \in Numbers(s) : reply = TextSent(s, n) \/ \E k \in 0 .. MaxTop : reply = TopSent(s, n, k)

LastReply == reply = NoReply \/ \E s \in Session : SentTo(s)

RInv ==
    /\ Inv /\ RepliesTypes /\ (\A s \in Session : Listing(s))
    /\ OwnAgreed /\ LastReply

LEMMA InitRInv == RepliesInit => RInv
<1> SUFFICES ASSUME RepliesInit PROVE RInv
  OBVIOUS
<1>1. Inv
  BY InitInv DEF RepliesInit
<1>2. RepliesTypes
  BY DEF RepliesInit, Init, RepliesTypes
<1>3. ASSUME NEW s \in Session PROVE Listing(s)
  <2>1. Numbers(s) = {} /\ told[s] = {} /\ promised[s] = {}
    BY DEF RepliesInit, Init, Numbers
  <2> QED BY <2>1 DEF Listing, Ordered
<1>4. OwnAgreed /\ LastReply
  BY DEF RepliesInit, OwnAgreed, LastReply
<1> QED BY <1>1, <1>2, <1>3, <1>4 DEF RInv

(* What a step of the server does to the listing of a session.             *)
Stays(s) ==
    /\ messages'[s] = messages[s] /\ promised'[s] = promised[s]
    /\ state'[s] \in {"none", "AUTHORIZATION"} => state[s] \in {"none", "AUTHORIZATION"}
    /\ retain'[s] = retain[s] \/ state[s] = "TRANSACTION"

LogsIn(s) ==
    /\ state[s] = "AUTHORIZATION" /\ state'[s] = "TRANSACTION"
    /\ messages'[s] \in Listings /\ promised'[s] = promised[s]

Confirms(s) ==
    /\ state[s] = "TRANSACTION" /\ state'[s] = "UPDATE"
    /\ messages'[s] = messages[s] /\ retain'[s] = retain[s] /\ promised'[s] = asked[s]

LEMMA ListingMoves ==
    ASSUME Inv, [Next]_vars, NEW s \in Session
    PROVE  Stays(s) \/ LogsIn(s) \/ Confirms(s)
<1>1. TypeOK
  BY DEF Inv
<1>2. CASE UNCHANGED vars \/ Deliver \/ \E i \in box : RemoveByOthers(i)
  BY <1>2 DEF vars, sessionVars, Deliver, RemoveByOthers, Stays
<1>3. ASSUME NEW t \in Session, Answer(t) \/ Stls(t) \/ User(t) \/ Break(t) PROVE Stays(s)
  BY <1>3 DEF Answer, Stls, User, Break, Stays
<1>4. ASSUME NEW t \in Session, Connect(t) \/ Updated(t) \/ Close(t) PROVE Stays(s)
  <2>1. UNCHANGED <<messages, promised, retain>>
    BY <1>4 DEF Connect, Updated, Close
  <2>2. /\ state'[s] = state[s] \/ s = t
        /\ state[t] = "none" \/ state'[t] \in {"QUIT", "closed"}
    BY <1>1, <1>4 DEF TypeOK, Connect, Updated, Close, Enter
  <2> QED BY <2>1, <2>2 DEF Stays
<1>5. ASSUME NEW t \in Session, Login(t) PROVE Stays(s) \/ LogsIn(s)
  <2>1. PICK listing \in Listings : messages' = [messages EXCEPT ![t] = listing] /\ RetainAll(t, listing)
    BY <1>5 DEF Login, LoadMailbox
  <2>2. /\ promised' = promised /\ state[t] = "AUTHORIZATION"
        /\ state' = [state EXCEPT ![t] = "TRANSACTION"]
    BY <1>5 DEF Login, Enter, AtPrompt
  <2>3. CASE s = t
    BY <1>1, <2>1, <2>2, <2>3 DEF TypeOK, LogsIn
  <2>4. CASE s # t
    BY <1>1, <2>1, <2>2, <2>4 DEF TypeOK, Stays, RetainAll
  <2> QED BY <2>3, <2>4
<1>6. ASSUME NEW t \in Session, Rset(t) \/ \E n \in Numbers(t) : Dele(t, n) PROVE Stays(s)
  <2>1. UNCHANGED <<messages, promised, state>> /\ state[t] = "TRANSACTION"
    BY <1>6 DEF Rset, Dele, AtPrompt
  <2>2. s # t => retain'[s] = retain[s]
    BY <1>1, <1>6 DEF TypeOK, Rset, Dele, RetainAll
  <2> QED BY <2>1, <2>2 DEF Stays
<1>7. ASSUME NEW t \in Session, Quit(t) PROVE Stays(s) \/ Confirms(s)
  <2>1. UNCHANGED <<messages, retain>>
    BY <1>7 DEF Quit
  <2>2. CASE Enter(t, "QUIT") /\ UNCHANGED promised
    <3>1. state'[s] = state[s] \/ state'[s] = "QUIT"
      BY <1>1, <2>2 DEF TypeOK, Enter
    <3> QED BY <2>1, <2>2, <3>1 DEF Stays
  <2>3. CASE AtPrompt(t, "TRANSACTION") /\ Enter(t, "UPDATE") /\ promised' = [promised EXCEPT ![t] = asked[t]]
    <3>1. CASE s = t
      BY <1>1, <2>1, <2>3, <3>1 DEF TypeOK, Enter, AtPrompt, Confirms
    <3>2. CASE s # t
      BY <1>1, <2>1, <2>3, <3>2 DEF TypeOK, Enter, Stays
    <3> QED BY <3>1, <3>2
  <2> QED BY <1>7, <2>2, <2>3 DEF Quit
<1>8. ASSUME NEW t \in Session, DeleteNext(t) PROVE Stays(s)
  BY <1>8 DEF DeleteNext, Remove, Stays
<1> QED
  BY <1>2, <1>3, <1>4, <1>5, <1>6, <1>7, <1>8 DEF Next, Command, Pass, Apop

LEMMA MessageType ==
    ASSUME TypeOK, NEW s \in Session, NEW n \in Numbers(s)
    PROVE  messages[s][n] \in 1 .. MaxId
<1>1. messages[s] \in Seq(1 .. MaxId)
  BY DEF TypeOK
<1>2. n \in 1 .. Len(messages[s])
  BY DEF Numbers
<1> QED BY <1>1, <1>2, ElementOfSeq

(* No message has two numbers in a listing.                                *)
LEMMA OneNumber ==
    ASSUME TypeOK, NEW s \in Session, Ordered(s), NEW i \in Numbers(s), NEW j \in Numbers(s),
           messages[s][i] = messages[s][j]
    PROVE  i = j
<1>1. /\ i \in Nat /\ j \in Nat
      /\ messages[s][i] \in Nat /\ messages[s][j] \in Nat
  BY MessageType, ServerAssumption DEF TypeOK, Numbers
<1>2. ~(i < j) /\ ~(j < i)
  BY <1>1 DEF Ordered
<1> QED BY <1>1, <1>2

LEMMA ListingOrdered == ASSUME TypeOK, NEW listing \in Listings
                        PROVE  \A i, j \in 1 .. Len(listing) : i < j => listing[i] < listing[j]
<1>1. DOMAIN listing = 1 .. Len(listing)
  BY ListingFacts
<1>2. CASE listing = <<>>
  BY <1>2
<1>3. CASE listing \in InOrder
  BY <1>1, <1>3 DEF InOrder, Ascending
<1> QED BY <1>2, <1>3 DEF Listings

(* A step of the server that tells nothing keeps what was told.            *)
LEMMA ServerKeepsListing ==
    ASSUME Inv, [Next]_vars, NEW s \in Session, Listing(s), told'[s] = told[s]
    PROVE  Listing(s)'
<1>1. TypeOK /\ SessionInv(s)
  BY DEF Inv
<1>2. CASE Stays(s)
  <2>1. Numbers(s)' = Numbers(s) /\ \A n : Named(s, n)' = Named(s, n)
    BY <1>2 DEF Stays, Numbers, Named
  <2>2. promised'[s] \subseteq Marked(s)'
    <3>1. CASE retain'[s] = retain[s]
      BY <1>2, <2>1, <3>1 DEF Stays, Listing, Marked
    <3>2. CASE state[s] = "TRANSACTION"
      BY <1>1, <1>2, <3>2 DEF Stays, SessionInv, BeforeQuit
    <3> QED BY <1>2, <3>1, <3>2 DEF Stays
  <2> QED BY <1>2, <2>1, <2>2 DEF Stays, Listing, Ordered
<1>3. CASE LogsIn(s)
  <2>1. promised'[s] = {} /\ told'[s] = {}
    BY <1>1, <1>3 DEF LogsIn, SessionInv, BeforeQuit, Listing
  <2>2. Ordered(s)'
    BY <1>1, <1>3, ListingOrdered DEF LogsIn, Ordered, Numbers
  <2> QED BY <2>1, <2>2 DEF Listing
<1>4. CASE Confirms(s)
  <2>1. promised'[s] = Marked(s)
    BY <1>1, <1>4 DEF Confirms, SessionInv, BeforeQuit
  <2>2. Marked(s)' = Marked(s) /\ Numbers(s)' = Numbers(s) /\ \A n : Named(s, n)' = Named(s, n)
    BY <1>4 DEF Confirms, Marked, Numbers, Named
  <2> QED BY <1>4, <2>1, <2>2 DEF Confirms, Listing, Ordered
<1> QED BY <1>2, <1>3, <1>4, ListingMoves

(* The server's steps under the replies.                                   *)
LEMMA RepliesStep ==
    ASSUME Inv, [RepliesNext]_<<vars, replyVars>>
    PROVE  [Next]_vars \/ StlsElsewhere
BY DEF RepliesNext, DeliverText, Others, Start, Capa, StlsAgreed, StlsRefused, SaysNoMore, Stat, ListAll,
       ListOne, Retr, Top, Reply, Next, Command

LEMMA ElsewhereKeepsInv == ASSUME Inv, StlsElsewhere PROVE Inv'
<1>1. TypeOK'
  BY DEF Inv, TypeOK, StlsElsewhere, sessionVars, Numbers
<1> QED BY <1>1, QuietStep DEF StlsElsewhere, sessionVars

(* Steps that say nothing: only the types and the agreement on TLS remain  *)
(* to be looked at.                                                        *)
LEMMA SilentKeeps ==
    ASSUME RInv, [Next]_vars \/ StlsElsewhere, told' = told, RepliesTypes', OwnAgreed', LastReply'
    PROVE  RInv'
<1>1. Inv'
  BY NextInv, ElsewhereKeepsInv DEF RInv
<1>2. ASSUME NEW s \in Session PROVE Listing(s)'
  <2>1. CASE [Next]_vars
    BY <2>1, ServerKeepsListing DEF RInv
  <2>2. CASE StlsElsewhere
    <3>1. UNCHANGED <<messages, state, promised, retain>>
      BY <2>2 DEF StlsElsewhere, sessionVars
    <3> QED BY <3>1 DEF RInv, Listing, Ordered, Numbers, Named, Marked
  <2> QED BY <2>1, <2>2
<1> QED BY <1>1, <1>2 DEF RInv

(* A reply changes nothing but what the client has been told.              *)
LEMMA ReplyKeeps ==
    ASSUME RInv, NEW s \in Session, NEW r, Reply(s, r),
           \/ told' = told
           \/ \E N \in SUBSET Numbers(s) :
                 state[s] = "TRANSACTION" /\ told' = [told EXCEPT ![s] = @ \cup {Named(s, n) : n \in N}],
           LastReply'
    PROVE  RInv'
<1>1. TypeOK /\ SessionInv(s) /\ Inv
  BY DEF RInv, Inv
<1>2. Answer(s) /\ UNCHANGED <<content, own>>
  BY DEF Reply
<1>3. [Next]_vars
  BY <1>2 DEF Next, Command
<1>4. UNCHANGED <<last, tlsState, state, messages, retain, promised>>
  BY <1>2 DEF Answer
<1>5. Inv' /\ OwnAgreed'
  BY <1>1, <1>2, <1>3, <1>4, NextInv DEF RInv, OwnAgreed
<1>6. CASE told' = told
  BY <1>2, <1>3, <1>4, <1>5, <1>6, SilentKeeps DEF RInv, RepliesTypes
<1>7. ASSUME NEW N \in SUBSET Numbers(s), state[s] = "TRANSACTION",
             told' = [told EXCEPT ![s] = @ \cup {Named(s, n) : n \in N}]
      PROVE  RInv'
  <2>1. \A n \in Numbers(s) : Named(s, n) \in (1 .. MaxId) \X (1 .. MaxId)
    <3> SUFFICES ASSUME NEW n \in Numbers(s) PROVE Named(s, n) \in (1 .. MaxId) \X (1 .. MaxId)
      OBVIOUS
    <3>1. Len(messages[s]) \in Nat /\ Len(messages[s]) <= MaxId /\ MaxId \in Nat
      BY <1>1, ServerAssumption DEF TypeOK, SessionInv, Known
    <3>2. n \in 1 .. MaxId
      BY <3>1 DEF Numbers
    <3>3. messages[s][n] \in 1 .. MaxId
      BY <1>1, MessageType
    <3> QED BY <3>2, <3>3 DEF Named
  <2>2. {Named(s, n) : n \in N} \in SUBSET ((1 .. MaxId) \X (1 .. MaxId))
    BY <2>1
  <2>3. /\ told' \in [Session -> SUBSET ((1 .. MaxId) \X (1 .. MaxId))]
        /\ told'[s] = told[s] \cup {Named(s, n) : n \in N}
        /\ \A t \in Session \ {s} : told'[t] = told[t]
    <3> DEFINE new == {Named(s, n) : n \in N}
    <3> HIDE DEF new
    <3> QED BY <1>7, <2>2 DEF RInv, RepliesTypes, new
  <2>4. RepliesTypes'
    BY <1>2, <1>4, <2>3 DEF RInv, RepliesTypes
  <2>5. ASSUME NEW t \in Session \ {s} PROVE Listing(t)'
    BY <1>1, <1>3, <2>3, ServerKeepsListing DEF RInv
  <2>6. Listing(s)'
    <3>1. Listing(s)
      BY DEF RInv
    <3>2. /\ Numbers(s)' = Numbers(s) /\ Marked(s)' = Marked(s) /\ \A n : Named(s, n)' = Named(s, n)
          /\ Ordered(s)' = Ordered(s)
      BY <1>4 DEF Numbers, Marked, Named, Ordered
    <3>3. told'[s] \subseteq {Named(s, n) : n \in Numbers(s)}
      BY <2>3, <3>1 DEF Listing
    <3> QED BY <1>4, <1>7, <3>1, <3>2, <3>3 DEF Listing
  <2> QED BY <1>5, <2>4, <2>5, <2>6 DEF RInv
<1> QED BY <1>6, <1>7

LEMMA NextRInv == ASSUME RInv, [RepliesNext]_<<vars, replyVars>> PROVE RInv'
<1>0. Inv /\ TypeOK /\ RepliesTypes /\ OwnAgreed
  BY DEF RInv, Inv
<1>1. reply' = NoReply => LastReply'
  BY DEF LastReply
<1>2. ASSUME UNCHANGED <<vars, replyVars>> PROVE RInv'
  <2>1. LastReply'
    <3>1. UNCHANGED <<box, tlsState, state, messages, retain, msgCount, content, reply>>
      BY <1>2 DEF vars, sessionVars, replyVars
    <3>2. ASSUME NEW s \in Session, SentTo(s) PROVE SentTo(s)'
      <4>1. \A cmd, kept : ListingSent(s, cmd, kept)' = ListingSent(s, cmd, kept)
        BY <3>1 DEF ListingSent, Named
      <4>2. \A n : TextSent(s, n)' = TextSent(s, n)
        BY <3>1 DEF TextSent, Transfer, Readable
      <4>3. \A n, k : TopSent(s, n, k)' = TopSent(s, n, k)
        BY <3>1 DEF TopSent, Transfer, Readable
      <4> QED BY <3>1, <3>2, <4>1, <4>2, <4>3 DEF SentTo, Numbers
    <3> QED BY <3>1, <3>2 DEF RInv, LastReply
  <2>2. RepliesTypes' /\ OwnAgreed' /\ told' = told
    BY <1>0, <1>2 DEF RepliesTypes, OwnAgreed, vars, replyVars
  <2> QED BY <1>2, <2>1, <2>2, SilentKeeps
<1>3. CASE DeliverText
  <2>1. PICK c \in Contents : content' = Append(content, c)
    BY <1>3 DEF DeliverText
  <2>2. Next /\ last' = last + 1 /\ UNCHANGED <<own, told, tlsState>> /\ reply' = NoReply
    BY <1>3 DEF DeliverText, Next, Deliver
  <2>3. RepliesTypes'
    BY <1>0, <2>1, <2>2 DEF RepliesTypes
  <2>4. OwnAgreed'
    BY <1>0, <2>2 DEF OwnAgreed
  <2> QED BY <1>1, <2>2, <2>3, <2>4, SilentKeeps
<1>4. CASE StlsElsewhere
  <2>1. RepliesTypes' /\ OwnAgreed' /\ told' = told /\ reply' = NoReply
    BY <1>0, <1>4 DEF StlsElsewhere, RepliesTypes, OwnAgreed
  <2> QED BY <1>1, <1>4, <2>1, SilentKeeps
<1>5. CASE Others
  <2>1. Next
    BY <1>5 DEF Others, Next, Command
  <2>2. UNCHANGED <<content, own, told, last>> /\ (tlsState' = tlsState) /\ reply' = NoReply
    BY <1>5 DEF Others, RemoveByOthers, User, Pass, Apop, Login, Rset, Quit, Dele, DeleteNext, Remove, Updated, Close,
                Break
  <2>3. RepliesTypes' /\ OwnAgreed'
    BY <1>0, <2>2 DEF RepliesTypes, OwnAgreed
  <2> QED BY <1>1, <2>1, <2>2, <2>3, SilentKeeps
<1>6. ASSUME NEW s \in Session, Start(s) PROVE RInv'
  <2>1. Next
    BY <1>6 DEF Start, Next
  <2>2. /\ UNCHANGED <<content, told, last>> /\ reply' = NoReply
        /\ tlsState' = (tlsState \/ ForceTLS) /\ own' = [own EXCEPT ![s] = ForceTLS]
    BY <1>6 DEF Start, Connect
  <2>3. RepliesTypes'
    BY <1>0, <2>2, ServerAssumption DEF RepliesTypes
  <2>4. OwnAgreed'
    BY <1>0, <2>2 DEF RepliesTypes, OwnAgreed
  <2> QED BY <1>1, <2>1, <2>2, <2>3, <2>4, SilentKeeps
<1>7. ASSUME NEW s \in Session, StlsAgreed(s) PROVE RInv'
  <2>1. Next
    BY <1>7 DEF StlsAgreed, Next, Command
  <2>2. /\ UNCHANGED <<content, told, last>> /\ reply' = NoReply
        /\ tlsState' = TRUE /\ own' = [own EXCEPT ![s] = TRUE]
    BY <1>7 DEF StlsAgreed, Stls
  <2>3. RepliesTypes'
    BY <1>0, <2>2 DEF RepliesTypes
  <2>4. OwnAgreed'
    BY <1>0, <2>2 DEF OwnAgreed
  <2> QED BY <1>1, <2>1, <2>2, <2>3, <2>4, SilentKeeps
<1>8. ASSUME NEW s \in Session, NEW r, Reply(s, r)
      PROVE  /\ UNCHANGED <<box, tlsState, retain, state, messages, msgCount, content>> /\ reply' = r
             /\ LastReply' <=> (r = NoReply \/ \E t \in Session : SentTo(t)')
  BY <1>8 DEF Reply, Answer, LastReply
<1>9. ASSUME NEW s \in Session, Capa(s) \/ StlsRefused(s) \/ SaysNoMore(s) \/ Stat(s) PROVE RInv'
  <2>1. CASE Capa(s)
    <3> DEFINE r == [cmd |-> "CAPA", to |-> s, offers |-> TLSEnabled /\ ~tlsState /\ ~ForceTLS]
    <3>1. Reply(s, r) /\ told' = told
      BY <2>1 DEF Capa
    <3>2. SentTo(s)'
      BY <1>8, <3>1 DEF SentTo
    <3> QED BY <1>8, <3>1, <3>2, ReplyKeeps
  <2>2. CASE StlsRefused(s)
    <3> DEFINE r == [cmd |-> "STLS", to |-> s]
    <3>1. Reply(s, r) /\ told' = told
      BY <2>2 DEF StlsRefused
    <3>2. SentTo(s)'
      BY <1>8, <3>1 DEF SentTo
    <3> QED BY <1>8, <3>1, <3>2, ReplyKeeps
  <2>3. CASE SaysNoMore(s)
    BY <1>8, <2>3, ReplyKeeps DEF SaysNoMore
  <2>4. CASE Stat(s)
    <3> DEFINE r == [cmd |-> "STAT", to |-> s, count |-> Cardinality(retain[s])]
    <3>1. Reply(s, r) /\ told' = told
      BY <2>4 DEF Stat
    <3>2. SentTo(s)'
      BY <1>8, <3>1 DEF SentTo
    <3> QED BY <1>8, <3>1, <3>2, ReplyKeeps
  <2> QED BY <1>9, <2>1, <2>2, <2>3, <2>4
<1>10. ASSUME NEW s \in Session, NEW cmd \in {"LIST", "UIDL"}, ListAll(s, cmd) PROVE RInv'
  <2>1. PICK kept \in Ascending(retain[s]) :
          LET listed == [i \in DOMAIN kept |-> Named(s, kept[i])]
          IN  /\ state[s] = "TRANSACTION"
              /\ Reply(s, [cmd |-> cmd, to |-> s, count |-> msgCount[s], listed |-> listed])
              /\ told' = [told EXCEPT ![s] = @ \cup {listed[i] : i \in DOMAIN listed}]
    BY <1>10 DEF ListAll
  <2> DEFINE r == ListingSent(s, cmd, kept)
             N == {kept[i] : i \in DOMAIN kept}
  <2>2. Reply(s, r) /\ state[s] = "TRANSACTION"
    BY <2>1 DEF ListingSent
  <2>3. N \in SUBSET Numbers(s)
    BY <1>0 DEF Ascending, TypeOK
  <2>4. told' = [told EXCEPT ![s] = @ \cup {Named(s, n) : n \in N}]
    <3> DEFINE listed == [i \in DOMAIN kept |-> Named(s, kept[i])]
    <3>1. {listed[i] : i \in DOMAIN listed} = {Named(s, n) : n \in N}
      OBVIOUS
    <3> QED BY <2>1, <3>1
  <2> HIDE DEF N
  <2>5. SentTo(s)'
    <3>1. UNCHANGED <<retain, state, messages, msgCount>> /\ reply' = r
      BY <1>8, <2>2
    <3>2. r = ListingSent(s, cmd, kept)' /\ kept \in Ascending(retain'[s])
      BY <3>1 DEF ListingSent, Named
    <3> QED BY <2>2, <3>1, <3>2 DEF SentTo
  <2> QED BY <1>8, <2>2, <2>3, <2>4, <2>5, ReplyKeeps
<1>11. ASSUME NEW s \in Session, NEW n \in Numbers(s), ListOne(s, n) PROVE RInv'
  <2>1. Reply(s, NoReply) /\ state[s] = "TRANSACTION" /\ told' = [told EXCEPT ![s] = @ \cup {Named(s, n)}]
    BY <1>11 DEF ListOne
  <2>2. {n} \in SUBSET Numbers(s) /\ {Named(s, n)} = {Named(s, m) : m \in {n}}
    OBVIOUS
  <2>3. told' = [told EXCEPT ![s] = @ \cup {Named(s, m) : m \in {n}}]
    BY <2>1, <2>2
  <2> QED BY <1>8, <2>1, <2>2, <2>3, ReplyKeeps
<1>12. ASSUME NEW s \in Session, NEW n \in Numbers(s), Retr(s, n) PROVE RInv'
  <2>1. Reply(s, TextSent(s, n)) /\ told' = told
    BY <1>12 DEF Retr, TextSent
  <2>2. SentTo(s)'
    <3>1. UNCHANGED <<box, messages, content>> /\ reply' = TextSent(s, n)
      BY <1>8, <2>1
    <3>2. TextSent(s, n)' = TextSent(s, n) /\ n \in Numbers(s)'
      BY <3>1 DEF TextSent, Transfer, Readable, Numbers
    <3> QED BY <3>1, <3>2 DEF SentTo
  <2> QED BY <1>8, <2>1, <2>2, ReplyKeeps
<1>13. ASSUME NEW s \in Session, NEW n \in Numbers(s), NEW k \in 0 .. MaxTop, Top(s, n, k) PROVE RInv'
  <2>1. Reply(s, TopSent(s, n, k)) /\ told' = told
    BY <1>13 DEF Top, TopSent
  <2>2. SentTo(s)'
    <3>1. UNCHANGED <<box, messages, content>> /\ reply' = TopSent(s, n, k)
      BY <1>8, <2>1
    <3>2. TopSent(s, n, k)' = TopSent(s, n, k) /\ n \in Numbers(s)'
      BY <3>1 DEF TopSent, Transfer, Readable, Numbers
    <3> QED BY <3>1, <3>2 DEF SentTo
  <2> QED BY <1>8, <2>1, <2>2, ReplyKeeps
<1> QED
  BY <1>2, <1>3, <1>4, <1>5, <1>6, <1>7, <1>9, <1>10, <1>11, <1>12, <1>13 DEF RepliesNext

LEMMA RepliesInvariant == RepliesSpec => []RInv
BY InitRInv, NextRInv, PTL DEF RepliesSpec

(* A number that a session has told names one message, and a message has   *)
(* one number, until the session deletes by those numbers.                 *)
THEOREM NumbersAreLasting == RepliesSpec => []NumbersLast
<1>1. RInv => NumbersLast
  <2> SUFFICES ASSUME RInv, NEW s \in Session
               PROVE  /\ \A a, b \in told[s] : a[1] = b[1] <=> a[2] = b[2]
                      /\ removed[s] \subseteq {messages[s][n] : n \in Numbers(s)}
                      /\ \A t \in told[s] : t[2] \in removed[s] => t[1] \notin retain[s]
    BY DEF NumbersLast
  <2>1. TypeOK /\ SessionInv(s) /\ Listing(s)
    BY DEF RInv, Inv
  <2>2. \A t \in told[s] : t[1] \in Numbers(s) /\ t[2] = messages[s][t[1]]
    BY <2>1 DEF Listing, Named
  <2>3. \A i, j \in Numbers(s) : messages[s][i] = messages[s][j] => i = j
    BY <2>1, OneNumber DEF Listing
  <2>4. removed[s] \subseteq Marked(s)
    BY <2>1 DEF SessionInv, AfterQuit, Listing
  <2>5. \A t \in told[s] : t[2] \in removed[s] => t[1] \notin retain[s]
    BY <2>2, <2>3, <2>4 DEF Marked
  <2>6. removed[s] \subseteq {messages[s][n] : n \in Numbers(s)}
    BY <2>4 DEF Marked
  <2> QED BY <2>2, <2>3, <2>5, <2>6
<1> QED BY <1>1, RepliesInvariant, PTL

(* The counts, the listings and the offer of TLS in a status line are true *)
(* of the session and of its client.                                       *)
THEOREM StatusLinesAreTrue == RepliesSpec => []RepliesAreTrue
<1>1. RInv => RepliesAreTrue
  <2> SUFFICES ASSUME RInv PROVE RepliesAreTrue
    OBVIOUS
  <2>1. Inv /\ TypeOK /\ LastReply /\ OwnAgreed
    BY DEF RInv, Inv
  <2>2. \A i \in DOMAIN content : content[i] \in Contents
    BY DEF RInv, RepliesTypes
  <2>3. CASE reply = NoReply
    BY <2>1, <2>2, <2>3 DEF NoReply, RepliesAreTrue, RepliesTypeOK, CountsAgree, NeverTwice, RInv, RepliesTypes
  <2>4. ASSUME NEW s \in Session, SentTo(s)
        PROVE  /\ reply.cmd \in {"CAPA", "STLS", "STAT", "LIST", "UIDL", "RETR", "TOP"} /\ reply.to = s
               /\ CountsAgree /\ NeverTwice
    <3>1. SessionInv(s) /\ Listing(s)
      BY DEF RInv, Inv
    <3>2. CASE reply = [cmd |-> "CAPA", to |-> s, offers |-> TLSEnabled /\ ~tlsState /\ ~ForceTLS]
      BY <2>1, <3>2 DEF CountsAgree, NeverTwice, OwnAgreed
    <3>3. CASE reply = [cmd |-> "STLS", to |-> s]
      BY <3>3 DEF CountsAgree, NeverTwice
    <3>4. CASE reply = [cmd |-> "STAT", to |-> s, count |-> Cardinality(retain[s])]
      BY <3>1, <3>4 DEF CountsAgree, NeverTwice, SessionInv, Counted
    <3>5. ASSUME state[s] = "TRANSACTION", NEW cmd \in {"LIST", "UIDL"}, NEW kept \in Ascending(retain[s]),
                 reply = ListingSent(s, cmd, kept)
          PROVE  reply.cmd \in {"LIST", "UIDL"} /\ reply.to = s /\ CountsAgree
      <4> DEFINE listed == [i \in DOMAIN kept |-> Named(s, kept[i])]
      <4>1. reply.cmd = cmd /\ reply.to = s /\ reply.count = msgCount[s] /\ reply.listed = listed
        BY <3>5 DEF ListingSent
      <4>2. msgCount[s] \in Nat /\ DOMAIN kept = 1 .. msgCount[s] /\ kept \in [1 .. msgCount[s] -> retain[s]]
        BY <2>1, <3>1 DEF SessionInv, Counted, Ascending, TypeOK
      <4>3. Len(listed) = msgCount[s]
        BY <4>2
      <4>4. asked[s] = Marked(s) /\ retain[s] \subseteq Numbers(s)
        BY <2>1, <3>1, <3>5 DEF SessionInv, BeforeQuit, TypeOK
      <4>5. ASSUME NEW i \in DOMAIN listed PROVE listed[i][2] \notin asked[s]
        <5>1. kept[i] \in retain[s] /\ listed[i][2] = messages[s][kept[i]]
          BY <4>2 DEF Named
        <5> QED BY <2>1, <3>1, <4>4, <5>1, OneNumber DEF Marked, Listing
      <4> QED BY <4>1, <4>3, <4>5 DEF CountsAgree
    <3>6. CASE \E n \in Numbers(s) : reply = TextSent(s, n) \/ \E k \in 0 .. MaxTop : reply = TopSent(s, n, k)
      <4>1. reply.cmd \in {"RETR", "TOP"} /\ reply.to = s
        BY <3>6 DEF TextSent, TopSent
      <4> QED BY <4>1 DEF CountsAgree, NeverTwice
    <3> QED BY <2>4, <3>2, <3>3, <3>4, <3>5, <3>6 DEF SentTo, NeverTwice
  <2>5. ASSUME reply # NoReply PROVE RepliesAreTrue
    <3>1. PICK s \in Session : SentTo(s)
      BY <2>1, <2>5 DEF LastReply
    <3> QED BY <2>1, <2>2, <2>4, <3>1 DEF RepliesAreTrue, RepliesTypeOK, RInv, RepliesTypes
  <2> QED BY <2>3, <2>5
<1> QED BY <1>1, RepliesInvariant, PTL

-----------------------------------------------------------------------------
(* The text of a message, to the wire and back *)

(* Lines of text and of replies; the provers do not know what is in STRING. *)
TextLine == [dots : Nat, text : STRING \cup {"+OK", "-ERR", ""}]

LEMMA LeastIn ==
    ASSUME NEW S, S \subseteq Nat, S # {}
    PROVE  Min(S) \in S /\ \A y \in S : Min(S) =< y
<1> DEFINE R == {ss \in Nat \X Nat : ss[1] < ss[2]}
<1>1. IsWellFoundedOn(R, Nat)
  BY NatLessThanWellFounded DEF OpToRel
<1>2. \A x, y \in Nat : x < y => <<x, y>> \in R
  OBVIOUS
<1> HIDE DEF R
<1>3. PICK x \in S : \A y \in S : ~ (<<y, x>> \in R)
  BY <1>1, WFMin
<1>4. ASSUME NEW y \in S PROVE x =< y
  <2>1. x \in Nat /\ y \in Nat /\ ~ (<<y, x>> \in R)
    BY <1>3
  <2>2. ~ (y < x)
    BY <1>2, <2>1
  <2> QED BY <2>1, <2>2
<1>5. \E z \in S : \A y \in S : z =< y
  BY <1>3, <1>4
<1> QED BY <1>5 DEF Min

LEMMA LeastIs ==
    ASSUME NEW S, S \subseteq Nat, NEW x \in S, \A y \in S : x =< y
    PROVE  Min(S) = x
<1>1. Min(S) \in S /\ Min(S) =< x
  BY LeastIn
<1>2. x =< Min(S) /\ x \in Nat /\ Min(S) \in Nat
  BY <1>1
<1> QED BY <1>1, <1>2

LEMMA LineTypes ==
    /\ Ok \in TextLine /\ Err \in TextLine /\ End \in TextLine /\ Blank \in TextLine
    /\ \A line \in TextLine : Stuffed(line) \in TextLine
<1>1. \A dots \in Nat, text \in STRING \cup {"+OK", "-ERR", ""} : Line(dots, text) \in TextLine
  BY DEF Line, TextLine
<1>2. \A text \in {"+OK", "-ERR", ""} : text \in STRING \cup {"+OK", "-ERR", ""}
  OBVIOUS
<1>3. Ok \in TextLine /\ Err \in TextLine /\ End \in TextLine /\ Blank \in TextLine
  <2>1. 0 \in Nat /\ 1 \in Nat
    OBVIOUS
  <2> QED BY <1>1, <1>2, <2>1 DEF Ok, Err, End, Blank
<1>4. ASSUME NEW line \in TextLine PROVE Stuffed(line) \in TextLine
  <2>1. line.text \in STRING \cup {"+OK", "-ERR", ""}
    BY DEF TextLine
  <2>2. line.dots \in Nat
    BY DEF TextLine
  <2>3. line.dots + 1 \in Nat
    BY <2>2
  <2> QED BY <1>1, <2>1, <2>3 DEF Stuffed
<1> QED BY <1>3, <1>4

(* Stuffing keeps a line of text from being the end, and is taken back; it *)
(* makes no line blank that was not.                                       *)
LEMMA Stuffing ==
    ASSUME NEW line \in TextLine
    PROVE  /\ Stuffed(line) # End /\ Unstuffed(Stuffed(line)) = line
           /\ Stuffed(line) = Blank <=> line = Blank
<1>1. line.dots \in Nat /\ line = [dots |-> line.dots, text |-> line.text]
  BY DEF TextLine
<1>2. End.dots = 1 /\ Blank.dots = 0
  BY DEF End, Blank, Line
<1>3. CASE line.dots > 0
  <2>1. Stuffed(line) = [dots |-> line.dots + 1, text |-> line.text]
    BY <1>3 DEF Stuffed, Line
  <2>2. Stuffed(line).dots = line.dots + 1 /\ Stuffed(line).text = line.text
    BY <2>1
  <2>3. line.dots + 1 > 0 /\ line.dots + 1 # 1 /\ line.dots + 1 # 0 /\ line.dots + 1 - 1 = line.dots
    BY <1>1, <1>3
  <2>4. Unstuffed(Stuffed(line)) = [dots |-> line.dots, text |-> line.text]
    <3>1. Stuffed(line).dots > 0 /\ Stuffed(line).dots - 1 = line.dots
      BY <1>1, <2>2, <2>3
    <3>2. Unstuffed(Stuffed(line)) = Line(Stuffed(line).dots - 1, Stuffed(line).text)
      BY <3>1 DEF Unstuffed
    <3> QED BY <2>2, <3>1, <3>2 DEF Line
  <2>5. Stuffed(line) # End /\ Stuffed(line) # Blank /\ line # Blank
    BY <1>2, <1>3, <2>2, <2>3
  <2> QED BY <1>1, <2>4, <2>5
<1>4. CASE ~ (line.dots > 0)
  <2>1. Stuffed(line) = line /\ line.dots = 0
    BY <1>1, <1>4 DEF Stuffed
  <2>2. Unstuffed(line) = line /\ line # End
    BY <1>2, <1>4, <2>1 DEF Unstuffed
  <2> QED BY <2>1, <2>2
<1> QED BY <1>3, <1>4

(* The lines that are scanned are those before the one that is too long.   *)
LEMMA Scanning ==
    ASSUME NEW lines \in Seq(TextLine)
    PROVE  /\ Scanned(lines) \in Seq(TextLine) /\ Len(Scanned(lines)) \in 0 .. Len(lines)
           /\ \A i \in 1 .. Len(Scanned(lines)) : Scanned(lines)[i] = lines[i]
           /\ ~ScanFails(lines) => Len(Scanned(lines)) = Len(lines)
<1> DEFINE bad == {i \in DOMAIN lines : lines[i] = TooLong}
           stop == Min(bad \cup {Len(lines) + 1})
<1>1. /\ Len(lines) \in Nat /\ DOMAIN lines = 1 .. Len(lines)
      /\ \A i \in 1 .. Len(lines) : lines[i] \in TextLine
  BY LenProperties, ElementOfSeq
<1>2. stop \in 1 .. Len(lines) + 1
  <2>1. bad \cup {Len(lines) + 1} \subseteq 1 .. Len(lines) + 1 /\ 1 .. Len(lines) + 1 \subseteq Nat
    BY <1>1
  <2> HIDE DEF bad
  <2> QED BY <2>1, LeastIn
<1>3. ~ScanFails(lines) => stop = Len(lines) + 1
  <2>1. ~ScanFails(lines) => bad \cup {Len(lines) + 1} = {Len(lines) + 1}
    BY DEF ScanFails
  <2>2. Min({Len(lines) + 1}) = Len(lines) + 1
    <3>1. Len(lines) + 1 \in Nat /\ {Len(lines) + 1} \subseteq Nat
      BY <1>1
    <3>2. Min({Len(lines) + 1}) \in {Len(lines) + 1}
      BY <3>1, LeastIn
    <3> QED BY <3>2
  <2> QED BY <2>1, <2>2
<1>4. Scanned(lines) = SubSeq(lines, 1, stop - 1)
  BY DEF Scanned
<1> HIDE DEF stop
<1>5. stop - 1 \in 0 .. Len(lines) /\ \A i \in 1 .. stop - 1 : lines[i] \in TextLine
  BY <1>1, <1>2
<1>6. /\ SubSeq(lines, 1, stop - 1) \in Seq(TextLine)
      /\ Len(SubSeq(lines, 1, stop - 1)) = stop - 1
      /\ \A i \in 1 .. stop - 1 : SubSeq(lines, 1, stop - 1)[i] = lines[i]
  BY <1>5
<1> QED BY <1>1, <1>3, <1>4, <1>5, <1>6

(* What was sent of a text, and the client reads back.                     *)
SendsText(sending, lines, m, cutShort) ==
    \E sent \in Seq(TextLine) :
        /\ Len(sent) = m /\ \A i \in 1 .. m : sent[i] = Stuffed(lines[i])
        /\ sending = sent \o Ending(cutShort)

LEMMA ReadBack ==
    ASSUME NEW lines \in Seq(TextLine), NEW m \in 0 .. Len(lines), NEW cutShort \in BOOLEAN, NEW sending,
           SendsText(sending, lines, m, cutShort)
    PROVE  /\ Body(<<Ok>> \o sending) = SubSeq(lines, 1, m)
           /\ ~cutShort => OneReply(<<Ok>> \o sending)
<1>1. PICK sent \in Seq(TextLine) :
          /\ Len(sent) = m /\ \A i \in 1 .. m : sent[i] = Stuffed(lines[i])
          /\ sending = sent \o Ending(cutShort)
  BY DEF SendsText
<1> DEFINE wire == <<Ok>> \o sending
           more == IF cutShort THEN 2 ELSE 1
<1>2. /\ Len(lines) \in Nat /\ m \in Nat /\ \A i \in 1 .. m : lines[i] \in TextLine
  BY LenProperties, ElementOfSeq
<1>3. /\ Ending(cutShort) \in Seq(TextLine) /\ Len(Ending(cutShort)) = more
      /\ Ending(cutShort)[1] = End
  BY LineTypes DEF Ending
<1>4. /\ sending \in Seq(TextLine) /\ Len(sending) = m + more
      /\ \A i \in 1 .. m : sending[i] = Stuffed(lines[i])
      /\ sending[m + 1] = End
  <2>1. /\ sending \in Seq(TextLine) /\ Len(sending) = m + more
        /\ \A i \in 1 .. m + more : sending[i] = IF i <= m THEN sent[i] ELSE Ending(cutShort)[i - m]
    <3> HIDE DEF more
    <3>1. /\ sent \o Ending(cutShort) \in Seq(TextLine)
          /\ Len(sent \o Ending(cutShort)) = Len(sent) + Len(Ending(cutShort))
          /\ \A i \in 1 .. Len(sent) + Len(Ending(cutShort)) :
                (sent \o Ending(cutShort))[i] = IF i <= Len(sent) THEN sent[i] ELSE Ending(cutShort)[i - Len(sent)]
      BY <1>3, ConcatProperties
    <3> QED BY <1>1, <1>3, <3>1
  <2>2. m + 1 \in 1 .. m + more /\ ~ (m + 1 <= m) /\ m + 1 - m = 1
    BY <1>2
  <2>3. \A i \in 1 .. m : i \in 1 .. m + more /\ i <= m
    BY <1>2
  <2> QED BY <1>1, <1>3, <2>1, <2>2, <2>3
<1>5. <<Ok>> \in Seq(TextLine) /\ Len(<<Ok>>) = 1
  BY LineTypes
<1>6. /\ wire \in Seq(TextLine) /\ Len(wire) = 1 + (m + more)
      /\ \A i \in 1 .. 1 + (m + more) : wire[i] = IF i <= 1 THEN <<Ok>>[i] ELSE sending[i - 1]
  BY <1>4, <1>5, ConcatProperties
<1>7. /\ \A i \in 1 .. m : wire[i + 1] = Stuffed(lines[i])
      /\ wire[m + 2] = End
      /\ Len(wire) \in Nat /\ m + 2 <= Len(wire) /\ (~cutShort => Len(wire) = m + 2)
  <2>1. \A i \in 1 .. m + 1 : i + 1 \in 1 .. 1 + (m + more) /\ ~ (i + 1 <= 1) /\ (i + 1) - 1 = i
    BY <1>2
  <2>2. \A i \in 1 .. m + 1 : wire[i + 1] = sending[i]
    <3> HIDE DEF wire, more
    <3> QED BY <1>6, <2>1
  <2>3. wire[m + 2] = sending[m + 1]
    <3>1. m + 1 \in 1 .. m + 1 /\ (m + 1) + 1 = m + 2
      BY <1>2
    <3> HIDE DEF wire
    <3> QED BY <2>2, <3>1
  <2>4. \A i \in 1 .. m : i \in 1 .. m + 1
    BY <1>2
  <2>5. Len(wire) \in Nat /\ m + 2 <= Len(wire) /\ (~cutShort => Len(wire) = m + 2)
    BY <1>2, <1>6
  <2> HIDE DEF wire
  <2> QED BY <1>4, <2>2, <2>3, <2>4, <2>5
<1> HIDE DEF wire
<1>8. EndsAt(wire) = m + 2
  <2> DEFINE ends == {i \in 2 .. Len(wire) : wire[i] = End} \cup {Len(wire) + 1}
  <2>1. m + 2 \in ends /\ ends \subseteq Nat
    BY <1>2, <1>7
  <2>2. ASSUME NEW y \in ends, y < m + 2 PROVE FALSE
    <3>1. y \in 2 .. Len(wire) /\ wire[y] = End
      BY <1>2, <1>7, <2>2
    <3>2. y - 1 \in 1 .. m /\ (y - 1) + 1 = y
      BY <1>2, <2>2, <3>1
    <3>3. wire[y] = Stuffed(lines[y - 1]) /\ lines[y - 1] \in TextLine
      BY <1>2, <1>7, <3>2
    <3> QED BY <3>1, <3>3, Stuffing
  <2>3. \A y \in ends : m + 2 =< y
    BY <1>2, <2>1, <2>2
  <2> HIDE DEF ends
  <2>4. Min(ends) = m + 2
    BY <2>1, <2>3, LeastIs
  <2> QED BY <2>4 DEF EndsAt, ends
<1>9. Body(wire) = [i \in 1 .. m |-> lines[i]]
  <2>1. m + 2 - 2 = m
    BY <1>2
  <2>2. \A i \in 1 .. m : Unstuffed(wire[i + 1]) = lines[i]
    BY <1>2, <1>7, Stuffing
  <2> QED BY <1>8, <2>1, <2>2 DEF Body
<1>10. SubSeq(lines, 1, m) = [i \in 1 .. m |-> lines[i]]
  BY <1>2
<1> QED BY <1>7, <1>8, <1>9, <1>10 DEF OneReply, wire

LEMMA RetrSends ==
    ASSUME NEW lines \in Seq(TextLine)
    PROVE  SendsText(SendMessage(lines), lines, Len(Scanned(lines)), ScanFails(lines))
<1> DEFINE sent == [i \in DOMAIN Scanned(lines) |-> Stuffed(Scanned(lines)[i])]
           m == Len(Scanned(lines))
<1>1. /\ m \in Nat /\ DOMAIN Scanned(lines) = 1 .. m
      /\ \A i \in 1 .. m : Scanned(lines)[i] = lines[i] /\ lines[i] \in TextLine
  BY Scanning, LenProperties, ElementOfSeq
<1>2. \A i \in 1 .. m : Stuffed(lines[i]) \in TextLine
  BY <1>1, LineTypes
<1> HIDE DEF m
<1>3. sent = [i \in 1 .. m |-> Stuffed(lines[i])]
  BY <1>1
<1>4. sent \in Seq(TextLine) /\ Len(sent) = m /\ \A i \in 1 .. m : sent[i] = Stuffed(lines[i])
  BY <1>1, <1>2, <1>3
<1>5. SendMessage(lines) = sent \o Ending(ScanFails(lines))
  BY DEF SendMessage
<1> HIDE DEF sent
<1> QED BY <1>4, <1>5 DEF SendsText, m

(* TOP: the loop, with what was sent of the text; after turn i, when the   *)
(* header ends at line h.                                                  *)
Loop(sent, inBody, left, done) == [sent |-> sent, inBody |-> inBody, left |-> left, done |-> done]
Sent(lines, m) == [j \in 1 .. m |-> Stuffed(lines[j])]

Turned(lines, n, h, i) ==
    IF i < h THEN Loop(Sent(lines, i), FALSE, n, FALSE)
    ELSE IF i <= h + n THEN Loop(Sent(lines, i), TRUE, n - (i - h), FALSE)
    ELSE Loop(Sent(lines, h + n), TRUE, 0, TRUE)

LEMMA TopLineCases ==
    ASSUME NEW sent, NEW line, NEW left \in Int
    PROVE  /\ \A b : TopLine(Loop(sent, b, left, TRUE), line) = Loop(sent, b, left, TRUE)
           /\ left < 1 => TopLine(Loop(sent, TRUE, left, FALSE), line) = Loop(sent, TRUE, left, TRUE)
           /\ left >= 1 => TopLine(Loop(sent, TRUE, left, FALSE), line)
                                = Loop(Append(sent, Stuffed(line)), TRUE, left - 1, FALSE)
           /\ Stuffed(line) = Blank => TopLine(Loop(sent, FALSE, left, FALSE), line)
                                = Loop(Append(sent, Stuffed(line)), TRUE, left, FALSE)
           /\ Stuffed(line) # Blank => TopLine(Loop(sent, FALSE, left, FALSE), line)
                                = Loop(Append(sent, Stuffed(line)), FALSE, left, FALSE)
<1>1. \A b : TopLine(Loop(sent, b, left, TRUE), line) = Loop(sent, b, left, TRUE)
  BY DEF TopLine, Loop
<1>2. left < 1 => TopLine(Loop(sent, TRUE, left, FALSE), line) = Loop(sent, TRUE, left, TRUE)
  BY DEF TopLine, Loop
<1>3. left >= 1 => TopLine(Loop(sent, TRUE, left, FALSE), line)
                       = Loop(Append(sent, Stuffed(line)), TRUE, left - 1, FALSE)
  <2>1. left >= 1 => ~ (left < 1)
    OBVIOUS
  <2>2. ~ (left < 1) => TopLine(Loop(sent, TRUE, left, FALSE), line)
                            = Loop(Append(sent, Stuffed(line)), TRUE, left - 1, FALSE)
    BY DEF TopLine, Loop
  <2> QED BY <2>1, <2>2
<1>4. Stuffed(line) = Blank => TopLine(Loop(sent, FALSE, left, FALSE), line)
                       = Loop(Append(sent, Stuffed(line)), TRUE, left, FALSE)
  BY DEF TopLine, Loop
<1>5. Stuffed(line) # Blank => TopLine(Loop(sent, FALSE, left, FALSE), line)
                       = Loop(Append(sent, Stuffed(line)), FALSE, left, FALSE)
  BY DEF TopLine, Loop
<1> QED BY <1>1, <1>2, <1>3, <1>4, <1>5

HeaderEnd(lines) == Min({i \in 1 .. Len(lines) : lines[i] = Blank} \cup {Len(lines) + 1})

LEMMA HeaderEnds ==
    ASSUME NEW lines \in Seq(TextLine)
    PROVE  /\ Len(lines) \in Nat /\ HeaderEnd(lines) \in 1 .. Len(lines) + 1
           /\ \A i \in 1 .. Len(lines) : i <= HeaderEnd(lines) => (lines[i] = Blank <=> i = HeaderEnd(lines))
<1> DEFINE blank == {i \in 1 .. Len(lines) : lines[i] = Blank} \cup {Len(lines) + 1}
<1>1. Len(lines) \in Nat
  OBVIOUS
<1>2. blank # {} /\ blank \subseteq Nat /\ blank \subseteq 1 .. Len(lines) + 1
  BY <1>1
<1>3. /\ \A i \in 1 .. Len(lines) : lines[i] = Blank => i \in blank
      /\ \A i \in blank : i <= Len(lines) => lines[i] = Blank
  BY <1>1
<1> HIDE DEF blank
<1>4. Min(blank) \in blank /\ \A i \in blank : Min(blank) =< i
  BY <1>2, LeastIn
<1>5. HeaderEnd(lines) = Min(blank)
  BY DEF HeaderEnd, blank
<1>6. ASSUME NEW i \in 1 .. Len(lines), i <= Min(blank)
      PROVE  lines[i] = Blank <=> i = Min(blank)
  <2>1. Min(blank) \in Nat /\ i \in Nat
    <3>1. Min(blank) \in 1 .. Len(lines) + 1
      BY <1>2, <1>4
    <3> QED BY <1>1, <3>1
  <2> QED BY <1>1, <1>3, <1>4, <1>6, <2>1
<1> QED BY <1>1, <1>2, <1>4, <1>5, <1>6

LEMMA OneTurn ==
    ASSUME NEW lines \in Seq(TextLine), NEW n \in Nat, NEW i \in 1 .. Len(lines)
    PROVE  TopLine(Turned(lines, n, HeaderEnd(lines), i - 1), lines[i]) = Turned(lines, n, HeaderEnd(lines), i)
<1> DEFINE h == HeaderEnd(lines)
           before == Turned(lines, n, h, i - 1)
           after == Turned(lines, n, h, i)
<1>1. /\ Len(lines) \in Nat /\ h \in Nat /\ i \in Nat /\ i - 1 \in Nat /\ h + n \in Nat
      /\ lines[i] \in TextLine
      /\ i <= h => (lines[i] = Blank <=> i = h)
  BY HeaderEnds, ElementOfSeq
<1>2. Stuffed(lines[i]) = Blank <=> lines[i] = Blank
  BY <1>1, Stuffing
<1>3. Append(Sent(lines, i - 1), Stuffed(lines[i])) = Sent(lines, i)
  <2>1. \A j \in 1 .. i : Stuffed(lines[j]) \in TextLine
    BY <1>1, LineTypes, ElementOfSeq
  <2>2. Sent(lines, i - 1) \in Seq(TextLine) /\ Len(Sent(lines, i - 1)) = i - 1
    BY <1>1, <2>1 DEF Sent
  <2>3. Sent(lines, i) \in Seq(TextLine) /\ Len(Sent(lines, i)) = i
    BY <1>1, <2>1 DEF Sent
  <2>4. Stuffed(lines[i]) \in TextLine
    BY <1>1, <2>1
  <2>5. /\ Append(Sent(lines, i - 1), Stuffed(lines[i])) \in Seq(TextLine)
        /\ Len(Append(Sent(lines, i - 1), Stuffed(lines[i]))) = i
        /\ \A j \in 1 .. i - 1 : Append(Sent(lines, i - 1), Stuffed(lines[i]))[j] = Stuffed(lines[j])
        /\ Append(Sent(lines, i - 1), Stuffed(lines[i]))[i] = Stuffed(lines[i])
    BY <1>1, <2>2, <2>4, AppendProperties DEF Sent
  <2>6. \A j \in 1 .. i : Sent(lines, i)[j] = Stuffed(lines[j])
    BY DEF Sent
  <2>7. \A j \in 1 .. i : Append(Sent(lines, i - 1), Stuffed(lines[i]))[j] = Sent(lines, i)[j]
    BY <1>1, <2>5, <2>6
  <2> QED BY <2>3, <2>5, <2>7, SeqEqual
<1> HIDE DEF h
<1>4. CASE i - 1 > h + n
  <2>1. ~ (i - 1 < h) /\ ~ (i - 1 <= h + n) /\ ~ (i < h) /\ ~ (i <= h + n)
    BY <1>1, <1>4
  <2>2. before = Loop(Sent(lines, h + n), TRUE, 0, TRUE) /\ after = Loop(Sent(lines, h + n), TRUE, 0, TRUE)
    BY <2>1 DEF Turned
  <2>3. TopLine(Loop(Sent(lines, h + n), TRUE, 0, TRUE), lines[i]) = Loop(Sent(lines, h + n), TRUE, 0, TRUE)
    <3>1. 0 \in Int
      OBVIOUS
    <3> QED BY <3>1, TopLineCases
  <2> QED BY <2>2, <2>3 DEF h
<1>5. CASE i - 1 = h + n
  <2>1. /\ ~ (i - 1 < h) /\ i - 1 <= h + n /\ n - ((i - 1) - h) = 0
        /\ ~ (i < h) /\ ~ (i <= h + n) /\ 0 \in Int /\ 0 < 1
    BY <1>1, <1>5
  <2>2. before = Loop(Sent(lines, h + n), TRUE, 0, FALSE)
    BY <1>5, <2>1 DEF Turned
  <2>3. after = Loop(Sent(lines, h + n), TRUE, 0, TRUE)
    BY <2>1 DEF Turned
  <2>4. TopLine(Loop(Sent(lines, h + n), TRUE, 0, FALSE), lines[i]) = Loop(Sent(lines, h + n), TRUE, 0, TRUE)
    BY <2>1, TopLineCases
  <2> QED BY <2>2, <2>3, <2>4 DEF h
<1>6. CASE h <= i - 1 /\ i - 1 < h + n
  <2> DEFINE left == n - ((i - 1) - h)
  <2>1. /\ ~ (i - 1 < h) /\ i - 1 <= h + n /\ ~ (i < h) /\ i <= h + n
        /\ left \in Int /\ left >= 1 /\ left - 1 = n - (i - h)
    BY <1>1, <1>6
  <2>2. before = Loop(Sent(lines, i - 1), TRUE, left, FALSE)
    BY <2>1 DEF Turned
  <2>3. after = Loop(Sent(lines, i), TRUE, left - 1, FALSE)
    BY <2>1 DEF Turned
  <2> HIDE DEF left
  <2>4. TopLine(Loop(Sent(lines, i - 1), TRUE, left, FALSE), lines[i])
            = Loop(Append(Sent(lines, i - 1), Stuffed(lines[i])), TRUE, left - 1, FALSE)
    BY <2>1, TopLineCases
  <2> QED BY <1>3, <2>2, <2>3, <2>4 DEF h
<1>7. CASE i = h
  <2>1. i - 1 < h /\ ~ (i < h) /\ i <= h + n /\ n - (i - h) = n /\ n \in Int
    BY <1>1, <1>7
  <2>2. before = Loop(Sent(lines, i - 1), FALSE, n, FALSE)
    BY <2>1 DEF Turned
  <2>3. after = Loop(Sent(lines, i), TRUE, n, FALSE)
    BY <2>1 DEF Turned
  <2>4. Stuffed(lines[i]) = Blank
    BY <1>1, <1>2, <1>7
  <2>5. TopLine(Loop(Sent(lines, i - 1), FALSE, n, FALSE), lines[i])
            = Loop(Append(Sent(lines, i - 1), Stuffed(lines[i])), TRUE, n, FALSE)
    BY <2>1, <2>4, TopLineCases
  <2> QED BY <1>3, <2>2, <2>3, <2>5 DEF h
<1>8. CASE i < h
  <2>1. i - 1 < h /\ n \in Int
    BY <1>1, <1>8
  <2>2. before = Loop(Sent(lines, i - 1), FALSE, n, FALSE)
    BY <2>1 DEF Turned
  <2>3. after = Loop(Sent(lines, i), FALSE, n, FALSE)
    BY <1>8 DEF Turned
  <2>4. Stuffed(lines[i]) # Blank
    BY <1>1, <1>2, <1>8
  <2>5. TopLine(Loop(Sent(lines, i - 1), FALSE, n, FALSE), lines[i])
            = Loop(Append(Sent(lines, i - 1), Stuffed(lines[i])), FALSE, n, FALSE)
    BY <2>1, <2>4, TopLineCases
  <2> QED BY <1>3, <2>2, <2>3, <2>5 DEF h
<1> QED BY <1>1, <1>4, <1>5, <1>6, <1>7, <1>8

LEMMA TopSends ==
    ASSUME NEW lines \in Seq(TextLine), NEW n \in Nat
    PROVE  \E m \in 0 .. Len(lines), cutShort \in BOOLEAN :
              /\ SendsText(SendMessageTop(lines, n), lines, m, cutShort)
              /\ ~ScanFails(lines) => ~cutShort /\ SubSeq(lines, 1, m) = TopOf(lines, n)
<1> DEFINE scanned == Scanned(lines)
           L == Len(scanned)
           h == HeaderEnd(scanned)
           first == [sent |-> <<>>, inBody |-> FALSE, left |-> n, done |-> FALSE]
           turn(g, i) == IF i = 0 THEN first ELSE TopLine(g[i-1], scanned[i])
           loop == CHOOSE f : f = [i \in 0 .. L |-> turn(f, i)]
           F == [i \in 0 .. L |-> Turned(scanned, n, h, i)]
           m == IF L <= h + n THEN L ELSE h + n
           end == loop[L]
           cutShort == ~end.done /\ ScanFails(lines)
<1>1. /\ scanned \in Seq(TextLine) /\ L \in Nat /\ L <= Len(lines) /\ Len(lines) \in Nat
      /\ \A i \in 1 .. L : scanned[i] = lines[i] /\ lines[i] \in TextLine
      /\ ~ScanFails(lines) => L = Len(lines)
  <2>1. Len(lines) \in Nat /\ \A i \in 1 .. Len(lines) : lines[i] \in TextLine
    BY LenProperties, ElementOfSeq
  <2> QED BY <2>1, Scanning
<1>2. h \in Nat /\ 1 <= h /\ h <= L + 1
  <2> HIDE DEF scanned
  <2> QED BY <1>1, HeaderEnds
<1>3. Turned(scanned, n, h, 0) = first
  <2>1. 0 < h
    BY <1>2
  <2>2. Sent(scanned, 0) = <<>>
    BY DEF Sent
  <2> HIDE DEF h
  <2> QED BY <2>1, <2>2 DEF Turned, Loop
<1>4. \A i \in 1 .. L : TopLine(Turned(scanned, n, h, i - 1), scanned[i]) = Turned(scanned, n, h, i)
  <2> HIDE DEF scanned
  <2> QED BY <1>1, OneTurn
<1> HIDE DEF scanned, L, h, first
<1>5. F = [i \in 0 .. L |-> turn(F, i)]
  <2>1. ASSUME NEW i \in 0 .. L PROVE Turned(scanned, n, h, i) = turn(F, i)
    <3>1. CASE i = 0
      BY <1>3, <3>1
    <3>2. CASE i # 0
      <4>1. i \in 1 .. L /\ i - 1 \in 0 .. L
        BY <1>1, <3>2
      <4>2. F[i - 1] = Turned(scanned, n, h, i - 1)
        BY <4>1
      <4> QED BY <1>4, <3>2, <4>1, <4>2
    <3> QED BY <3>1, <3>2
  <2> QED BY <2>1
<1>6. loop = [i \in 0 .. L |-> turn(loop, i)]
  <2> HIDE DEF turn, F
  <2> QED BY <1>5, Zenon
<1> HIDE DEF loop
<1>7. \A i \in 0 .. L : loop[i] = Turned(scanned, n, h, i)
  <2> DEFINE D == {i \in 0 .. L : loop[i] # Turned(scanned, n, h, i)}
  <2> SUFFICES ASSUME D # {} PROVE FALSE
    OBVIOUS
  <2> DEFINE x == Min(D)
  <2>1. D \subseteq Nat
    BY <1>1
  <2>2. x \in D /\ \A y \in D : x =< y
    <3> HIDE DEF D
    <3> QED BY <2>1, LeastIn
  <2> HIDE DEF x
  <2>3. x \in 0 .. L /\ loop[x] = turn(loop, x)
    BY <1>6, <2>2
  <2>4. x # 0
    BY <1>3, <2>2, <2>3
  <2>5. x \in 1 .. L /\ x - 1 \in 0 .. L /\ ~ (x =< x - 1)
    BY <1>1, <2>3, <2>4
  <2>6. loop[x - 1] = Turned(scanned, n, h, x - 1)
    BY <2>2, <2>5
  <2> QED BY <1>4, <2>2, <2>3, <2>4, <2>5, <2>6
<1>8. end.sent = Sent(scanned, m)
  <2>1. L \in 0 .. L /\ (L < h => L <= h + n) /\ L \in Nat
    BY <1>1, <1>2
  <2>2. end = Turned(scanned, n, h, L)
    BY <1>7, <2>1
  <2> QED BY <2>1, <2>2 DEF Turned, Loop
<1>9. m \in 0 .. L /\ m \in Nat
  BY <1>1, <1>2
<1>10. SendMessageTop(lines, n) = end.sent \o Ending(cutShort)
  BY DEF SendMessageTop, loop, turn, first, L, scanned
<1> HIDE DEF end, m, cutShort
<1>11. cutShort \in BOOLEAN /\ m \in 0 .. Len(lines) /\ (~ScanFails(lines) => ~cutShort)
  BY <1>1, <1>9 DEF cutShort
<1>12. SendsText(SendMessageTop(lines, n), lines, m, cutShort)
  <2>1. /\ \A i \in 1 .. m : Stuffed(scanned[i]) \in TextLine /\ Stuffed(scanned[i]) = Stuffed(lines[i])
    BY <1>1, <1>9, LineTypes
  <2>2. /\ Sent(scanned, m) \in Seq(TextLine) /\ Len(Sent(scanned, m)) = m
        /\ \A i \in 1 .. m : Sent(scanned, m)[i] = Stuffed(lines[i])
    BY <1>9, <2>1 DEF Sent
  <2> QED BY <1>8, <1>10, <2>2 DEF SendsText
<1>13. ASSUME ~ScanFails(lines) PROVE SubSeq(lines, 1, m) = TopOf(lines, n)
  <2> DEFINE blank == {i \in DOMAIN lines : lines[i] = Blank}
             header == Min(blank \cup {Len(lines)})
  <2>1. L = Len(lines) /\ DOMAIN lines = 1 .. L
    BY <1>1, <1>13, LenProperties
  <2>2. blank = {i \in 1 .. L : scanned[i] = Blank} /\ blank \subseteq 1 .. L
    BY <1>1, <2>1
  <2>3. h = Min(blank \cup {L + 1})
    BY <2>2 DEF h, HeaderEnd, L
  <2>4. TopOf(lines, n) = SubSeq(lines, 1, Min({L, header + n}))
    BY <2>1 DEF TopOf
  <2> HIDE DEF blank
  <2>5. header = IF h <= L THEN h ELSE L
    <3>1. CASE blank = {}
      <4>1. blank \cup {L + 1} = {L + 1} /\ {L + 1} \subseteq Nat /\ blank \cup {Len(lines)} = {L} /\ {L} \subseteq Nat
        BY <1>1, <2>1, <3>1
      <4>2. Min({L + 1}) \in {L + 1} /\ Min({L}) \in {L}
        BY <4>1, LeastIn
      <4>3. h = Min({L + 1}) /\ header = Min({L})
        BY <2>3, <4>1, Zenon
      <4>4. h = L + 1 /\ header = L
        <5> HIDE DEF header
        <5> QED BY <4>2, <4>3
      <4> HIDE DEF header
      <4> QED BY <1>1, <4>4
    <3>2. CASE blank # {}
      <4>1. Min(blank) \in blank /\ \A y \in blank : Min(blank) =< y
        <5>1. blank \subseteq Nat
          BY <1>1, <2>2
        <5> QED BY <3>2, <5>1, LeastIn
      <4>2. Min(blank) \in 1 .. L
        BY <2>2, <4>1
      <4>3. \A y \in blank \cup {L + 1} : Min(blank) =< y
        BY <1>1, <4>1, <4>2
      <4>4. \A y \in blank \cup {L} : Min(blank) =< y
        BY <1>1, <4>1, <4>2
      <4>5. blank \cup {L + 1} \subseteq Nat /\ blank \cup {L} \subseteq Nat
        BY <1>1, <2>2
      <4>6. Min(blank \cup {L + 1}) = Min(blank) /\ Min(blank \cup {L}) = Min(blank)
        BY <4>1, <4>3, <4>4, <4>5, LeastIs
      <4> QED BY <2>1, <2>3, <4>2, <4>6
    <3> QED BY <3>1, <3>2
  <2> HIDE DEF header
  <2>6. Min({L, header + n}) = m
    <3>1. header \in Nat /\ header + n \in Nat /\ {L, header + n} \subseteq Nat
      BY <1>1, <1>2, <2>5
    <3>2. m \in {L, header + n} /\ \A y \in {L, header + n} : m =< y
      BY <1>1, <1>2, <2>5 DEF m
    <3> DEFINE both == {L, header + n}
    <3>3. both \subseteq Nat /\ m \in both /\ \A y \in both : m =< y
      BY <3>1, <3>2
    <3> HIDE DEF both
    <3>4. Min(both) = m
      BY <3>3, LeastIs
    <3> QED BY <3>4 DEF both
  <2> QED BY <2>4, <2>6
<1> QED BY <1>11, <1>12, <1>13

LEMMA DeliveredText ==
    ASSUME RInv, NEW s \in Session, NEW n \in Numbers(s)
    PROVE  content[messages[s][n]] \in Seq(TextLine)
<1>1. messages[s][n] \in 1 .. Len(content) /\ content \in Seq(Contents)
  BY DEF RInv, Inv, SessionInv, Known, RepliesTypes
<1>2. content[messages[s][n]] \in Contents
  BY <1>1, ElementOfSeq
<1>3. [dots : Nat, text : STRING] \subseteq TextLine
  BY DEF TextLine
<1>4. Seq([dots : Nat, text : STRING]) \subseteq Seq(TextLine)
  BY <1>3, SeqMonotonic
<1> QED BY <1>2, <1>4, RepliesAssumption

(* The reply to RETR or TOP that was sent last.                            *)
TextReply(s, n, sending) ==
    LET lines == content[messages[s][n]]
    IN  /\ reply.cmd \in {"RETR", "TOP"} /\ reply.to = s /\ reply.n = n
        /\ reply.wire = Transfer(messages[s][n], sending)
        /\ \E m \in 0 .. Len(lines), cutShort \in BOOLEAN :
              /\ SendsText(sending, lines, m, cutShort)
              /\ ~ScanFails(lines) => /\ ~cutShort
                                      /\ SubSeq(lines, 1, m) = IF reply.cmd = "TOP" THEN TopOf(lines, reply.top) ELSE lines

LEMMA TextReplies ==
    ASSUME RInv, reply.cmd \in {"RETR", "TOP"}
    PROVE  \E s \in Session : \E n \in Numbers(s) : \E sending : TextReply(s, n, sending)
<1>1. PICK s \in Session : \E n \in Numbers(s) :
          reply = TextSent(s, n) \/ \E k \in 0 .. MaxTop : reply = TopSent(s, n, k)
  BY DEF RInv, LastReply, SentTo, ListingSent, NoReply
<1>2. PICK n \in Numbers(s) :
          reply = TextSent(s, n) \/ \E k \in 0 .. MaxTop : reply = TopSent(s, n, k)
  BY <1>1
<1> DEFINE lines == content[messages[s][n]]
<1>3. lines \in Seq(TextLine)
  BY DeliveredText
<1> HIDE DEF lines
<1>4. CASE reply = TextSent(s, n)
  <2> DEFINE sending == SendMessage(lines)
             m == Len(Scanned(lines))
             cutShort == ScanFails(lines)
  <2>1. reply.cmd = "RETR" /\ reply.to = s /\ reply.n = n /\ reply.wire = Transfer(messages[s][n], sending)
    BY <1>4 DEF TextSent, lines
  <2>2. m \in 0 .. Len(lines) /\ SendsText(sending, lines, m, cutShort) /\ cutShort \in BOOLEAN
    BY <1>3, Scanning, RetrSends DEF ScanFails
  <2>3. ~cutShort => SubSeq(lines, 1, m) = lines
    <3>1. ~cutShort => m = Len(lines)
      BY <1>3, Scanning
    <3>2. SubSeq(lines, 1, Len(lines)) = lines
      BY <1>3, SubSeqFull
    <3> QED BY <3>1, <3>2
  <2> HIDE DEF sending, m
  <2>4. TextReply(s, n, sending)
    BY <2>1, <2>2, <2>3 DEF TextReply, lines
  <2> QED BY <2>4
<1>5. ASSUME NEW k \in 0 .. MaxTop, reply = TopSent(s, n, k)
      PROVE  \E sending : TextReply(s, n, sending)
  <2> DEFINE sending == SendMessageTop(lines, k)
  <2>1. /\ reply.cmd = "TOP" /\ reply.to = s /\ reply.n = n /\ reply.top = k
        /\ reply.wire = Transfer(messages[s][n], sending)
    BY <1>5 DEF TopSent, lines
  <2>2. k \in Nat
    BY RepliesAssumption
  <2>3. \E m \in 0 .. Len(lines), cutShort \in BOOLEAN :
           /\ SendsText(sending, lines, m, cutShort)
           /\ ~ScanFails(lines) => ~cutShort /\ SubSeq(lines, 1, m) = TopOf(lines, k)
    BY <1>3, <2>2, TopSends
  <2> HIDE DEF sending
  <2>4. TextReply(s, n, sending)
    BY <2>1, <2>3 DEF TextReply, lines
  <2> QED BY <2>4
<1> QED BY <1>2, <1>4, <1>5

(* A client that reads RETR's or TOP's reply to its end has the message,   *)
(* or its top, line by line, and nothing that is not the message's; dots   *)
(* are stuffed by the session and unstuffed by the client.                 *)
THEOREM TextIsAsTold == RepliesSpec => []TextAsTold
<1>1. RInv => TextAsTold
  <2> SUFFICES ASSUME RInv, reply.cmd \in {"RETR", "TOP"} PROVE TextAsTold
    BY DEF TextAsTold, GetsTheText, NothingElse
  <2>1. PICK s \in Session : \E n \in Numbers(s) : \E sending : TextReply(s, n, sending)
    BY TextReplies
  <2>2. PICK n \in Numbers(s) : \E sending : TextReply(s, n, sending)
    BY <2>1
  <2>3. PICK sending : TextReply(s, n, sending)
    BY <2>2
  <2> DEFINE id == messages[s][n]
             lines == content[id]
             wire == <<Ok>> \o sending
  <2>4. lines \in Seq(TextLine)
    BY DeliveredText
  <2>5. PICK m \in 0 .. Len(lines), cutShort \in BOOLEAN :
           /\ SendsText(sending, lines, m, cutShort)
           /\ ~ScanFails(lines) => /\ ~cutShort
                                   /\ SubSeq(lines, 1, m) = IF reply.cmd = "TOP" THEN TopOf(lines, reply.top) ELSE lines
    BY <2>3 DEF TextReply
  <2>6. reply.to = s /\ reply.n = n /\ reply.wire = Transfer(id, sending)
    BY <2>3 DEF TextReply
  <2>7. Readable(id) => reply.wire = wire
    BY <2>6 DEF Transfer
  <2>8. ~Readable(id) => ~ (Len(reply.wire) > 2)
    <3>1. Len(<<Ok>> \o <<Err>>) = 2
      OBVIOUS
    <3> QED BY <2>6, <3>1 DEF Transfer
  <2>9. Listing(s)
    BY DEF RInv
  <2> HIDE DEF lines
  <2>10. /\ Body(wire) = SubSeq(lines, 1, m)
         /\ ~cutShort => OneReply(wire)
    BY <2>4, <2>5, ReadBack
  <2> HIDE DEF wire
  <2>11. GetsTheText
    <3> SUFFICES ASSUME NEW t \in told[s], t[1] = n, Readable(t[2]), ~ScanFails(content[t[2]])
                 PROVE  /\ OneReply(reply.wire)
                        /\ Body(reply.wire) = IF reply.cmd = "TOP" THEN TopOf(content[t[2]], reply.top) ELSE content[t[2]]
      BY <2>6 DEF GetsTheText
    <3>1. t[2] = id
      BY <2>9 DEF Listing, Named
    <3>2. content[t[2]] = lines /\ ~ScanFails(lines)
      BY <3>1 DEF lines
    <3>3. reply.wire = wire
      BY <2>7, <3>1
    <3>4. Body(reply.wire) = SubSeq(lines, 1, m) /\ OneReply(reply.wire)
      BY <2>5, <2>10, <3>2, <3>3
    <3> QED BY <2>5, <3>2, <3>4
  <2>12. NothingElse
    <3> SUFFICES ASSUME Len(reply.wire) > 2 PROVE Seqs!IsPrefix(Body(reply.wire), lines)
      BY <2>6 DEF NothingElse, lines
    <3>1. reply.wire = wire
      BY <2>7, <2>8
    <3>2. Len(lines) \in Nat /\ m \in Nat /\ m <= Len(lines) /\ \A i \in 1 .. m : lines[i] \in TextLine
      BY <2>4, LenProperties, ElementOfSeq
    <3>3. SubSeq(lines, 1, m) \in Seq(TextLine) /\ Len(SubSeq(lines, 1, m)) = m
      BY <3>2, SubSeqProperties
    <3>4. SubSeq(SubSeq(lines, 1, m), 1, m) = SubSeq(lines, 1, m)
      BY <3>3, SubSeqFull
    <3>5. Seqs!IsPrefix(SubSeq(lines, 1, m), lines)
      <4> DEFINE begun == SubSeq(lines, 1, m)
      <4>1. Len(begun) = m /\ SubSeq(begun, 1, m) = begun
        BY <3>3, <3>4
      <4>2. begun = SubSeq(lines, 1, m)
        OBVIOUS
      <4> HIDE DEF begun
      <4>3. Len(begun) <= Len(lines) /\ SubSeq(begun, 1, Len(begun)) = SubSeq(lines, 1, Len(begun))
        BY <3>2, <4>1, <4>2
      <4> QED BY <4>2, <4>3 DEF Seqs!IsPrefix
    <3> QED BY <2>10, <3>1, <3>5
  <2> QED BY <2>11, <2>12 DEF TextAsTold
<1> QED BY <1>1, RepliesInvariant, PTL
=============================================================================
