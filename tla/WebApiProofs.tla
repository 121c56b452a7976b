---------------------------- MODULE WebApiProofs -----------------------------
(***************************************************************************)
(* Proofs about WebApi, for any set of clients, either store and any       *)
(* number of messages: whatever happens to mailbox and disk between steps  *)
(* of a handler, its answer was true at some moment of the request; and    *)
(* about CommandClient, the command line client among those callers.       *)
(***************************************************************************)
EXTENDS CommandClient, WellFoundedInduction, TLAPS

-----------------------------------------------------------------------------
(* The newest message *)

(* A nonempty set of ids up to n has a greatest: the one nearest to n.     *)
LEMMA HasNewest ==
    \A n \in Nat : \A b \in SUBSET (1 .. n) : b # {} => \E i \in b : \A j \in b : j <= i
<1> SUFFICES ASSUME NEW n \in Nat, NEW b \in SUBSET (1 .. n), b # {}
             PROVE  \E i \in b : \A j \in b : j <= i
  OBVIOUS
<1> DEFINE R == {ss \in Nat \X Nat : ss[1] < ss[2]}
           Below == {n - i : i \in b}
<1>1. IsWellFoundedOn(R, Nat)
  BY NatLessThanWellFounded DEF OpToRel
<1>2. Below \subseteq Nat /\ Below # {}
  <2>1. ASSUME NEW i \in b PROVE n - i \in Nat
    <3>1. i \in 1 .. n
      OBVIOUS
    <3> QED BY <3>1
  <2> QED BY <2>1
<1>3. \A x, y \in Nat : x < y => <<x, y>> \in R
  OBVIOUS
<1>4. PICK x \in Below : \A y \in Below : ~ (<<y, x>> \in R)
  <2> HIDE DEF R, Below
  <2> QED BY <1>1, <1>2, WFMin
<1>5. PICK i \in b : x = n - i
  BY <1>4
<1>6. ASSUME NEW j \in b PROVE j <= i
  <2>1. n - j \in Below /\ n - j \in Nat /\ n - i \in Nat
    OBVIOUS
  <2>2. ~ (n - j < n - i)
    <3> HIDE DEF R, Below
    <3> QED BY <1>3, <1>4, <1>5, <2>1
  <2>3. j \in Int /\ i \in Int
    <3>1. b \subseteq 1 .. n
      OBVIOUS
    <3> QED BY <3>1
  <2> QED BY <2>2, <2>3
<1> QED BY <1>6

(* GetMessage returns a message that is there and the id names, and None   *)
(* when there is none.                                                     *)
LEMMA GetMessageFinds ==
    ASSUME NEW n \in Nat, NEW b \in SUBSET (1 .. n), NEW id \in Int, id # None
    PROVE  LET m == GetMessage(b, id) IN
           \/ m \in b /\ m # None /\ (m = id \/ (id = Latest /\ \A j \in b : j <= m))
           \/ m = None /\ (id = Latest => b = {}) /\ (id # Latest => id \notin b)
<1>0. None \notin b /\ Latest \notin b BY DEF None, Latest
<1>1. CASE id = Latest /\ b # {}
  <2>1. \E i \in b : \A j \in b : j <= i BY <1>1, HasNewest
  <2>2. Newest(b) \in b /\ \A j \in b : j <= Newest(b) BY <2>1 DEF Newest
  <2> QED BY <1>0, <1>1, <2>2 DEF GetMessage
<1>2. CASE id = Latest /\ b = {} BY <1>2 DEF GetMessage
<1>3. CASE id # Latest BY <1>0, <1>3 DEF GetMessage
<1> QED BY <1>1, <1>2, <1>3

-----------------------------------------------------------------------------
(* The invariant *)

StoreInv ==
    /\ last \in 0 .. MaxId /\ box \subseteq 1 .. last /\ seen \subseteq 1 .. last
    /\ faulty \in BOOLEAN /\ (faulty => kind = "file")

Answers == [code : {"none", "ok", "not found", "error", "panic"}, msg : Id \cup {None}, list : SUBSET Id]

RequestsOK ==
    /\ step \in [Caller -> {"idle", "asked", "found", "answered"}]
    /\ ask \in [Caller -> Ask]
    /\ found \in [Caller -> Id \cup {None}]
    /\ answer \in [Caller -> Answers]
    /\ since \in [Caller -> SUBSET SUBSET Id]
    /\ trouble \in [Caller -> BOOLEAN]

(* A request that waits has lived through what the mailbox is now; what it *)
(* has lived through is of messages that have arrived.                     *)
Lived(c) == (Busy(c) => box \in since[c]) /\ \A b \in since[c] : b \subseteq 1 .. last

(* A disk that fails does so for whoever waits, and under the file store.  *)
Noticed(c) == (Busy(c) /\ faulty => trouble[c]) /\ (trouble[c] => kind = "file")

(* What a reader has found was what it asked for, at some moment.          *)
FoundRight(c) == step[c] = "found" => ask[c].op \in Reads /\ \E b \in since[c] : Names(c, found[c], b)

(* The properties of the answers, of one client.                           *)
TrueFor(c) ==
    /\ Answered(c, {"ok"}) /\ ask[c].op \in Reads => \E b \in since[c] : Names(c, answer[c].msg, b)
    /\ Answered(c, {"ok"}) /\ ask[c].op = "list" =>
          answer[c].list \in since[c] \/ (trouble[c] /\ answer[c].list = {})

HonestTo(c) ==
    Answered(c, {"not found"}) /\ ~(ask[c].op = "delete" /\ ask[c].id = Latest) =>
        trouble[c] \/ \E b \in since[c] : \A i \in b : ~Names(c, i, b)

(* Of a reader: a message that it names and that could not be read.        *)
ReadFails(c) == ask[c].op \in Reads /\ \E b \in since[c] : \E i \in b : Names(c, i, b) /\ Unreadable(c, i)

CauseFor(c) == Answered(c, {"error"}) => ask[c].flaw # "none" \/ trouble[c] \/ ReadFails(c)

DeletedFor(c) ==
    Answered(c, {"ok"}) /\ ask[c].op \in {"delete", "purge"} =>
        \A i \in box : ~(\E b \in since[c] : i \in b /\ (ask[c].op = "delete" => i = ask[c].id))

CallerInv(c) ==
    Lived(c) /\ Noticed(c) /\ FoundRight(c) /\ TrueFor(c) /\ HonestTo(c) /\ CauseFor(c) /\ DeletedFor(c)

IInv == StoreInv /\ RequestsOK /\ \A c \in Caller : CallerInv(c)

LEMMA BoxOfIds == StoreInv => box \subseteq Id
BY ApiAssumption DEF StoreInv, Id

LEMMA InitIInv == Init => IInv
<1> SUFFICES ASSUME Init PROVE IInv OBVIOUS
<1>1. StoreInv
  <2>1. last = 0 /\ box = {} /\ seen = {} /\ faulty = FALSE BY DEF Init
  <2>2. last \in 0 .. MaxId /\ box \subseteq 1 .. last /\ seen \subseteq 1 .. last BY <2>1, ApiAssumption
  <2> QED BY <2>1, <2>2 DEF StoreInv
<1>2. [op |-> "list", id |-> None, flaw |-> "none"] \in Ask BY DEF Ask, OnMailbox, FlawsOf
<1>3. NoReply \in Answers BY DEF NoReply, Reply, Answers
<1>4. RequestsOK BY <1>2, <1>3 DEF Init, RequestsOK
<1>5. ASSUME NEW c \in Caller PROVE CallerInv(c)
  BY DEF Init, CallerInv, Lived, Noticed, FoundRight, TrueFor, HonestTo, CauseFor, DeletedFor, Answered, Busy
<1> QED BY <1>1, <1>4, <1>5 DEF IInv

-----------------------------------------------------------------------------
(* Whoever makes no step *)

(* The mailbox loses messages or gets ones that are newer than all before. *)
BoxMoves == last' \in Nat /\ last <= last' /\ box' \subseteq 1 .. last' /\ \A i \in box' : i \in box \/ i > last

(* The disk fails or recovers, and whoever waits notices.                  *)
DiskMoves(c) == (trouble[c] => trouble'[c]) /\ (Busy(c) /\ faulty' => trouble'[c]) /\ (trouble'[c] => kind = "file")

SameRequest(c) ==
    step'[c] = step[c] /\ ask'[c] = ask[c] /\ found'[c] = found[c] /\ answer'[c] = answer[c]

LEMMA LosingMoves == ASSUME StoreInv, box' \subseteq box, last' = last PROVE BoxMoves
<1>1. last \in Nat BY ApiAssumption DEF StoreInv
<1> QED BY <1>1 DEF StoreInv, BoxMoves

LEMMA SameDiskMoves ==
    ASSUME IInv, NEW c \in Caller, UNCHANGED faulty, trouble'[c] = trouble[c] PROVE DiskMoves(c)
BY DEF IInv, CallerInv, Noticed, DiskMoves

LEMMA NotAbove == ASSUME NEW n \in Nat, NEW i \in 1 .. n PROVE ~(i > n)
OBVIOUS

(* What could not be read cannot be afterwards.                            *)
LEMMA StaysUnread ==
    ASSUME IInv, NEW c \in Caller, ask'[c] = ask[c], BoxMoves, UNCHANGED kind, since[c] \subseteq since'[c],
           ReadFails(c)
    PROVE  ReadFails(c)'
<1>1. PICK b \in since[c] : \E i \in b : Names(c, i, b) /\ Unreadable(c, i) BY DEF ReadFails
<1>2. PICK i \in b : Names(c, i, b) /\ Unreadable(c, i) BY <1>1
<1>3. i \in 1 .. last /\ last \in Nat BY <1>1, ApiAssumption DEF IInv, CallerInv, Lived, StoreInv
<1>4. ~(i > last) BY <1>3, NotAbove
<1>5. Names(c, i, b)' /\ Unreadable(c, i)' BY <1>2, <1>4 DEF Names, Unreadable, BoxMoves
<1> QED BY <1>1, <1>2, <1>5 DEF ReadFails

(* A client that makes no step keeps its invariant, whatever the others do *)
(* to the mailbox: what it was answered was decided when it was answered,  *)
(* and a message that had gone by then does not come back.                 *)
LEMMA BystanderKeeps ==
    ASSUME IInv, NEW c \in Caller, SameRequest(c), BoxMoves, DiskMoves(c), UNCHANGED kind,
           since'[c] = (IF Busy(c) THEN since[c] \cup {box'} ELSE since[c])
    PROVE  CallerInv(c)'
<1>1. CallerInv(c) /\ StoreInv /\ last \in Nat BY ApiAssumption DEF IInv, StoreInv
<1>2. since[c] \subseteq since'[c] OBVIOUS
<1>3. Busy(c)' = Busy(c) BY DEF Busy, SameRequest
<1>4. \A i, b : Names(c, i, b)' = Names(c, i, b) BY DEF Names, SameRequest
<1>5. \A s : Answered(c, s)' = Answered(c, s) BY DEF Answered, SameRequest
<1>6. \A b \in since[c] : b \subseteq 1 .. last BY <1>1 DEF CallerInv, Lived
<1>7. Lived(c)'
  <2>1. \A b \in since[c] : b \subseteq 1 .. last'
    BY <1>1, <1>6 DEF BoxMoves
  <2> QED BY <1>3, <2>1 DEF Lived, BoxMoves
<1>8. Noticed(c)' BY <1>3 DEF Noticed, DiskMoves
<1>9. FoundRight(c)'
  BY <1>1, <1>2, <1>4 DEF CallerInv, FoundRight, SameRequest
<1>10. TrueFor(c)'
  BY <1>1, <1>2, <1>4, <1>5 DEF CallerInv, TrueFor, SameRequest, DiskMoves
<1>11. HonestTo(c)'
  BY <1>1, <1>2, <1>4, <1>5 DEF CallerInv, HonestTo, SameRequest, DiskMoves
<1>12. CauseFor(c)'
  <2>1. ReadFails(c) => ReadFails(c)' BY <1>2, StaysUnread DEF SameRequest
  <2> QED BY <1>1, <1>5, <2>1 DEF CallerInv, CauseFor, SameRequest, DiskMoves
<1>13. DeletedFor(c)'
  <2> SUFFICES ASSUME Answered(c, {"ok"}), ask[c].op \in {"delete", "purge"}, NEW i \in box',
                      NEW b \in since'[c], i \in b, ask[c].op = "delete" => i = ask[c].id
               PROVE  FALSE
    BY <1>5 DEF DeletedFor, SameRequest
  <2>1. ~Busy(c) BY DEF Answered, Busy
  <2>2. b \in since[c] BY <2>1
  <2>3. i \in 1 .. last BY <1>6, <2>2
  <2>4. i \in box BY <1>1, <2>3 DEF BoxMoves
  <2> QED BY <1>1, <2>2, <2>4 DEF CallerInv, DeletedFor
<1> QED BY <1>7, <1>8, <1>9, <1>10, <1>11, <1>12, <1>13 DEF CallerInv

(* A step of one client, which may take messages out of the mailbox: only  *)
(* that client is to be looked at.                                         *)
LEMMA OneStepKeeps ==
    ASSUME IInv, NEW c \in Caller, box' \subseteq box, UNCHANGED <<last, faulty, kind>>, StoreInv', RequestsOK',
           CallerInv(c)',
           \A d \in Caller \ {c} :
               /\ SameRequest(d) /\ trouble'[d] = trouble[d]
               /\ since'[d] = (IF Busy(d) THEN since[d] \cup {box'} ELSE since[d])
    PROVE  IInv'
<1>1. BoxMoves BY LosingMoves DEF IInv
<1>2. ASSUME NEW d \in Caller \ {c} PROVE CallerInv(d)' BY <1>1, BystanderKeeps, SameDiskMoves
<1> QED BY <1>2 DEF IInv

-----------------------------------------------------------------------------
(* One step each *)

(* What is left of the mailbox, or taken for it, is part of it.            *)
LEMMA IndexesArePart == \A b \in Indexes : b \subseteq box /\ (b # box => faulty /\ b = {})
BY DEF Indexes

LEMMA RemainsArePart == \A b : b \subseteq box => \A r \in Remains(b) : r \subseteq box
BY DEF Remains

LEMMA OthersKeep == ASSUME IInv, Others, UNCHANGED kind PROVE IInv'
<1> DEFINE Kept == UNCHANGED <<step, ask, found, answer>>
           Grown == \A c \in Caller : since'[c] = (IF Busy(c) THEN since[c] \cup {box'} ELSE since[c])
           Lasting == Kept /\ Grown /\ since' \in [Caller -> SUBSET SUBSET Id] /\ BoxMoves /\ StoreInv'
           Noticing == trouble' \in [Caller -> BOOLEAN] /\ \A c \in Caller : DiskMoves(c)
<1>1. StoreInv /\ RequestsOK /\ last \in Nat BY ApiAssumption DEF IInv, StoreInv
<1>2. ASSUME BoxBecomes(box'), BoxMoves, StoreInv', Kept PROVE Lasting
  <2>1. box' \in SUBSET Id BY <1>2, ApiAssumption DEF StoreInv, Id
  <2> QED BY <1>1, <1>2, <2>1 DEF BoxBecomes, RequestsOK
<1>3. ASSUME UNCHANGED <<box, last, since>> PROVE Grown /\ BoxMoves
  <2>1. \A c \in Caller : Busy(c) => box \in since[c] BY DEF IInv, CallerInv, Lived
  <2> QED BY <1>1, <1>3, <2>1, LosingMoves
<1>4. ASSUME UNCHANGED <<faulty, trouble>> PROVE Noticing
  BY <1>1, <1>4, SameDiskMoves DEF RequestsOK
<1>5. ASSUME Deliver PROVE Lasting /\ Noticing
  <2>1. PICK b \in Indexes : BoxBecomes(b \cup {last + 1}) BY <1>5 DEF Deliver
  <2>2. /\ box' = b \cup {last + 1} /\ b \subseteq box
        /\ last' = last + 1 /\ last < MaxId /\ UNCHANGED <<seen, faulty, trouble>> /\ Kept
    BY <1>5, <2>1, IndexesArePart DEF BoxBecomes, Deliver
  <2>3. BoxMoves /\ StoreInv' BY <1>1, <2>2, ApiAssumption DEF BoxMoves, StoreInv
  <2>4. BoxBecomes(box') BY <2>1, <2>2
  <2> QED BY <1>2, <1>4, <2>2, <2>3, <2>4
<1>6. ASSUME NEW i \in Id, RemoveByOthers(i) PROVE Lasting /\ Noticing
  <2>1. BoxBecomes(box \ {i}) /\ UNCHANGED <<last, seen, faulty, trouble>> /\ Kept BY <1>6 DEF RemoveByOthers
  <2>2. box' = box \ {i} BY <2>1 DEF BoxBecomes
  <2>3. BoxMoves /\ StoreInv' BY <1>1, <2>1, <2>2, LosingMoves DEF StoreInv
  <2> QED BY <1>2, <1>4, <2>1, <2>2, <2>3
<1>7. ASSUME WriteFails PROVE Lasting /\ Noticing
  <2>0. PICK i \in Id : \E b \in Remains(box \ {i}) : BoxBecomes(b) BY <1>7 DEF WriteFails
  <2>1. PICK b \in Remains(box \ {i}) : BoxBecomes(b) BY <2>0
  <2>2. UNCHANGED <<last, seen, faulty, trouble>> /\ Kept BY <1>7 DEF WriteFails
  <2>3. box' = b /\ b \subseteq box BY <2>1, RemainsArePart DEF BoxBecomes
  <2>4. BoxMoves /\ StoreInv' BY <1>1, <2>2, <2>3, LosingMoves DEF StoreInv
  <2> QED BY <1>2, <1>4, <2>1, <2>2, <2>3, <2>4
<1>8. ASSUME DiskFails PROVE Lasting /\ Noticing
  <2>1. UNCHANGED <<box, last, seen, since>> /\ Kept /\ kind = "file" /\ faulty' = TRUE BY <1>8 DEF DiskFails
  <2>2. trouble' = [c \in Caller |-> trouble[c] \/ Busy(c)] BY <1>8 DEF DiskFails
  <2>3. StoreInv' BY <1>1, <2>1 DEF StoreInv
  <2>4. Noticing BY <1>1, <2>1, <2>2 DEF RequestsOK, DiskMoves
  <2> QED BY <1>1, <1>3, <2>1, <2>3, <2>4 DEF RequestsOK
<1>9. ASSUME DiskRecovers PROVE Lasting /\ Noticing
  <2>1. UNCHANGED <<box, last, seen, since, trouble>> /\ Kept /\ faulty' = FALSE
    BY <1>9 DEF DiskRecovers, requestVars
  <2>2. StoreInv' BY <1>1, <2>1 DEF StoreInv
  <2>3. Noticing BY <1>1, <2>1 DEF RequestsOK, DiskMoves, IInv, CallerInv, Noticed
  <2> QED BY <1>1, <1>3, <2>1, <2>2, <2>3 DEF RequestsOK
<1>10. Lasting /\ Noticing BY <1>5, <1>6, <1>7, <1>8, <1>9 DEF Others
<1>11. RequestsOK' BY <1>1, <1>10 DEF RequestsOK
<1>12. ASSUME NEW c \in Caller PROVE CallerInv(c)'
  BY <1>10, BystanderKeeps DEF SameRequest
<1> QED BY <1>10, <1>11, <1>12 DEF IInv

LEMMA RequestKeeps ==
    ASSUME IInv, NEW c \in Caller, NEW a \in Ask, Request(c, a), UNCHANGED kind PROVE IInv'
<1>1. RequestsOK /\ StoreInv BY DEF IInv
<1>2. box \in SUBSET Id BY <1>1, BoxOfIds
<1>3. NoReply \in Answers BY DEF NoReply, Reply, Answers
<1>4. RequestsOK' BY <1>1, <1>2, <1>3 DEF Request, RequestsOK, StoreInv
<1>5. StoreInv' /\ UNCHANGED <<box, last, faulty>> BY <1>1 DEF Request, storeVars, StoreInv
<1>6. step'[c] = "asked" /\ since'[c] = {box} /\ trouble'[c] = faulty BY <1>1 DEF Request, RequestsOK
<1>7. CallerInv(c)'
  BY <1>1, <1>5, <1>6
  DEF CallerInv, Lived, Noticed, FoundRight, TrueFor, HonestTo, CauseFor, DeletedFor, Answered, StoreInv
<1>8. ASSUME NEW d \in Caller \ {c}
      PROVE  /\ SameRequest(d) /\ trouble'[d] = trouble[d]
             /\ since'[d] = (IF Busy(d) THEN since[d] \cup {box'} ELSE since[d])
  <2>1. SameRequest(d) /\ trouble'[d] = trouble[d] /\ since'[d] = since[d]
    BY <1>1 DEF Request, SameRequest, RequestsOK
  <2>2. Busy(d) => box \in since[d] BY DEF IInv, CallerInv, Lived
  <2> QED BY <1>5, <2>1, <2>2
<1> QED BY <1>4, <1>5, <1>7, <1>8, OneStepKeeps

(* What every handler does, apart from its answer.                         *)
Handling(c, nb) ==
    /\ BoxBecomes(nb) /\ nb \subseteq box
    /\ seen' \subseteq 1 .. last
    /\ UNCHANGED <<last, faulty, trouble, kind>>

LEMMA HandlingKeeps ==
    ASSUME IInv, NEW c \in Caller, NEW nb, Handling(c, nb)
    PROVE  /\ StoreInv' /\ box' = nb
           /\ since' \in [Caller -> SUBSET SUBSET Id]
           /\ \A d \in Caller : since'[d] = (IF Busy(d) THEN since[d] \cup {nb} ELSE since[d])
<1>1. StoreInv /\ RequestsOK BY DEF IInv
<1>2. nb \in SUBSET Id BY <1>1, BoxOfIds DEF Handling
<1>3. box' = nb /\ since' = [d \in Caller |-> IF Busy(d) THEN since[d] \cup {nb} ELSE since[d]]
  BY DEF Handling, BoxBecomes
<1>4. StoreInv' BY <1>1, <1>3 DEF Handling, StoreInv
<1> QED BY <1>1, <1>2, <1>3, <1>4 DEF RequestsOK

(* An answer ends the request of the client that gets it.                  *)
LEMMA AnswerGiven ==
    ASSUME RequestsOK, NEW c \in Caller, NEW r \in Answers, Answer(c, r)
    PROVE  /\ step' \in [Caller -> {"idle", "asked", "found", "answered"}]
           /\ ask' = ask /\ found' \in [Caller -> Id \cup {None}]
           /\ answer' \in [Caller -> Answers]
           /\ step'[c] = "answered" /\ answer'[c] = r
           /\ \A d \in Caller \ {c} : SameRequest(d)
BY DEF RequestsOK, Answer, SameRequest

(* What an answer has to be, for the request it ends.                      *)
Fits(c, r, nb) ==
    /\ r.code = "ok" /\ ask[c].op \in Reads => \E b \in since[c] : Names(c, r.msg, b)
    /\ r.code = "ok" /\ ask[c].op = "list" => r.list = box \/ (faulty /\ r.list = {})
    /\ r.code = "ok" /\ ask[c].op = "purge" => nb = {}
    /\ r.code = "ok" /\ ask[c].op = "delete" => ask[c].id \notin nb
    /\ r.code = "not found" /\ ~(ask[c].op = "delete" /\ ask[c].id = Latest) =>
          faulty \/ \A i \in box : ~Names(c, i, box)
    /\ r.code = "error" => ask[c].flaw # "none" \/ faulty \/ ReadFails(c)

(* A handler that answers has to be right about its own request.           *)
LEMMA AnswerKeeps ==
    ASSUME IInv, NEW c \in Caller, NEW nb, NEW r \in Answers, Busy(c),
           Handling(c, nb), Answer(c, r), Fits(c, r, nb)
    PROVE  IInv'
<1>1. RequestsOK /\ StoreInv /\ CallerInv(c) BY DEF IInv
<1>2. /\ StoreInv' /\ box' = nb /\ since' \in [Caller -> SUBSET SUBSET Id]
      /\ \A d \in Caller : since'[d] = (IF Busy(d) THEN since[d] \cup {nb} ELSE since[d])
  BY HandlingKeeps
<1>3. nb \subseteq box /\ UNCHANGED <<last, faulty, trouble, kind>> BY DEF Handling
<1>4. RequestsOK' BY <1>1, <1>2, <1>3, AnswerGiven DEF RequestsOK
<1>5. step'[c] = "answered" /\ answer'[c] = r /\ ask' = ask /\ since'[c] = since[c] \cup {nb}
  BY <1>1, <1>2, AnswerGiven
<1>6. since[c] \subseteq since'[c] /\ box \in since[c] /\ (faulty => trouble[c])
  BY <1>1, <1>5 DEF CallerInv, Lived, Noticed
<1>7. \A i, b : Names(c, i, b)' = Names(c, i, b) BY <1>5 DEF Names
<1>8. Lived(c)'
  <2>1. \A b \in since'[c] : b \subseteq 1 .. last
    BY <1>1, <1>3, <1>5 DEF CallerInv, Lived, StoreInv
  <2> QED BY <1>3, <1>5, <2>1 DEF Lived, Busy
<1>9. Noticed(c)' BY <1>1, <1>3, <1>5 DEF CallerInv, Noticed, Busy
<1>10. FoundRight(c)' BY <1>5 DEF FoundRight
<1>11. TrueFor(c)' BY <1>3, <1>5, <1>6, <1>7 DEF TrueFor, Answered, Fits
<1>12. HonestTo(c)' BY <1>3, <1>5, <1>6, <1>7 DEF HonestTo, Answered, Fits
<1>13. CauseFor(c)'
  <2>1. BoxMoves BY <1>1, <1>2, <1>3, LosingMoves
  <2>2. ReadFails(c) => ReadFails(c)' BY <1>3, <1>5, <1>6, <2>1, StaysUnread
  <2> QED BY <1>3, <1>5, <1>6, <2>2 DEF CauseFor, Answered, Fits
<1>14. DeletedFor(c)' BY <1>2, <1>5 DEF DeletedFor, Answered, Fits
<1>15. CallerInv(c)' BY <1>8, <1>9, <1>10, <1>11, <1>12, <1>13, <1>14 DEF CallerInv
<1>16. \A d \in Caller \ {c} : SameRequest(d) /\ trouble'[d] = trouble[d] BY <1>1, <1>3, AnswerGiven
<1> QED BY <1>2, <1>3, <1>4, <1>15, <1>16, OneStepKeeps

(* What is asked for is an id or "latest", but of the whole mailbox.       *)
LEMMA AskedId ==
    ASSUME RequestsOK, NEW c \in Caller
    PROVE  /\ ask[c].op \notin OnMailbox => ask[c].id \in Id \cup {Latest}
           /\ ask[c].id \in Int
           /\ ask[c].op \notin OnMailbox => ask[c].id # None
<1>1. ask[c] \in Ask BY DEF RequestsOK
<1>2. Id \subseteq Int /\ None \notin Id /\ Latest # None /\ Latest \in Int /\ None \in Int
  BY ApiAssumption DEF Id, None, Latest
<1> QED BY <1>1, <1>2 DEF Ask

LEMMA OpsApart == Reads \cap OnMailbox = {} /\ Reads \cap Writes = {} /\ Writes \cap OnMailbox = {}
BY DEF Reads, ApiReads, UiReads, Writes, OnMailbox

LEMMA ShortAnswers == OK \in Answers /\ NotFound \in Answers /\ ServerError \in Answers
BY DEF OK, NotFound, ServerError, Reply, Answers

(* What all handlers leave alone.                                          *)
Untouched == UNCHANGED <<last, faulty, trouble, kind>>

(* A request that is refused, or a store that fails: the same everywhere.  *)
LEMMA FailsKeeps ==
    ASSUME IInv, NEW c \in Caller, Busy(c), NEW b \in SUBSET box, Fails(c, b), seen' \subseteq seen \cup box, Untouched
    PROVE  IInv'
<1>1. BoxBecomes(b) /\ Answer(c, ServerError) BY DEF Fails
<1>2. Handling(c, b) BY <1>1 DEF Handling, Untouched, IInv, StoreInv
<1>3. ServerError \in Answers /\ ServerError.code = "error" BY ShortAnswers DEF ServerError, Reply
<1>4. ask[c].flaw # "none" \/ faulty BY DEF Fails, Refused
<1>5. Fits(c, ServerError, b) BY <1>3, <1>4 DEF Fits
<1> QED BY <1>1, <1>2, <1>3, <1>5, AnswerKeeps

LEMMA FindNothingKeeps == ASSUME IInv, NEW c \in Caller, FindNothing(c), Untouched PROVE IInv'
<1>1. RequestsOK /\ StoreInv BY DEF IInv
<1>2. Busy(c) /\ ask[c].op \in Reads BY DEF FindNothing, Asked, Busy
<1>3. ask[c].id \in Int /\ ask[c].id # None /\ ask[c].op \notin {"list", "purge", "delete"}
  BY <1>1, <1>2, AskedId, OpsApart DEF OnMailbox, Writes
<1>4. last \in Nat /\ box \in SUBSET (1 .. last) BY <1>1, ApiAssumption DEF StoreInv
<1>5. faulty \/ \A i \in box : ~Names(c, i, box)
  <2>1. SUFFICES ASSUME ~faulty PROVE \A i \in box : ~Names(c, i, box) OBVIOUS
  <2>2. GetMessage(box, ask[c].id) = None BY <2>1, IndexesArePart DEF FindNothing
  <2>3. (ask[c].id = Latest => box = {}) /\ (ask[c].id # Latest => ask[c].id \notin box)
    BY <1>3, <1>4, <2>2, GetMessageFinds
  <2> QED BY <2>3 DEF Names
<1> DEFINE r == IF kind = "file" \/ ask[c].op \in NilChecked THEN NotFound ELSE Reply("panic", None, {})
<1>6. r \in Answers /\ r.code \in {"not found", "panic"} BY ShortAnswers DEF NotFound, Reply, Answers
<1>7. Answer(c, r) /\ Handling(c, box) BY <1>1 DEF FindNothing, Handling, Untouched, StoreInv
<1> HIDE DEF r
<1>8. Fits(c, r, box) BY <1>3, <1>5, <1>6 DEF Fits
<1> QED BY <1>2, <1>6, <1>7, <1>8, AnswerKeeps

LEMMA FindKeeps == ASSUME IInv, NEW c \in Caller, Find(c), Untouched PROVE IInv'
<1>1. RequestsOK /\ StoreInv /\ Lived(c) /\ Noticed(c) BY DEF IInv, CallerInv
<1>2. Busy(c) /\ ask[c].op \in Reads BY DEF Find, Asked, Busy
<1>3. box \in since[c] BY <1>1, <1>2 DEF Lived
<1>4. last \in Nat /\ box \in SUBSET (1 .. last) BY <1>1, ApiAssumption DEF StoreInv
<1>5. ask[c].id \in Int /\ ask[c].id # None BY <1>1, <1>2, AskedId, OpsApart
<1>6. CASE Fails(c, box) BY <1>2, <1>6, FailsKeeps DEF Find
<1>7. CASE ~Fails(c, box)
  <2> DEFINE m == GetMessage(box, ask[c].id)
  <2>1. /\ m # None /\ found' = [found EXCEPT ![c] = m] /\ step' = [step EXCEPT ![c] = "found"]
        /\ BoxBecomes(box) /\ UNCHANGED <<ask, answer, seen>>
    BY <1>7 DEF Find
  <2>2. m \in box /\ (m = ask[c].id \/ (ask[c].id = Latest /\ \A j \in box : j <= m))
    BY <1>4, <1>5, <2>1, GetMessageFinds
  <2> HIDE DEF m
  <2>3. m \in Id BY <1>1, <2>2, BoxOfIds
  <2>4. Handling(c, box) BY <1>1, <2>1 DEF Handling, Untouched, StoreInv
  <2>5. /\ StoreInv' /\ box' = box /\ since' \in [Caller -> SUBSET SUBSET Id]
        /\ \A d \in Caller : since'[d] = (IF Busy(d) THEN since[d] \cup {box} ELSE since[d])
    BY <2>4, HandlingKeeps
  <2>6. RequestsOK' BY <1>1, <2>1, <2>3, <2>5 DEF RequestsOK, Untouched
  <2>7. step'[c] = "found" /\ found'[c] = m /\ ask'[c] = ask[c] /\ since'[c] = since[c]
    BY <1>1, <1>2, <1>3, <2>1, <2>5 DEF RequestsOK
  <2>8. Names(c, m, box) /\ \A i, b : Names(c, i, b)' = Names(c, i, b) BY <2>1, <2>2 DEF Names
  <2>9. FoundRight(c)' BY <1>2, <1>3, <2>7, <2>8 DEF FoundRight
  <2>10. Lived(c)' BY <1>1, <1>3, <2>5, <2>7 DEF Lived, Untouched
  <2>11. Noticed(c)' BY <1>1, <1>2 DEF Noticed, Untouched
  <2>12. TrueFor(c)' /\ HonestTo(c)' /\ CauseFor(c)' /\ DeletedFor(c)'
    BY <2>7 DEF TrueFor, HonestTo, CauseFor, DeletedFor, Answered
  <2>13. CallerInv(c)' BY <2>9, <2>10, <2>11, <2>12 DEF CallerInv
  <2>14. \A d \in Caller \ {c} : SameRequest(d) /\ trouble'[d] = trouble[d]
    BY <1>1, <2>1 DEF SameRequest, RequestsOK, Untouched
  <2> QED BY <2>5, <2>6, <2>13, <2>14, OneStepKeeps DEF Untouched
<1> QED BY <1>6, <1>7

LEMMA OpenKeeps == ASSUME IInv, NEW c \in Caller, Open(c), Untouched PROVE IInv'
<1>1. RequestsOK /\ StoreInv BY DEF IInv
<1>2. Busy(c) /\ step[c] = "found" BY DEF Open, Busy
<1>3. ask[c].op \in Reads /\ \E b \in since[c] : Names(c, found[c], b)
  BY <1>2 DEF IInv, CallerInv, FoundRight
<1>4. Handling(c, box) BY <1>1 DEF Open, Handling, Untouched, StoreInv
<1>5. ask[c].op \notin {"list", "delete", "purge"} /\ found[c] \in Id \cup {None}
  BY <1>1, <1>3, OpsApart DEF Writes, OnMailbox, RequestsOK
<1>6. ASSUME Answer(c, Reply("ok", found[c], {})) PROVE IInv'
  <2> DEFINE r == Reply("ok", found[c], {})
  <2>1. r \in Answers /\ r.code = "ok" /\ r.msg = found[c] BY <1>5 DEF Reply, Answers
  <2> HIDE DEF r
  <2>2. Fits(c, r, box) BY <1>3, <1>5, <2>1 DEF Fits
  <2> QED BY <1>2, <1>4, <1>6, <2>1, <2>2, AnswerKeeps DEF r
<1>7. ASSUME Answer(c, ServerError),
             \/ kind = "file" /\ (faulty \/ found[c] \notin box)
             \/ ask[c].op \in Parsing /\ found[c] \in Garbled
             \/ ask[c].flaw = "no such number"
      PROVE IInv'
  <2>1. ServerError \in Answers /\ ServerError.code = "error" BY ShortAnswers DEF ServerError, Reply
  <2>2. ask[c].flaw # "none" \/ faulty \/ ReadFails(c)
    BY <1>3, <1>7 DEF ReadFails, Unreadable, Names
  <2>3. Fits(c, ServerError, box) BY <2>1, <2>2 DEF Fits
  <2> QED BY <1>2, <1>4, <1>7, <2>1, <2>3, AnswerKeeps
<1> QED BY <1>6, <1>7 DEF Open

LEMMA ListKeeps == ASSUME IInv, NEW c \in Caller, List(c), Untouched PROVE IInv'
<1>1. RequestsOK /\ StoreInv BY DEF IInv
<1>2. Busy(c) /\ ask[c].op = "list" BY DEF List, Asked, Busy
<1>3. CASE Fails(c, box) BY <1>2, <1>3, FailsKeeps DEF List
<1>4. CASE ~Fails(c, box)
  <2>1. PICK b \in Indexes : Answer(c, Reply("ok", None, b)) BY <1>4 DEF List
  <2>2. Handling(c, box) BY <1>1, <1>4 DEF List, Handling, Untouched, StoreInv
  <2>3. b \subseteq Id /\ (b = box \/ (faulty /\ b = {})) BY <1>1, BoxOfIds, IndexesArePart
  <2> DEFINE r == Reply("ok", None, b)
  <2>4. r \in Answers /\ r.code = "ok" /\ r.list = b BY <2>3 DEF Reply, Answers
  <2>5. ask[c].op \notin Reads BY <1>2, OpsApart DEF OnMailbox
  <2> HIDE DEF r
  <2>6. Fits(c, r, box) BY <1>2, <2>3, <2>4, <2>5 DEF Fits
  <2> QED BY <1>2, <2>1, <2>2, <2>4, <2>6, AnswerKeeps DEF r
<1> QED BY <1>3, <1>4

LEMMA MarkSeenKeeps == ASSUME IInv, NEW c \in Caller, MarkSeen(c), Untouched PROVE IInv'
<1>1. RequestsOK /\ StoreInv BY DEF IInv
<1>2. Busy(c) /\ ask[c].op \in {"seen", "not seen"} BY DEF MarkSeen, Asked, Busy
<1>3. ASSUME NEW b \in SUBSET box, Fails(c, b), seen' \subseteq seen \cup box PROVE IInv'
  BY <1>2, <1>3, FailsKeeps
<1>4. ASSUME NEW b \in SUBSET box, BoxBecomes(b), Answer(c, OK), seen' \subseteq seen \cup box PROVE IInv'
  <2>1. Handling(c, b) BY <1>1, <1>4 DEF Handling, Untouched, StoreInv
  <2>2. OK \in Answers /\ OK.code = "ok" BY ShortAnswers DEF OK, Reply
  <2>3. ask[c].op \notin Reads \cup {"list", "delete", "purge"} BY <1>2, OpsApart DEF Writes
  <2>4. Fits(c, OK, b) BY <2>2, <2>3 DEF Fits
  <2> QED BY <1>2, <1>4, <2>1, <2>2, <2>4, AnswerKeeps
<1>5. CASE \E b \in Remains(box) : Fails(c, b) /\ seen' \in {seen, seen \cup ({ask[c].id} \cap b)}
  BY <1>3, <1>5, RemainsArePart
<1>6. CASE \E b \in Indexes : BoxBecomes(b) /\ Answer(c, OK) /\ seen' = seen \cup ({ask[c].id} \cap b)
  BY <1>4, <1>6, IndexesArePart
<1> QED BY <1>3, <1>4, <1>5, <1>6 DEF MarkSeen

LEMMA PurgeKeeps == ASSUME IInv, NEW c \in Caller, Purge(c), Untouched PROVE IInv'
<1>1. Busy(c) /\ ask[c].op = "purge" BY DEF Purge, Asked, Busy
<1>2. CASE \E b \in Remains({}) : Fails(c, b)
  BY <1>1, <1>2, RemainsArePart, FailsKeeps DEF Purge
<1>3. CASE BoxBecomes({}) /\ Answer(c, OK)
  <2>1. Handling(c, {}) BY <1>3 DEF Purge, Handling, Untouched, IInv, StoreInv
  <2>2. OK \in Answers /\ OK.code = "ok" BY ShortAnswers DEF OK, Reply
  <2>3. ask[c].op \notin Reads BY <1>1, OpsApart DEF OnMailbox
  <2>4. Fits(c, OK, {}) BY <1>1, <2>2, <2>3 DEF Fits
  <2> QED BY <1>1, <1>3, <2>1, <2>2, <2>4, AnswerKeeps
<1> QED BY <1>2, <1>3 DEF Purge

LEMMA DeleteKeeps == ASSUME IInv, NEW c \in Caller, Delete(c), Untouched PROVE IInv'
<1>1. Busy(c) /\ ask[c].op = "delete" BY DEF Delete, Asked, Busy
<1>2. ask[c].op \notin Reads BY <1>1, OpsApart DEF Writes
<1>3. CASE \E b \in Remains(box \ {ask[c].id}) : Fails(c, b)
  BY <1>1, <1>3, RemainsArePart, FailsKeeps DEF Delete
<1>4. ASSUME NEW b \in Indexes, ask[c].id \notin b, BoxBecomes(box), Answer(c, NotFound) PROVE IInv'
  <2>1. Handling(c, box) BY <1>4 DEF Delete, Handling, Untouched, IInv, StoreInv
  <2>2. NotFound \in Answers /\ NotFound.code = "not found" BY ShortAnswers DEF NotFound, Reply
  <2>3. ask[c].id # Latest => faulty \/ \A i \in box : ~Names(c, i, box) BY <1>4, IndexesArePart DEF Names
  <2>4. Fits(c, NotFound, box) BY <1>1, <2>2, <2>3 DEF Fits
  <2> QED BY <1>1, <1>4, <2>1, <2>2, <2>4, AnswerKeeps
<1>5. ASSUME BoxBecomes(box \ {ask[c].id}), Answer(c, OK) PROVE IInv'
  <2>1. Handling(c, box \ {ask[c].id}) BY <1>5 DEF Delete, Handling, Untouched, IInv, StoreInv
  <2>2. OK \in Answers /\ OK.code = "ok" BY ShortAnswers DEF OK, Reply
  <2>3. Fits(c, OK, box \ {ask[c].id}) BY <1>1, <1>2, <2>2 DEF Fits
  <2> QED BY <1>1, <1>5, <2>1, <2>2, <2>3, AnswerKeeps
<1> QED BY <1>3, <1>4, <1>5 DEF Delete

LEMMA NextKeeps == ASSUME IInv, [Next]_vars PROVE IInv'
<1>1. CASE Others /\ UNCHANGED kind BY <1>1, OthersKeep
<1>2. ASSUME NEW c \in Caller, Handle(c), UNCHANGED kind PROVE IInv'
  <2>1. Untouched BY <1>2 DEF Handle, Untouched
  <2> QED
    BY <1>2, <2>1, FindNothingKeeps, FindKeeps, OpenKeeps, ListKeeps, PurgeKeeps, DeleteKeeps, MarkSeenKeeps
    DEF Handle
<1>3. ASSUME NEW c \in Caller, NEW a \in Ask, Request(c, a), UNCHANGED kind PROVE IInv' BY <1>3, RequestKeeps
<1>4. CASE UNCHANGED vars
  <2>1. UNCHANGED <<kind, box, last, seen, faulty, step, ask, found, answer, since, trouble>>
    BY <1>4 DEF vars, storeVars, requestVars
  <2>2. StoreInv' /\ RequestsOK' BY <2>1 DEF IInv, StoreInv, RequestsOK
  <2>3. ASSUME NEW c \in Caller PROVE CallerInv(c)'
    <3>1. CallerInv(c) BY DEF IInv
    <3>2. Lived(c)' /\ Noticed(c)' /\ FoundRight(c)'
      BY <2>1, <3>1 DEF CallerInv, Lived, Noticed, FoundRight, Busy, Names
    <3>3. TrueFor(c)' /\ HonestTo(c)' BY <2>1, <3>1 DEF CallerInv, TrueFor, HonestTo, Answered, Names
    <3>4. CauseFor(c)' /\ DeletedFor(c)'
      BY <2>1, <3>1 DEF CallerInv, CauseFor, ReadFails, Unreadable, DeletedFor, Answered, Names
    <3> QED BY <3>2, <3>3, <3>4 DEF CallerInv
  <2> QED BY <2>2, <2>3 DEF IInv
<1> QED BY <1>1, <1>2, <1>3, <1>4 DEF Next

-----------------------------------------------------------------------------
(* The theorems *)

THEOREM Invariance == Spec => []IInv
<1> QED BY InitIInv, NextKeeps, PTL DEF Spec

(* The types of the mailbox, the requests and the answers.                 *)
THEOREM TypeCorrect == Spec => []TypeOK
<1> DEFINE KindOK == kind \in {"memory", "file"}
<1>1. Init => KindOK BY DEF Init
<1>2. KindOK /\ [Next]_vars => KindOK' BY DEF Next, vars
<1>3. IInv /\ KindOK => TypeOK
  <2> SUFFICES ASSUME IInv, KindOK PROVE TypeOK OBVIOUS
  <2>1. RequestsOK /\ StoreInv BY DEF IInv
  <2>2. \A c \in Caller : answer[c] \in Answers BY <2>1 DEF RequestsOK
  <2> QED BY <2>1, <2>2 DEF TypeOK, RequestsOK, StoreInv, Answers
<1> QED BY <1>1, <1>2, <1>3, Invariance, PTL DEF Spec

(* Whatever is delivered and removed while a message is looked up and      *)
(* opened, a reader is shown the message it asked for, and "latest" is one *)
(* that was the newest during the request (GetMessage and Source of both   *)
(* stores under the REST and web UI handlers); a listing is what there was *)
(* at some moment of the request.                                          *)
THEOREM ReadersAreShownWhatTheyAsked == Spec => []AnswersAreTrue
<1>1. IInv => AnswersAreTrue BY DEF IInv, CallerInv, TrueFor, AnswersAreTrue
<1> QED BY <1>1, Invariance, PTL

(* A 404 is given only for a message that was not there at some moment of  *)
(* the request, or by a file store on a disk that fails.                   *)
THEOREM NotFoundIsTrue == Spec => []NotFoundIsHonest
<1>1. IInv => NotFoundIsHonest BY DEF IInv, CallerInv, HonestTo, NotFoundIsHonest
<1> QED BY <1>1, Invariance, PTL

(* A 500 is given for a request with a flaw of its own, by a file store    *)
(* whose disk failed during the request, or for a message that cannot be   *)
(* parsed or went after it was found: never otherwise, and by the memory   *)
(* store never for the disk or the message that went.                      *)
THEOREM ErrorsExplained == Spec => []ErrorsHaveCauses
<1>1. IInv => ErrorsHaveCauses
  <2> SUFFICES ASSUME IInv, NEW c \in Caller, Answered(c, {"error"})
               PROVE  \/ ask[c].flaw # "none"
                      \/ kind = "file" /\ trouble[c]
                      \/ ask[c].op \in Reads /\ \E b \in since[c] : \E i \in b : Names(c, i, b) /\ Unreadable(c, i)
    BY DEF ErrorsHaveCauses
  <2>1. CauseFor(c) /\ Noticed(c) BY DEF IInv, CallerInv
  <2> QED BY <2>1 DEF CauseFor, Noticed, ReadFails
<1> QED BY <1>1, Invariance, PTL

(* Each answer of a handler, 200, 404 or 500, is true of a moment of its   *)
(* request, with any number of callers and messages.                       *)
THEOREM HandlersAreHonest == Spec => []AnswersAreHonest
<1>1. TypeOK /\ AnswersAreTrue /\ NotFoundIsHonest /\ ErrorsHaveCauses => AnswersAreHonest
  BY DEF AnswersAreHonest
<1> QED BY <1>1, TypeCorrect, ReadersAreShownWhatTheyAsked, NotFoundIsTrue, ErrorsExplained, PTL

(* What a DELETE answered with 200 removed is never in the mailbox again.  *)
THEOREM DeletionIsFinal == Spec => []DeletedStaysDeleted
<1>1. IInv => DeletedStaysDeleted BY DEF IInv, CallerInv, DeletedFor, DeletedStaysDeleted
<1> QED BY <1>1, Invariance, PTL

-----------------------------------------------------------------------------
(* The command line client *)

(* The loops take their messages oldest first.                             *)
LEMMA OldestIsOne == ASSUME NEW s \in SUBSET Id, s # {} PROVE Oldest(s) \in s
<1> DEFINE R == {ss \in Nat \X Nat : ss[1] < ss[2]}
<1>1. IsWellFoundedOn(R, Nat)
  BY NatLessThanWellFounded DEF OpToRel
<1>2. s \subseteq Nat BY ApiAssumption DEF Id
<1>3. \A x, y \in Nat : x < y => <<x, y>> \in R
  OBVIOUS
<1>4. PICK i \in s : \A j \in s : ~ (<<j, i>> \in R)
  <2> HIDE DEF R
  <2> QED BY <1>1, <1>2, WFMin
<1>5. \A j \in s : i <= j
  <2> SUFFICES ASSUME NEW j \in s PROVE i <= j OBVIOUS
  <2>1. i \in Nat /\ j \in Nat BY <1>2
  <2>2. ~(j < i)
    <3> HIDE DEF R
    <3> QED BY <1>3, <1>4, <2>1
  <2> QED BY <2>1, <2>2
<1> QED BY <1>4, <1>5 DEF Oldest

(* What the criteria admit.                                                *)
Wished == IF flags.cmd = "match" THEN wanted ELSE Id

CliTypes ==
    /\ flags \in Flags \cup {NoCommand} /\ wanted \in SUBSET Id
    /\ phase \in {"start", "list", "output", "delete", "exit"}
    /\ status \in {Running, ExitSuccess, ExitFailure}
    /\ todo \in SUBSET matches /\ matches \in SUBSET Id /\ printed \in SUBSET matches
    /\ matches \subseteq Wished /\ matches \subseteq 1 .. last

(* How far the command is, by its phase: the messages that the output loop *)
(* has passed are printed, those that the delete loop has passed are gone. *)
Progress ==
    /\ phase \in {"start", "list"} => matches = {} /\ ask[Cli].op = "list"
    /\ phase = "output" => todo # {} /\ printed = matches \ todo /\ ask[Cli].op # "delete"
    /\ phase = "delete" => todo # {} /\ printed = matches /\ (matches \ todo) \cap box = {}
    /\ phase = "exit" /\ status = ExitSuccess =>
          printed = matches /\ (flags.delete => matches \cap box = {})
    /\ phase # "exit" => status = Running /\ flags # NoCommand

AsksToDelete == flags # NoCommand /\ ask[Cli].op = "delete" => ask[Cli].id \in printed

(* A message that the server said it has deleted does not come back.       *)
GoneForCli ==
    flags # NoCommand /\ ask[Cli].op = "delete" /\ Answered(Cli, {"ok"}) => ask[Cli].id \notin box

(* A listing is of messages that have arrived.                             *)
ListArrived == answer[Cli].list \subseteq 1 .. last

CliInv == CliTypes /\ Progress /\ AsksToDelete /\ GoneForCli /\ ListArrived

LEMMA InitCliInv == CliInit => CliInv
<1> SUFFICES ASSUME CliInit PROVE CliInv OBVIOUS
<1>1. ask[Cli].op = "list" BY CliAssumption DEF CliInit, Init
<1>2. CliTypes
  BY DEF CliInit, CliTypes, Wished, Running, ExitSuccess, ExitFailure
<1>3. flags \in Flags => flags # NoCommand
  <2>1. flags \in Flags => flags.cmd \in {"list", "match", "mbox"} BY DEF Flags
  <2> QED BY <2>1 DEF NoCommand
<1>4. Progress
  BY <1>1, <1>3 DEF CliInit, Progress, NoCommand, Running, ExitSuccess
<1>5. ListArrived BY CliAssumption DEF CliInit, Init, NoReply, Reply, ListArrived
<1> QED BY <1>1, <1>2, <1>4, <1>5 DEF CliInv, AsksToDelete, GoneForCli

(* Each step of the client, and each around it, is one of WebApi's.        *)
LEMMA CliStepIsNext == ASSUME IInv, CliInv, [CliNext]_allVars PROVE [Next]_vars
<1> USE CliAssumption
<1>1. ASSUME NEW a \in Ask, Request(Cli, a), UNCHANGED kind PROVE Next
  BY <1>1 DEF Next
<1>2. ASSUME NEW op \in {"source", "delete"}, todo # {}, RequestFor(op, Oldest(todo)), UNCHANGED kind PROVE Next
  <2>1. PICK w \in {"none", "name"} : Request(Cli, [op |-> op, id |-> Oldest(todo), flaw |-> w])
    BY <1>2 DEF RequestFor
  <2>2. Oldest(todo) \in Id BY <1>2, OldestIsOne DEF CliInv, CliTypes
  <2>3. Oldest(todo) # None BY <2>2, ApiAssumption DEF Id, None
  <2>4. [op |-> op, id |-> Oldest(todo), flaw |-> w] \in Ask
    BY <2>2, <2>3 DEF Ask, Reads, ApiReads, Writes, OnMailbox, FlawsOf
  <2> QED BY <1>1, <1>2, <2>1, <2>4
<1>3. \A w \in {"none", "name"} : [op |-> "list", id |-> None, flaw |-> w] \in Ask
  BY DEF Ask, OnMailbox, FlawsOf
<1>4. CASE ListMailbox BY <1>1, <1>3, <1>4 DEF ListMailbox, RequestFor
<1>5. CASE GetSource
  <2>1. todo # {} BY <1>5 DEF GetSource, CliInv, Progress
  <2> QED BY <1>2, <1>5, <2>1 DEF GetSource
<1>6. CASE DeleteMatch BY <1>2, <1>6 DEF DeleteMatch
<1>7. CASE NewClientFails \/ Listed \/ GotSource \/ Deleted \/ RestFails
  BY <1>7 DEF NewClientFails, Listed, GotSource, Deleted, RestFails
<1>8. CASE Serve BY <1>8 DEF Serve, Next
<1>9. CASE Browse BY <1>1, <1>9 DEF Browse, cliVars
<1>10. CASE Meanwhile BY <1>10 DEF Meanwhile, Next
<1>11. CASE UNCHANGED allVars BY <1>11 DEF allVars
<1> QED BY <1>4, <1>5, <1>6, <1>7, <1>8, <1>9, <1>10, <1>11 DEF CliNext, Execute

(* The server's steps and the others' under a client that waits.           *)
LEMMA ServedKeepsCli ==
    ASSUME IInv, CliInv, UNCHANGED cliVars, BoxMoves, ask' = ask,
           ask[Cli].op = "delete" /\ Answered(Cli, {"ok"})' /\ ask[Cli].id \in 1 .. last
               => Answered(Cli, {"ok"}) \/ ask[Cli].id \notin box',
           answer'[Cli].list \in {{}, answer[Cli].list, box}
    PROVE  CliInv'
<1>1. /\ flags' = flags /\ wanted' = wanted /\ phase' = phase /\ todo' = todo /\ matches' = matches
      /\ printed' = printed /\ status' = status
  BY DEF cliVars
<1>2. last \in Nat /\ last' \in Nat /\ last <= last' BY ApiAssumption DEF IInv, StoreInv, BoxMoves
<1>3. \A i \in 1 .. last : i \in box' => i \in box BY <1>2 DEF BoxMoves
<1>4. matches \subseteq 1 .. last /\ matches \subseteq 1 .. last'
  BY <1>2 DEF CliInv, CliTypes
<1>5. CliTypes' BY <1>1, <1>4 DEF CliInv, CliTypes, Wished
<1>6. Progress'
  <2>1. \A s \in SUBSET matches : s \cap box = {} => s \cap box' = {} BY <1>3, <1>4
  <2>2. matches \ todo \in SUBSET matches OBVIOUS
  <2> QED BY <1>1, <2>1, <2>2 DEF CliInv, Progress
<1>7. AsksToDelete' BY <1>1 DEF CliInv, AsksToDelete
<1>8. GoneForCli'
  <2> SUFFICES ASSUME flags # NoCommand, ask[Cli].op = "delete", Answered(Cli, {"ok"})'
               PROVE  ask[Cli].id \notin box'
    BY <1>1 DEF GoneForCli
  <2>1. ask[Cli].id \in 1 .. last
    BY <1>4 DEF CliInv, AsksToDelete, CliTypes
  <2> QED BY <1>3, <2>1 DEF CliInv, GoneForCli
<1>9. ListArrived'
  <2>1. answer'[Cli].list \subseteq 1 .. last
    BY DEF CliInv, ListArrived, IInv, StoreInv
  <2> QED BY <1>2, <2>1 DEF ListArrived
<1> QED BY <1>5, <1>6, <1>7, <1>8, <1>9 DEF CliInv

LEMMA ServeKeepsCli == ASSUME IInv, CliInv, Serve PROVE CliInv'
<1>1. UNCHANGED cliVars /\ Handle(Cli) /\ last' = last BY DEF Serve, Handle
<1>2. StoreInv /\ RequestsOK BY DEF IInv
<1>3. box' \subseteq box
  <2>1. Fails(Cli, box') => BoxBecomes(box') BY DEF Fails
  <2>2. CASE Purge(Cli) BY <2>2, RemainsArePart DEF Purge, Fails, BoxBecomes
  <2>3. CASE Delete(Cli) BY <2>3, RemainsArePart DEF Delete, Fails, BoxBecomes
  <2>4. CASE MarkSeen(Cli) BY <2>4, RemainsArePart, IndexesArePart DEF MarkSeen, Fails, BoxBecomes
  <2>5. CASE FindNothing(Cli) \/ Find(Cli) \/ Open(Cli) \/ List(Cli)
    BY <2>5 DEF FindNothing, Find, Open, List, Fails, BoxBecomes
  <2> QED BY <1>1, <2>2, <2>3, <2>4, <2>5 DEF Handle
<1>4. BoxMoves BY <1>1, <1>2, <1>3, LosingMoves
<1> DEFINE Told(code, s) == \E m : Answer(Cli, Reply(code, m, s))
<1>5. ASSUME NEW code, NEW s, Told(code, s)
      PROVE  ask' = ask /\ answer'[Cli].list = s /\ (Answered(Cli, {"ok"})' => code = "ok")
  BY <1>2, <1>5, CliAssumption DEF Answer, Answered, Reply, RequestsOK
<1>6. \A b : Fails(Cli, b) => Told("error", {}) BY DEF Fails, ServerError
<1>7. CASE FindNothing(Cli) \/ Open(Cli) \/ Purge(Cli) \/ MarkSeen(Cli)
  <2>1. \E code : Told(code, {})
    BY <1>6, <1>7 DEF FindNothing, Open, Purge, MarkSeen, OK, NotFound, ServerError
  <2>2. ask[Cli].op # "delete"
    <3>1. CASE Open(Cli)
      BY <3>1, CliAssumption, OpsApart DEF Open, IInv, CallerInv, FoundRight, Writes
    <3>2. CASE ~Open(Cli) BY <1>7, <3>2, OpsApart DEF FindNothing, Purge, MarkSeen, Asked, Writes
    <3> QED BY <3>1, <3>2
  <2> HIDE DEF Told
  <2> QED BY <1>1, <1>4, <1>5, <2>1, <2>2, ServedKeepsCli
<1>8. CASE Delete(Cli)
  <2>1. Told("error", {}) \/ Told("not found", {}) \/ (Told("ok", {}) /\ BoxBecomes(box \ {ask[Cli].id}))
    BY <1>6, <1>8 DEF Delete, OK, NotFound
  <2>2. BoxBecomes(box \ {ask[Cli].id}) => ask[Cli].id \notin box' BY DEF BoxBecomes
  <2>3. /\ ask' = ask /\ answer'[Cli].list = {}
        /\ Answered(Cli, {"ok"})' => ask[Cli].id \notin box'
    <3> HIDE DEF Told
    <3>1. ASSUME NEW code \in {"error", "not found"}, Told(code, {})
          PROVE  ask' = ask /\ answer'[Cli].list = {} /\ ~Answered(Cli, {"ok"})'
      BY <1>5, <3>1
    <3>2. CASE Told("ok", {}) /\ BoxBecomes(box \ {ask[Cli].id}) BY <1>5, <2>2, <3>2
    <3> QED BY <2>1, <3>1, <3>2
  <2> QED BY <1>1, <1>4, <2>3, ServedKeepsCli
<1>9. CASE List(Cli)
  <2>1. ask[Cli].op # "delete" BY <1>9 DEF List, Asked
  <2>2. Told("error", {}) \/ \E t \in Indexes : Told("ok", t)
    BY <1>6, <1>9 DEF List
  <2>3. ask' = ask /\ answer'[Cli].list \in {{}, box}
    <3>1. \A t \in Indexes : t = {} \/ t = box BY IndexesArePart
    <3> HIDE DEF Told
    <3> QED BY <1>5, <2>2, <3>1
  <2> QED BY <1>1, <1>4, <2>1, <2>3, ServedKeepsCli
<1>10. CASE Find(Cli)
  <2>1. ask[Cli].op # "delete" BY <1>10, OpsApart DEF Find, Asked, Writes
  <2>2. Told("error", {}) \/ (ask' = ask /\ answer' = answer) BY <1>6, <1>10 DEF Find
  <2> HIDE DEF Told
  <2> QED BY <1>1, <1>4, <1>5, <2>1, <2>2, ServedKeepsCli
<1> QED BY <1>1, <1>7, <1>8, <1>9, <1>10 DEF Handle

LEMMA MeanwhileKeepsCli == ASSUME IInv, CliInv, Meanwhile PROVE CliInv'
<1>1. UNCHANGED cliVars /\ Others BY DEF Meanwhile
<1>2. UNCHANGED <<ask, step, answer>>
  BY <1>1 DEF Others, Deliver, RemoveByOthers, WriteFails, DiskFails, DiskRecovers, requestVars
<1>3. BoxMoves
  <2>1. StoreInv /\ last \in Nat BY ApiAssumption DEF IInv, StoreInv
  <2>2. CASE Deliver
    <3>1. PICK b \in Indexes : box' = b \cup {last + 1} /\ last' = last + 1 BY <2>2 DEF Deliver, BoxBecomes
    <3>2. b \subseteq box BY IndexesArePart
    <3>3. box' \subseteq 1 .. last + 1 BY <2>1, <3>1, <3>2 DEF StoreInv
    <3> QED BY <2>1, <3>1, <3>2, <3>3 DEF BoxMoves
  <2>3. ASSUME NEW i \in Id, RemoveByOthers(i) PROVE BoxMoves
    BY <2>1, <2>3, LosingMoves DEF RemoveByOthers, BoxBecomes
  <2>4. CASE WriteFails
    <3>1. PICK i \in Id : \E b \in Remains(box \ {i}) : BoxBecomes(b) BY <2>4 DEF WriteFails
    <3>2. box' \subseteq box /\ last' = last BY <2>4, <3>1, RemainsArePart DEF WriteFails, BoxBecomes
    <3> QED BY <2>1, <3>2, LosingMoves
  <2>5. CASE DiskFails \/ DiskRecovers BY <2>1, <2>5, LosingMoves DEF DiskFails, DiskRecovers
  <2> QED BY <1>1, <2>2, <2>3, <2>4, <2>5 DEF Others
<1> QED BY <1>1, <1>2, <1>3, ServedKeepsCli DEF Answered

(* A request of the client: what it asks to delete it has printed.         *)
LEMMA AskingKeepsCli ==
    ASSUME IInv, CliInv, NEW a, Request(Cli, a), UNCHANGED <<flags, wanted, todo, matches, printed, status>>,
           phase' \in {"start", "list", "output", "delete", "exit"},
           Progress', flags # NoCommand /\ a.op = "delete" => a.id \in printed
    PROVE  CliInv'
<1>1. ask'[Cli] = a /\ step'[Cli] = "asked"
  BY CliAssumption DEF Request, IInv, RequestsOK
<1>2. last' = last BY DEF Request, storeVars
<1>3. CliTypes' BY <1>2 DEF CliInv, CliTypes, Wished
<1>4. AsksToDelete' /\ GoneForCli' BY <1>1 DEF AsksToDelete, GoneForCli, Answered
<1>5. answer'[Cli] = NoReply BY CliAssumption DEF Request, IInv, RequestsOK
<1>6. ListArrived' BY <1>5 DEF NoReply, Reply, ListArrived
<1> QED BY <1>3, <1>4, <1>6 DEF CliInv

LEMMA RequestsKeepCli ==
    ASSUME IInv, CliInv, ListMailbox \/ GetSource \/ DeleteMatch \/ Browse
    PROVE  CliInv'
<1>0. ASSUME NEW a, Request(Cli, a) PROVE ask'[Cli] = a /\ box' = box
  BY <1>0, CliAssumption DEF Request, IInv, RequestsOK, storeVars
<1>1. CASE ListMailbox
  <2>0. PICK w \in {"none", "name"} : Request(Cli, [op |-> "list", id |-> None, flaw |-> w])
    BY <1>1 DEF ListMailbox, RequestFor
  <2> DEFINE a == [op |-> "list", id |-> None, flaw |-> w]
  <2>1. /\ Request(Cli, a) /\ phase = "start" /\ phase' = "list"
        /\ UNCHANGED <<flags, wanted, todo, matches, printed, status>>
    BY <1>1, <2>0 DEF ListMailbox
  <2>2. Progress' BY <1>0, <2>1 DEF CliInv, Progress
  <2> QED BY <2>1, <2>2, AskingKeepsCli
<1>2. CASE GetSource
  <2>0. PICK w \in {"none", "name"} : Request(Cli, [op |-> "source", id |-> Oldest(todo), flaw |-> w])
    BY <1>2 DEF GetSource, RequestFor
  <2> DEFINE a == [op |-> "source", id |-> Oldest(todo), flaw |-> w]
  <2>1. Request(Cli, a) /\ phase = "output" /\ UNCHANGED cliVars BY <1>2, <2>0 DEF GetSource
  <2>2. Progress' BY <1>0, <2>1 DEF CliInv, Progress, cliVars
  <2> QED BY <2>1, <2>2, AskingKeepsCli DEF cliVars, CliInv, CliTypes
<1>3. CASE DeleteMatch
  <2>0. PICK w \in {"none", "name"} : Request(Cli, [op |-> "delete", id |-> Oldest(todo), flaw |-> w])
    BY <1>3 DEF DeleteMatch, RequestFor
  <2> DEFINE a == [op |-> "delete", id |-> Oldest(todo), flaw |-> w]
  <2>1. Request(Cli, a) /\ phase = "delete" /\ UNCHANGED cliVars BY <1>3, <2>0 DEF DeleteMatch
  <2>2. Oldest(todo) \in printed BY <2>1, OldestIsOne DEF CliInv, CliTypes, Progress
  <2>3. Progress' BY <1>0, <2>1 DEF CliInv, Progress, cliVars
  <2> QED BY <2>1, <2>2, <2>3, AskingKeepsCli DEF cliVars, CliInv, CliTypes
<1>4. CASE Browse
  <2>1. PICK a \in Ask : Request(Cli, a) BY <1>4 DEF Browse
  <2>2. flags = NoCommand /\ UNCHANGED cliVars BY <1>4 DEF Browse
  <2>3. phase = "exit" BY <2>2 DEF CliInv, Progress
  <2>4. Progress' BY <1>0, <2>1, <2>2, <2>3 DEF CliInv, Progress, cliVars
  <2> QED BY <2>1, <2>2, <2>4, AskingKeepsCli DEF cliVars, CliInv, CliTypes
<1> QED BY <1>1, <1>2, <1>3, <1>4

(* A step of the client alone.                                             *)
LEMMA OwnStepKeepsCli ==
    ASSUME IInv, CliInv, UNCHANGED <<vars, flags, wanted>>, CliTypes', Progress',
           printed \subseteq printed'
    PROVE  CliInv'
<1>1. UNCHANGED <<box, last, ask, step, answer>> BY DEF vars, storeVars, requestVars
<1> QED BY <1>1 DEF CliInv, AsksToDelete, GoneForCli, Answered, ListArrived

LEMMA ExitKeepsCli ==
    ASSUME IInv, CliInv, UNCHANGED <<vars, flags, wanted, matches, printed>>, Exit(ExitFailure)
    PROVE  CliInv'
<1>1. last' = last BY DEF vars, storeVars
<1>2. CliTypes' BY <1>1 DEF Exit, CliInv, CliTypes, Wished
<1>3. Progress' BY DEF Exit, Progress, ExitFailure, ExitSuccess
<1> QED BY <1>2, <1>3, OwnStepKeepsCli

(* The loop of one phase goes on, to the next phase, or to the end.        *)
LEMMA GoKeepsCli ==
    ASSUME IInv, CliInv, NEW p \in {"output", "delete"}, NEW left \in SUBSET matches',
           NEW out \in SUBSET matches', Go(p, left, out), UNCHANGED <<vars, flags, wanted>>,
           matches' \in SUBSET Id, matches' \subseteq Wished, matches' \subseteq 1 .. last,
           flags # NoCommand, status = Running, printed \subseteq out,
           p = "output" => out = matches' \ left /\ ask[Cli].op # "delete",
           p = "delete" => out = matches' /\ (matches' \ left) \cap box = {}
    PROVE  CliInv'
<1>1. last' = last /\ box' = box /\ ask' = ask /\ printed' = out
  BY DEF vars, storeVars, requestVars, Go
<1>2. CASE left # {}
  <2>1. phase' = p /\ todo' = left /\ status' = status BY <1>2 DEF Go
  <2>2. CliTypes' BY <1>1, <2>1 DEF CliInv, CliTypes, Wished
  <2>3. Progress' BY <1>1, <1>2, <2>1 DEF Progress
  <2> QED BY <1>1, <2>2, <2>3, OwnStepKeepsCli
<1>3. CASE left = {} /\ p = "output" /\ flags.delete /\ matches' # {}
  <2>1. phase' = "delete" /\ todo' = matches' /\ status' = status BY <1>3 DEF Go
  <2>2. CliTypes' BY <1>1, <2>1 DEF CliInv, CliTypes, Wished
  <2>3. out = matches' BY <1>3
  <2>4. Progress' BY <1>1, <1>3, <2>1, <2>3 DEF Progress
  <2> QED BY <1>1, <2>2, <2>4, OwnStepKeepsCli
<1>4. CASE left = {} /\ ~(p = "output" /\ flags.delete /\ matches' # {})
  <2>1. phase' = "exit" /\ todo' = {} /\ status' = ExitSuccess BY <1>4 DEF Go, Exit
  <2>2. CliTypes' BY <1>1, <2>1 DEF CliInv, CliTypes, Wished
  <2>3. out = matches' /\ (flags.delete => matches' \cap box = {}) BY <1>4
  <2>4. Progress' BY <1>1, <2>1, <2>3 DEF Progress
  <2> QED BY <1>1, <2>2, <2>4, OwnStepKeepsCli
<1> QED BY <1>2, <1>3, <1>4

LEMMA ListedKeepsCli == ASSUME IInv, CliInv, Listed PROVE CliInv'
<1>1. /\ phase = "list" /\ matches' = Selected /\ UNCHANGED <<vars, flags, wanted>>
  BY DEF Listed, Returned
<1>2. status = Running /\ flags # NoCommand /\ matches = {} /\ printed = {} /\ ask[Cli].op = "list"
  BY <1>1 DEF CliInv, Progress, CliTypes
<1>3. Selected \subseteq answer[Cli].list /\ Selected \subseteq Wished
  <2>1. answer[Cli].list \subseteq Id
    BY CliAssumption DEF IInv, RequestsOK, Answers
  <2> QED BY <2>1 DEF Selected, Wished
<1>4. matches' \in SUBSET Id /\ matches' \subseteq Wished /\ matches' \subseteq 1 .. last
  <2>1. Wished \subseteq Id BY DEF CliInv, CliTypes, Wished
  <2> QED BY <1>1, <1>3, <2>1 DEF CliInv, ListArrived
<1>5. CASE flags.cmd = "match" /\ Selected = {}
  <2>1. matches' = matches /\ printed' = printed BY <1>1, <1>2, <1>5 DEF Listed
  <2> QED BY <1>1, <1>5, <2>1, ExitKeepsCli DEF Listed
<1>6. CASE ~(flags.cmd = "match" /\ Selected = {}) /\ flags.output = "mbox"
  <2>1. Go("output", matches', {}) BY <1>1, <1>6 DEF Listed
  <2>2. matches' \in SUBSET matches' /\ {} \in SUBSET matches' /\ {} = matches' \ matches' OBVIOUS
  <2>3. ask[Cli].op # "delete" BY <1>2
  <2> QED BY <1>1, <1>2, <1>4, <2>1, <2>2, <2>3, GoKeepsCli
<1>7. CASE ~(flags.cmd = "match" /\ Selected = {}) /\ flags.output # "mbox"
  <2>1. Go("output", {}, matches') BY <1>1, <1>7 DEF Listed
  <2>2. {} \in SUBSET matches' /\ matches' = matches' \ {} OBVIOUS
  <2>3. ask[Cli].op # "delete" BY <1>2
  <2> QED BY <1>1, <1>2, <1>4, <2>1, <2>2, <2>3, GoKeepsCli
<1> QED BY <1>5, <1>6, <1>7

LEMMA GotSourceKeepsCli == ASSUME IInv, CliInv, GotSource PROVE CliInv'
<1> DEFINE i == ask[Cli].id
<1>1. /\ phase = "output" /\ ask[Cli].op = "source" /\ i = Oldest(todo)
      /\ UNCHANGED <<vars, flags, wanted, matches>> /\ Go("output", todo \ {i}, printed \cup {i})
  BY DEF GotSource, Returned, Asking
<1>2. todo # {} /\ printed = matches \ todo /\ status = Running /\ flags # NoCommand /\ ask[Cli].op # "delete"
  BY <1>1 DEF CliInv, Progress
<1>3. i \in todo BY <1>1, <1>2, OldestIsOne DEF CliInv, CliTypes
<1>4. matches' = matches /\ todo \subseteq matches BY <1>1 DEF CliInv, CliTypes
<1>5. printed \cup {i} = matches' \ (todo \ {i}) BY <1>2, <1>3, <1>4
<1> HIDE DEF i
<1> QED BY <1>1, <1>2, <1>3, <1>4, <1>5, GoKeepsCli DEF CliInv, CliTypes

LEMMA DeletedKeepsCli == ASSUME IInv, CliInv, Deleted PROVE CliInv'
<1> DEFINE i == ask[Cli].id
<1>1. /\ phase = "delete" /\ ask[Cli].op = "delete" /\ i = Oldest(todo) /\ Answered(Cli, {"ok"})
      /\ UNCHANGED <<vars, flags, wanted, matches>> /\ Go("delete", todo \ {i}, printed)
  BY DEF Deleted, Returned, Answered, Asking
<1>2. /\ todo # {} /\ printed = matches /\ (matches \ todo) \cap box = {}
      /\ status = Running /\ flags # NoCommand
  BY <1>1 DEF CliInv, Progress
<1>3. i \notin box BY <1>1, <1>2 DEF CliInv, GoneForCli
<1>4. matches' = matches /\ todo \subseteq matches BY <1>1 DEF CliInv, CliTypes
<1>5. printed = matches' /\ (matches' \ (todo \ {i})) \cap box = {} BY <1>2, <1>3, <1>4
<1> HIDE DEF i
<1> QED BY <1>1, <1>2, <1>4, <1>5, GoKeepsCli DEF CliInv, CliTypes

LEMMA CliNextKeeps == ASSUME IInv, CliInv, [CliNext]_allVars PROVE CliInv'
<1>1. CASE NewClientFails \/ RestFails
  BY <1>1, ExitKeepsCli DEF NewClientFails, RestFails
<1>2. CASE UNCHANGED allVars
  BY <1>2 DEF allVars, vars, storeVars, requestVars, cliVars, CliInv, CliTypes, Progress, AsksToDelete,
              GoneForCli, ListArrived, Answered, Wished
<1> QED
  BY <1>1, <1>2, RequestsKeepCli, ListedKeepsCli, GotSourceKeepsCli, DeletedKeepsCli, ServeKeepsCli,
     MeanwhileKeepsCli DEF CliNext, Execute

LEMMA CliInvariance == CliSpec => [](IInv /\ CliInv)
<1>1. CliInit => IInv /\ CliInv BY InitIInv, InitCliInv DEF CliInit
<1>2. (IInv /\ CliInv) /\ [CliNext]_allVars => (IInv /\ CliInv)'
  BY CliStepIsNext, NextKeeps, CliNextKeeps
<1> QED BY <1>1, <1>2, PTL DEF CliSpec

(* The command line client is one of the callers that WebApi is about, so  *)
(* that what holds of the API's answers holds of those it gets.            *)
THEOREM ClientIsACaller == CliSpec => Spec
<1>1. CliInit => Init BY DEF CliInit
<1>2. IInv /\ CliInv /\ [CliNext]_allVars => [Next]_vars BY CliStepIsNext
<1> QED BY <1>1, <1>2, CliInvariance, PTL DEF CliSpec, Spec

(* What a command deletes it has printed, of what its criteria match and   *)
(* nothing else, and exit status 0 says that all of it was printed and,    *)
(* with -delete, that none of it is left - whatever arrives and goes       *)
(* between its requests.                                                   *)
THEOREM CommandsAreTrue == CliSpec => []CommandIsTrue
<1>1. CliInv => CommandIsTrue
  BY DEF CliInv, CliTypes, Progress, AsksToDelete, Wished, CommandIsTrue, DeletesWhatItPrinted,
         SuccessMeansDone, Running, ExitSuccess
<1> QED BY <1>1, CliInvariance, PTL
=============================================================================
