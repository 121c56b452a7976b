--------------------------- MODULE MemStoreProofs ---------------------------
(***************************************************************************)
(* What holds of MemStore for any number of clients and mailboxes, any     *)
(* sizes, any cap and any maxSize.  MaxIndex is a parameter like the rest. *)
(***************************************************************************)
EXTENDS MemStore, FiniteSetTheorems, SequenceTheorems, TLAPS

-----------------------------------------------------------------------------
(* Types *)

LEMMA InitTypeOK == Init => TypeOK
<1> SUFFICES ASSUME Init PROVE TypeOK
  OBVIOUS
<1> USE DEF Init
<1>1. boxes \in [Mailbox -> [first : Nat, last : Nat, messages : SUBSET Message]]
  OBVIOUS
<1>2. pc \in [Client -> {"idle", "deliver", "await", "remove"}]
  OBVIOUS
<1>3. todo \in [Client -> SUBSET Message] /\ batch \in [Client -> SUBSET Message]
      /\ view \in [Client -> SUBSET Message]
  OBVIOUS
<1>4. curSize \in Int /\ serving \in Client \cup {Idle}
  OBVIOUS
<1>5. crashed \in BOOLEAN
  OBVIOUS
<1>6. seen \in SUBSET Message /\ events \in SUBSET Message /\ pushed \in SUBSET Message
  OBVIOUS
<1>7. all \in Seq(Message)
  OBVIOUS
<1> HIDE DEF Init
<1> QED
  BY <1>1, <1>2, <1>3, <1>4, <1>5, <1>6, <1>7 DEF TypeOK

(* Every operation, enforcer step and return keeps the types.              *)
LEMMA NextTypeOK == TypeOK /\ [Next]_vars => TypeOK'
<1> SUFFICES ASSUME TypeOK, [Next]_vars PROVE TypeOK'
  OBVIOUS
<1> USE StoreAssumption DEF TypeOK, boxVars, enfVars
<1>1. ASSUME NEW c \in Client, NEW mb \in Mailbox, NEW size \in Size, AddMessage(c, mb, size)
      PROVE  TypeOK'
  <2> DEFINE i == NextIndex(boxes[mb])
             m == [mailbox |-> mb, index |-> i, size |-> size]
             b == [first |-> boxes[mb].first, last |-> i, messages |-> boxes[mb].messages \cup {m}]
  <2>1. i \in Nat \ {0} /\ m \in Message
    BY DEF NextIndex, Message
  <2>2. b \in [first : Nat, last : Nat, messages : SUBSET Message]
    BY <2>1
  <2>3. PICK f \in b.first .. (i + 1) :
          boxes' = [boxes EXCEPT ![mb] = [first |-> f, last |-> i, messages |-> Uncut(b, f)]]
    BY <1>1 DEF AddMessage
  <2>4. Uncut(b, f) \in SUBSET Message /\ f \in Nat
    BY <2>1, <2>2 DEF Uncut
  <2>5. boxes' \in [Mailbox -> [first : Nat, last : Nat, messages : SUBSET Message]]
    BY <2>2, <2>3, <2>4
  <2>6. pc' \in [Client -> {"idle", "deliver", "await", "remove"}]
    <3>1. pc' = [pc EXCEPT ![c] = "deliver"] \/ pc' = pc
      BY <1>1 DEF AddMessage
    <3> QED
      BY <3>1
  <2>7. todo' = [todo EXCEPT ![c] = {m}] \/ todo' = todo
    <3> HIDE DEF TypeOK
    <3> QED BY <1>1 DEF AddMessage
  <2>8. {m} \in SUBSET Message
    BY <2>1
  <2>9. todo' \in [Client -> SUBSET Message]
    <3> HIDE DEF m
    <3> QED BY <2>7, <2>8 DEF TypeOK
  <2> QED
    BY <1>1, <2>5, <2>6, <2>9 DEF AddMessage
<1>2. ASSUME NEW c \in Client, NEW mb \in Mailbox, GetMessages(c, mb) PROVE TypeOK'
  BY <1>2 DEF GetMessages
<1>3. ASSUME NEW c \in Client, NEW mb \in Mailbox, NEW i \in 1 .. MaxIndex, MarkSeen(c, mb, i)
      PROVE  TypeOK'
  BY <1>3 DEF MarkSeen, Find
<1>4. ASSUME NEW c \in Client, NEW mb \in Mailbox, NEW i \in 1 .. MaxIndex, RemoveMessage(c, mb, i)
      PROVE  TypeOK'
  <2>1. Find(mb, i) \in SUBSET Message
    BY DEF Find
  <2>2. boxes' \in [Mailbox -> [first : Nat, last : Nat, messages : SUBSET Message]]
    <3>1. boxes' = [boxes EXCEPT ![mb].messages = @ \ Find(mb, i)]
      BY <1>4 DEF RemoveMessage
    <3>2. boxes[mb] \in [first : Nat, last : Nat, messages : SUBSET Message]
      OBVIOUS
    <3>3. [boxes[mb] EXCEPT !.messages = @ \ Find(mb, i)]
             \in [first : Nat, last : Nat, messages : SUBSET Message]
      BY <3>2
    <3> QED
      BY <3>1, <3>3
  <2>3. pc' \in [Client -> {"idle", "deliver", "await", "remove"}]
    BY <1>4 DEF RemoveMessage
  <2>4. todo' \in [Client -> SUBSET Message]
    <3>1. todo' = [todo EXCEPT ![c] = Find(mb, i)] \/ todo' = todo
      BY <1>4 DEF RemoveMessage
    <3> QED
      BY <2>1, <3>1
  <2> QED
    BY <1>4, <2>1, <2>2, <2>3, <2>4 DEF RemoveMessage
<1>5. ASSUME NEW c \in Client, NEW mb \in Mailbox, PurgeMessages(c, mb) PROVE TypeOK'
  BY <1>5 DEF PurgeMessages, PurgedBox
<1>6. ASSUME NEW c \in Client, RemoveReturns(c) PROVE TypeOK'
  BY <1>6 DEF RemoveReturns
<1>7. ASSUME NEW c \in Client, EnforcerIncoming(c) PROVE TypeOK'
  <2>1. PICK m \in todo[c] :
          all' = PushBack(m) /\ curSize' = curSize + m.size /\ pushed' = Linked(m)
    BY <1>7 DEF EnforcerIncoming
  <2>2. m \in Message /\ m.size \in Nat
    <3>1. m \in Message
      OBVIOUS
    <3> QED
      BY <3>1 DEF Message
  <2>3. all' \in Seq(Message) /\ curSize' \in Int /\ pushed' \in SUBSET Message
    BY <2>1, <2>2 DEF PushBack, Linked
  <2>4. pc' \in [Client -> {"idle", "deliver", "await", "remove"}]
    BY <1>7 DEF EnforcerIncoming
  <2> QED
    BY <1>7, <2>3, <2>4 DEF EnforcerIncoming
<1>8. ASSUME EnforcerEvict PROVE TypeOK'
  <2> DEFINE m == Head(all)
             found == Find(m.mailbox, m.index)
  <2>1. m \in Message /\ Tail(all) \in Seq(Message)
    BY <1>8 DEF EnforcerEvict
  <2>2. found \in SUBSET Message
    BY <2>1 DEF Find, Message
  <2>3. m.mailbox \in Mailbox /\ m.size \in Nat
    BY <2>1 DEF Message
  <2>4. boxes' = [boxes EXCEPT ![m.mailbox].messages = @ \ found]
    BY <1>8 DEF EnforcerEvict
  <2>5. boxes' \in [Mailbox -> [first : Nat, last : Nat, messages : SUBSET Message]]
    <3> HIDE DEF m, found
    <3>1. boxes[m.mailbox] \in [first : Nat, last : Nat, messages : SUBSET Message]
      BY <2>3
    <3>2. [boxes[m.mailbox] EXCEPT !.messages = @ \ found]
             \in [first : Nat, last : Nat, messages : SUBSET Message]
      BY <2>2, <3>1
    <3> QED
      BY <2>3, <2>4, <3>2
  <2>6. PaidBack(m, found) \in Int
    BY <2>3 DEF PaidBack
  <2> HIDE DEF m, found
  <2>7. curSize' \in Int
    BY <1>8, <2>6 DEF EnforcerEvict, m, found
  <2> QED
    BY <1>8, <2>1, <2>2, <2>5, <2>7 DEF EnforcerEvict, m, found
<1>9. ASSUME EnforcerEvictNil PROVE TypeOK'
  BY <1>9 DEF EnforcerEvictNil
<1>10. ASSUME EnforcerDone PROVE TypeOK'
  BY <1>10 DEF EnforcerDone
<1>11. ASSUME NEW c \in Client, EnforcerRemove(c) PROVE TypeOK'
  <2>1. PICK m \in todo[c] \cap pushed :
          all' = Unlink(m) /\ curSize' = curSize - m.size /\ todo' = [todo EXCEPT ![c] = @ \ {m}]
    BY <1>11 DEF EnforcerRemove
  <2>2. m.size \in Nat
    BY DEF Message
  <2>3. Unlink(m) \in Seq(Message)
    BY DEF Unlink
  <2> QED
    BY <1>11, <2>1, <2>2, <2>3 DEF EnforcerRemove
<1>12. ASSUME NEW c \in Client, EnforcerRemoveNil(c) PROVE TypeOK'
  BY <1>12 DEF EnforcerRemoveNil
<1>13. ASSUME UNCHANGED vars PROVE TypeOK'
  BY <1>13 DEF vars
<1> QED
  BY <1>1, <1>2, <1>3, <1>4, <1>5, <1>6, <1>7, <1>8, <1>9, <1>10, <1>11, <1>12, <1>13
  DEF Next, Operation, Serve, EnforcerLoop

(* The state keeps its types in every behaviour of the store.              *)
THEOREM TypeCorrect == Spec => []TypeOK
<1>1. Init => TypeOK BY InitTypeOK
<1>2. TypeOK /\ [Next]_vars => TypeOK' BY NextTypeOK
<1> QED BY <1>1, <1>2, PTL DEF Spec
-----------------------------------------------------------------------------
(* Mailboxes: ids, counters and the cap *)

BoxesFinite == \A mb \in Mailbox : IsFiniteSet(boxes[mb].messages)

BoxInv == TypeOK /\ IdsInRange /\ BoxesFinite /\ CapRespected

(* How AddMessage leaves a mailbox: the loop stops before the new message, *)
(* which is kept, as is every message at or above the new first.           *)
LEMMA CapLoopResult ==
    ASSUME BoxInv,
           NEW c \in Client, NEW mb \in Mailbox, NEW size \in Size,
           AddMessage(c, mb, size)
    PROVE  \E f \in Nat, m \in Message :
             /\ m.mailbox = mb /\ m.index = boxes[mb].last + 1
             /\ f \in boxes[mb].first .. m.index
             /\ boxes' = [boxes EXCEPT ![mb] =
                  [first |-> f, last |-> m.index,
                   messages |-> {n \in boxes[mb].messages \cup {m} : n.index >= f}]]
             /\ Cap > 0 => Cardinality(boxes'[mb].messages) <= Cap
             /\ IsFiniteSet(boxes'[mb].messages)
             /\ \A g \in boxes[mb].first .. (f - 1) :
                  Cap > 0 /\ Cardinality({n \in boxes[mb].messages \cup {m} : n.index >= g}) > Cap
             /\ HasEnforcer => pc' = [pc EXCEPT ![c] = "deliver"] /\ todo' = [todo EXCEPT ![c] = {m}]
             /\ ~HasEnforcer => UNCHANGED <<pc, todo>>
<1> USE StoreAssumption
<1> DEFINE i == NextIndex(boxes[mb])
           m == [mailbox |-> mb, index |-> i, size |-> size]
           b == [first |-> boxes[mb].first, last |-> i, messages |-> boxes[mb].messages \cup {m}]
<1>1. boxes[mb] \in [first : Nat, last : Nat, messages : SUBSET Message]
  BY DEF BoxInv, TypeOK
<1>2. i = boxes[mb].last + 1 /\ i \in Nat \ {0} /\ m \in Message /\ m.mailbox = mb /\ m.index = i
  BY <1>1 DEF NextIndex, Message
<1> DEFINE M == boxes[mb].messages \cup {m}
<1>3. b = [first |-> boxes[mb].first, last |-> i, messages |-> M]
  BY <1>1
<1>4. PICK f \in b.first .. (i + 1) :
        /\ CapLoopStopsAt(b, f)
        /\ boxes' = [boxes EXCEPT ![mb] = [first |-> f, last |-> i, messages |-> Uncut(b, f)]]
  BY DEF AddMessage
<1>5. \A n \in M : n.index \in boxes[mb].first .. i /\ (n # m => n.index < i)
  BY <1>1, <1>2 DEF BoxInv, IdsInRange
<1>6. IsFiniteSet(M)
  BY FS_AddElement DEF BoxInv, BoxesFinite
<1> HIDE DEF i, m, b
<1>7. \A g \in boxes[mb].first .. (i + 1) :
        /\ Uncut(b, g) = {n \in M : n.index >= g}
        /\ IsFiniteSet(Uncut(b, g))
        /\ Cardinality(Uncut(b, g)) \in Nat
  <2> SUFFICES ASSUME NEW g \in boxes[mb].first .. (i + 1)
               PROVE  /\ Uncut(b, g) = {n \in M : n.index >= g}
                      /\ IsFiniteSet(Uncut(b, g))
                      /\ Cardinality(Uncut(b, g)) \in Nat
    OBVIOUS
  <2>1. Uncut(b, g) = {n \in M : n.index < boxes[mb].first \/ n.index >= g}
    BY <1>3 DEF Uncut
  <2>2. \A n \in M : n.index \in Int /\ ~(n.index < boxes[mb].first)
    BY <1>1, <1>2, <1>5
  <2>3. Uncut(b, g) = {n \in M : n.index >= g}
    BY <2>1, <2>2
  <2>4. IsFiniteSet(Uncut(b, g))
    BY <1>6, <2>3, FS_Subset
  <2> QED
    BY <2>3, <2>4, FS_CardinalityType
<1>8. f \in Nat /\ f \in boxes[mb].first .. (i + 1) /\ boxes[mb].first \in Nat
  BY <1>1, <1>2, <1>3, <1>4
<1>9. f <= i
  <2> SUFFICES ASSUME f = i + 1 PROVE FALSE
    BY <1>2, <1>8
  <2>1. i \in boxes[mb].first .. (i + 1) /\ i \in b.first .. (f - 1)
    BY <1>1, <1>2, <1>3, <1>5
  <2>2. OverCap(Uncut(b, i))
    BY <1>4, <2>1 DEF CapLoopStopsAt
  <2>3. Uncut(b, i) = {m}
    <3>1. \A n \in M : n.index >= i <=> n = m
      BY <1>1, <1>2, <1>5
    <3> QED
      BY <1>7, <2>1, <3>1
  <2>4. Cardinality({m}) = 1
    BY FS_Singleton
  <2> QED
    BY <2>2, <2>3, <2>4 DEF OverCap
<1>10. boxes' = [boxes EXCEPT ![mb] =
          [first |-> f, last |-> i, messages |-> {n \in M : n.index >= f}]]
  BY <1>4, <1>7, <1>8
<1>11. boxes'[mb].messages = Uncut(b, f)
  BY <1>7, <1>8, <1>10 DEF BoxInv, TypeOK
<1>12. Cap > 0 => Cardinality(boxes'[mb].messages) <= Cap
  BY <1>4, <1>7, <1>8, <1>11 DEF CapLoopStopsAt, OverCap
<1>13. IsFiniteSet(boxes'[mb].messages)
  BY <1>7, <1>8, <1>11
<1>14. \A g \in boxes[mb].first .. (f - 1) :
         Cap > 0 /\ Cardinality({n \in M : n.index >= g}) > Cap
  <2> SUFFICES ASSUME NEW g \in boxes[mb].first .. (f - 1)
               PROVE  Cap > 0 /\ Cardinality({n \in M : n.index >= g}) > Cap
    OBVIOUS
  <2>1. g \in boxes[mb].first .. (i + 1) /\ g \in b.first .. (f - 1)
    BY <1>2, <1>3, <1>8, <1>9
  <2> QED
    BY <1>4, <1>7, <2>1 DEF CapLoopStopsAt, OverCap
<1>15. HasEnforcer => pc' = [pc EXCEPT ![c] = "deliver"] /\ todo' = [todo EXCEPT ![c] = {m}]
  BY DEF AddMessage, i, m
<1>16. ~HasEnforcer => UNCHANGED <<pc, todo>>
  BY DEF AddMessage
<1>17. f \in boxes[mb].first .. m.index
  BY <1>2, <1>8, <1>9
<1> QED
  BY <1>2, <1>8, <1>10, <1>12, <1>13, <1>14, <1>15, <1>16, <1>17

(* Every step but AddMessage leaves the counters and only takes messages.  *)
BoxesShrink ==
    \A mb \in Mailbox : /\ boxes'[mb].first = boxes[mb].first
                        /\ boxes'[mb].last = boxes[mb].last
                        /\ boxes'[mb].messages \subseteq boxes[mb].messages

IsAdd == \E c \in Client, mb \in Mailbox, size \in Size : AddMessage(c, mb, size)

LEMMA OtherStepsShrink == TypeOK /\ [Next]_vars /\ ~IsAdd => BoxesShrink
<1> SUFFICES ASSUME TypeOK, [Next]_vars, ~IsAdd PROVE BoxesShrink
  OBVIOUS
<1> USE DEF TypeOK, boxVars, enfVars, BoxesShrink
<1>1. ASSUME NEW c \in Client, NEW mb \in Mailbox, GetMessages(c, mb) PROVE BoxesShrink
  BY <1>1 DEF GetMessages
<1>2. ASSUME NEW c \in Client, NEW mb \in Mailbox, NEW i \in 1 .. MaxIndex, MarkSeen(c, mb, i)
      PROVE  BoxesShrink
  BY <1>2 DEF MarkSeen
<1>3. ASSUME NEW c \in Client, NEW mb \in Mailbox, NEW i \in 1 .. MaxIndex, RemoveMessage(c, mb, i)
      PROVE  BoxesShrink
  BY <1>3 DEF RemoveMessage
<1>4. ASSUME NEW c \in Client, NEW mb \in Mailbox, PurgeMessages(c, mb) PROVE BoxesShrink
  BY <1>4 DEF PurgeMessages, PurgedBox
<1>5. ASSUME EnforcerEvict PROVE BoxesShrink
  <2>1. Head(all).mailbox \in Mailbox
    <3>1. Head(all) \in Message
      BY <1>5 DEF EnforcerEvict
    <3> QED
      BY <3>1 DEF Message
  <2>2. PICK found : boxes' = [boxes EXCEPT ![Head(all).mailbox].messages = @ \ found]
    BY <1>5 DEF EnforcerEvict
  <2> QED
    BY <2>1, <2>2
<1>6. CASE UNCHANGED boxes
  BY <1>6
<1> QED
  BY <1>1, <1>2, <1>3, <1>4, <1>5, <1>6
  DEF Next, Operation, Serve, EnforcerLoop, IsAdd, vars, RemoveReturns, EnforcerIncoming,
      EnforcerEvictNil, EnforcerDone, EnforcerRemove, EnforcerRemoveNil

LEMMA ShrinkKeepsBoxInv == BoxInv /\ TypeOK' /\ BoxesShrink => BoxInv'
<1> SUFFICES ASSUME BoxInv, TypeOK', BoxesShrink PROVE BoxInv'
  OBVIOUS
<1> USE DEF BoxInv, BoxesShrink
<1>1. IdsInRange'
  BY DEF IdsInRange
<1>2. ASSUME NEW mb \in Mailbox
      PROVE  /\ IsFiniteSet(boxes'[mb].messages)
             /\ Cap > 0 => Cardinality(boxes'[mb].messages) <= Cap
  <2>1. IsFiniteSet(boxes[mb].messages)
    BY DEF BoxesFinite
  <2>2. /\ IsFiniteSet(boxes'[mb].messages)
        /\ Cardinality(boxes'[mb].messages) <= Cardinality(boxes[mb].messages)
    BY <2>1, FS_Subset
  <2>3. Cardinality(boxes[mb].messages) \in Nat /\ Cardinality(boxes'[mb].messages) \in Nat
    BY <2>1, <2>2, FS_CardinalityType
  <2> QED
    BY <2>2, <2>3, StoreAssumption DEF CapRespected
<1> QED
  BY <1>1, <1>2 DEF BoxesFinite, CapRespected

LEMMA AddKeepsBoxInv ==
    ASSUME BoxInv, TypeOK', NEW c \in Client, NEW mb \in Mailbox, NEW size \in Size,
           AddMessage(c, mb, size)
    PROVE  BoxInv'
<1>1. PICK f \in Nat, m \in Message :
        /\ m.mailbox = mb /\ m.index = boxes[mb].last + 1
        /\ f \in boxes[mb].first .. m.index
        /\ boxes' = [boxes EXCEPT ![mb] =
             [first |-> f, last |-> m.index,
              messages |-> {n \in boxes[mb].messages \cup {m} : n.index >= f}]]
        /\ Cap > 0 => Cardinality(boxes'[mb].messages) <= Cap
        /\ IsFiniteSet(boxes'[mb].messages)
  BY CapLoopResult
<1>2. boxes[mb] \in [first : Nat, last : Nat, messages : SUBSET Message]
  BY DEF BoxInv, TypeOK
<1>3. /\ boxes'[mb].first = f /\ boxes'[mb].last = m.index
      /\ boxes'[mb].messages = {n \in boxes[mb].messages \cup {m} : n.index >= f}
      /\ \A other \in Mailbox \ {mb} : boxes'[other] = boxes[other]
  BY <1>1 DEF BoxInv, TypeOK
<1>4. \A n \in boxes[mb].messages : n.mailbox = mb /\ n.index \in boxes[mb].first .. boxes[mb].last
  BY DEF BoxInv, IdsInRange
<1>5. \A n \in boxes'[mb].messages : n.mailbox = mb /\ n.index \in f .. m.index
  BY <1>1, <1>2, <1>3, <1>4
<1>6. \A n, o \in boxes'[mb].messages : n.index = o.index => n = o
  <2>1. \A n \in boxes[mb].messages : n.index # m.index
    BY <1>1, <1>2, <1>4
  <2> QED
    BY <1>3, <2>1 DEF BoxInv, IdsInRange
<1>7. IdsInRange'
  <2>1. f <= m.index
    BY <1>1, <1>2
  <2> QED
    BY <1>3, <1>5, <1>6, <2>1 DEF BoxInv, IdsInRange
<1> QED
  BY <1>1, <1>3, <1>7 DEF BoxInv, BoxesFinite, CapRespected

LEMMA InitBoxInv == Init => BoxInv
<1> SUFFICES ASSUME Init PROVE BoxInv
  OBVIOUS
<1>1. TypeOK
  BY InitTypeOK
<1>2. \A mb \in Mailbox : boxes[mb] = [first |-> 0, last |-> 0, messages |-> {}]
  BY DEF Init
<1> QED
  BY <1>1, <1>2, FS_EmptySet, StoreAssumption DEF BoxInv, IdsInRange, BoxesFinite, CapRespected

LEMMA NextBoxInv == BoxInv /\ [Next]_vars => BoxInv'
<1> SUFFICES ASSUME BoxInv, [Next]_vars PROVE BoxInv'
  OBVIOUS
<1>1. TypeOK'
  BY NextTypeOK DEF BoxInv
<1>2. CASE IsAdd
  BY <1>1, <1>2, AddKeepsBoxInv DEF IsAdd
<1>3. CASE ~IsAdd
  BY <1>1, <1>3, OtherStepsShrink, ShrinkKeepsBoxInv DEF BoxInv
<1> QED
  BY <1>2, <1>3

LEMMA BoxInvariant == Spec => []BoxInv
<1>1. Init => BoxInv BY InitBoxInv
<1>2. BoxInv /\ [Next]_vars => BoxInv' BY NextBoxInv
<1> QED BY <1>1, <1>2, PTL DEF Spec

(* Whatever is added, removed, purged and evicted, in whatever order, the  *)
(* counters enclose the messages of a mailbox, whose ids are distinct.     *)
THEOREM IdsStayInRange == Spec => []IdsInRange
<1>1. BoxInv => IdsInRange BY DEF BoxInv
<1> QED BY <1>1, BoxInvariant, PTL

(* No mailbox is ever seen over its cap.                                   *)
THEOREM CapIsRespected == Spec => []CapRespected
<1>1. BoxInv => CapRespected BY DEF BoxInv
<1> QED BY <1>1, BoxInvariant, PTL

-----------------------------------------------------------------------------
(* Removals: one owner for each removed message, and none forgotten *)

Apart ==
    /\ \A mb \in Mailbox : \A m \in boxes[mb].messages :
         m \notin events /\ \A c \in Client : m \notin batch[c] /\ (pc[c] = "remove" => m \notin todo[c])
    /\ \A c \in Client : \A m \in batch[c] : m \notin events
    /\ \A c, d \in Client : c # d /\ pc[c] = "remove" /\ pc[d] = "remove" =>
         todo[c] \cap todo[d] = {} /\ batch[c] \cap batch[d] = {}

(* Nothing on its way out carries an id not handed out yet.                *)
KnownIds ==
    \A m \in Message :
        m \in events \/ (\E c \in Client : m \in batch[c] \cup todo[c]) => m.index <= boxes[m.mailbox].last

OnlyPurgesOwe == \A c \in Client : pc[c] # "remove" => batch[c] = {}

ServedAwaits == \A c \in Client : serving = c => pc[c] = "await"

Kept(m) == m \in boxes[m.mailbox].messages \/ m \in events \/ \E c \in Client : m \in batch[c]

NoneForgotten ==
    \A mb \in Mailbox : \A i \in 1 .. boxes[mb].last :
        i < boxes[mb].first \/ \E m \in Message : m.mailbox = mb /\ m.index = i /\ Kept(m)

OwnInv == BoxInv /\ Apart /\ KnownIds /\ OnlyPurgesOwe /\ ServedAwaits /\ NoneForgotten

LEMMA OwnInvMeaning == OwnInv => OwnedOnce /\ Accounted
<1> SUFFICES ASSUME OwnInv PROVE OwnedOnce /\ Accounted
  OBVIOUS
<1> USE DEF OwnInv
<1>1. OwnedOnce
  BY DEF Apart, OwnedOnce, Stored, InFlight
<1>2. ASSUME NEW mb \in Mailbox, NEW i \in 1 .. boxes[mb].last
      PROVE  \/ i < boxes[mb].first
             \/ \E m \in Stored \cup events \cup UNION {batch[c] : c \in Client} :
                  m.mailbox = mb /\ m.index = i
  <2>1. CASE i < boxes[mb].first
    BY <2>1
  <2>2. ASSUME NEW m \in Message, m.mailbox = mb, m.index = i, Kept(m)
        PROVE  \E n \in Stored \cup events \cup UNION {batch[c] : c \in Client} :
                  n.mailbox = mb /\ n.index = i
    <3>1. m \in Stored \/ m \in events \/ m \in UNION {batch[c] : c \in Client}
      BY <2>2 DEF Kept, Stored
    <3> QED
      BY <2>2, <3>1
  <2> QED
    BY <2>1, <2>2 DEF NoneForgotten
<1> QED
  BY <1>1, <1>2 DEF Accounted

LEMMA InitOwnInv == Init => OwnInv
<1> SUFFICES ASSUME Init PROVE OwnInv
  OBVIOUS
<1>1. BoxInv
  BY InitBoxInv
<1>2. \A mb \in Mailbox : boxes[mb] = [first |-> 0, last |-> 0, messages |-> {}]
  BY DEF Init
<1>3. /\ \A c \in Client : pc[c] = "idle" /\ todo[c] = {} /\ batch[c] = {}
      /\ events = {} /\ serving = Idle
  BY DEF Init
<1>4. Apart /\ OnlyPurgesOwe /\ KnownIds
  BY <1>2, <1>3 DEF Apart, OnlyPurgesOwe, KnownIds
<1>5. ServedAwaits
  BY <1>3, StoreAssumption DEF ServedAwaits
<1>6. NoneForgotten
  BY <1>2 DEF NoneForgotten
<1> QED
  BY <1>1, <1>4, <1>5, <1>6 DEF OwnInv

(* The message AddMessage inserts has an id nothing else carries.          *)
LEMMA AddKeepsOwnInv ==
    ASSUME OwnInv, BoxInv', NEW c \in Client, NEW mb \in Mailbox, NEW size \in Size,
           AddMessage(c, mb, size)
    PROVE  OwnInv'
<1>1. PICK f \in Nat, m \in Message :
        /\ m.mailbox = mb /\ m.index = boxes[mb].last + 1
        /\ f \in boxes[mb].first .. m.index
        /\ boxes' = [boxes EXCEPT ![mb] =
             [first |-> f, last |-> m.index,
              messages |-> {n \in boxes[mb].messages \cup {m} : n.index >= f}]]
        /\ HasEnforcer => pc' = [pc EXCEPT ![c] = "deliver"] /\ todo' = [todo EXCEPT ![c] = {m}]
        /\ ~HasEnforcer => UNCHANGED <<pc, todo>>
  BY CapLoopResult DEF OwnInv
<1> USE DEF OwnInv
<1>2. TypeOK /\ IdsInRange
  BY DEF BoxInv
<1>3. boxes[mb] \in [first : Nat, last : Nat, messages : SUBSET Message]
  BY <1>2 DEF TypeOK
<1>4. /\ boxes'[mb].first = f /\ boxes'[mb].last = m.index
      /\ boxes'[mb].messages = {n \in boxes[mb].messages \cup {m} : n.index >= f}
      /\ \A other \in Mailbox \ {mb} : boxes'[other] = boxes[other]
  BY <1>1, <1>2 DEF TypeOK
<1>5. events' = events /\ batch' = batch /\ serving' = serving /\ pc[c] = "idle"
  BY DEF AddMessage, enfVars
<1>6. \A d \in Client : /\ pc'[d] = "remove" <=> pc[d] = "remove"
                        /\ pc[d] = "remove" => todo'[d] = todo[d]
                        /\ todo'[d] = todo[d] \/ todo'[d] = {m}
                        /\ pc[d] = "await" => pc'[d] = "await"
  BY <1>1, <1>2, <1>5 DEF TypeOK
<1>7. m \notin events /\ \A d \in Client : m \notin batch[d] \cup todo[d]
  BY <1>1, <1>3 DEF KnownIds
<1>8. \A box \in Mailbox : \A n \in boxes'[box].messages : n = m \/ n \in boxes[box].messages
  BY <1>4
<1>9. Apart'
  BY <1>5, <1>6, <1>7, <1>8 DEF Apart
<1>10. \A box \in Mailbox : boxes[box].last <= boxes'[box].last /\ boxes[box].last \in Nat
  BY <1>1, <1>2, <1>4 DEF TypeOK
<1>11. KnownIds'
  <2> SUFFICES ASSUME NEW n \in Message,
                      n \in events' \/ (\E d \in Client : n \in batch'[d] \cup todo'[d])
               PROVE  n.index <= boxes'[n.mailbox].last
    BY DEF KnownIds
  <2>1. CASE n = m
    BY <1>1, <1>3, <1>4, <2>1
  <2>2. CASE n # m
    <3>1. n.index <= boxes[n.mailbox].last
      BY <1>5, <1>6, <2>2 DEF KnownIds
    <3>2. n.mailbox \in Mailbox /\ n.index \in Nat
      BY DEF Message
    <3>3. boxes'[n.mailbox].last \in Nat
      BY <3>2 DEF BoxInv, TypeOK
    <3> QED
      BY <1>10, <3>1, <3>2, <3>3
  <2> QED
    BY <2>1, <2>2
<1>12. OnlyPurgesOwe' /\ ServedAwaits'
  BY <1>5, <1>6 DEF OnlyPurgesOwe, ServedAwaits
<1>13. NoneForgotten'
  <2> SUFFICES ASSUME NEW box \in Mailbox, NEW i \in 1 .. boxes'[box].last
               PROVE  i < boxes'[box].first
                      \/ \E n \in Message : n.mailbox = box /\ n.index = i /\ Kept(n)'
    BY DEF NoneForgotten
  <2>1. CASE box # mb
    <3>1. boxes'[box] = boxes[box]
      BY <1>4, <2>1
    <3>2. \A n \in Message : n.mailbox = box /\ Kept(n) => Kept(n)'
      BY <1>5, <3>1 DEF Kept
    <3> QED
      BY <3>1, <3>2 DEF NoneForgotten
  <2>2. CASE box = mb /\ i = m.index
    <3>1. m \in boxes'[mb].messages
      BY <1>1, <1>3, <1>4
    <3> QED
      BY <1>1, <2>2, <3>1 DEF Kept
  <2>3. CASE box = mb /\ i # m.index
    <3>1. i \in 1 .. boxes[mb].last
      BY <1>1, <1>3, <1>4, <2>3
    <3>2. CASE i < boxes[mb].first
      BY <1>1, <1>3, <1>4, <2>3, <3>2
    <3>3. ASSUME NEW n \in Message, n.mailbox = mb, n.index = i, Kept(n)
          PROVE  i < f \/ Kept(n)'
      <4>1. CASE n \in boxes[mb].messages
        <5>1. n \in boxes'[mb].messages \/ ~(i >= f)
          BY <1>4, <3>3, <4>1
        <5> QED
          BY <3>3, <5>1 DEF Kept
      <4>2. CASE n \notin boxes[mb].messages
        BY <1>5, <3>3, <4>2 DEF Kept
      <4> QED
        BY <4>1, <4>2
    <3> QED
      BY <1>4, <2>3, <3>1, <3>2, <3>3 DEF NoneForgotten
  <2> QED
    BY <2>1, <2>2, <2>3
<1> QED
  BY <1>9, <1>11, <1>12, <1>13

(* A step that takes messages out keeps every id accounted for, when what  *)
(* it takes is reported or owed, and it reports and owes nothing else.     *)
LEMMA ShrinkKeepsIdFacts ==
    ASSUME OwnInv, BoxInv', BoxesShrink,
           \A m \in Message : Kept(m) => Kept(m)',
           \A m \in Message :
             m \in events' \/ (\E c \in Client : m \in batch'[c] \cup todo'[c]) =>
               \/ m \in events \/ (\E c \in Client : m \in batch[c] \cup todo[c])
               \/ m \in boxes[m.mailbox].messages
    PROVE  KnownIds' /\ NoneForgotten'
<1>1. \A m \in Message : m.mailbox \in Mailbox
  BY DEF Message
<1>2. \A m \in Message : m \in boxes[m.mailbox].messages => m.index <= boxes[m.mailbox].last
  BY <1>1 DEF OwnInv, BoxInv, IdsInRange, TypeOK
<1>3. KnownIds'
  BY <1>1, <1>2 DEF OwnInv, KnownIds, BoxesShrink
<1>4. NoneForgotten'
  BY DEF OwnInv, NoneForgotten, BoxesShrink
<1> QED
  BY <1>3, <1>4

LEMMA RemoveKeepsOwnInv ==
    ASSUME OwnInv, BoxInv', BoxesShrink,
           NEW c \in Client, NEW mb \in Mailbox, NEW i \in 1 .. MaxIndex, RemoveMessage(c, mb, i)
    PROVE  OwnInv'
<1> DEFINE found == Find(mb, i)
<1>1. TypeOK /\ IdsInRange /\ TypeOK'
  BY DEF OwnInv, BoxInv
<1>2. found \subseteq boxes[mb].messages /\ \A m \in found : m \in Message /\ m.mailbox = mb
  BY <1>1 DEF Find, TypeOK, IdsInRange
<1>3. /\ boxes' = [boxes EXCEPT ![mb].messages = @ \ found]
      /\ events' = events \cup found
      /\ batch' = batch /\ serving' = serving /\ pc[c] = "idle"
      /\ \/ pc' = [pc EXCEPT ![c] = "remove"] /\ todo' = [todo EXCEPT ![c] = found]
         \/ pc' = pc /\ todo' = todo
  BY DEF RemoveMessage, enfVars
<1> HIDE DEF found
<1>4. /\ boxes'[mb].messages = boxes[mb].messages \ found
      /\ \A other \in Mailbox \ {mb} : boxes'[other] = boxes[other]
  BY <1>1, <1>3 DEF TypeOK
<1>5. \A d \in Client : d # c => pc'[d] = pc[d] /\ todo'[d] = todo[d]
  BY <1>1, <1>3 DEF TypeOK
<1>6. /\ pc'[c] \in {"idle", "remove"} /\ (pc'[c] = "remove" => todo'[c] = found)
      /\ todo'[c] \subseteq todo[c] \cup found
  BY <1>1, <1>3 DEF TypeOK
<1>7. batch[c] = {}
  BY <1>3 DEF OwnInv, OnlyPurgesOwe
<1>8. \A d \in Client : found \cap batch[d] = {} /\ (pc[d] = "remove" => found \cap todo[d] = {})
  BY <1>2 DEF OwnInv, Apart
<1>9. \A other \in Mailbox \ {mb} : \A m \in boxes[other].messages : m \notin found
  BY <1>1, <1>2 DEF IdsInRange
<1>10. \A box \in Mailbox : \A m \in boxes'[box].messages : m \in boxes[box].messages /\ m \notin found
  BY <1>4, <1>9
<1>11. Apart'
  <2>1. \A box \in Mailbox : \A m \in boxes'[box].messages :
          m \notin events' /\ \A d \in Client : m \notin batch'[d] /\ (pc'[d] = "remove" => m \notin todo'[d])
    BY <1>3, <1>5, <1>6, <1>10 DEF OwnInv, Apart
  <2>2. \A d \in Client : \A m \in batch'[d] : m \notin events'
    BY <1>3, <1>8 DEF OwnInv, Apart
  <2>3. \A d, e \in Client : d # e /\ pc'[d] = "remove" /\ pc'[e] = "remove" =>
          todo'[d] \cap todo'[e] = {} /\ batch'[d] \cap batch'[e] = {}
    <3> SUFFICES ASSUME NEW d \in Client, NEW e \in Client, d # e, pc'[d] = "remove", pc'[e] = "remove"
                 PROVE  todo'[d] \cap todo'[e] = {} /\ batch'[d] \cap batch'[e] = {}
      OBVIOUS
    <3>1. CASE d = c
      BY <1>3, <1>5, <1>6, <1>7, <1>8, <3>1
    <3>2. CASE e = c
      BY <1>3, <1>5, <1>6, <1>7, <1>8, <3>2
    <3>3. CASE d # c /\ e # c
      BY <1>3, <1>5, <3>3 DEF OwnInv, Apart
    <3> QED
      BY <3>1, <3>2, <3>3
  <2> QED
    BY <2>1, <2>2, <2>3 DEF Apart
<1>12. OnlyPurgesOwe' /\ ServedAwaits'
  BY <1>3, <1>5, <1>6, <1>7 DEF OwnInv, OnlyPurgesOwe, ServedAwaits
<1>13. \A m \in Message : Kept(m) => Kept(m)'
  <2>1. \A m \in Message : m.mailbox \in Mailbox
    BY DEF Message
  <2> QED
    BY <1>3, <1>4, <2>1 DEF Kept
<1>14. \A m \in Message :
         m \in events' \/ (\E d \in Client : m \in batch'[d] \cup todo'[d]) =>
           \/ m \in events \/ (\E d \in Client : m \in batch[d] \cup todo[d])
           \/ m \in boxes[m.mailbox].messages
  BY <1>2, <1>3, <1>5, <1>6
<1> QED
  BY <1>11, <1>12, <1>13, <1>14, ShrinkKeepsIdFacts DEF OwnInv

LEMMA PurgeKeepsOwnInv ==
    ASSUME OwnInv, BoxInv', BoxesShrink, NEW c \in Client, NEW mb \in Mailbox, PurgeMessages(c, mb)
    PROVE  OwnInv'
<1> DEFINE taken == boxes[mb].messages
<1>1. TypeOK /\ IdsInRange /\ TypeOK'
  BY DEF OwnInv, BoxInv
<1>2. \A m \in taken : m \in Message /\ m.mailbox = mb
  BY <1>1 DEF TypeOK, IdsInRange
<1>3. /\ boxes'[mb].messages = {}
      /\ \A other \in Mailbox \ {mb} : boxes'[other] = boxes[other]
  BY <1>1 DEF PurgeMessages, PurgedBox, TypeOK
<1>4. events' = events /\ serving' = serving /\ pc[c] = "idle"
  BY DEF PurgeMessages, enfVars
<1>5. /\ pc'[c] = "remove" /\ todo'[c] \subseteq taken /\ batch'[c] = taken
      /\ \A d \in Client : d # c => pc'[d] = pc[d] /\ todo'[d] = todo[d] /\ batch'[d] = batch[d]
  BY <1>1 DEF PurgeMessages, TypeOK
<1> HIDE DEF taken
<1>6. /\ taken \cap events = {}
      /\ \A d \in Client : taken \cap batch[d] = {} /\ (pc[d] = "remove" => taken \cap todo[d] = {})
  BY DEF OwnInv, Apart, taken
<1>7. batch[c] = {}
  BY <1>4 DEF OwnInv, OnlyPurgesOwe
<1>8. \A box \in Mailbox : \A m \in boxes'[box].messages : m \in boxes[box].messages /\ m \notin taken
  BY <1>1, <1>2, <1>3 DEF IdsInRange
<1>9. Apart'
  <2>1. \A box \in Mailbox : \A m \in boxes'[box].messages :
          m \notin events' /\ \A d \in Client : m \notin batch'[d] /\ (pc'[d] = "remove" => m \notin todo'[d])
    BY <1>4, <1>5, <1>8 DEF OwnInv, Apart
  <2>2. \A d \in Client : \A m \in batch'[d] : m \notin events'
    BY <1>4, <1>5, <1>6 DEF OwnInv, Apart
  <2>3. \A d, e \in Client : d # e /\ pc'[d] = "remove" /\ pc'[e] = "remove" =>
          todo'[d] \cap todo'[e] = {} /\ batch'[d] \cap batch'[e] = {}
    <3> SUFFICES ASSUME NEW d \in Client, NEW e \in Client, d # e, pc'[d] = "remove", pc'[e] = "remove"
                 PROVE  todo'[d] \cap todo'[e] = {} /\ batch'[d] \cap batch'[e] = {}
      OBVIOUS
    <3>1. CASE d = c
      BY <1>5, <1>6, <3>1
    <3>2. CASE e = c
      BY <1>5, <1>6, <3>2
    <3>3. CASE d # c /\ e # c
      BY <1>5, <3>3 DEF OwnInv, Apart
    <3> QED
      BY <3>1, <3>2, <3>3
  <2> QED
    BY <2>1, <2>2, <2>3 DEF Apart
<1>10. OnlyPurgesOwe' /\ ServedAwaits'
  BY <1>4, <1>5 DEF OwnInv, OnlyPurgesOwe, ServedAwaits
<1>11. \A m \in Message : Kept(m) => Kept(m)'
  <2> SUFFICES ASSUME NEW m \in Message, Kept(m) PROVE Kept(m)'
    OBVIOUS
  <2>1. m.mailbox \in Mailbox
    BY DEF Message
  <2>2. CASE m \in boxes[m.mailbox].messages /\ m.mailbox = mb
    BY <1>5, <2>2 DEF Kept, taken
  <2>3. CASE m \in boxes[m.mailbox].messages /\ m.mailbox # mb
    BY <1>3, <2>1, <2>3 DEF Kept
  <2>4. CASE m \in events
    BY <1>4, <2>4 DEF Kept
  <2>5. ASSUME NEW d \in Client, m \in batch[d] PROVE Kept(m)'
    BY <1>5, <1>7, <2>5 DEF Kept
  <2> QED
    BY <2>2, <2>3, <2>4, <2>5 DEF Kept
<1>12. \A m \in Message :
         m \in events' \/ (\E d \in Client : m \in batch'[d] \cup todo'[d]) =>
           \/ m \in events \/ (\E d \in Client : m \in batch[d] \cup todo[d])
           \/ m \in boxes[m.mailbox].messages
  BY <1>2, <1>4, <1>5 DEF taken
<1> QED
  BY <1>9, <1>10, <1>11, <1>12, ShrinkKeepsIdFacts DEF OwnInv

LEMMA ReturnKeepsOwnInv ==
    ASSUME OwnInv, BoxInv', BoxesShrink, NEW c \in Client, RemoveReturns(c)
    PROVE  OwnInv'
<1>1. TypeOK /\ TypeOK'
  BY DEF OwnInv, BoxInv
<1>2. /\ boxes' = boxes /\ todo' = todo /\ serving' = serving
      /\ events' = events \cup batch[c] /\ pc[c] = "remove"
  BY DEF RemoveReturns, boxVars, enfVars
<1>3. /\ pc'[c] = "idle" /\ batch'[c] = {}
      /\ \A d \in Client : d # c => pc'[d] = pc[d] /\ batch'[d] = batch[d]
  BY <1>1 DEF RemoveReturns, TypeOK
<1>4. \A d \in Client : d # c => batch[d] \cap batch[c] = {}
  BY <1>2 DEF OwnInv, Apart, OnlyPurgesOwe
<1>5. Apart'
  <2>1. \A box \in Mailbox : \A m \in boxes'[box].messages :
          m \notin events' /\ \A d \in Client : m \notin batch'[d] /\ (pc'[d] = "remove" => m \notin todo'[d])
    BY <1>2, <1>3 DEF OwnInv, Apart
  <2>2. \A d \in Client : \A m \in batch'[d] : m \notin events'
    BY <1>2, <1>3, <1>4 DEF OwnInv, Apart
  <2>3. \A d, e \in Client : d # e /\ pc'[d] = "remove" /\ pc'[e] = "remove" =>
          todo'[d] \cap todo'[e] = {} /\ batch'[d] \cap batch'[e] = {}
    BY <1>2, <1>3 DEF OwnInv, Apart
  <2> QED
    BY <2>1, <2>2, <2>3 DEF Apart
<1>6. OnlyPurgesOwe' /\ ServedAwaits'
  BY <1>2, <1>3 DEF OwnInv, OnlyPurgesOwe, ServedAwaits
<1>7. \A m \in Message : Kept(m) => Kept(m)'
  BY <1>2, <1>3 DEF Kept
<1>8. \A m \in Message :
         m \in events' \/ (\E d \in Client : m \in batch'[d] \cup todo'[d]) =>
           \/ m \in events \/ (\E d \in Client : m \in batch[d] \cup todo[d])
           \/ m \in boxes[m.mailbox].messages
  BY <1>2, <1>3
<1> QED
  BY <1>5, <1>6, <1>7, <1>8, ShrinkKeepsIdFacts DEF OwnInv

LEMMA EvictKeepsOwnInv ==
    ASSUME OwnInv, BoxInv', BoxesShrink, EnforcerEvict
    PROVE  OwnInv'
<1> DEFINE mb == Head(all).mailbox
           found == Find(mb, Head(all).index)
<1>1. TypeOK /\ IdsInRange /\ TypeOK'
  BY DEF OwnInv, BoxInv
<1>2. mb \in Mailbox
  <2>1. Head(all) \in Message
    BY <1>1 DEF EnforcerEvict, TypeOK
  <2> QED
    BY <2>1 DEF Message
<1>3. found \subseteq boxes[mb].messages
  BY DEF Find
<1>4. /\ boxes' = [boxes EXCEPT ![mb].messages = @ \ found]
      /\ events' = events \cup found
      /\ pc' = pc /\ todo' = todo /\ batch' = batch /\ serving' = serving
  BY DEF EnforcerEvict
<1> HIDE DEF mb, found
<1>5. /\ boxes'[mb].messages = boxes[mb].messages \ found
      /\ \A other \in Mailbox \ {mb} : boxes'[other] = boxes[other]
  BY <1>1, <1>2, <1>4 DEF TypeOK
<1>6. \A box \in Mailbox : \A m \in boxes[box].messages : m.mailbox = box
  BY <1>1 DEF IdsInRange
<1>7. \A box \in Mailbox : \A m \in boxes'[box].messages : m \in boxes[box].messages /\ m \notin found
  BY <1>2, <1>3, <1>5, <1>6
<1>8. \A m \in found : \A d \in Client : m \notin batch[d]
  BY <1>2, <1>3 DEF OwnInv, Apart
<1>9. Apart'
  BY <1>4, <1>7, <1>8 DEF OwnInv, Apart
<1>10. OnlyPurgesOwe' /\ ServedAwaits'
  BY <1>4 DEF OwnInv, OnlyPurgesOwe, ServedAwaits
<1>11. \A m \in Message : Kept(m) => Kept(m)'
  <2>1. \A m \in Message : m.mailbox \in Mailbox
    BY DEF Message
  <2> QED
    BY <1>4, <1>5, <2>1 DEF Kept
<1>12. \A m \in Message :
         m \in events' \/ (\E d \in Client : m \in batch'[d] \cup todo'[d]) =>
           \/ m \in events \/ (\E d \in Client : m \in batch[d] \cup todo[d])
           \/ m \in boxes[m.mailbox].messages
  BY <1>2, <1>3, <1>4, <1>6
<1> QED
  BY <1>9, <1>10, <1>11, <1>12, ShrinkKeepsIdFacts DEF OwnInv

(* The steps that take nothing out and report nothing: at most a client    *)
(* that is not removing moves on, or a message of todo is done with.       *)
LEMMA QuietKeepsOwnInv ==
    ASSUME OwnInv, BoxInv', BoxesShrink, UNCHANGED <<boxes, events, batch>>,
           \A c \in Client : todo'[c] \subseteq todo[c] /\ (pc'[c] = "remove" <=> pc[c] = "remove"),
           ServedAwaits'
    PROVE  OwnInv'
<1>1. Apart'
  BY DEF OwnInv, Apart
<1>2. OnlyPurgesOwe'
  BY DEF OwnInv, OnlyPurgesOwe
<1>3. \A m \in Message : Kept(m) => Kept(m)'
  BY DEF Kept
<1> QED
  BY <1>1, <1>2, <1>3, ShrinkKeepsIdFacts DEF OwnInv

LEMMA NextOwnInv == OwnInv /\ [Next]_vars => OwnInv'
<1> SUFFICES ASSUME OwnInv, [Next]_vars PROVE OwnInv'
  OBVIOUS
<1>1. BoxInv /\ TypeOK /\ BoxInv'
  BY NextBoxInv DEF OwnInv, BoxInv
<1>2. CASE IsAdd
  BY <1>1, <1>2, AddKeepsOwnInv DEF IsAdd
<1>3. CASE ~IsAdd
  <2>1. BoxesShrink
    BY <1>1, <1>3, OtherStepsShrink
  <2>2. ASSUME NEW c \in Client, NEW mb \in Mailbox, NEW i \in 1 .. MaxIndex, RemoveMessage(c, mb, i)
        PROVE  OwnInv'
    BY <1>1, <2>1, <2>2, RemoveKeepsOwnInv
  <2>3. ASSUME NEW c \in Client, NEW mb \in Mailbox, PurgeMessages(c, mb) PROVE OwnInv'
    BY <1>1, <2>1, <2>3, PurgeKeepsOwnInv
  <2>4. ASSUME NEW c \in Client, RemoveReturns(c) PROVE OwnInv'
    BY <1>1, <2>1, <2>4, ReturnKeepsOwnInv
  <2>5. CASE EnforcerEvict
    BY <1>1, <2>1, <2>5, EvictKeepsOwnInv
  <2>6. ASSUME NEW c \in Client, EnforcerIncoming(c) PROVE OwnInv'
    <3>1. ServedAwaits'
      BY <1>1, <2>6, StoreAssumption DEF EnforcerIncoming, ServedAwaits, TypeOK
    <3>2. \A d \in Client : todo'[d] \subseteq todo[d] /\ (pc'[d] = "remove" <=> pc[d] = "remove")
      BY <1>1, <2>6 DEF EnforcerIncoming, TypeOK
    <3> QED
      BY <1>1, <2>1, <2>6, <3>1, <3>2, QuietKeepsOwnInv DEF EnforcerIncoming, boxVars
  <2>7. CASE EnforcerDone
    <3>1. serving \in Client /\ pc[serving] = "await" /\ serving' = Idle
      BY <1>1, <2>7 DEF EnforcerDone, TypeOK, OwnInv, ServedAwaits
    <3>2. ServedAwaits'
      BY <3>1, StoreAssumption DEF ServedAwaits
    <3>3. \A d \in Client : todo'[d] \subseteq todo[d] /\ (pc'[d] = "remove" <=> pc[d] = "remove")
      BY <1>1, <2>7, <3>1 DEF EnforcerDone, TypeOK
    <3> QED
      BY <1>1, <2>1, <2>7, <3>2, <3>3, QuietKeepsOwnInv DEF EnforcerDone, boxVars
  <2>8. ASSUME NEW c \in Client, EnforcerRemove(c) PROVE OwnInv'
    <3>1. PICK m : todo' = [todo EXCEPT ![c] = @ \ {m}]
      BY <2>8 DEF EnforcerRemove
    <3>2. ServedAwaits'
      BY <2>8 DEF EnforcerRemove, OwnInv, ServedAwaits
    <3>3. \A d \in Client : todo'[d] \subseteq todo[d] /\ (pc'[d] = "remove" <=> pc[d] = "remove")
      BY <1>1, <2>8, <3>1 DEF EnforcerRemove, TypeOK
    <3> QED
      BY <1>1, <2>1, <2>8, <3>2, <3>3, QuietKeepsOwnInv DEF EnforcerRemove, boxVars
  <2>9. CASE UNCHANGED <<boxes, events, batch, pc, todo, serving>>
    <3>1. ServedAwaits'
      BY <2>9 DEF OwnInv, ServedAwaits
    <3> QED
      BY <1>1, <2>1, <2>9, <3>1, QuietKeepsOwnInv
  <2> QED
    BY <1>3, <2>2, <2>3, <2>4, <2>5, <2>6, <2>7, <2>8, <2>9
    DEF Next, Operation, Serve, EnforcerLoop, IsAdd, vars, boxVars, enfVars,
        GetMessages, MarkSeen, EnforcerEvictNil, EnforcerRemoveNil
<1> QED
  BY <1>2, <1>3

LEMMA OwnInvariant == Spec => []OwnInv
<1>1. Init => OwnInv BY InitOwnInv
<1>2. OwnInv /\ [Next]_vars => OwnInv' BY NextOwnInv
<1> QED BY <1>1, <1>2, PTL DEF Spec

(* Whichever client or enforcer step removes a message, no other one does: *)
(* its delete event is emitted at most once and it never comes back.       *)
THEOREM RemovedOnce == Spec => []OwnedOnce
<1>1. OwnInv => OwnedOnce BY OwnInvMeaning
<1> QED BY <1>1, OwnInvariant, PTL

(* Every id handed out is stored, reported as deleted, about to be, or was *)
(* given up by the cap.                                                    *)
THEOREM EveryIdAccounted == Spec => []Accounted
<1>1. OwnInv => Accounted BY OwnInvMeaning
<1> QED BY <1>1, OwnInvariant, PTL

(* What a mailbox gives out and keeps is sound, for any numbers of         *)
(* mailboxes and clients, any cap and any budget.                          *)
THEOREM MailboxesAreSound == Spec => []MailboxesSound
<1>1. TypeOK /\ IdsInRange /\ CapRespected /\ OwnedOnce /\ Accounted => MailboxesSound
  BY DEF MailboxesSound
<1> QED BY <1>1, TypeCorrect, IdsStayInRange, CapIsRespected, RemovedOnce, EveryIdAccounted, PTL

-----------------------------------------------------------------------------
(* What one addition does to its mailbox *)

CapDropsOldestIn(mb) ==
    boxes'[mb].last > boxes[mb].last =>
      LET kept == boxes'[mb].messages
          dropped == boxes[mb].messages \ kept
      IN  /\ \E m \in kept : m.index = boxes'[mb].last
          /\ \A m \in dropped, k \in kept : m.index < k.index
          /\ dropped # {} => Cardinality(kept) = Cap

LEMMA AddDropsOldest ==
    ASSUME BoxInv, NEW c \in Client, NEW mb \in Mailbox, NEW size \in Size, AddMessage(c, mb, size)
    PROVE  \A box \in Mailbox : CapDropsOldestIn(box)
<1>1. PICK f \in Nat, m \in Message :
        /\ m.mailbox = mb /\ m.index = boxes[mb].last + 1
        /\ f \in boxes[mb].first .. m.index
        /\ boxes' = [boxes EXCEPT ![mb] =
             [first |-> f, last |-> m.index,
              messages |-> {n \in boxes[mb].messages \cup {m} : n.index >= f}]]
        /\ Cap > 0 => Cardinality(boxes'[mb].messages) <= Cap
        /\ IsFiniteSet(boxes'[mb].messages)
        /\ \A g \in boxes[mb].first .. (f - 1) :
             Cap > 0 /\ Cardinality({n \in boxes[mb].messages \cup {m} : n.index >= g}) > Cap
  BY CapLoopResult
<1> DEFINE M == boxes[mb].messages \cup {m}
           kept == boxes'[mb].messages
           dropped == boxes[mb].messages \ kept
<1>2. boxes[mb] \in [first : Nat, last : Nat, messages : SUBSET Message]
  BY DEF BoxInv, TypeOK
<1>3. /\ boxes'[mb].last = m.index
      /\ kept = {n \in M : n.index >= f}
      /\ \A other \in Mailbox \ {mb} : boxes'[other] = boxes[other]
  BY <1>1 DEF BoxInv, TypeOK
<1>4. \A n \in M : n.index \in Nat /\ n.index >= boxes[mb].first
  BY <1>1, <1>2 DEF BoxInv, IdsInRange
<1>5. \A n, o \in M : n.index = o.index => n = o
  <2>1. \A n \in boxes[mb].messages : n.index # m.index
    BY <1>1, <1>2 DEF BoxInv, IdsInRange
  <2> QED
    BY <2>1 DEF BoxInv, IdsInRange
<1>6. m \in kept
  BY <1>1, <1>2, <1>3
<1>7. \A n \in dropped : n.index < f
  BY <1>3, <1>4
<1>8. \A n \in dropped, k \in kept : n.index < k.index
  BY <1>3, <1>4, <1>7
<1>9. ASSUME dropped # {} PROVE Cardinality(kept) = Cap
  <2>1. f - 1 \in boxes[mb].first .. (f - 1)
    BY <1>2, <1>4, <1>7, <1>9
  <2> DEFINE longer == {n \in M : n.index >= f - 1}
  <2>2. Cap > 0 /\ Cardinality(longer) > Cap
    BY <1>1, <2>1
  <2>3. \E x : longer \subseteq kept \cup {x}
    <3>1. CASE \E x \in M : x.index = f - 1
      <4>1. PICK x \in M : x.index = f - 1
        BY <3>1
      <4>2. \A n \in longer : n \in kept \/ n = x
        BY <1>3, <1>4, <1>5, <4>1
      <4> QED
        BY <4>2
    <3>2. CASE ~\E x \in M : x.index = f - 1
      <4>1. \A n \in longer : n \in kept
        BY <1>3, <1>4, <3>2
      <4> QED
        BY <4>1
    <3> QED
      BY <3>1, <3>2
  <2>4. PICK x : longer \subseteq kept \cup {x}
    BY <2>3
  <2>5. IsFiniteSet(kept) /\ IsFiniteSet(kept \cup {x}) /\ IsFiniteSet(longer)
    <3>1. IsFiniteSet(kept)
      BY <1>1
    <3>2. IsFiniteSet(kept \cup {x})
      BY <3>1, FS_AddElement
    <3> QED
      BY <2>4, <3>1, <3>2, FS_Subset
  <2> HIDE DEF kept, longer
  <2>6. Cardinality(longer) <= Cardinality(kept \cup {x})
    BY <2>4, <2>5, FS_Subset
  <2>7. Cardinality(kept \cup {x}) = Cardinality(kept) \/ Cardinality(kept \cup {x}) = Cardinality(kept) + 1
    BY <2>5, FS_AddElement
  <2>8. Cardinality(kept) \in Nat /\ Cardinality(longer) \in Nat
    BY <2>5, FS_CardinalityType
  <2>9. Cardinality(kept) <= Cap
    BY <1>1, <2>2 DEF kept
  <2> QED
    BY <2>2, <2>6, <2>7, <2>8, <2>9, StoreAssumption
<1>10. ASSUME NEW box \in Mailbox, box # mb PROVE CapDropsOldestIn(box)
  BY <1>3, <1>10 DEF CapDropsOldestIn, BoxInv, TypeOK
<1>11. CapDropsOldestIn(mb)
  BY <1>3, <1>6, <1>8, <1>9 DEF CapDropsOldestIn
<1> QED
  BY <1>10, <1>11

(* The cap gives up the oldest messages, no more than it must, and never   *)
(* the one just added, whatever holes removals left among the ids.         *)
THEOREM CapKeepsNewest == Spec => CapDropsOldest
<1>1. BoxInv /\ [Next]_vars => [\A mb \in Mailbox : CapDropsOldestIn(mb)]_vars
  <2> SUFFICES ASSUME BoxInv, [Next]_vars PROVE \A mb \in Mailbox : CapDropsOldestIn(mb)
    OBVIOUS
  <2>1. CASE IsAdd
    BY <2>1, AddDropsOldest DEF IsAdd
  <2>2. CASE ~IsAdd
    <3>1. \A mb \in Mailbox : boxes'[mb].last = boxes[mb].last /\ boxes[mb].last \in Nat
      BY <2>2, OtherStepsShrink DEF BoxInv, BoxesShrink, TypeOK
    <3> QED
      BY <3>1 DEF CapDropsOldestIn
  <2> QED
    BY <2>1, <2>2
<1>2. CapDropsOldest <=> [][\A mb \in Mailbox : CapDropsOldestIn(mb)]_vars
  BY DEF CapDropsOldest, CapDropsOldestIn
<1> QED
  BY <1>1, <1>2, BoxInvariant, PTL DEF Spec

-----------------------------------------------------------------------------
(* Stale listings *)

ViewInv ==
    \A c \in Client : \A m \in view[c] :
        /\ m.index <= boxes[m.mailbox].last
        /\ \A n \in boxes[m.mailbox].messages : n.index = m.index => n = m

ViewUnchanged == \A c \in Client : \A m \in view'[c] : m \in view[c]

LEMMA NextViewInv == BoxInv /\ ViewInv /\ [Next]_vars => ViewInv'
<1> SUFFICES ASSUME BoxInv, ViewInv, [Next]_vars PROVE ViewInv'
  OBVIOUS
<1>1. TypeOK /\ IdsInRange /\ TypeOK'
  BY NextTypeOK DEF BoxInv
<1>2. \A c \in Client : \A m \in view[c] : m \in Message /\ m.mailbox \in Mailbox /\ m.index \in Nat
  <2>1. \A m \in Message : m.mailbox \in Mailbox /\ m.index \in Nat
    BY DEF Message
  <2> QED
    BY <1>1, <2>1 DEF TypeOK
<1>3. ASSUME NEW c \in Client, NEW mb \in Mailbox, NEW size \in Size, AddMessage(c, mb, size)
      PROVE  ViewInv'
  <2>1. PICK f \in Nat, new \in Message :
          /\ new.mailbox = mb /\ new.index = boxes[mb].last + 1
          /\ boxes' = [boxes EXCEPT ![mb] =
               [first |-> f, last |-> new.index,
                messages |-> {n \in boxes[mb].messages \cup {new} : n.index >= f}]]
    BY <1>3, CapLoopResult
  <2>2. /\ boxes'[mb].last = boxes[mb].last + 1 /\ boxes[mb].last \in Nat
        /\ \A n \in boxes'[mb].messages : n = new \/ n \in boxes[mb].messages
        /\ \A other \in Mailbox \ {mb} : boxes'[other] = boxes[other]
    BY <1>1, <2>1 DEF TypeOK
  <2>3. ViewUnchanged
    BY <1>3 DEF AddMessage, ViewUnchanged
  <2> SUFFICES ASSUME NEW d \in Client, NEW m \in view'[d]
               PROVE  /\ m.index <= boxes'[m.mailbox].last
                      /\ \A n \in boxes'[m.mailbox].messages : n.index = m.index => n = m
    BY DEF ViewInv
  <2>4. /\ m.index <= boxes[m.mailbox].last /\ m.mailbox \in Mailbox /\ m.index \in Nat
        /\ \A n \in boxes[m.mailbox].messages : n.index = m.index => n = m
    BY <1>2, <2>3 DEF ViewInv, ViewUnchanged
  <2>5. CASE m.mailbox = mb
    BY <2>1, <2>2, <2>4, <2>5
  <2>6. CASE m.mailbox # mb
    BY <2>2, <2>4, <2>6
  <2> QED
    BY <2>5, <2>6
<1>4. ASSUME NEW c \in Client, NEW mb \in Mailbox, GetMessages(c, mb) PROVE ViewInv'
  <2>1. boxes' = boxes /\ view' = [view EXCEPT ![c] = boxes[mb].messages]
    BY <1>4 DEF GetMessages, boxVars
  <2>2. \A m \in boxes[mb].messages :
          /\ m.mailbox = mb /\ m.index <= boxes[mb].last
          /\ \A n \in boxes[mb].messages : n.index = m.index => n = m
    BY <1>1 DEF IdsInRange, TypeOK
  <2>3. \A d \in Client : view'[d] = view[d] \/ view'[d] = boxes[mb].messages
    BY <1>1, <2>1 DEF TypeOK
  <2> QED
    BY <2>1, <2>2, <2>3 DEF ViewInv
<1>5. ASSUME BoxesShrink, ViewUnchanged PROVE ViewInv'
  BY <1>2, <1>5 DEF ViewInv, BoxesShrink, ViewUnchanged
<1>6. CASE ~IsAdd /\ ViewUnchanged
  BY <1>1, <1>5, <1>6, OtherStepsShrink
<1>7. view' = view => ViewUnchanged
  BY DEF ViewUnchanged
<1> QED
  BY <1>3, <1>4, <1>6, <1>7
  DEF Next, Operation, Serve, EnforcerLoop, IsAdd, vars, boxVars, enfVars,
      MarkSeen, RemoveMessage, PurgeMessages, RemoveReturns, EnforcerIncoming, EnforcerEvict,
      EnforcerEvictNil, EnforcerDone, EnforcerRemove, EnforcerRemoveNil

(* A listing may be as old as it likes: acting on an id from it reaches    *)
(* the message it named or none.                                           *)
THEOREM StaleListingsAreSafe == Spec => []StaleViewSafe
<1>1. Init => ViewInv
  BY DEF Init, ViewInv
<1>2. BoxInv /\ ViewInv => StaleViewSafe
  <2> SUFFICES ASSUME BoxInv, ViewInv,
                      NEW c \in Client, NEW m \in view[c], NEW mb \in Mailbox,
                      NEW n \in boxes[mb].messages, m.mailbox = n.mailbox, m.index = n.index
               PROVE  m = n
    BY DEF StaleViewSafe, Stored
  <2>1. n.mailbox = mb
    BY DEF BoxInv, IdsInRange
  <2> QED
    BY <2>1 DEF ViewInv
<1> QED
  BY <1>1, <1>2, NextViewInv, BoxInvariant, PTL DEF Spec

-----------------------------------------------------------------------------
(* The enforcer's list *)

Listed(m) == \E i \in DOMAIN all : all[i] = m

ListedOnce == \A i, j \in DOMAIN all : all[i] = all[j] => i = j

(* What is being delivered has not been pushed, and by one client only.    *)
DeliveriesFresh ==
    /\ \A c \in Client : pc[c] = "deliver" => todo[c] \cap pushed = {}
    /\ \A c, d \in Client : c # d /\ pc[c] = "deliver" /\ pc[d] = "deliver" => todo[c] \cap todo[d] = {}

PushedKnown == \A m \in pushed : m.index <= boxes[m.mailbox].last

ListInv ==
    /\ OwnInv /\ ListedOnce /\ DeliveriesFresh /\ PushedKnown
    /\ \A mb \in Mailbox : \A m \in boxes[mb].messages : m \in pushed => Listed(m)
    /\ \A i \in DOMAIN all : all[i] \in pushed

(* A sequence without its k-th element.                                    *)
LEMMA CutOut ==
    ASSUME NEW S, NEW s \in Seq(S), NEW k \in 1 .. Len(s)
    PROVE  LET t == SubSeq(s, 1, k - 1) \o SubSeq(s, k + 1, Len(s))
           IN  /\ t \in Seq(S) /\ Len(t) = Len(s) - 1
               /\ \A j \in 1 .. Len(s) - 1 : t[j] = IF j < k THEN s[j] ELSE s[j + 1]
<1> DEFINE a == SubSeq(s, 1, k - 1)
           b == SubSeq(s, k + 1, Len(s))
<1>1. Len(s) \in Nat
  OBVIOUS
<1>2. a \in Seq(S) /\ Len(a) = k - 1 /\ \A j \in 1 .. k - 1 : a[j] = s[j]
  BY <1>1
<1>3. b \in Seq(S) /\ Len(b) = Len(s) - k /\ \A j \in 1 .. Len(s) - k : b[j] = s[k + j]
  BY <1>1
<1> HIDE DEF a, b
<1>4. a \o b \in Seq(S) /\ Len(a \o b) = Len(s) - 1
  <2>1. a \o b \in Seq(S) /\ Len(a \o b) = Len(a) + Len(b)
    BY <1>2, <1>3, ConcatProperties
  <2> QED
    BY <1>1, <1>2, <1>3, <2>1
<1>5. ASSUME NEW j \in 1 .. Len(s) - 1 PROVE (a \o b)[j] = IF j < k THEN s[j] ELSE s[j + 1]
  <2>1. CASE j < k
    BY <1>1, <1>2, <1>3, <2>1
  <2>2. CASE ~(j < k)
    <3>1. (a \o b)[j] = b[j - (k - 1)]
      BY <1>1, <1>2, <1>3, <2>2
    <3>2. j - (k - 1) \in 1 .. Len(s) - k /\ k + (j - (k - 1)) = j + 1
      BY <1>1, <2>2
    <3> QED
      BY <1>3, <2>2, <3>1, <3>2
  <2> QED
    BY <2>1, <2>2
<1> QED
  BY <1>4, <1>5 DEF a, b

(* A list that loses one element keeps the others, each of them once.      *)
LEMMA ListShortened ==
    ASSUME TypeOK, TypeOK', ListedOnce, NEW k \in 1 .. Len(all),
           Len(all') = Len(all) - 1,
           \A j \in 1 .. Len(all) - 1 : all'[j] = IF j < k THEN all[j] ELSE all[j + 1]
    PROVE  /\ ListedOnce'
           /\ \A j \in DOMAIN all' : \E i \in DOMAIN all : all'[j] = all[i]
           /\ \A m : Listed(m) /\ m # all[k] => Listed(m)'
<1>1. Len(all) \in Nat /\ DOMAIN all = 1 .. Len(all) /\ DOMAIN all' = 1 .. Len(all) - 1
  BY DEF TypeOK
<1>2. \A j \in DOMAIN all' : /\ j < k => j \in DOMAIN all /\ all'[j] = all[j]
                             /\ j >= k => j + 1 \in DOMAIN all /\ all'[j] = all[j + 1]
  BY <1>1
<1>3. ListedOnce'
  <2> SUFFICES ASSUME NEW i \in DOMAIN all', NEW j \in DOMAIN all', all'[i] = all'[j] PROVE i = j
    BY DEF ListedOnce
  <2> QED
    BY <1>1, <1>2 DEF ListedOnce
<1>4. \A j \in DOMAIN all' : \E i \in DOMAIN all : all'[j] = all[i]
  BY <1>1, <1>2
<1>5. ASSUME NEW m, NEW i \in DOMAIN all, all[i] = m, m # all[k] PROVE Listed(m)'
  <2>1. CASE i < k
    BY <1>1, <1>2, <1>5, <2>1 DEF Listed
  <2>2. CASE i > k
    <3>1. i - 1 \in DOMAIN all' /\ i - 1 >= k /\ (i - 1) + 1 = i
      BY <1>1, <2>2
    <3>2. all'[i - 1] = m
      BY <1>2, <1>5, <3>1
    <3> QED
      BY <3>1, <3>2 DEF Listed
  <2> QED
    BY <1>1, <1>5, <2>1, <2>2
<1> QED
  BY <1>3, <1>4, <1>5 DEF Listed

LEMMA InitListInv == Init => ListInv
<1> SUFFICES ASSUME Init PROVE ListInv
  OBVIOUS
<1>1. OwnInv
  BY InitOwnInv
<1>2. all = <<>> /\ pushed = {} /\ \A c \in Client : pc[c] = "idle"
  BY DEF Init
<1>3. DOMAIN all = {}
  BY <1>2
<1> QED
  BY <1>1, <1>2, <1>3 DEF ListInv, ListedOnce, DeliveriesFresh, PushedKnown

(* The steps that do not touch the list: messages leave their mailboxes,   *)
(* and clients that deliver stop doing so, or deliver what they did.       *)
LEMMA QuietKeepsListInv ==
    ASSUME ListInv, OwnInv', BoxesShrink, UNCHANGED <<all, pushed>>,
           \A c \in Client : pc'[c] = "deliver" => pc[c] = "deliver" /\ todo'[c] \subseteq todo[c]
    PROVE  ListInv'
<1>1. ListedOnce' /\ \A i \in DOMAIN all' : all'[i] \in pushed'
  BY DEF ListInv, ListedOnce
<1>2. DeliveriesFresh'
  BY DEF ListInv, DeliveriesFresh
<1>3. \A m \in pushed : m.mailbox \in Mailbox
  BY DEF ListInv, OwnInv, BoxInv, TypeOK, Message
<1>4. PushedKnown'
  BY <1>3 DEF ListInv, PushedKnown, BoxesShrink
<1>5. \A mb \in Mailbox : \A m \in boxes'[mb].messages : m \in pushed' => Listed(m)'
  BY DEF ListInv, BoxesShrink, Listed
<1> QED
  BY <1>1, <1>2, <1>4, <1>5 DEF ListInv

(* A message just added is not pushed: its id is new.                      *)
LEMMA AddKeepsListInv ==
    ASSUME ListInv, OwnInv', NEW c \in Client, NEW mb \in Mailbox, NEW size \in Size,
           AddMessage(c, mb, size)
    PROVE  ListInv'
<1> USE DEF ListInv
<1>1. PICK f \in Nat, m \in Message :
        /\ m.mailbox = mb /\ m.index = boxes[mb].last + 1
        /\ boxes' = [boxes EXCEPT ![mb] =
             [first |-> f, last |-> m.index,
              messages |-> {n \in boxes[mb].messages \cup {m} : n.index >= f}]]
        /\ HasEnforcer => pc' = [pc EXCEPT ![c] = "deliver"] /\ todo' = [todo EXCEPT ![c] = {m}]
        /\ ~HasEnforcer => UNCHANGED <<pc, todo>>
  BY CapLoopResult DEF OwnInv
<1>2. TypeOK /\ IdsInRange
  BY DEF OwnInv, BoxInv
<1>3. /\ boxes'[mb].last = m.index /\ boxes[mb].last \in Nat
      /\ boxes'[mb].messages = {n \in boxes[mb].messages \cup {m} : n.index >= f}
      /\ \A other \in Mailbox \ {mb} : boxes'[other] = boxes[other]
  BY <1>1, <1>2 DEF TypeOK
<1>4. all' = all /\ pushed' = pushed /\ pc[c] = "idle"
  BY DEF AddMessage, enfVars
<1>5. m \notin pushed /\ \A d \in Client : m \notin todo[d]
  BY <1>1, <1>3 DEF PushedKnown, OwnInv, KnownIds
<1>6. \A d \in Client : \/ pc'[d] = pc[d] /\ todo'[d] = todo[d]
                        \/ d = c /\ todo'[d] = {m}
  BY <1>1, <1>2 DEF TypeOK
<1>7. DeliveriesFresh'
  BY <1>4, <1>5, <1>6 DEF DeliveriesFresh
<1>8. PushedKnown'
  <2> SUFFICES ASSUME NEW n \in pushed PROVE n.index <= boxes'[n.mailbox].last
    BY <1>4 DEF PushedKnown
  <2>1. n.mailbox \in Mailbox /\ n.index \in Nat /\ n.index <= boxes[n.mailbox].last
    BY <1>2 DEF TypeOK, Message, PushedKnown
  <2> QED
    BY <1>1, <1>3, <2>1
<1>9. \A box \in Mailbox : \A n \in boxes'[box].messages : n \in pushed' => Listed(n)'
  BY <1>3, <1>4, <1>5 DEF Listed
<1>10. ListedOnce' /\ \A i \in DOMAIN all' : all'[i] \in pushed'
  BY <1>4 DEF ListedOnce
<1> QED
  BY <1>7, <1>8, <1>9, <1>10

(* What arrives at the enforcer is new to its list.                        *)
LEMMA IncomingKeepsListInv ==
    ASSUME ListInv, OwnInv', BoxesShrink, NEW c \in Client, EnforcerIncoming(c)
    PROVE  ListInv'
<1> USE DEF ListInv
<1>1. TypeOK /\ TypeOK'
  BY DEF OwnInv, BoxInv
<1>2. PICK m \in todo[c] : all' = Append(all, m) /\ pushed' = pushed \cup {m}
  BY DEF EnforcerIncoming, PushBack, Linked
<1>3. pc[c] = "deliver" /\ pc' = [pc EXCEPT ![c] = "await"] /\ todo' = todo /\ boxes' = boxes
  BY DEF EnforcerIncoming, boxVars
<1>4. m \in Message /\ m \notin pushed /\ m.mailbox \in Mailbox
  BY <1>1, <1>3 DEF TypeOK, DeliveriesFresh, Message
<1>5. /\ Len(all) \in Nat /\ DOMAIN all = 1 .. Len(all) /\ DOMAIN all' = 1 .. Len(all) + 1
      /\ all'[Len(all) + 1] = m /\ \A i \in 1 .. Len(all) : all'[i] = all[i]
  BY <1>1, <1>2, <1>4 DEF TypeOK
<1>6. \A i \in DOMAIN all : all[i] # m
  BY <1>4
<1>7. ListedOnce'
  BY <1>5, <1>6 DEF ListedOnce
<1>8. \A i \in DOMAIN all' : all'[i] \in pushed'
  BY <1>2, <1>5
<1>9. \A n : Listed(n) \/ n = m => Listed(n)'
  BY <1>5 DEF Listed
<1>10. \A mb \in Mailbox : \A n \in boxes'[mb].messages : n \in pushed' => Listed(n)'
  BY <1>2, <1>3, <1>9
<1>11. DeliveriesFresh'
  BY <1>1, <1>2, <1>3 DEF DeliveriesFresh, TypeOK
<1>12. PushedKnown'
  BY <1>2, <1>3, <1>4 DEF PushedKnown, OwnInv, KnownIds
<1> QED
  BY <1>7, <1>8, <1>10, <1>11, <1>12

(* What the enforcer takes off its list is, or goes, out of its mailbox.   *)
LEMMA ShorterKeepsListInv ==
    ASSUME ListInv, OwnInv', BoxesShrink, pushed' = pushed, pc' = pc,
           \A c \in Client : todo'[c] \subseteq todo[c],
           NEW k \in 1 .. Len(all), Len(all') = Len(all) - 1,
           \A j \in 1 .. Len(all) - 1 : all'[j] = IF j < k THEN all[j] ELSE all[j + 1],
           \A mb \in Mailbox : all[k] \notin boxes'[mb].messages
    PROVE  ListInv'
<1>1. TypeOK /\ TypeOK' /\ ListedOnce
  BY DEF ListInv, OwnInv, BoxInv
<1>2. /\ ListedOnce'
      /\ \A j \in DOMAIN all' : \E i \in DOMAIN all : all'[j] = all[i]
      /\ \A m : Listed(m) /\ m # all[k] => Listed(m)'
  BY <1>1, ListShortened
<1>3. \A i \in DOMAIN all' : all'[i] \in pushed'
  BY <1>2 DEF ListInv
<1>4. \A mb \in Mailbox : \A m \in boxes'[mb].messages : m \in pushed' => Listed(m)'
  BY <1>2 DEF ListInv, BoxesShrink
<1>5. DeliveriesFresh'
  BY DEF ListInv, DeliveriesFresh
<1>6. \A m \in pushed : m.mailbox \in Mailbox
  BY <1>1 DEF TypeOK, Message
<1>7. PushedKnown'
  BY <1>6 DEF ListInv, PushedKnown, BoxesShrink
<1> QED
  BY <1>2, <1>3, <1>4, <1>5, <1>7 DEF ListInv

LEMMA EvictKeepsListInv ==
    ASSUME ListInv, OwnInv', BoxesShrink, EnforcerEvict
    PROVE  ListInv'
<1>1. TypeOK /\ IdsInRange
  BY DEF ListInv, OwnInv, BoxInv
<1>2. all \in Seq(Message) /\ all # <<>> /\ Len(all) \in Nat /\ 1 \in 1 .. Len(all)
  BY <1>1 DEF TypeOK, EnforcerEvict
<1>3. /\ all' = Tail(all) /\ pushed' = pushed /\ pc' = pc /\ todo' = todo
      /\ boxes' = [boxes EXCEPT ![all[1].mailbox].messages = @ \ Find(all[1].mailbox, all[1].index)]
  <2>1. Head(all) = all[1]
    BY <1>2
  <2> QED
    BY <2>1 DEF EnforcerEvict
<1>4. Len(all') = Len(all) - 1 /\ \A j \in 1 .. Len(all) - 1 : all'[j] = all[j + 1]
  BY <1>2, <1>3
<1>5. all[1] \in Message /\ all[1].mailbox \in Mailbox
  <2>1. all[1] \in Message
    BY <1>2
  <2> QED
    BY <2>1 DEF Message
<1>6. ASSUME NEW mb \in Mailbox, all[1] \in boxes'[mb].messages PROVE FALSE
  <2>1. all[1] \in boxes[mb].messages /\ all[1].mailbox = mb
    BY <1>1, <1>6 DEF BoxesShrink, IdsInRange
  <2>2. all[1] \in Find(mb, all[1].index)
    BY <2>1 DEF Find
  <2>3. boxes'[mb].messages = boxes[mb].messages \ Find(mb, all[1].index)
    BY <1>1, <1>3, <2>1 DEF TypeOK
  <2> QED
    BY <1>6, <2>2, <2>3
<1>7. \A j \in 1 .. Len(all) - 1 : all'[j] = IF j < 1 THEN all[j] ELSE all[j + 1]
  BY <1>4
<1> QED
  BY <1>2, <1>3, <1>4, <1>6, <1>7, ShorterKeepsListInv

LEMMA UnlinkKeepsListInv ==
    ASSUME ListInv, OwnInv', BoxesShrink, NEW c \in Client, EnforcerRemove(c)
    PROVE  ListInv'
<1>1. TypeOK
  BY DEF ListInv, OwnInv, BoxInv
<1>2. PICK m \in todo[c] \cap pushed : all' = Unlink(m) /\ todo' = [todo EXCEPT ![c] = @ \ {m}]
  BY DEF EnforcerRemove
<1>3. pc[c] = "remove" /\ pc' = pc /\ pushed' = pushed /\ boxes' = boxes
  BY DEF EnforcerRemove, boxVars
<1>4. \A d \in Client : todo'[d] \subseteq todo[d]
  BY <1>1, <1>2 DEF TypeOK
<1>5. \A mb \in Mailbox : m \notin boxes'[mb].messages
  BY <1>2, <1>3 DEF ListInv, OwnInv, Apart
<1>6. CASE \E k \in DOMAIN all : all[k] = m
  <2> DEFINE k == CHOOSE k \in DOMAIN all : all[k] = m
  <2>1. k \in DOMAIN all /\ all[k] = m
    BY <1>6
  <2>2. all' = SubSeq(all, 1, k - 1) \o SubSeq(all, k + 1, Len(all))
    BY <1>2, <1>6 DEF Unlink
  <2> HIDE DEF k
  <2>3. all \in Seq(Message) /\ k \in 1 .. Len(all)
    BY <1>1, <2>1 DEF TypeOK
  <2>4. /\ Len(all') = Len(all) - 1
        /\ \A j \in 1 .. Len(all) - 1 : all'[j] = IF j < k THEN all[j] ELSE all[j + 1]
    BY <2>2, <2>3, CutOut
  <2> QED
    BY <1>3, <1>4, <1>5, <2>1, <2>3, <2>4, ShorterKeepsListInv
<1>7. CASE ~ \E k \in DOMAIN all : all[k] = m
  <2>1. all' = all
    BY <1>2, <1>7 DEF Unlink
  <2> QED
    BY <1>3, <1>4, <2>1, QuietKeepsListInv
<1> QED
  BY <1>6, <1>7

LEMMA NextListInv == ListInv /\ [Next]_vars => ListInv'
<1> SUFFICES ASSUME ListInv, [Next]_vars PROVE ListInv'
  OBVIOUS
<1>1. OwnInv /\ TypeOK /\ OwnInv'
  BY NextOwnInv DEF ListInv, OwnInv, BoxInv
<1>2. CASE IsAdd
  BY <1>1, <1>2, AddKeepsListInv DEF IsAdd
<1>3. CASE ~IsAdd
  <2>1. BoxesShrink
    BY <1>1, <1>3, OtherStepsShrink
  <2>2. ASSUME NEW c \in Client, EnforcerIncoming(c) PROVE ListInv'
    BY <1>1, <2>1, <2>2, IncomingKeepsListInv
  <2>3. CASE EnforcerEvict
    BY <1>1, <2>1, <2>3, EvictKeepsListInv
  <2>4. ASSUME NEW c \in Client, EnforcerRemove(c) PROVE ListInv'
    BY <1>1, <2>1, <2>4, UnlinkKeepsListInv
  <2>5. ASSUME UNCHANGED <<all, pushed>>,
               \A c \in Client : pc'[c] = "deliver" => pc[c] = "deliver" /\ todo'[c] \subseteq todo[c]
        PROVE  ListInv'
    BY <1>1, <2>1, <2>5, QuietKeepsListInv
  <2>6. ASSUME NEW c \in Client, NEW mb \in Mailbox, NEW i \in 1 .. MaxIndex, RemoveMessage(c, mb, i)
        PROVE  ListInv'
    BY <1>1, <2>5, <2>6 DEF RemoveMessage, enfVars, TypeOK
  <2>7. ASSUME NEW c \in Client, NEW mb \in Mailbox, PurgeMessages(c, mb) PROVE ListInv'
    BY <1>1, <2>5, <2>7 DEF PurgeMessages, enfVars, TypeOK
  <2>8. ASSUME NEW c \in Client, RemoveReturns(c) PROVE ListInv'
    BY <1>1, <2>5, <2>8 DEF RemoveReturns, enfVars, TypeOK
  <2>9. CASE EnforcerDone
    BY <1>1, <2>5, <2>9 DEF EnforcerDone, TypeOK
  <2>10. CASE UNCHANGED <<all, pushed, pc, todo>>
    BY <2>5, <2>10
  <2> QED
    BY <1>3, <2>2, <2>3, <2>4, <2>6, <2>7, <2>8, <2>9, <2>10
    DEF Next, Operation, Serve, EnforcerLoop, IsAdd, vars, boxVars, enfVars,
        GetMessages, MarkSeen, EnforcerEvictNil, EnforcerRemoveNil
<1> QED
  BY <1>2, <1>3

(* The enforcer can find every stored message it has had, and finds it     *)
(* once, for any number of clients that deliver, remove and purge.         *)
THEOREM ListCovers == Spec => []ListCoversStore
<1>1. Init => ListInv BY InitListInv
<1>2. ListInv /\ [Next]_vars => ListInv' BY NextListInv
<1>3. ListInv => ListCoversStore
  BY DEF ListInv, ListCoversStore, ListedOnce, Listed, Stored
<1> QED BY <1>1, <1>2, <1>3, PTL DEF Spec
-----------------------------------------------------------------------------
(* The enforcer's books *)

LEMMA OneMessage ==
    ASSUME NEW m \in Message
    PROVE  /\ IsFiniteSet({m} \X (1 .. m.size))
           /\ Cardinality({m} \X (1 .. m.size)) = m.size
           /\ m.size \in Nat \ {0}
<1>1. m.size \in Nat \ {0}
  BY StoreAssumption DEF Message
<1>2. IsFiniteSet(1 .. m.size) /\ Cardinality(1 .. m.size) = m.size
  BY <1>1, FS_Interval
<1> DEFINE g == [k \in 1 .. m.size |-> <<m, k>>]
<1>3. g \in Bijection(1 .. m.size, {m} \X (1 .. m.size))
  <2>1. g \in [1 .. m.size -> {m} \X (1 .. m.size)]
    OBVIOUS
  <2>2. \A a, b \in 1 .. m.size : g[a] = g[b] => a = b
    OBVIOUS
  <2>3. \A t \in {m} \X (1 .. m.size) : \E a \in 1 .. m.size : g[a] = t
    OBVIOUS
  <2> QED
    BY <2>1, <2>2, <2>3 DEF Bijection, Injection, Surjection, IsInjective
<1>4. ExistsBijection(1 .. m.size, {m} \X (1 .. m.size))
  BY <1>3 DEF ExistsBijection
<1> QED
  BY <1>1, <1>2, <1>4, FS_Bijection

(* A part weighs no more than the whole.                                   *)
LEMMA SizeOfPart ==
    ASSUME NEW N, NEW M \in SUBSET N, IsFiniteSet(Bytes(N))
    PROVE  IsFiniteSet(Bytes(M)) /\ SizeOf(M) \in Nat /\ SizeOf(N) \in Nat /\ SizeOf(M) <= SizeOf(N)
<1>1. Bytes(M) \in SUBSET Bytes(N)
  BY DEF Bytes
<1> QED
  BY <1>1, FS_Subset, FS_CardinalityType DEF SizeOf

(* A message more is its size more.                                        *)
LEMMA SizeWithOneMore ==
    ASSUME NEW M \in SUBSET Message, NEW m \in Message, m \notin M, IsFiniteSet(Bytes(M))
    PROVE  IsFiniteSet(Bytes(M \cup {m})) /\ SizeOf(M \cup {m}) = SizeOf(M) + m.size
<1> DEFINE one == {m} \X (1 .. m.size)
<1>1. Bytes(M \cup {m}) = Bytes(M) \cup one
  BY DEF Bytes
<1>2. Bytes(M) \cap one = {}
  BY DEF Bytes
<1>3. IsFiniteSet(one) /\ Cardinality(one) = m.size /\ m.size \in Nat
  BY OneMessage
<1> HIDE DEF one
<1>4. /\ IsFiniteSet(Bytes(M) \cup one)
      /\ Cardinality(Bytes(M) \cup one) = Cardinality(Bytes(M)) + Cardinality(one) - Cardinality({})
  BY <1>2, <1>3, FS_Union
<1>5. Cardinality({}) = 0 /\ Cardinality(Bytes(M)) \in Nat
  BY FS_EmptySet, FS_CardinalityType
<1>6. Cardinality(Bytes(M) \cup one) = Cardinality(Bytes(M)) + m.size
  BY <1>3, <1>4, <1>5
<1>7. SizeOf(M \cup {m}) = Cardinality(Bytes(M) \cup one)
  BY <1>1, Zenon DEF SizeOf
<1> QED
  BY <1>1, <1>4, <1>6, <1>7, Zenon DEF SizeOf

LEMMA NoSize == IsFiniteSet(Bytes({})) /\ SizeOf({}) = 0
<1>1. Bytes({}) = {}
  BY DEF Bytes
<1> QED
  BY <1>1, FS_EmptySet DEF SizeOf

(* m is in a mailbox, or in the call of the client that removed it.        *)
InBox(m) == \E mb \in Mailbox : m \in boxes[mb].messages
Leaving(m) == \E c \in Client : pc[c] = "remove" /\ m \in todo[c]
There(m) == InBox(m) \/ Leaving(m)

LEMMA ChargedMeaning == Charged = {m \in pushed : There(m)}
BY DEF Charged, Stored, InFlight, There, InBox, Leaving

(* The ids the enforcer knows, or will hear of, name no other message.     *)
SameId ==
    \A n \in Message : (n \in pushed \/ \E c \in Client : n \in todo[c]) =>
        \A m \in boxes[n.mailbox].messages : m.index = n.index => m = n

(* Nobody delivers to an enforcer that is not there, and without a cap     *)
(* whatever is being delivered was not lost on the way.                    *)
DeliveriesThere ==
    /\ ~HasEnforcer => pushed = {} /\ \A c \in Client : pc[c] # "deliver"
    /\ Cap = 0 => \A c \in Client : pc[c] = "deliver" => \A m \in todo[c] : There(m)

Fits == HasEnforcer /\ serving = Idle => curSize <= MaxSize

BookInv == ListInv /\ IsFiniteSet(Bytes(pushed)) /\ SameId /\ DeliveriesThere /\ Fits /\ Ledger

LEMMA BookTypes ==
    ASSUME BookInv
    PROVE  /\ TypeOK /\ IdsInRange /\ Apart /\ KnownIds /\ Charged \in SUBSET pushed
           /\ IsFiniteSet(Bytes(Charged)) /\ SizeOf(Charged) \in Nat
<1>1. TypeOK /\ IdsInRange /\ Apart /\ KnownIds
  BY DEF BookInv, ListInv, OwnInv, BoxInv
<1>2. Charged \in SUBSET pushed
  BY DEF Charged
<1> QED
  BY <1>1, <1>2, SizeOfPart DEF BookInv

LEMMA InitBookInv == Init => BookInv
<1> SUFFICES ASSUME Init PROVE BookInv
  OBVIOUS
<1>1. ListInv
  BY InitListInv
<1>2. /\ pushed = {} /\ curSize = 0 /\ \A c \in Client : pc[c] = "idle" /\ todo[c] = {}
  BY DEF Init
<1>3. Charged = {}
  BY <1>2 DEF Charged
<1>4. Ledger
  BY <1>2, <1>3, NoSize DEF Ledger
<1>5. Fits
  BY <1>2, StoreAssumption DEF Fits, HasEnforcer
<1>6. SameId /\ DeliveriesThere
  BY <1>2 DEF SameId, DeliveriesThere
<1> QED
  BY <1>1, <1>2, <1>4, <1>5, <1>6, NoSize DEF BookInv

(* Taking messages out of mailboxes, and telling the enforcer of nothing   *)
(* that was not in one, gives no id a second meaning.                      *)
LEMMA ShrinkKeepsSameId ==
    ASSUME BookInv, BoxesShrink,
           \A n \in Message : n \in pushed' \/ (\E c \in Client : n \in todo'[c]) =>
              n \in pushed \/ (\E c \in Client : n \in todo[c]) \/ InBox(n)
    PROVE  SameId'
<1>1. IdsInRange
  BY BookTypes
<1>2. SUFFICES ASSUME NEW n \in Message, n \in pushed' \/ (\E c \in Client : n \in todo'[c]),
                      NEW m \in boxes'[n.mailbox].messages, m.index = n.index
               PROVE  m = n
  BY DEF SameId
<1>3. n.mailbox \in Mailbox /\ m \in boxes[n.mailbox].messages
  BY DEF BoxesShrink, Message
<1>4. CASE n \in pushed \/ (\E c \in Client : n \in todo[c])
  BY <1>2, <1>3, <1>4 DEF BookInv, SameId
<1>5. CASE InBox(n)
  BY <1>1, <1>2, <1>3, <1>5 DEF InBox, IdsInRange
<1> QED
  BY <1>2, <1>4, <1>5

(* A step that is none of the enforcer's business: what it knows of stays  *)
(* charged, a cap excepted.                                                *)
LEMMA SameBooks ==
    ASSUME BookInv, UNCHANGED <<pushed, curSize>>,
           \A m \in pushed : There(m)' => There(m),
           Cap = 0 => \A m \in pushed : There(m) => There(m)'
    PROVE  Ledger'
<1>1. Charged' \in SUBSET Charged /\ (Cap = 0 => Charged' = Charged)
  <2>1. Charged' = {m \in pushed : There(m)'}
    BY DEF Charged, Stored, InFlight, There, InBox, Leaving
  <2> QED
    BY <2>1, ChargedMeaning
<1>2. SizeOf(Charged') <= SizeOf(Charged) /\ SizeOf(Charged') \in Nat /\ SizeOf(Charged) \in Nat
  BY <1>1, BookTypes, SizeOfPart
<1>3. Ledger' <=> IF Cap = 0 THEN curSize = SizeOf(Charged') ELSE curSize >= SizeOf(Charged')
  BY DEF Ledger, SizeOf, Bytes
<1>4. curSize \in Int
  BY BookTypes DEF TypeOK
<1> QED
  BY <1>1, <1>2, <1>3, <1>4 DEF BookInv, Ledger

(* A message just added is in its mailbox and not pushed; the cap may take *)
(* others away, of which the enforcer is not told.                         *)
LEMMA AddKeepsBooks ==
    ASSUME BookInv, ListInv', NEW c \in Client, NEW mb \in Mailbox, NEW size \in Size,
           AddMessage(c, mb, size)
    PROVE  BookInv'
<1>1. PICK f \in Nat, m \in Message :
        /\ m.mailbox = mb /\ m.index = boxes[mb].last + 1
        /\ f \in boxes[mb].first .. m.index
        /\ boxes' = [boxes EXCEPT ![mb] =
             [first |-> f, last |-> m.index,
              messages |-> {n \in boxes[mb].messages \cup {m} : n.index >= f}]]
        /\ \A g \in boxes[mb].first .. (f - 1) :
             Cap > 0 /\ Cardinality({n \in boxes[mb].messages \cup {m} : n.index >= g}) > Cap
        /\ HasEnforcer => pc' = [pc EXCEPT ![c] = "deliver"] /\ todo' = [todo EXCEPT ![c] = {m}]
        /\ ~HasEnforcer => UNCHANGED <<pc, todo>>
  BY CapLoopResult DEF BookInv, ListInv, OwnInv
<1>2. TypeOK /\ IdsInRange /\ KnownIds
  BY BookTypes
<1>3. /\ boxes[mb] \in [first : Nat, last : Nat, messages : SUBSET Message]
      /\ boxes'[mb].messages = {n \in boxes[mb].messages \cup {m} : n.index >= f}
      /\ \A other \in Mailbox \ {mb} : boxes'[other] = boxes[other]
  BY <1>1, <1>2 DEF TypeOK
<1>4. pushed' = pushed /\ curSize' = curSize /\ serving' = serving /\ pc[c] = "idle"
  BY DEF AddMessage, enfVars
<1>5. m \notin pushed
  BY <1>1, <1>3 DEF BookInv, ListInv, PushedKnown
<1>6. \A d \in Client : \/ pc'[d] = pc[d] /\ todo'[d] = todo[d]
                        \/ HasEnforcer /\ d = c /\ pc'[d] = "deliver" /\ todo'[d] = {m}
  BY <1>1, <1>2 DEF TypeOK
<1>7. \A d \in Client : pc[d] = "remove" => pc'[d] = "remove" /\ todo'[d] = todo[d]
  BY <1>4, <1>6, <1>2, <1>1 DEF TypeOK
<1>8. \A n \in Message : There(n)' => There(n) \/ n = m
  BY <1>3, <1>6 DEF There, InBox, Leaving
<1>9. Cap = 0 => \A n \in Message : There(n) \/ n = m => There(n)'
  <2> SUFFICES ASSUME Cap = 0 PROVE \A n \in Message : There(n) \/ n = m => There(n)'
    OBVIOUS
  <2>1. f = boxes[mb].first
    BY <1>1, <1>3
  <2>2. \A n \in boxes[mb].messages \cup {m} : n.index >= f
    BY <1>1, <1>2, <1>3, <2>1 DEF IdsInRange
  <2>3. boxes'[mb].messages = boxes[mb].messages \cup {m}
    BY <1>3, <2>2
  <2>4. \A n : InBox(n) \/ n = m => InBox(n)'
    BY <1>3, <2>3 DEF InBox
  <2>5. \A n : Leaving(n) => Leaving(n)'
    BY <1>7 DEF Leaving
  <2> QED
    BY <2>4, <2>5 DEF There
<1>10. pushed \subseteq Message
  BY <1>2 DEF TypeOK
<1>11. Ledger'
  BY <1>4, <1>5, <1>8, <1>9, <1>10, SameBooks
<1>12. SameId'
  <2> SUFFICES ASSUME NEW n \in Message, n \in pushed' \/ (\E d \in Client : n \in todo'[d]),
                      NEW k \in boxes'[n.mailbox].messages, k.index = n.index
               PROVE  k = n
    BY DEF SameId
  <2>1. n \in pushed \/ (\E d \in Client : n \in todo[d]) \/ n = m
    BY <1>4, <1>6
  <2>2. n.mailbox \in Mailbox /\ n.index \in Nat
    BY DEF Message
  <2>3. k \in boxes[n.mailbox].messages \/ (k = m /\ n.mailbox = mb)
    BY <1>3, <2>2
  <2>4. n = m \/ n.index <= boxes[n.mailbox].last
    BY <1>2, <2>1 DEF KnownIds, BookInv, ListInv, PushedKnown
  <2>5. k \in boxes[n.mailbox].messages => k.index <= boxes[n.mailbox].last
    BY <1>2, <2>2 DEF IdsInRange, TypeOK
  <2>6. CASE n = m
    BY <1>1, <1>3, <2>3, <2>5, <2>6
  <2>7. CASE n # m
    <3>1. k \in boxes[n.mailbox].messages
      BY <1>1, <1>3, <2>2, <2>3, <2>4, <2>7
    <3> QED
      BY <2>1, <2>7, <3>1 DEF BookInv, SameId
  <2> QED
    BY <2>6, <2>7
<1>13. DeliveriesThere'
  <2>1. ~HasEnforcer => pushed' = {} /\ \A d \in Client : pc'[d] # "deliver"
    BY <1>1, <1>4 DEF BookInv, DeliveriesThere
  <2>2. ASSUME Cap = 0, NEW d \in Client, pc'[d] = "deliver", NEW n \in todo'[d] PROVE There(n)'
    <3>1. n \in Message
      BY <2>2 DEF ListInv, OwnInv, BoxInv, TypeOK
    <3>2. There(n) \/ n = m
      BY <1>6, <2>2 DEF BookInv, DeliveriesThere
    <3> QED
      BY <1>9, <2>2, <3>1, <3>2
  <2> QED
    BY <2>1, <2>2 DEF DeliveriesThere, HasEnforcer
<1>14. Fits' /\ IsFiniteSet(Bytes(pushed'))
  BY <1>4 DEF BookInv, Fits, HasEnforcer
<1> QED
  BY <1>11, <1>12, <1>13, <1>14 DEF BookInv, Bytes

(* The steps in which messages only change hands, from their mailbox to    *)
(* the call that removed them.                                             *)
LEMMA HandOverKeepsBooks ==
    ASSUME BookInv, ListInv', BoxesShrink, UNCHANGED <<pushed, curSize>>,
           serving' = serving \/ (serving' = Idle /\ curSize <= MaxSize),
           HasEnforcer => \A n : There(n)' <=> There(n),
           \A c \in Client : \A n \in todo'[c] : n \in todo[c] \/ InBox(n),
           \A c \in Client : pc'[c] = "deliver" => pc[c] = "deliver" /\ todo'[c] = todo[c]
    PROVE  BookInv'
<1>1. SameId'
  BY ShrinkKeepsSameId
<1>2. Fits' /\ IsFiniteSet(Bytes(pushed)')
  BY DEF BookInv, Fits, HasEnforcer, Bytes
<1>3. DeliveriesThere'
  BY DEF BookInv, DeliveriesThere, HasEnforcer
<1>4. CASE HasEnforcer
  BY <1>1, <1>2, <1>3, <1>4, SameBooks DEF BookInv
<1>5. CASE ~HasEnforcer
  <2>1. pushed = {}
    BY <1>5 DEF BookInv, DeliveriesThere
  <2> QED
    BY <1>1, <1>2, <1>3, <2>1, SameBooks DEF BookInv
<1> QED
  BY <1>4, <1>5

LEMMA RemoveKeepsBooks ==
    ASSUME BookInv, ListInv', BoxesShrink,
           NEW c \in Client, NEW mb \in Mailbox, NEW i \in 1 .. MaxIndex, RemoveMessage(c, mb, i)
    PROVE  BookInv'
<1>1. TypeOK
  BY BookTypes
<1> DEFINE gone == Find(mb, i)
<1>2. gone \subseteq boxes[mb].messages
  BY DEF Find
<1>3. /\ boxes' = [boxes EXCEPT ![mb].messages = @ \ gone] /\ pc[c] = "idle"
      /\ UNCHANGED <<pushed, curSize, serving>>
      /\ HasEnforcer => pc' = [pc EXCEPT ![c] = "remove"] /\ todo' = [todo EXCEPT ![c] = gone]
      /\ ~HasEnforcer => UNCHANGED <<pc, todo>>
  BY DEF RemoveMessage, enfVars
<1> HIDE DEF gone
<1>4. /\ boxes'[mb].messages = boxes[mb].messages \ gone
      /\ \A other \in Mailbox \ {mb} : boxes'[other] = boxes[other]
  BY <1>1, <1>3 DEF TypeOK
<1>5. \A d \in Client : \/ pc'[d] = pc[d] /\ todo'[d] = todo[d]
                        \/ HasEnforcer /\ d = c /\ pc'[d] = "remove" /\ todo'[d] = gone
  BY <1>1, <1>3 DEF TypeOK
<1>6. ASSUME HasEnforcer, NEW n PROVE There(n)' <=> There(n)
  <2>1. InBox(n) => InBox(n)' \/ n \in gone
    BY <1>4 DEF InBox
  <2>2. InBox(n)' => InBox(n)
    BY <1>4 DEF InBox
  <2>3. n \in gone => InBox(n) /\ Leaving(n)'
    BY <1>1, <1>2, <1>3, <1>6 DEF TypeOK, InBox, Leaving
  <2>4. Leaving(n) => Leaving(n)'
    BY <1>3, <1>5 DEF Leaving
  <2>5. Leaving(n)' => Leaving(n) \/ n \in gone
    BY <1>5 DEF Leaving
  <2> QED
    BY <2>1, <2>2, <2>3, <2>4, <2>5 DEF There
<1>7. \A d \in Client : \A n \in todo'[d] : n \in todo[d] \/ InBox(n)
  BY <1>2, <1>5 DEF InBox
<1> QED
  BY <1>3, <1>5, <1>6, <1>7, HandOverKeepsBooks

LEMMA PurgeKeepsBooks ==
    ASSUME BookInv, ListInv', BoxesShrink,
           NEW c \in Client, NEW mb \in Mailbox, PurgeMessages(c, mb)
    PROVE  BookInv'
<1>1. TypeOK
  BY BookTypes
<1> DEFINE gone == boxes[mb].messages
           reported == IF HasEnforcer THEN gone ELSE {}
<1>2. /\ boxes' = [boxes EXCEPT ![mb] = [@ EXCEPT !.messages = {}]] /\ pc[c] = "idle"
      /\ UNCHANGED <<pushed, curSize, serving>>
      /\ pc' = [pc EXCEPT ![c] = "remove"] /\ todo' = [todo EXCEPT ![c] = reported]
  BY DEF PurgeMessages, PurgedBox, enfVars
<1>3. /\ boxes'[mb].messages = {}
      /\ \A other \in Mailbox \ {mb} : boxes'[other] = boxes[other]
  BY <1>1, <1>2 DEF TypeOK
<1>4. \A d \in Client : \/ pc'[d] = pc[d] /\ todo'[d] = todo[d]
                        \/ d = c /\ pc'[d] = "remove" /\ todo'[d] = reported
  BY <1>1, <1>2 DEF TypeOK
<1>5. pc'[c] = "remove" /\ todo'[c] = reported
  BY <1>1, <1>2 DEF TypeOK
<1>6. ASSUME HasEnforcer, NEW n PROVE There(n)' <=> There(n)
  <2>1. InBox(n) => InBox(n)' \/ n \in gone
    BY <1>3 DEF InBox
  <2>2. InBox(n)' => InBox(n)
    BY <1>3 DEF InBox
  <2>3. n \in gone => InBox(n) /\ Leaving(n)'
    BY <1>5, <1>6 DEF InBox, Leaving
  <2>4. Leaving(n) => Leaving(n)'
    BY <1>2, <1>4 DEF Leaving
  <2>5. Leaving(n)' => Leaving(n) \/ n \in gone
    BY <1>4 DEF Leaving
  <2> QED
    BY <2>1, <2>2, <2>3, <2>4, <2>5 DEF There
<1>7. \A d \in Client : \A n \in todo'[d] : n \in todo[d] \/ InBox(n)
  BY <1>4 DEF InBox
<1> QED
  BY <1>2, <1>4, <1>6, <1>7, HandOverKeepsBooks

(* A client returns: from a removal with nothing left to report, or from   *)
(* its delivery.                                                           *)
LEMMA ReturnsKeepBooks ==
    ASSUME BookInv, ListInv', BoxesShrink, (\E c \in Client : RemoveReturns(c)) \/ EnforcerDone
    PROVE  BookInv'
<1>1. TypeOK /\ ServedAwaits
  BY BookTypes DEF BookInv, ListInv, OwnInv
<1>2. UNCHANGED <<boxes, pushed, curSize>> /\ (serving' = serving \/ (serving' = Idle /\ curSize <= MaxSize))
  BY DEF RemoveReturns, EnforcerDone, boxVars, enfVars
<1>3. \A d \in Client : \/ pc'[d] = pc[d] /\ todo'[d] = todo[d]
                        \/ pc'[d] = "idle" /\ (pc[d] = "await" \/ todo[d] = {}) /\ todo'[d] = {}
  <2>1. ASSUME NEW c \in Client, RemoveReturns(c), NEW d \in Client
        PROVE  \/ pc'[d] = pc[d] /\ todo'[d] = todo[d]
               \/ pc'[d] = "idle" /\ todo[d] = {} /\ todo'[d] = {}
    BY <1>1, <2>1 DEF RemoveReturns, TypeOK
  <2>2. ASSUME EnforcerDone, NEW d \in Client
        PROVE  \/ pc'[d] = pc[d] /\ todo'[d] = todo[d]
               \/ pc'[d] = "idle" /\ pc[d] = "await" /\ todo'[d] = {}
    BY <1>1, <2>2 DEF EnforcerDone, TypeOK, ServedAwaits
  <2> QED
    BY <2>1, <2>2
<1>4. \A n : There(n)' <=> There(n)
  BY <1>2, <1>3 DEF There, InBox, Leaving
<1> QED
  BY <1>2, <1>3, <1>4, HandOverKeepsBooks

(* The enforcer enters a delivery.                                         *)
LEMMA IncomingKeepsBooks ==
    ASSUME BookInv, ListInv', BoxesShrink, NEW c \in Client, EnforcerIncoming(c)
    PROVE  BookInv'
<1>1. TypeOK
  BY BookTypes
<1>2. PICK m \in todo[c] : curSize' = curSize + m.size /\ pushed' = pushed \cup {m}
  BY DEF EnforcerIncoming, Linked
<1>3. /\ pc[c] = "deliver" /\ pc' = [pc EXCEPT ![c] = "await"] /\ serving' = c
      /\ todo' = todo /\ boxes' = boxes
  BY DEF EnforcerIncoming, boxVars
<1>4. m \in Message /\ m \notin pushed /\ pushed \subseteq Message
  BY <1>1, <1>3 DEF TypeOK, BookInv, ListInv, DeliveriesFresh
<1>5. \A d \in Client : pc'[d] = pc[d] \/ (d = c /\ pc'[d] = "await")
  BY <1>1, <1>3 DEF TypeOK
<1>6. \A n : There(n)' <=> There(n)
  BY <1>3, <1>5 DEF There, InBox, Leaving
<1>7. SameId'
  BY <1>2, <1>3, ShrinkKeepsSameId
<1>8. DeliveriesThere'
  BY <1>3, <1>5, <1>6 DEF BookInv, DeliveriesThere, HasEnforcer
<1>9. Fits'
  BY <1>3, StoreAssumption DEF Fits
<1>10. IsFiniteSet(Bytes(pushed)')
  BY <1>2, <1>4, SizeWithOneMore DEF BookInv
<1>11. Ledger'
  <2>1. Charged' = {n \in pushed \cup {m} : There(n)}
    <3>1. Charged' = {n \in pushed' : There(n)'}
      BY DEF Charged, Stored, InFlight, There, InBox, Leaving
    <3> QED
      BY <1>2, <1>6, <3>1
  <2>2. Charged' = IF There(m) THEN Charged \cup {m} ELSE Charged
    BY <2>1, ChargedMeaning
  <2>3. There(m) => SizeOf(Charged \cup {m}) = SizeOf(Charged) + m.size
    BY <1>4, BookTypes, SizeWithOneMore
  <2>4. Cap = 0 => There(m)
    BY <1>3 DEF BookInv, DeliveriesThere
  <2>5. m.size \in Nat /\ curSize \in Int /\ SizeOf(Charged) \in Nat
    BY <1>1, <1>4, OneMessage, BookTypes DEF TypeOK
  <2>6. Ledger' <=> IF Cap = 0 THEN curSize' = SizeOf(Charged') ELSE curSize' >= SizeOf(Charged')
    BY DEF Ledger, SizeOf, Bytes
  <2> QED
    BY <1>2, <2>2, <2>3, <2>4, <2>5, <2>6 DEF BookInv, Ledger
<1> QED
  BY <1>7, <1>8, <1>9, <1>10, <1>11 DEF BookInv

(* The enforcer pays back a message that was charged and is there no more. *)
LEMMA PaymentBalances ==
    ASSUME BookInv, NEW m \in pushed, There(m),
           pushed' = pushed, curSize' = curSize - m.size,
           \A n : There(n)' <=> There(n) /\ n # m
    PROVE  Ledger' /\ curSize' < curSize
<1>1. Charged' = {n \in pushed : There(n) /\ n # m}
  BY DEF Charged, Stored, InFlight, There, InBox, Leaving
<1>2. Charged = Charged' \cup {m} /\ m \notin Charged' /\ Charged' \in SUBSET Charged
  BY <1>1, ChargedMeaning
<1>3. m \in Message /\ pushed \subseteq Message /\ curSize \in Int
  BY BookTypes DEF TypeOK
<1>4. IsFiniteSet(Bytes(Charged')) /\ SizeOf(Charged') \in Nat
  BY <1>2, BookTypes, SizeOfPart
<1>5. SizeOf(Charged) = SizeOf(Charged') + m.size
  BY <1>2, <1>3, <1>4, BookTypes, SizeWithOneMore
<1>6. m.size \in Nat \ {0}
  BY <1>3, OneMessage
<1>7. Ledger' <=> IF Cap = 0 THEN curSize' = SizeOf(Charged') ELSE curSize' >= SizeOf(Charged')
  BY DEF Ledger, SizeOf, Bytes
<1> QED
  BY <1>3, <1>4, <1>5, <1>6, <1>7 DEF BookInv, Ledger

LEMMA UnlinkKeepsBooks ==
    ASSUME BookInv, ListInv', BoxesShrink, NEW c \in Client, EnforcerRemove(c)
    PROVE  BookInv'
<1>1. TypeOK /\ Apart
  BY BookTypes
<1>2. PICK m \in todo[c] \cap pushed : curSize' = curSize - m.size /\ todo' = [todo EXCEPT ![c] = @ \ {m}]
  BY DEF EnforcerRemove
<1>3. pc[c] = "remove" /\ UNCHANGED <<pc, pushed, boxes, serving>>
  BY DEF EnforcerRemove, boxVars
<1>4. todo'[c] = todo[c] \ {m} /\ \A d \in Client \ {c} : todo'[d] = todo[d]
  BY <1>1, <1>2 DEF TypeOK
<1>5. \A n : InBox(n)' <=> InBox(n)
  BY <1>3 DEF InBox
<1>6. ~InBox(m) /\ Leaving(m)
  BY <1>1, <1>2, <1>3 DEF Apart, InBox, Leaving
<1>7. \A n : Leaving(n)' <=> Leaving(n) /\ n # m
  BY <1>1, <1>2, <1>3, <1>4 DEF Leaving, Apart
<1>8. \A n : There(n)' <=> There(n) /\ n # m
  BY <1>5, <1>6, <1>7 DEF There
<1>9. Ledger' /\ curSize' < curSize
  BY <1>2, <1>3, <1>6, <1>8, PaymentBalances DEF There
<1>10. SameId'
  BY <1>3, <1>4, ShrinkKeepsSameId
<1>11. DeliveriesThere'
  <2>1. \A d \in Client : pc[d] = "deliver" => todo'[d] = todo[d] /\ m \notin todo[d]
    BY <1>2, <1>3, <1>4 DEF BookInv, ListInv, DeliveriesFresh
  <2> QED
    BY <1>3, <1>8, <2>1 DEF BookInv, DeliveriesThere, HasEnforcer
<1>12. Fits'
  <2>1. curSize' \in Int /\ curSize \in Int /\ MaxSize \in Nat
    BY <1>1, StoreAssumption DEF BookInv, ListInv, OwnInv, BoxInv, TypeOK
  <2> QED
    BY <1>3, <1>9, <2>1 DEF BookInv, Fits, HasEnforcer
<1> QED
  BY <1>3, <1>9, <1>10, <1>11, <1>12 DEF BookInv, Bytes

(* An eviction pays back a message it has found, which is the one it       *)
(* looked for, and nothing for one that another call has taken out.        *)
LEMMA EvictKeepsBooks ==
    ASSUME BookInv, ListInv', BoxesShrink, EnforcerEvict
    PROVE  BookInv'
<1>1. TypeOK /\ IdsInRange /\ Apart
  BY BookTypes
<1> DEFINE m == Head(all)
           found == Find(m.mailbox, m.index)
<1>2. /\ boxes' = [boxes EXCEPT ![m.mailbox].messages = @ \ found]
      /\ curSize' = curSize - (IF found # {} THEN m.size ELSE 0)
      /\ UNCHANGED <<pc, todo, pushed, serving>> /\ serving # Idle /\ all # <<>>
  BY DEF EnforcerEvict, PaidBack
<1>3. m \in pushed /\ m \in Message /\ m.mailbox \in Mailbox
  <2>1. 1 \in DOMAIN all /\ m = all[1]
    BY <1>1, <1>2 DEF TypeOK
  <2>2. m \in pushed
    BY <2>1 DEF BookInv, ListInv
  <2> QED
    BY <1>1, <2>2 DEF TypeOK, Message
<1>4. found = IF m \in boxes[m.mailbox].messages THEN {m} ELSE {}
  BY <1>3 DEF Find, BookInv, SameId
<1> HIDE DEF m, found
<1>5. /\ boxes'[m.mailbox].messages = boxes[m.mailbox].messages \ found
      /\ \A other \in Mailbox \ {m.mailbox} : boxes'[other] = boxes[other]
  BY <1>1, <1>2, <1>3 DEF TypeOK
<1>6. \A n : Leaving(n)' <=> Leaving(n)
  BY <1>2 DEF Leaving
<1>7. CASE m \notin boxes[m.mailbox].messages
  <2>1. \A n : There(n)' <=> There(n)
    BY <1>3, <1>4, <1>5, <1>6, <1>7 DEF There, InBox
  <2>2. curSize' = curSize
    BY <1>1, <1>2, <1>4, <1>7 DEF TypeOK
  <2> QED
    BY <1>2, <2>1, <2>2, HandOverKeepsBooks
<1>8. CASE m \in boxes[m.mailbox].messages
  <2>1. \A n : InBox(n)' <=> InBox(n) /\ n # m
    <3>1. \A mb \in Mailbox : m \in boxes[mb].messages => mb = m.mailbox
      BY <1>1 DEF IdsInRange
    <3> QED
      BY <1>3, <1>4, <1>5, <1>8, <3>1 DEF InBox
  <2>2. There(m) /\ ~Leaving(m)
    BY <1>1, <1>3, <1>8 DEF There, InBox, Leaving, Apart
  <2>3. \A n : There(n)' <=> There(n) /\ n # m
    BY <1>6, <2>1, <2>2 DEF There
  <2>4. Ledger'
    BY <1>2, <1>3, <1>4, <1>8, <2>2, <2>3, PaymentBalances
  <2>5. SameId'
    BY <1>2, ShrinkKeepsSameId
  <2>6. DeliveriesThere'
    <3>1. \A c \in Client : pc[c] = "deliver" => m \notin todo[c]
      BY <1>3 DEF BookInv, ListInv, DeliveriesFresh
    <3> QED
      BY <1>2, <2>3, <3>1 DEF BookInv, DeliveriesThere, HasEnforcer
  <2> QED
    BY <1>2, <2>4, <2>5, <2>6 DEF BookInv, Fits, Bytes
<1> QED
  BY <1>7, <1>8

LEMMA NextBookInv == BookInv /\ [Next]_vars => BookInv'
<1> SUFFICES ASSUME BookInv, [Next]_vars PROVE BookInv'
  OBVIOUS
<1>1. TypeOK /\ ListInv'
  BY BookTypes, NextListInv DEF BookInv
<1>2. CASE IsAdd
  BY <1>1, <1>2, AddKeepsBooks DEF IsAdd
<1>3. CASE ~IsAdd
  <2>1. BoxesShrink
    BY <1>1, <1>3, OtherStepsShrink
  <2>2. ASSUME NEW c \in Client, NEW mb \in Mailbox, NEW i \in 1 .. MaxIndex, RemoveMessage(c, mb, i)
        PROVE  BookInv'
    BY <1>1, <2>1, <2>2, RemoveKeepsBooks
  <2>3. ASSUME NEW c \in Client, NEW mb \in Mailbox, PurgeMessages(c, mb) PROVE BookInv'
    BY <1>1, <2>1, <2>3, PurgeKeepsBooks
  <2>4. CASE (\E c \in Client : RemoveReturns(c)) \/ EnforcerDone
    BY <1>1, <2>1, <2>4, ReturnsKeepBooks
  <2>5. ASSUME NEW c \in Client, EnforcerIncoming(c) PROVE BookInv'
    BY <1>1, <2>1, <2>5, IncomingKeepsBooks
  <2>6. ASSUME NEW c \in Client, EnforcerRemove(c) PROVE BookInv'
    BY <1>1, <2>1, <2>6, UnlinkKeepsBooks
  <2>7. CASE EnforcerEvict
    BY <1>1, <2>1, <2>7, EvictKeepsBooks
  <2>8. CASE UNCHANGED <<boxes, pc, todo, pushed, curSize, serving>>
    <3>1. \A n : There(n)' <=> There(n)
      BY <2>8 DEF There, InBox, Leaving
    <3> QED
      BY <1>1, <2>1, <2>8, <3>1, HandOverKeepsBooks
  <2> QED
    BY <1>3, <2>2, <2>3, <2>4, <2>5, <2>6, <2>7, <2>8
    DEF Next, Operation, Serve, EnforcerLoop, IsAdd, vars, boxVars, enfVars,
        GetMessages, MarkSeen, EnforcerEvictNil, EnforcerRemoveNil
<1> QED
  BY <1>2, <1>3

(* The enforcer's total is what the messages it knows of weigh, and what   *)
(* it lets stand fits its limit, for any number of clients, whatever they  *)
(* remove while it evicts; with a cap the total may only be too high.      *)
THEOREM BooksAlwaysBalance == Spec => []BooksBalance
<1>1. BookInv => BooksBalance
  <2> SUFFICES ASSUME BookInv PROVE BooksBalance
    OBVIOUS
  <2>1. Stored \cap pushed \in SUBSET Charged
    BY DEF Charged
  <2>2. /\ SizeOf(Stored \cap pushed) \in Nat /\ SizeOf(Charged) \in Nat
        /\ SizeOf(Stored \cap pushed) <= SizeOf(Charged)
    BY <2>1, BookTypes, SizeOfPart
  <2>3. curSize \in Int /\ MaxSize \in Nat
    BY BookTypes, StoreAssumption DEF TypeOK
  <2>4. SizeOf(Charged) <= curSize
    BY <2>2, <2>3 DEF BookInv, Ledger
  <2> QED
    BY <2>2, <2>3, <2>4 DEF BookInv, BooksBalance, Budget, Fits
<1> QED BY <1>1, InitBookInv, NextBookInv, PTL DEF Spec
-----------------------------------------------------------------------------
(* Listings *)

(* Induction over the naturals as a statement about sets: the library's    *)
(* NatInduction takes a predicate, which the provers cannot instantiate.   *)
(* A set of naturals with 0 and every successor holds them all: the least  *)
(* natural outside it could be neither.                                    *)
LEMMA NatSetInduction ==
    ASSUME NEW T, T \subseteq Nat, 0 \in T, \A n \in T : n + 1 \in T
    PROVE  T = Nat
<1> DEFINE R == {ss \in Nat \X Nat : ss[1] < ss[2]}
           U == Nat \ T
<1>1. SUFFICES ASSUME U # {} PROVE FALSE
  OBVIOUS
<1>2. IsWellFoundedOn(R, Nat)
  BY NatLessThanWellFounded DEF OpToRel
<1>3. \A x, y \in Nat : x < y => <<x, y>> \in R
  OBVIOUS
<1> HIDE DEF R
<1>4. PICK x \in U : \A y \in U : ~ (<<y, x>> \in R)
  <2>1. U \subseteq Nat OBVIOUS
  <2> HIDE DEF U
  <2> QED BY <2>1, <1>1, <1>2, WFMin
<1>5. x # 0 /\ x - 1 \in Nat /\ x - 1 < x /\ x - 1 + 1 = x
  OBVIOUS
<1>6. x - 1 \in U
  BY <1>5
<1> QED BY <1>3, <1>4, <1>5, <1>6


(* Names that differ have different ids, as those of one mailbox do.       *)
Keyed(N) == \A x, y \in N : x[2] \in Int /\ (x[2] = y[2] => x = y)

LEMMA ListingOrder ==
    ASSUME NEW N, Keyed(N), NEW s \in Seq(N), Lists(s, N)
    PROVE  /\ Len(s) \in Nat /\ DOMAIN s = 1 .. Len(s)
           /\ \A j \in 1 .. Len(s) : s[j] \in N /\ s[j][2] \in Int
           /\ \A i, j \in 1 .. Len(s) : i < j => s[i][2] < s[j][2]
<1>1. Len(s) \in Nat /\ DOMAIN s = 1 .. Len(s)
  OBVIOUS
<1>2. \A j \in 1 .. Len(s) : s[j] \in N /\ s[j][2] \in Int
  BY DEF Keyed
<1>3. \A i, j \in 1 .. Len(s) : i < j => s[i][2] < s[j][2]
  BY <1>1 DEF Lists
<1> QED BY <1>1, <1>2, <1>3

LEMMA ListedSomewhere ==
    ASSUME NEW N, NEW s \in Seq(N), Lists(s, N), NEW x \in N
    PROVE  \E j \in 1 .. Len(s) : s[j] = x
BY DOMAIN s = 1 .. Len(s) DEF Lists

(* Two listings of the same names that agree before k agree at k.          *)
LEMMA ListingStep ==
    ASSUME NEW N, Keyed(N), NEW s \in Seq(N), NEW t \in Seq(N), Lists(s, N), Lists(t, N),
           NEW k \in 1 .. Len(s), \A j \in 1 .. (k - 1) : j <= Len(t) /\ s[j] = t[j]
    PROVE  k <= Len(t) /\ s[k] = t[k]
<1>1. /\ Len(s) \in Nat /\ \A j \in 1 .. Len(s) : s[j] \in N /\ s[j][2] \in Int
      /\ \A i, j \in 1 .. Len(s) : i < j => s[i][2] < s[j][2]
  BY ListingOrder
<1>2. /\ Len(t) \in Nat /\ \A j \in 1 .. Len(t) : t[j] \in N /\ t[j][2] \in Int
      /\ \A i, j \in 1 .. Len(t) : i < j => t[i][2] < t[j][2]
  BY ListingOrder
<1>3. PICK i \in 1 .. Len(t) : t[i] = s[k]
  BY <1>1, ListedSomewhere
<1>4. i >= k
  <2> SUFFICES ASSUME i < k PROVE FALSE
    BY <1>1, <1>2
  <2>1. s[i] = s[k] /\ i \in 1 .. Len(s)
    BY <1>1, <1>2, <1>3
  <2> QED
    BY <1>1, <2>1
<1>5. k \in 1 .. Len(t)
  BY <1>1, <1>2, <1>4
<1>6. PICK j \in 1 .. Len(s) : s[j] = t[k]
  <2>1. t[k] \in N BY <1>2, <1>5
  <2> QED BY <2>1, ListedSomewhere
<1>7. j >= k
  <2> SUFFICES ASSUME j < k PROVE FALSE
    BY <1>1
  <2>1. t[j] = t[k] /\ j \in 1 .. Len(t)
    BY <1>1, <1>2, <1>5, <1>6
  <2> QED
    BY <1>2, <1>5, <2>1
<1>8. t[k][2] <= s[k][2]
  <2>1. CASE i = k BY <1>2, <1>3, <1>5, <2>1
  <2>2. CASE i > k BY <1>2, <1>3, <1>5, <2>2
  <2> QED BY <1>4, <2>1, <2>2
<1>9. s[k][2] <= t[k][2]
  <2>1. CASE j = k BY <1>1, <1>6, <2>1
  <2>2. CASE j > k BY <1>1, <1>6, <2>2
  <2> QED BY <1>7, <2>1, <2>2
<1>10. s[k][2] = t[k][2]
  BY <1>1, <1>2, <1>5, <1>8, <1>9
<1> QED
  BY <1>1, <1>2, <1>5, <1>10 DEF Keyed

(* There is one listing of a set of names.                                 *)
LEMMA OneListing ==
    ASSUME NEW N, Keyed(N), NEW s \in Seq(N), NEW t \in Seq(N), Lists(s, N), Lists(t, N)
    PROVE  s = t
<1> DEFINE agree(j) == (j <= Len(s) <=> j <= Len(t)) /\ (j <= Len(s) => s[j] = t[j])
           T == {n \in Nat : \A j \in 1 .. n : agree(j)}
<1>1. Len(s) \in Nat /\ Len(t) \in Nat
  OBVIOUS
<1>2. 0 \in T
  OBVIOUS
<1>3. ASSUME NEW n \in T PROVE n + 1 \in T
  <2>1. n \in Nat /\ \A j \in 1 .. n : agree(j)
    OBVIOUS
  <2>2. n + 1 <= Len(s) => n + 1 <= Len(t) /\ s[n + 1] = t[n + 1]
    <3> SUFFICES ASSUME n + 1 <= Len(s) PROVE n + 1 <= Len(t) /\ s[n + 1] = t[n + 1]
      OBVIOUS
    <3>1. n + 1 \in 1 .. Len(s) /\ \A j \in 1 .. (n + 1 - 1) : j <= Len(t) /\ s[j] = t[j]
      BY <1>1, <2>1
    <3> QED BY <3>1, ListingStep
  <2>3. n + 1 <= Len(t) => n + 1 <= Len(s) /\ t[n + 1] = s[n + 1]
    <3> SUFFICES ASSUME n + 1 <= Len(t) PROVE n + 1 <= Len(s) /\ t[n + 1] = s[n + 1]
      OBVIOUS
    <3>1. n + 1 \in 1 .. Len(t) /\ \A j \in 1 .. (n + 1 - 1) : j <= Len(s) /\ t[j] = s[j]
      BY <1>1, <2>1
    <3> QED BY <3>1, ListingStep
  <2>4. agree(n + 1)
    BY <2>2, <2>3
  <2> HIDE DEF agree
  <2>5. \A j \in 1 .. (n + 1) : j \in 1 .. n \/ j = n + 1
    BY <2>1
  <2> QED BY <2>1, <2>4, <2>5
<1>4. T = Nat
  <2> HIDE DEF T
  <2>1. T \subseteq Nat BY DEF T
  <2> QED BY <1>2, <1>3, <2>1, NatSetInduction
<1>5. \A j \in Nat \ {0} : agree(j)
  <2> SUFFICES ASSUME NEW j \in Nat \ {0} PROVE agree(j)
    OBVIOUS
  <2>1. j \in T BY <1>4
  <2> HIDE DEF agree
  <2> QED BY <2>1
<1>6. Len(s) = Len(t)
  <2>1. Len(s) # 0 => Len(s) <= Len(t)
    BY <1>1, <1>5
  <2>2. Len(t) # 0 => Len(t) <= Len(s)
    BY <1>1, <1>5
  <2> QED BY <1>1, <2>1, <2>2
<1>7. \A j \in 1 .. Len(s) : s[j] = t[j]
  BY <1>1, <1>5
<1> QED
  BY <1>6, <1>7, SeqEqual

LEMMA SeqInto ==
    ASSUME NEW S, NEW M, NEW t \in Seq(S), \A j \in 1 .. Len(t) : t[j] \in M
    PROVE  t \in Seq(M)
OBVIOUS

(* What shows that t lists N.                                              *)
LEMMA ListedBy ==
    ASSUME NEW N, NEW t \in Seq(N),
           \A x \in N : \E j \in 1 .. Len(t) : t[j] = x,
           \A i, j \in 1 .. Len(t) : i < j => t[i][2] < t[j][2]
    PROVE  Lists(t, N)
<1>1. DOMAIN t = 1 .. Len(t)
  OBVIOUS
<1> QED BY <1>1 DEF Lists

(* A name with a higher id than all others goes to the end.                *)
LEMMA ListingExtends ==
    ASSUME NEW N, Keyed(N), NEW s \in Seq(N), Lists(s, N),
           NEW x, \A y \in N : y[2] < x[2]
    PROVE  Append(s, x) \in Seq(N \cup {x}) /\ Lists(Append(s, x), N \cup {x})
<1> DEFINE t == Append(s, x)
           M == N \cup {x}
<1>1. /\ s \in Seq(M) /\ Len(s) \in Nat
      /\ \A j \in 1 .. Len(s) : s[j] \in N
      /\ \A i, j \in 1 .. Len(s) : i < j => s[i][2] < s[j][2]
  BY ListingOrder, SeqMonotonic
<1>2. /\ t \in Seq(M) /\ Len(t) = Len(s) + 1 /\ t[Len(s) + 1] = x
      /\ \A j \in 1 .. Len(s) : t[j] = s[j]
  BY <1>1
<1> HIDE DEF t
<1>3. ASSUME NEW y \in M PROVE \E j \in 1 .. Len(t) : t[j] = y
  <2>1. CASE y = x
    <3>1. Len(s) + 1 \in 1 .. Len(t) BY <1>1, <1>2
    <3> QED BY <1>2, <2>1, <3>1
  <2>2. CASE y \in N
    <3>1. PICK j \in 1 .. Len(s) : s[j] = y
      BY <2>2, ListedSomewhere
    <3>2. j \in 1 .. Len(t) BY <1>1, <1>2
    <3> QED BY <1>2, <3>1, <3>2
  <2> QED BY <2>1, <2>2
<1>4. ASSUME NEW i \in 1 .. Len(t), NEW j \in 1 .. Len(t), i < j PROVE t[i][2] < t[j][2]
  <2>1. i \in 1 .. Len(s) /\ t[i] = s[i] /\ s[i] \in N
    BY <1>1, <1>2, <1>4
  <2>2. CASE j = Len(s) + 1
    BY <1>2, <2>1, <2>2
  <2>3. CASE j # Len(s) + 1
    <3>1. j \in 1 .. Len(s) /\ t[j] = s[j] BY <1>1, <1>2, <2>3
    <3> QED BY <1>1, <1>4, <2>1, <3>1
  <2> QED BY <2>2, <2>3
<1>5. \A y \in M : \E j \in 1 .. Len(t) : t[j] = y
  BY <1>3
<1>6. \A i, j \in 1 .. Len(t) : i < j => t[i][2] < t[j][2]
  BY <1>4
<1> HIDE DEF M
<1>7. Lists(t, M)
  BY <1>2, <1>5, <1>6, ListedBy
<1> QED BY <1>2, <1>7 DEF t, M

(* The names of a mailbox have a listing: the one without the highest id,  *)
(* and the name with that id after it.                                     *)
LEMMA ListingExists ==
    ASSUME NEW mb, NEW n \in Nat, NEW N, N \subseteq {mb} \X (1 .. n)
    PROVE  \E s \in Seq(N) : Lists(s, N)
<1> DEFINE T == {k \in Nat : \A M \in SUBSET ({mb} \X (1 .. k)) : \E s \in Seq(M) : Lists(s, M)}
<1>1. 0 \in T
  <2>1. \A M \in SUBSET ({mb} \X (1 .. 0)) : M = {}
    OBVIOUS
  <2>2. <<>> \in Seq({}) /\ Lists(<<>>, {})
    BY DEF Lists
  <2> QED BY <2>1, <2>2
<1>2. ASSUME NEW k \in T PROVE k + 1 \in T
  <2>1. k \in Nat OBVIOUS
  <2> SUFFICES ASSUME NEW M \in SUBSET ({mb} \X (1 .. (k + 1))) PROVE \E s \in Seq(M) : Lists(s, M)
    BY <2>1
  <2> DEFINE x == <<mb, k + 1>>
             low == M \ {x}
  <2>2. low \in SUBSET ({mb} \X (1 .. k))
    BY <2>1
  <2>3. PICK s \in Seq(low) : Lists(s, low)
    BY <2>2
  <2>4. CASE x \notin M
    <3>1. low = M BY <2>4
    <3> QED BY <2>3, <3>1
  <2>5. CASE x \in M
    <3>1. Keyed(low)
      <4>1. \A y \in low : y = <<mb, y[2]>> /\ y[2] \in 1 .. k
        BY <2>2
      <4> HIDE DEF low
      <4> QED BY <2>1, <4>1 DEF Keyed
    <3>2. \A y \in low : y[2] < x[2]
      BY <2>1, <2>2
    <3>3. low \cup {x} = M
      BY <2>5
    <3> HIDE DEF T, low, x
    <3>4. Append(s, x) \in Seq(low \cup {x}) /\ Lists(Append(s, x), low \cup {x})
      BY <2>3, <3>1, <3>2, ListingExtends
    <3> QED
      BY <3>3, <3>4
  <2> QED BY <2>4, <2>5
<1>3. T = Nat
  <2> HIDE DEF T
  <2>1. T \subseteq Nat BY DEF T
  <2> QED BY <1>1, <1>2, <2>1, NatSetInduction
<1>4. n \in T BY <1>3
<1> QED BY <1>4

(* A listing is as long as there are names.                                *)
LEMMA ListingLength ==
    ASSUME NEW N, Keyed(N), NEW s \in Seq(N), Lists(s, N)
    PROVE  IsFiniteSet(N) /\ Len(s) = Cardinality(N) /\ s \in [1 .. Cardinality(N) -> N]
<1>1. Len(s) \in Nat /\ s \in [1 .. Len(s) -> N] /\ DOMAIN s = 1 .. Len(s)
  OBVIOUS
<1>2. \A i, j \in 1 .. Len(s) : i < j => s[i] # s[j]
  BY ListingOrder
<1>3. \A i, j \in 1 .. Len(s) : s[i] = s[j] => i = j
  BY <1>1, <1>2
<1>4. s \in Bijection(1 .. Len(s), N)
  BY <1>1, <1>3 DEF Bijection, Injection, Surjection, IsInjective, Lists
<1>5. IsFiniteSet(1 .. Len(s)) /\ Cardinality(1 .. Len(s)) = Len(s)
  BY <1>1, FS_Interval
<1>6. IsFiniteSet(N) /\ Cardinality(N) = Len(s)
  BY <1>4, <1>5, FS_Bijection DEF ExistsBijection
<1> QED BY <1>1, <1>6

(* ListingOf is that one listing.                                          *)
LEMMA ListingMeaning ==
    ASSUME NEW mb, NEW n \in Nat, NEW N, N \subseteq {mb} \X (1 .. n)
    PROVE  /\ Keyed(N)
           /\ ListingOf(N) \in Seq(N) /\ Lists(ListingOf(N), N)
           /\ Len(ListingOf(N)) = Cardinality(N)
           /\ \A t \in Seq(N) : Lists(t, N) => ListingOf(N) = t
<1>1. Keyed(N)
  <2> SUFFICES ASSUME NEW x \in N, NEW y \in N PROVE x[2] \in Int /\ (x[2] = y[2] => x = y)
    BY DEF Keyed
  <2>1. x = <<mb, x[2]>> /\ x[2] \in 1 .. n OBVIOUS
  <2>2. y = <<mb, y[2]>> /\ y[2] \in 1 .. n OBVIOUS
  <2> QED BY <2>1, <2>2
<1>2. PICK s \in Seq(N) : Lists(s, N)
  BY ListingExists
<1>3. s \in [1 .. Cardinality(N) -> N] /\ Cardinality(N) \in Nat
  BY <1>1, <1>2, ListingLength, FS_CardinalityType
<1>4. ListingOf(N) \in [1 .. Cardinality(N) -> N] /\ Lists(ListingOf(N), N)
  BY <1>2, <1>3 DEF ListingOf
<1>5. ListingOf(N) \in Seq(N) /\ Len(ListingOf(N)) = Cardinality(N)
  <2>1. ASSUME NEW k \in Nat, NEW u \in [1 .. k -> N] PROVE u \in Seq(N) /\ Len(u) = k
    OBVIOUS
  <2> QED BY <1>3, <1>4, <2>1
<1>6. ASSUME NEW t \in Seq(N), Lists(t, N) PROVE ListingOf(N) = t
  <2>1. ListingOf(N) \in Seq(N)
    BY <1>5
  <2>2. Lists(ListingOf(N), N)
    BY <1>4
  <2> QED BY <1>1, <1>6, <2>1, <2>2, OneListing
<1> QED
  BY <1>1, <1>4, <1>5, <1>6

(* A listing without one name lists the others.                            *)
LEMMA ListingWithout ==
    ASSUME NEW N, Keyed(N), NEW s \in Seq(N), Lists(s, N), NEW k \in 1 .. Len(s)
    PROVE  LET t == SubSeq(s, 1, k - 1) \o SubSeq(s, k + 1, Len(s))
           IN  t \in Seq(N \ {s[k]}) /\ Lists(t, N \ {s[k]})
<1> DEFINE t == SubSeq(s, 1, k - 1) \o SubSeq(s, k + 1, Len(s))
           M == N \ {s[k]}
           from(j) == IF j < k THEN j ELSE j + 1
<1>1. /\ Len(s) \in Nat
      /\ \A j \in 1 .. Len(s) : s[j] \in N
      /\ \A i, j \in 1 .. Len(s) : i < j => s[i][2] < s[j][2]
      /\ \A j \in 1 .. Len(s) : s[j][2] \in Int
  BY ListingOrder
<1>2. /\ t \in Seq(N) /\ Len(t) = Len(s) - 1
      /\ \A j \in 1 .. Len(s) - 1 : t[j] = s[from(j)]
  <2>1. \A j \in 1 .. Len(s) - 1 : t[j] = IF j < k THEN s[j] ELSE s[j + 1]
    BY CutOut
  <2>2. t \in Seq(N) /\ Len(t) = Len(s) - 1
    BY CutOut
  <2> HIDE DEF t
  <2> QED BY <1>1, <2>1, <2>2
<1> HIDE DEF t
<1>3. \A j \in 1 .. Len(s) - 1 : from(j) \in 1 .. Len(s) /\ from(j) # k
  BY <1>1
<1>4. \A i, j \in 1 .. Len(s) - 1 : i < j => from(i) < from(j)
  BY <1>1
<1>5. \A j \in 1 .. Len(s) : j # k => s[j] # s[k]
  BY <1>1
<1> HIDE DEF from
<1>6. \A j \in 1 .. Len(t) : t[j] \in M
  BY <1>1, <1>2, <1>3, <1>5
<1>7. t \in Seq(M)
  <2> HIDE DEF M
  <2> QED BY <1>2, <1>6, SeqInto
<1>8. \A i, j \in 1 .. Len(t) : i < j => t[i][2] < t[j][2]
  BY <1>1, <1>2, <1>3, <1>4
<1>9. ASSUME NEW y \in M PROVE \E j \in 1 .. Len(t) : t[j] = y
  <2>1. PICK i \in 1 .. Len(s) : s[i] = y
    BY <1>9, ListedSomewhere
  <2>2. i # k
    BY <2>1
  <2>3. CASE i < k
    <3>1. i \in 1 .. Len(s) - 1 /\ from(i) = i BY <1>1, <2>3 DEF from
    <3> QED BY <1>2, <2>1, <3>1
  <2>4. CASE i > k
    <3>1. i - 1 \in 1 .. Len(s) - 1 /\ from(i - 1) = i BY <1>1, <2>4 DEF from
    <3> QED BY <1>2, <2>1, <3>1
  <2> QED BY <2>2, <2>3, <2>4
<1>10. \A y \in M : \E j \in 1 .. Len(t) : t[j] = y
  BY <1>9
<1> HIDE DEF M
<1>11. Lists(t, M)
  BY <1>7, <1>8, <1>10, ListedBy
<1> QED BY <1>7, <1>11 DEF t, M

(* The names with the highest ids are the end of a listing.                *)
LEMMA ListingTail ==
    ASSUME NEW N, Keyed(N), NEW s \in Seq(N), Lists(s, N),
           NEW M \in SUBSET N, \A x \in N \ M, y \in M : x[2] < y[2]
    PROVE  LET t == SubSeq(s, Len(s) - Cardinality(M) + 1, Len(s))
           IN  Cardinality(M) <= Len(s) /\ t \in Seq(M) /\ Lists(t, M)
<1>1. /\ Len(s) \in Nat
      /\ \A j \in 1 .. Len(s) : s[j] \in N
      /\ \A i, j \in 1 .. Len(s) : i < j => s[i][2] < s[j][2]
      /\ \A j \in 1 .. Len(s) : s[j][2] \in Int
  BY ListingOrder
<1> DEFINE T == {n \in Nat : n <= Len(s) =>
                    \E p \in 1 .. (n + 1) : \A j \in 1 .. n : s[j] \in M <=> j >= p}
<1>2. 0 \in T
  <2>1. \A j \in 1 .. 0 : FALSE OBVIOUS
  <2>2. 1 \in 1 .. (0 + 1) OBVIOUS
  <2> QED BY <2>1, <2>2
<1>3. ASSUME NEW n \in T PROVE n + 1 \in T
  <2>1. n \in Nat OBVIOUS
  <2> SUFFICES ASSUME n + 1 <= Len(s)
               PROVE  \E p \in 1 .. (n + 1 + 1) : \A j \in 1 .. (n + 1) : s[j] \in M <=> j >= p
    BY <2>1
  <2>2. PICK p \in 1 .. (n + 1) : \A j \in 1 .. n : s[j] \in M <=> j >= p
    BY <1>1, <2>1
  <2>3. \A j \in 1 .. (n + 1) : j \in 1 .. n \/ j = n + 1
    BY <2>1
  <2>4. CASE s[n + 1] \in M
    <3>1. p \in 1 .. (n + 1 + 1) /\ n + 1 >= p BY <2>1
    <3> QED BY <2>2, <2>3, <2>4, <3>1
  <2>5. CASE s[n + 1] \notin M
    <3>1. \A j \in 1 .. n : s[j] \notin M
      BY <1>1, <2>1, <2>5
    <3>2. n + 1 + 1 \in 1 .. (n + 1 + 1) /\ \A j \in 1 .. (n + 1) : ~(j >= n + 1 + 1)
      BY <2>1
    <3> QED BY <2>3, <2>5, <3>1, <3>2
  <2> QED BY <2>4, <2>5
<1>4. Len(s) \in T
  <2> HIDE DEF T
  <2>1. T \subseteq Nat BY DEF T
  <2>2. T = Nat BY <1>2, <1>3, <2>1, NatSetInduction
  <2> QED BY <1>1, <2>2
<1>5. PICK p \in 1 .. (Len(s) + 1) : \A j \in 1 .. Len(s) : s[j] \in M <=> j >= p
  BY <1>1, <1>4
<1> HIDE DEF T
<1> DEFINE t == SubSeq(s, p, Len(s))
<1>6. /\ t \in Seq(N) /\ Len(t) = Len(s) - p + 1
      /\ \A j \in 1 .. Len(t) : t[j] = s[p + j - 1]
  BY <1>1
<1> HIDE DEF t
<1>7. \A j \in 1 .. Len(t) : p + j - 1 \in 1 .. Len(s) /\ p + j - 1 >= p
  BY <1>1, <1>6
<1>8. \A j \in 1 .. Len(t) : t[j] \in M
  BY <1>5, <1>6, <1>7
<1>9. t \in Seq(M)
  BY <1>6, <1>8, SeqInto
<1>10. \A i, j \in 1 .. Len(t) : i < j => t[i][2] < t[j][2]
  <2>1. \A i, j \in 1 .. Len(t) : i < j => p + i - 1 < p + j - 1
    BY <1>1, <1>6
  <2> QED BY <1>1, <1>6, <1>7, <2>1
<1>11. ASSUME NEW y \in M PROVE \E j \in 1 .. Len(t) : t[j] = y
  <2>1. PICK i \in 1 .. Len(s) : s[i] = y
    BY <1>11, ListedSomewhere
  <2>2. i >= p
    BY <1>5, <2>1
  <2>3. i - p + 1 \in 1 .. Len(t) /\ p + (i - p + 1) - 1 = i
    BY <1>1, <1>6, <2>2
  <2> QED BY <1>6, <2>1, <2>3
<1>12. Lists(t, M)
  BY <1>9, <1>10, <1>11, ListedBy
<1>13. Len(t) = Cardinality(M)
  <2>1. Keyed(M) BY DEF Keyed
  <2> QED BY <1>9, <1>12, <2>1, ListingLength
<1>14. Cardinality(M) <= Len(s) /\ Len(s) - Cardinality(M) + 1 = p
  BY <1>1, <1>6, <1>13
<1> QED BY <1>9, <1>12, <1>14 DEF t
-----------------------------------------------------------------------------
(* The storage contract *)

Names(messages) == {Name(m) : m \in messages}

RefInv == BoxInv /\ \A mb \in Mailbox : boxes[mb].last <= MaxIndex

LEMMA NextRefInv == RefInv /\ [Next]_vars => RefInv'
<1> SUFFICES ASSUME RefInv, [Next]_vars PROVE RefInv'
  OBVIOUS
<1>1. BoxInv'
  BY NextBoxInv DEF RefInv
<1>2. CASE IsAdd
  <2>1. PICK c \in Client, mb \in Mailbox, size \in Size : AddMessage(c, mb, size)
    BY <1>2 DEF IsAdd
  <2>2. boxes[mb].last < MaxIndex /\ boxes[mb].last \in Nat /\ MaxIndex \in Nat
    BY <2>1, StoreAssumption DEF AddMessage, RefInv, BoxInv, TypeOK
  <2>3. PICK f : boxes' = [boxes EXCEPT ![mb] = [first |-> f, last |-> boxes[mb].last + 1, messages |-> boxes'[mb].messages]]
    <3>1. PICK f, M : boxes' = [boxes EXCEPT ![mb] = [first |-> f, last |-> boxes[mb].last + 1, messages |-> M]]
      BY <2>1 DEF AddMessage, NextIndex
    <3> QED BY <3>1 DEF RefInv, BoxInv, TypeOK
  <2>4. \A other \in Mailbox : boxes'[other].last = IF other = mb THEN boxes[mb].last + 1 ELSE boxes[other].last
    BY <2>3 DEF RefInv, BoxInv, TypeOK
  <2> QED BY <1>1, <2>2, <2>4 DEF RefInv
<1>3. CASE ~IsAdd
  BY <1>1, <1>3, OtherStepsShrink DEF RefInv, BoxInv, BoxesShrink
<1> QED BY <1>2, <1>3

(* The names of a mailbox, as many as its messages.                        *)
LEMMA NamesOfBox ==
    ASSUME BoxInv, NEW mb \in Mailbox, NEW messages \in SUBSET boxes[mb].messages
    PROVE  /\ Names(messages) \subseteq {mb} \X (1 .. boxes[mb].last)
           /\ boxes[mb].last \in Nat
           /\ IsFiniteSet(messages)
           /\ Cardinality(Names(messages)) = Cardinality(messages)
<1>1. boxes[mb] \in [first : Nat, last : Nat, messages : SUBSET Message]
  BY DEF BoxInv, TypeOK
<1>2. \A m \in messages : m.mailbox = mb /\ m.index \in 1 .. boxes[mb].last
  BY <1>1 DEF BoxInv, IdsInRange, Message
<1>3. \A m, n \in messages : m.index = n.index => m = n
  BY DEF BoxInv, IdsInRange
<1>4. \A m, n \in messages : Name(m) = Name(n) => m = n
  BY <1>3 DEF Name
<1>5. IsFiniteSet(messages)
  BY FS_Subset DEF BoxInv, BoxesFinite
<1>6. [m \in messages |-> Name(m)] \in Bijection(messages, Names(messages))
  BY <1>4 DEF Bijection, Injection, Surjection, IsInjective, Names
<1>7. Cardinality(Names(messages)) = Cardinality(messages)
  BY <1>5, <1>6, FS_Bijection DEF ExistsBijection
<1> QED BY <1>1, <1>2, <1>5, <1>7 DEF Names, Name

(* A step that changes one mailbox changes one listing.                    *)
LEMMA ListingChange ==
    ASSUME NEW mb \in Mailbox,
           \A other \in Mailbox \ {mb} : boxes'[other].messages = boxes[other].messages
    PROVE  Listing' = [Listing EXCEPT ![mb] = ListingOf(Names(boxes'[mb].messages))]
<1>1. Listing = [box \in Mailbox |-> ListingOf(Names(boxes[box].messages))]
  BY DEF Listing, Names
<1>2. Listing' = [box \in Mailbox |-> ListingOf(Names(boxes'[box].messages))]
  BY DEF Listing, Names
<1> QED BY <1>1, <1>2

LEMMA ListingOfBox ==
    ASSUME NEW mb \in Mailbox
    PROVE  Listing[mb] = ListingOf(Names(boxes[mb].messages))
BY DEF Listing, Names

(* A removal, by a caller or by the enforcer, is a removal of the contract.*)
LEMMA RemovalIsRemoval ==
    ASSUME RefInv, NEW mb \in Mailbox, NEW n \in boxes[mb].messages,
           boxes' = [boxes EXCEPT ![mb].messages = @ \ {n}], seen' = seen
    PROVE  Contract!Next
<1> DEFINE N == Names(boxes[mb].messages)
           s == ListingOf(N)
<1>1. BoxInv /\ boxes[mb] \in [first : Nat, last : Nat, messages : SUBSET Message]
  BY DEF RefInv, BoxInv, TypeOK
<1>2. /\ boxes'[mb].messages = boxes[mb].messages \ {n}
      /\ \A box \in Mailbox : boxes'[box].last = boxes[box].last
      /\ \A other \in Mailbox \ {mb} : boxes'[other].messages = boxes[other].messages
  BY DEF RefInv, BoxInv, TypeOK
<1>3. N \subseteq {mb} \X (1 .. boxes[mb].last) /\ boxes[mb].last \in Nat
  BY <1>1, NamesOfBox
<1>4. Name(n) \in N
  BY DEF Names
<1>5. Name(n) \in Mailbox \X (1 .. MaxIndex)
  BY <1>3, <1>4, StoreAssumption DEF RefInv
<1>6. Names(boxes'[mb].messages) = N \ {Name(n)}
  <2>1. \A m \in boxes[mb].messages : Name(m) = Name(n) => m = n
    BY <1>1 DEF Name, BoxInv, IdsInRange
  <2> QED BY <1>2, <2>1 DEF Names
<1> HIDE DEF N
<1>7. Keyed(N) /\ s \in Seq(N) /\ Lists(s, N)
  BY <1>3, ListingMeaning
<1> HIDE DEF s
<1>8. PICK k \in 1 .. Len(s) : s[k] = Name(n)
  BY <1>4, <1>7, ListedSomewhere
<1> DEFINE t == SubSeq(s, 1, k - 1) \o SubSeq(s, k + 1, Len(s))
<1>9. t \in Seq(N \ {Name(n)}) /\ Lists(t, N \ {Name(n)})
  BY <1>7, <1>8, ListingWithout
<1> HIDE DEF t
<1>10. ListingOf(N \ {Name(n)}) = t
  BY <1>3, <1>9, ListingMeaning
<1>11. Listing' = [Listing EXCEPT ![mb] = t]
  BY <1>2, <1>6, <1>10, ListingChange
<1>12. k \in DOMAIN Listing[mb] /\ Listing[mb][k] = Name(n) /\ Listing[mb] = s
  BY <1>7, <1>8, ListingOfBox DEF s, N
<1>13. HandedOut' = HandedOut
  BY <1>2 DEF HandedOut
<1>14. Contract!RemoveMessage(mb, Name(n))
  BY <1>11, <1>12, <1>13 DEF Contract!RemoveMessage, Contract!RemoveAt, t
<1> QED
  BY <1>5, <1>14 DEF Contract!Next

(* A delivery is a delivery of the contract: the new name goes to the end  *)
(* of the listing, and what the cap loop cuts is the head of it.           *)
LEMMA AddIsAdd ==
    ASSUME RefInv, RefInv', NEW c \in Client, NEW mb \in Mailbox, NEW size \in Size,
           AddMessage(c, mb, size)
    PROVE  Contract!Next
<1>1. PICK f \in Nat, m \in Message :
        /\ m.mailbox = mb /\ m.index = boxes[mb].last + 1
        /\ boxes' = [boxes EXCEPT ![mb] =
             [first |-> f, last |-> m.index,
              messages |-> {n \in boxes[mb].messages \cup {m} : n.index >= f}]]
        /\ Cap > 0 => Cardinality(boxes'[mb].messages) <= Cap
  <2>1. BoxInv BY DEF RefInv
  <2> QED BY <2>1, CapLoopResult
<1>2. BoxInv /\ BoxInv' /\ boxes[mb] \in [first : Nat, last : Nat, messages : SUBSET Message]
  BY DEF RefInv, BoxInv, TypeOK
<1> DEFINE M == boxes[mb].messages
           kept == boxes'[mb].messages
           x == Name(m)
           N == Names(M)
           s == ListingOf(N)
           t == Append(s, x)
<1>3. /\ kept = {n \in M \cup {m} : n.index >= f}
      /\ boxes'[mb].last = m.index
      /\ \A other \in Mailbox \ {mb} : boxes'[other] = boxes[other]
  BY <1>1, <1>2 DEF BoxInv, TypeOK
<1>4. /\ N \subseteq {mb} \X (1 .. boxes[mb].last) /\ boxes[mb].last \in Nat
      /\ m.index = boxes[mb].last + 1
  BY <1>1, <1>2, NamesOfBox
<1>5. x = <<mb, m.index>> /\ x[2] = m.index
  BY <1>1 DEF Name
<1>6. m.index \in 1 .. MaxIndex
  BY <1>1, <1>3, <1>4, StoreAssumption DEF RefInv
<1>7. N \cup {x} \subseteq {mb} \X (1 .. m.index)
  BY <1>4, <1>5
<1>8. \A y \in N : y[2] < x[2]
  BY <1>4, <1>5
<1>9. Names(kept) \subseteq N \cup {x}
  BY <1>3 DEF Names
<1>10. Cardinality(Names(kept)) = Cardinality(kept) /\ IsFiniteSet(kept)
  <2>2. \A n, o \in kept : Name(n) = Name(o) => n = o
    BY <1>2 DEF BoxInv, IdsInRange, Name
  <2>3. IsFiniteSet(kept)
    BY <1>2 DEF BoxInv, BoxesFinite
  <2>4. [n \in kept |-> Name(n)] \in Bijection(kept, Names(kept))
    BY <2>2 DEF Bijection, Injection, Surjection, IsInjective, Names
  <2> QED BY <2>3, <2>4, FS_Bijection DEF ExistsBijection
<1>11. m \in kept /\ (\A d \in M \ kept, k \in kept : d.index < k.index)
       /\ (M \ kept # {} => Cardinality(kept) = Cap)
  <2>1. CapDropsOldestIn(mb)
    BY <1>2, AddDropsOldest
  <2>2. boxes'[mb].last > boxes[mb].last
    BY <1>3, <1>4
  <2>3. PICK k \in kept : k.index = boxes'[mb].last
    BY <2>1, <2>2 DEF CapDropsOldestIn
  <2>4. k = m
    <3>1. k.index = m.index BY <1>3, <2>3
    <3>2. \A n \in M : n.index <= boxes[mb].last
      BY <1>2 DEF BoxInv, IdsInRange
    <3>3. k \notin M
      BY <1>4, <3>1, <3>2
    <3> QED BY <1>3, <3>3
  <2> QED BY <2>1, <2>2, <2>3, <2>4 DEF CapDropsOldestIn
<1>12. \A y \in (N \cup {x}) \ Names(kept), z \in Names(kept) : y[2] < z[2]
  <2> SUFFICES ASSUME NEW y \in (N \cup {x}) \ Names(kept), NEW z \in Names(kept) PROVE y[2] < z[2]
    OBVIOUS
  <2>1. PICK k \in kept : z = Name(k)
    BY DEF Names
  <2>2. PICK d \in M \cup {m} : y = Name(d)
    BY DEF Names
  <2>3. d \in M \ kept
    BY <1>11, <2>2 DEF Names
  <2>4. d.index < k.index
    BY <1>11, <2>3
  <2> QED BY <2>1, <2>2, <2>4 DEF Name
<1>13. Cap > 0 => Cardinality(kept) <= Cap
  BY <1>1
<1>14. Cardinality(kept) \in Nat
  BY <1>10, FS_CardinalityType
<1>15. M \subseteq kept => Names(kept) = N \cup {x}
  BY <1>3, <1>11 DEF Names
<1>16. ~(M \subseteq kept) => Cardinality(Names(kept)) = Cap
  BY <1>10, <1>11
<1>17. x \in Names(kept)
  BY <1>11 DEF Names
<1> DEFINE K == Names(kept)
<1> HIDE DEF x, N, K, M, kept
<1>18. Keyed(N) /\ s \in Seq(N) /\ Lists(s, N)
  BY <1>4, ListingMeaning
<1> HIDE DEF s
<1>19. t \in Seq(N \cup {x}) /\ Lists(t, N \cup {x})
  BY <1>8, <1>18, ListingExtends
<1> HIDE DEF t
<1>20. Keyed(N \cup {x}) /\ Len(t) = Cardinality(N \cup {x}) /\ IsFiniteSet(N \cup {x})
  <2>1. m.index \in Nat BY <1>6
  <2>2. Keyed(N \cup {x})
    BY <1>7, <2>1, ListingMeaning
  <2> QED BY <1>19, <2>2, ListingLength
<1>21. ListingOf(K) = Contract!Newest(t)
  <2>1. CASE K = N \cup {x}
    <3>1. ListingOf(K) = t
      <4>1. m.index \in Nat BY <1>6
      <4> QED BY <1>7, <1>19, <2>1, <4>1, ListingMeaning
    <3>2. Len(t) <= Cap \/ Cap = 0
      BY <1>10, <1>13, <1>20, <2>1, StoreAssumption DEF K
    <3> QED BY <3>1, <3>2 DEF Contract!Newest
  <2>2. CASE K # N \cup {x}
    <3>1. Cardinality(K) = Cap
      BY <1>15, <1>16, <2>2 DEF K
    <3>2. K \in SUBSET (N \cup {x})
      BY <1>9 DEF K
    <3>3. Cap # 0
      <4>1. IsFiniteSet(K)
        BY <1>20, <3>2, FS_Subset
      <4>2. K # {}
        BY <1>17 DEF K
      <4> QED BY <3>1, <4>1, <4>2, FS_EmptySet
    <3>4. Cap < Len(t)
      <4>1. Cardinality(K) <= Cardinality(N \cup {x}) /\ Cardinality(K) # Cardinality(N \cup {x})
        BY <1>20, <2>2, <3>2, FS_Subset
      <4>2. Cardinality(N \cup {x}) \in Nat
        BY <1>20, FS_CardinalityType
      <4> QED BY <1>20, <3>1, <4>1, <4>2, StoreAssumption
    <3> DEFINE u == SubSeq(t, Len(t) - Cap + 1, Len(t))
    <3>5. u \in Seq(K) /\ Lists(u, K)
      <4>1. \A y \in (N \cup {x}) \ K, z \in K : y[2] < z[2]
        BY <1>12 DEF K
      <4> QED BY <1>19, <1>20, <3>1, <3>2, <4>1, ListingTail
    <3> HIDE DEF u
    <3>6. ListingOf(K) = u
      <4>1. m.index \in Nat /\ K \subseteq {mb} \X (1 .. m.index)
        BY <1>6, <1>7, <3>2
      <4> QED BY <3>5, <4>1, ListingMeaning
    <3>7. ~(Cap = 0 \/ Len(t) <= Cap)
      <4>1. Len(t) \in Nat BY <1>19
      <4> QED BY <3>3, <3>4, <4>1, StoreAssumption
    <3> QED BY <3>6, <3>7 DEF Contract!Newest, u
  <2> QED BY <2>1, <2>2
<1>22. Listing' = [Listing EXCEPT ![mb] = Contract!Newest(Append(@, x))]
  <2>1. Listing' = [Listing EXCEPT ![mb] = ListingOf(K)]
    BY <1>3, ListingChange DEF K, kept
  <2>2. Listing[mb] = s
    BY ListingOfBox DEF s, N, M
  <2> QED BY <1>21, <2>1, <2>2 DEF t, Listing
<1>23. HandedOut' = HandedOut \cup {x} /\ x \notin HandedOut
  <2>1. \A box \in Mailbox : {box} \X (1 .. boxes'[box].last) =
          IF box = mb THEN ({box} \X (1 .. boxes[box].last)) \cup {x} ELSE {box} \X (1 .. boxes[box].last)
    <3>1. 1 .. m.index = (1 .. boxes[mb].last) \cup {m.index}
      BY <1>4
    <3> QED BY <1>3, <1>5, <3>1
  <2>2. x \notin HandedOut
    <3>1. m.index \notin 1 .. boxes[mb].last
      BY <1>4
    <3> QED BY <1>5, <3>1 DEF HandedOut
  <2> QED BY <2>1, <2>2 DEF HandedOut
<1>24. seen' = seen
  BY DEF AddMessage
<1>25. Contract!AddMessage(mb, x)
  BY <1>22, <1>23, <1>24 DEF Contract!AddMessage
<1>26. x \in Mailbox \X (1 .. MaxIndex)
  BY <1>5, <1>6
<1> QED
  BY <1>25, <1>26 DEF Contract!Next

LEMMA PurgeIsPurge ==
    ASSUME RefInv, NEW c \in Client, NEW mb \in Mailbox, PurgeMessages(c, mb)
    PROVE  Contract!Next
<1>1. /\ boxes'[mb].messages = {}
      /\ \A box \in Mailbox : boxes'[box].last = boxes[box].last
      /\ \A other \in Mailbox \ {mb} : boxes'[other].messages = boxes[other].messages
  BY DEF PurgeMessages, PurgedBox, RefInv, BoxInv, TypeOK
<1>2. ListingOf({}) = <<>>
  <2>1. {} \subseteq {mb} \X (1 .. 0) OBVIOUS
  <2>2. <<>> \in Seq({}) /\ Lists(<<>>, {})
    BY DEF Lists
  <2> QED BY <2>1, <2>2, ListingMeaning
<1>3. Names(boxes'[mb].messages) = {}
  BY <1>1 DEF Names
<1>4. Listing' = [Listing EXCEPT ![mb] = <<>>]
  BY <1>1, <1>2, <1>3, ListingChange
<1>5. HandedOut' = HandedOut
  BY <1>1 DEF HandedOut
<1>6. seen' = seen
  BY DEF PurgeMessages
<1> QED
  BY <1>4, <1>5, <1>6 DEF Contract!Next, Contract!PurgeMessages

LEMMA SeenIsSeen ==
    ASSUME RefInv, NEW c \in Client, NEW mb \in Mailbox, NEW i \in 1 .. MaxIndex, MarkSeen(c, mb, i)
    PROVE  Contract!Next
<1>1. BoxInv BY DEF RefInv
<1>2. PICK n \in boxes[mb].messages : n.index = i
  BY DEF MarkSeen, Find
<1>3. Find(mb, i) = {n}
  BY <1>1, <1>2 DEF Find, BoxInv, IdsInRange
<1>4. seen' = seen \cup {n} /\ boxes' = boxes
  BY <1>3 DEF MarkSeen
<1> DEFINE N == Names(boxes[mb].messages)
<1>5. N \subseteq {mb} \X (1 .. boxes[mb].last) /\ boxes[mb].last \in Nat /\ Name(n) \in N
  BY <1>1, NamesOfBox DEF Names
<1> HIDE DEF N
<1>6. Name(n) \in Mailbox \X (1 .. MaxIndex)
  BY <1>5, StoreAssumption DEF RefInv
<1>7. Name(n) \in Contract!ToSet(Listing[mb])
  <2>1. ListingOf(N) \in Seq(N) /\ Lists(ListingOf(N), N) /\ Listing[mb] = ListingOf(N)
    <3>1. ListingOf(N) \in Seq(N) /\ Lists(ListingOf(N), N)
      BY <1>5, ListingMeaning
    <3>2. Listing[mb] = ListingOf(N)
      BY ListingOfBox DEF N
    <3> QED BY <3>1, <3>2
  <2>2. PICK k \in 1 .. Len(ListingOf(N)) : ListingOf(N)[k] = Name(n)
    BY <1>5, <2>1, ListedSomewhere
  <2>3. k \in DOMAIN Listing[mb] /\ Listing[mb][k] = Name(n)
    BY <2>1, <2>2
  <2> QED BY <2>3 DEF Contract!ToSet
<1>8. {Name(m) : m \in seen'} = {Name(m) : m \in seen} \cup {Name(n)}
  BY <1>4
<1>9. Listing' = Listing /\ HandedOut' = HandedOut
  BY <1>4 DEF Listing, HandedOut
<1>10. Contract!MarkSeen(mb, Name(n))
  BY <1>7, <1>8, <1>9 DEF Contract!MarkSeen
<1> QED
  BY <1>6, <1>10 DEF Contract!Next

(* Every step of the store is a step of the contract, or nothing to it.    *)
LEMMA NextIsNext == RefInv /\ RefInv' /\ [Next]_vars => [Contract!Next]_(Contract!vars)
<1> SUFFICES ASSUME RefInv, RefInv', [Next]_vars PROVE Contract!Next \/ UNCHANGED Contract!vars
  OBVIOUS
<1>1. ASSUME boxes' = boxes, seen' = seen PROVE UNCHANGED Contract!vars
  BY <1>1 DEF Contract!vars, Listing, HandedOut
<1>2. ASSUME NEW c \in Client, NEW mb \in Mailbox, NEW size \in Size, AddMessage(c, mb, size)
      PROVE  Contract!Next
  BY <1>2, AddIsAdd
<1>3. ASSUME NEW c \in Client, NEW mb \in Mailbox, NEW i \in 1 .. MaxIndex, RemoveMessage(c, mb, i)
      PROVE  Contract!Next
  <2>1. PICK n \in boxes[mb].messages : n.index = i
    BY <1>3 DEF RemoveMessage, Find
  <2>2. Find(mb, i) = {n}
    BY <2>1 DEF Find, RefInv, BoxInv, IdsInRange
  <2>3. boxes' = [boxes EXCEPT ![mb].messages = @ \ {n}] /\ seen' = seen
    BY <1>3, <2>2 DEF RemoveMessage
  <2> QED BY <2>3, RemovalIsRemoval
<1>4. ASSUME EnforcerEvict PROVE Contract!Next \/ UNCHANGED Contract!vars
  <2> DEFINE m == Head(all)
             found == Find(m.mailbox, m.index)
  <2>1. m \in Message /\ m.mailbox \in Mailbox
    <3>1. m \in Message
      BY <1>4 DEF EnforcerEvict, RefInv, BoxInv, TypeOK
    <3> QED BY <3>1 DEF Message
  <2>2. boxes' = [boxes EXCEPT ![m.mailbox].messages = @ \ found] /\ seen' = seen
    BY <1>4 DEF EnforcerEvict
  <2> HIDE DEF m
  <2>3. CASE found = {}
    <3>1. boxes' = boxes
      BY <2>1, <2>2, <2>3 DEF RefInv, BoxInv, TypeOK
    <3> QED BY <1>1, <2>2, <3>1
  <2>4. CASE found # {}
    <3>1. PICK n \in boxes[m.mailbox].messages : n.index = m.index
      BY <2>4 DEF Find
    <3>2. found = {n}
      BY <2>1, <3>1 DEF Find, RefInv, BoxInv, IdsInRange
    <3>3. boxes' = [boxes EXCEPT ![m.mailbox].messages = @ \ {n}]
      BY <2>2, <3>2
    <3> QED BY <2>1, <2>2, <3>3, RemovalIsRemoval
  <2> QED BY <2>3, <2>4
<1>5. ASSUME NEW c \in Client, NEW mb \in Mailbox, GetMessages(c, mb) PROVE UNCHANGED Contract!vars
  BY <1>1, <1>5 DEF GetMessages, boxVars
<1>6. ASSUME NEW c \in Client, RemoveReturns(c) \/ Serve(c) PROVE UNCHANGED Contract!vars
  BY <1>1, <1>6
  DEF RemoveReturns, Serve, EnforcerIncoming, EnforcerRemove, EnforcerRemoveNil, boxVars
<1>7. ASSUME EnforcerEvictNil \/ EnforcerDone \/ UNCHANGED vars PROVE UNCHANGED Contract!vars
  BY <1>1, <1>7 DEF EnforcerEvictNil, EnforcerDone, boxVars, vars
<1>8. CASE \E c \in Client : Operation(c)
  BY <1>2, <1>3, <1>5, <1>8, PurgeIsPurge, SeenIsSeen DEF Operation
<1> QED
  BY <1>4, <1>6, <1>7, <1>8 DEF Next, EnforcerLoop

(* The in-memory store implements the storage contract.                    *)
THEOREM ImplementsTheContract == Spec => ImplementsMailStore
<1>1. Init => RefInv
  <2>1. Init => BoxInv BY InitBoxInv
  <2> QED BY <2>1, StoreAssumption DEF Init, RefInv
<1>2. Init => Contract!Init
  <2> SUFFICES ASSUME Init PROVE Contract!Init
    OBVIOUS
  <2>1. ListingOf({}) = <<>>
    <3>1. {} \subseteq {0} \X (1 .. 0) OBVIOUS
    <3>2. <<>> \in Seq({}) /\ Lists(<<>>, {})
      BY DEF Lists
    <3> QED BY <3>1, <3>2, ListingMeaning
  <2>2. \A mb \in Mailbox : boxes[mb].last = 0 /\ Names(boxes[mb].messages) = {}
    BY DEF Init, Names
  <2>3. Listing = [mb \in Mailbox |-> <<>>]
    BY <2>1, <2>2 DEF Listing, Names
  <2>4. HandedOut = {}
    BY <2>2 DEF HandedOut
  <2>5. {Name(m) : m \in seen} = {}
    BY DEF Init
  <2> QED BY <2>3, <2>4, <2>5 DEF Contract!Init
<1>3. RefInv /\ [Next]_vars => RefInv'
  BY NextRefInv
<1>4. RefInv /\ RefInv' /\ [Next]_vars => [Contract!Next]_(Contract!vars)
  BY NextIsNext
<1> QED
  BY <1>1, <1>2, <1>3, <1>4, PTL DEF Spec, ImplementsMailStore, Contract!Spec
=============================================================================
