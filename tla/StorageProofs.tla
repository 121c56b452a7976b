---------------------------- MODULE StorageProofs ---------------------------
(***************************************************************************)
(* Proofs about the storage packages: FileStore, for every set of          *)
(* mailboxes in any directories, any cap, counter width and clock, with    *)
(* failing writes and a crash; and Retention, for every set of mailboxes   *)
(* and messages, either store, any periods and any length of a scan.       *)
(***************************************************************************)
EXTENDS FileStore, Retention, TLAPS, FiniteSetTheorems, SequenceTheorems

-----------------------------------------------------------------------------
(* The invariant of the file store *)

(* Each message at one position.                                           *)
Distinct(s) == \A i, j \in 1 .. Len(s) : s[i] = s[j] => i = j

(* The ids AddMessage has returned.                                        *)
Returned == UNION {acked[b] : b \in Mailbox}

(* i was given out: in an earlier second, or among the last `burst' numbers*)
(* of the counter.                                                         *)
Given(i) ==
    \/ i.time < now
    \/ i.time = now /\ (i.n \in (count - burst) .. (count - 1) \/ i.n >= count + Width - burst)

(* The new message, with an id and not returned yet.                       *)
Fresh == pc = "create" \/ Adding

(* Ids that were returned have been given out and belong to one mailbox,   *)
(* delete events name only such ids, and the id of a message that is being *)
(* added is none of them.                                                  *)
IdInv ==
    /\ \A b \in Mailbox : \A i \in acked[b] : Given(i)
    /\ \A b, c \in Mailbox : b # c => acked[b] \cap acked[c] = {}
    /\ events \subseteq Returned
    /\ call = "add" /\ ~Fresh => burst < Width
    /\ Fresh => msg \in Id /\ Given(msg) /\ msg \notin Returned

(* The raw file that is there and not listed.                              *)
Unlisted(b) == IF b = mb /\ (Adding \/ pc = "remove") THEN {msg} ELSE {}

(* What b holds for whoever waits for its lock. Without a failure or a     *)
(* crash on it: its raw files are those of its list, and the one that the  *)
(* call in progress has not listed yet or not removed yet; no message      *)
(* whose deletion was announced is listed. With one that did not hit the   *)
(* index itself: every message that was acknowledged and not deleted is    *)
(* listed. And always: the list, if there is one, is of acknowledged       *)
(* messages, each once, within the cap.                                    *)
ListInv(b) ==
    /\ Listing(b) # Torn =>
         /\ Distinct(Listing(b)) /\ ToSet(Listing(b)) \subseteq acked[b]
         /\ Cap > 0 => Len(Listing(b)) <= Cap
    /\ b \notin cut => Listing(b) # Torn /\ acked[b] \ events \subseteq ToSet(Listing(b))
    /\ b \notin damaged =>
         /\ raw[b] = ToSet(Listing(b)) \cup Unlisted(b)
         /\ Listing(b) # <<>> => b \in dir
         /\ (pc = "unlocked" \/ b # mb) => ToSet(Listing(b)) \cap events = {}

(* The call has changed its list in memory and not yet on the disk.        *)
Writing == pc \in {"writeIndex", "write"}

(* What the call makes of the mailbox.                                     *)
Change(list) ==
    \/ pc \in {"cap", "create", "remove"} /\ messages = list
    \/ Writing /\ Adding /\ messages = Append(list, msg)
    \/ Writing /\ call = "add" /\ ~Adding /\ list # <<>> /\ msg = Head(list) /\ messages = Tail(list)
    \/ Writing /\ call = "remove" /\ \E k \in 1 .. Len(list) : list[k] = msg /\ messages = RemoveAt(list, k)
    \/ Writing /\ call = "purge" /\ messages = <<>>
    \/ Writing /\ call = "markSeen" /\ messages = list

(* What a call in progress has in memory and on the disk.                  *)
CallInv ==
    /\ call # "none"
    /\ pc \in {"cap", "create"} => call = "add"
    /\ pc = "create" /\ Cap > 0 => Len(messages) < Cap
    /\ pc = "remove" => call \in {"add", "remove"} /\ messages # <<>>
    /\ pc \in {"write", "create"} => mb \in dir
    /\ pc = "write" => messages # <<>> /\ index[mb] = Torn
    /\ Adding => Writing /\ messages # <<>> /\ messages[Len(messages)] = msg
    /\ Writing /\ call = "remove" => msg \in Id /\ msg \notin ToSet(messages)
    /\ Writing /\ call = "add" => msg \in Id
    /\ pc = "remove" => msg \in Id /\ msg \notin ToSet(messages)
    /\ Distinct(messages)
    /\ ToSet(messages) \subseteq acked[mb] \cup (IF Adding THEN {msg} ELSE {})
    /\ mb \notin cut => acked[mb] \ events \subseteq ToSet(messages)
    /\ mb \notin damaged => ToSet(messages) \cap events = {} /\ Change(Listing(mb))

(* A mailbox that was there all the time is visited, or named to be        *)
(* visited, or below a directory that is still to be read.                 *)
ScanInv ==
    /\ steady \subseteq dir
    /\ scan = "level2" => \A b \in steady : b \in visited \cup names \/ Parent[b] \in dirs
    /\ ScanComplete

(* The inductive invariant.                                                *)
IInv ==
    /\ TypeOK /\ cut \subseteq damaged /\ IdInv /\ ScanInv
    /\ \A b \in Mailbox : ListInv(b)
    /\ pc # "unlocked" => CallInv
    /\ pc = "unlocked" => ~Fresh /\ call = "none"
-----------------------------------------------------------------------------
(* Lists without repetition *)

(* A list with one more message.                                           *)
LEMMA AppendDistinct ==
    ASSUME NEW X, NEW s \in Seq(X), NEW x \in X, Distinct(s), x \notin ToSet(s)
    PROVE  /\ Append(s, x) \in Seq(X) /\ Len(Append(s, x)) = Len(s) + 1
           /\ Distinct(Append(s, x)) /\ Append(s, x) # <<>>
           /\ Append(s, x)[Len(Append(s, x))] = x
           /\ ToSet(Append(s, x)) = ToSet(s) \cup {x}
<1> DEFINE t == Append(s, x)
<1>1. /\ t \in Seq(X) /\ Len(t) = Len(s) + 1 /\ t[Len(s) + 1] = x
      /\ \A i \in 1 .. Len(s) : t[i] = s[i]
  BY AppendProperties
<1>2. Len(s) \in Nat /\ DOMAIN s = 1 .. Len(s) /\ DOMAIN t = 1 .. Len(t) BY <1>1, LenProperties
<1>3. \A i \in 1 .. Len(s) : s[i] # x BY <1>2 DEF ToSet
<1> HIDE DEF t
<1>4. Distinct(t)
  <2> SUFFICES ASSUME NEW i \in 1 .. Len(t), NEW j \in 1 .. Len(t), t[i] = t[j] PROVE i = j
    BY DEF Distinct
  <2>1. (i \in 1 .. Len(s) \/ i = Len(s) + 1) /\ (j \in 1 .. Len(s) \/ j = Len(s) + 1) BY <1>1, <1>2
  <2>2. CASE i \in 1 .. Len(s) /\ j \in 1 .. Len(s)
    <3>1. s[i] = s[j] BY <1>1, <2>2
    <3> QED BY <2>2, <3>1 DEF Distinct
  <2>3. CASE i = Len(s) + 1 /\ j \in 1 .. Len(s) BY <1>1, <1>3, <2>3
  <2>4. CASE i \in 1 .. Len(s) /\ j = Len(s) + 1 BY <1>1, <1>3, <2>4
  <2> QED BY <2>1, <2>2, <2>3, <2>4
<1>5. ToSet(t) = ToSet(s) \cup {x}
  <2>1. ASSUME NEW y \in ToSet(t) PROVE y \in ToSet(s) \cup {x}
    <3>1. PICK i \in 1 .. Len(t) : t[i] = y BY <1>2 DEF ToSet
    <3>2. i \in 1 .. Len(s) \/ i = Len(s) + 1 BY <1>1, <1>2
    <3> QED BY <1>1, <1>2, <3>1, <3>2 DEF ToSet
  <2>2. ASSUME NEW y \in ToSet(s) PROVE y \in ToSet(t)
    <3>1. PICK i \in 1 .. Len(s) : s[i] = y BY <1>2 DEF ToSet
    <3>2. t[i] = y /\ i \in 1 .. Len(t) BY <1>1, <1>2, <3>1
    <3> QED BY <1>2, <3>2 DEF ToSet
  <2>3. x \in ToSet(t)
    <3>1. Len(s) + 1 \in 1 .. Len(t) BY <1>1, <1>2
    <3> QED BY <1>1, <1>2, <3>1 DEF ToSet
  <2> QED BY <2>1, <2>2, <2>3
<1>6. t # <<>> BY <1>1, <1>2
<1> QED BY <1>1, <1>4, <1>5, <1>6 DEF t

(* The elements of a sequence are at its positions.                        *)
LEMMA Listed ==
    ASSUME NEW X, NEW s \in Seq(X)
    PROVE  /\ Len(s) \in Nat /\ DOMAIN s = 1 .. Len(s) /\ ToSet(s) \subseteq X
           /\ \A i \in 1 .. Len(s) : s[i] \in ToSet(s) /\ s[i] \in X
           /\ \A x \in ToSet(s) : \E i \in 1 .. Len(s) : s[i] = x
<1>1. Len(s) \in Nat /\ DOMAIN s = 1 .. Len(s) BY LenProperties
<1>2. \A i \in 1 .. Len(s) : s[i] \in X BY ElementOfSeq
<1> QED BY <1>1, <1>2 DEF ToSet

(* A prefix that leaves out the end does not have the last element.        *)
LEMMA PrefixDistinct ==
    ASSUME NEW X, NEW s \in Seq(X), Distinct(s), NEW k \in 0 .. Len(s) - 1
    PROVE  /\ SubSeq(s, 1, k) \in Seq(X) /\ Len(SubSeq(s, 1, k)) = k
           /\ Distinct(SubSeq(s, 1, k))
           /\ ToSet(SubSeq(s, 1, k)) \subseteq ToSet(s) \ {s[Len(s)]}
<1> DEFINE t == SubSeq(s, 1, k)
<1>1. /\ Len(s) \in Nat /\ k \in Nat /\ k < Len(s) BY LenProperties
<1>2. t \in Seq(X) /\ Len(t) = k /\ \A i \in 1 .. k : t[i] = s[i]
  BY <1>1, SubSeqProperties
<1> HIDE DEF t
<1>3. Distinct(t)
  <2> SUFFICES ASSUME NEW i \in 1 .. k, NEW j \in 1 .. k, t[i] = t[j] PROVE i = j
    BY <1>2 DEF Distinct
  <2>1. s[i] = s[j] /\ i \in 1 .. Len(s) /\ j \in 1 .. Len(s) BY <1>1, <1>2
  <2> QED BY <2>1 DEF Distinct
<1>4. ASSUME NEW x \in ToSet(t) PROVE x \in ToSet(s) /\ x # s[Len(s)]
  <2>1. PICK i \in 1 .. k : t[i] = x BY <1>2, Listed
  <2>2. x = s[i] /\ i \in 1 .. Len(s) /\ Len(s) \in 1 .. Len(s) /\ i # Len(s) BY <1>1, <1>2, <2>1
  <2>3. s[i] # s[Len(s)] BY <2>2 DEF Distinct
  <2>4. s[i] \in ToSet(s) BY <2>2, Listed
  <2> QED BY <2>2, <2>3, <2>4
<1> QED BY <1>2, <1>3, <1>4 DEF t

(* What taking one message out of a list does.                             *)
LEMMA RemovedAt ==
    ASSUME NEW X, NEW s \in Seq(X), NEW k \in 1 .. Len(s)
    PROVE  /\ RemoveAt(s, k) \in Seq(X) /\ Len(RemoveAt(s, k)) = Len(s) - 1
           /\ \A i \in 1 .. Len(s) - 1 : RemoveAt(s, k)[i] = IF i < k THEN s[i] ELSE s[i + 1]
<1> DEFINE l == SubSeq(s, 1, k - 1)
           r == SubSeq(s, k + 1, Len(s))
<1>1. Len(s) \in Nat /\ k \in Nat /\ 1 <= k /\ k <= Len(s) BY LenProperties
<1>2. l \in Seq(X) /\ Len(l) = k - 1 /\ \A i \in 1 .. k - 1 : l[i] = s[i]
  BY <1>1, SubSeqProperties
<1>3. r \in Seq(X) /\ Len(r) = Len(s) - k /\ \A i \in 1 .. Len(s) - k : r[i] = s[k + i]
  BY <1>1, SubSeqProperties
<1> HIDE DEF l, r
<1>4. /\ l \o r \in Seq(X) /\ Len(l \o r) = Len(l) + Len(r)
      /\ \A i \in 1 .. Len(l) + Len(r) : (l \o r)[i] = IF i <= Len(l) THEN l[i] ELSE r[i - Len(l)]
  BY <1>2, <1>3, ConcatProperties
<1>5. ASSUME NEW i \in 1 .. Len(s) - 1 PROVE (l \o r)[i] = IF i < k THEN s[i] ELSE s[i + 1]
  <2>1. (l \o r)[i] = IF i <= k - 1 THEN l[i] ELSE r[i - (k - 1)] BY <1>1, <1>2, <1>3, <1>4
  <2>2. CASE i < k BY <1>1, <1>2, <2>1, <2>2
  <2>3. CASE ~(i < k)
    <3>1. i - (k - 1) \in 1 .. Len(s) - k /\ k + (i - (k - 1)) = i + 1 BY <1>1, <2>3
    <3>2. r[i - (k - 1)] = s[i + 1] BY <1>3, <3>1
    <3> QED BY <1>1, <2>1, <2>3, <3>2
  <2> QED BY <2>2, <2>3
<1>6. RemoveAt(s, k) = l \o r BY DEF RemoveAt, l, r
<1>7. Len(l \o r) = Len(s) - 1 BY <1>1, <1>2, <1>3, <1>4
<1> QED BY <1>4, <1>5, <1>6, <1>7

(* A list with one message less repeats none either.                       *)
LEMMA RemoveDistinct ==
    ASSUME NEW X, NEW s \in Seq(X), NEW k \in 1 .. Len(s), Distinct(s)
    PROVE  Distinct(RemoveAt(s, k)) /\ ToSet(RemoveAt(s, k)) = ToSet(s) \ {s[k]}
<1> DEFINE t == RemoveAt(s, k)
<1>1. /\ t \in Seq(X) /\ Len(t) = Len(s) - 1
      /\ \A i \in 1 .. Len(s) - 1 : t[i] = IF i < k THEN s[i] ELSE s[i + 1]
  BY RemovedAt
<1>2. Len(s) \in Nat /\ k \in Nat BY LenProperties
<1> HIDE DEF t
<1>3. ASSUME NEW i \in 1 .. Len(t)
      PROVE  \E n \in 1 .. Len(s) : t[i] = s[n] /\ n # k /\ n = IF i < k THEN i ELSE i + 1
  <2>1. CASE i < k BY <1>1, <1>2, <2>1
  <2>2. CASE ~(i < k) BY <1>1, <1>2, <2>2
  <2> QED BY <2>1, <2>2
<1>4. Distinct(t)
  <2> SUFFICES ASSUME NEW i \in 1 .. Len(t), NEW j \in 1 .. Len(t), t[i] = t[j] PROVE i = j
    BY DEF Distinct
  <2>1. PICK n \in 1 .. Len(s) : t[i] = s[n] /\ n = IF i < k THEN i ELSE i + 1 BY <1>3
  <2>2. PICK o \in 1 .. Len(s) : t[j] = s[o] /\ o = IF j < k THEN j ELSE j + 1 BY <1>3
  <2>3. n = o BY <2>1, <2>2 DEF Distinct
  <2> QED BY <1>1, <1>2, <2>1, <2>2, <2>3
<1>5. ASSUME NEW x \in ToSet(t) PROVE x \in ToSet(s) \ {s[k]}
  <2>1. PICK i \in 1 .. Len(t) : t[i] = x BY <1>1, Listed
  <2>2. PICK n \in 1 .. Len(s) : x = s[n] /\ n # k BY <1>3, <2>1
  <2>3. s[n] # s[k] BY <2>2 DEF Distinct
  <2>4. s[n] \in ToSet(s) BY Listed
  <2> QED BY <2>2, <2>3, <2>4
<1>6. ASSUME NEW x \in ToSet(s) \ {s[k]} PROVE x \in ToSet(t)
  <2>1. PICK n \in 1 .. Len(s) : s[n] = x BY Listed
  <2>2. n # k BY <2>1
  <2>3. CASE n < k
    <3>1. n \in 1 .. Len(t) /\ t[n] = x BY <1>1, <1>2, <2>1, <2>3
    <3> QED BY <1>1, <3>1, Listed
  <2>4. CASE n > k
    <3>1. n - 1 \in 1 .. Len(t) /\ t[n - 1] = s[n - 1 + 1] BY <1>1, <1>2, <2>4
    <3>2. n - 1 \in 1 .. Len(t) /\ t[n - 1] = x BY <1>2, <2>1, <3>1
    <3> QED BY <1>1, <3>2, Listed
  <2> QED BY <1>2, <2>2, <2>3, <2>4
<1>7. ToSet(t) = ToSet(s) \ {s[k]} BY <1>5, <1>6
<1> QED BY <1>4, <1>7 DEF t

(* Taking the first one out is what the cap loop does.                     *)
LEMMA TailRemoves ==
    ASSUME NEW X, NEW s \in Seq(X), s # <<>>
    PROVE  1 \in 1 .. Len(s) /\ s[1] = Head(s) /\ RemoveAt(s, 1) = Tail(s) /\ Tail(s) \in Seq(X) /\ Head(s) \in X
<1>1. /\ Len(s) \in Nat \ {0} /\ Tail(s) \in Seq(X) /\ Len(Tail(s)) = Len(s) - 1 /\ Head(s) = s[1]
      /\ \A i \in 1 .. Len(s) - 1 : Tail(s)[i] = s[i + 1]
  BY HeadTailProperties, LenProperties, EmptySeq
<1>2. 1 \in 1 .. Len(s) BY <1>1
<1>3. /\ RemoveAt(s, 1) \in Seq(X) /\ Len(RemoveAt(s, 1)) = Len(s) - 1
      /\ \A i \in 1 .. Len(s) - 1 : RemoveAt(s, 1)[i] = IF i < 1 THEN s[i] ELSE s[i + 1]
  BY <1>2, RemovedAt
<1>4. \A i \in 1 .. Len(s) - 1 : RemoveAt(s, 1)[i] = Tail(s)[i] BY <1>1, <1>3
<1>5. RemoveAt(s, 1) = Tail(s) BY <1>1, <1>3, <1>4, SeqEqual
<1>6. s[1] \in X BY <1>2, ElementOfSeq
<1> QED BY <1>1, <1>2, <1>5, <1>6

(* A list without repetition is as long as the set of its elements.        *)
LEMMA DistinctLength ==
    ASSUME NEW X, NEW s \in Seq(X), Distinct(s)
    PROVE  Len(s) = Cardinality(ToSet(s))
<1>1. Len(s) \in Nat /\ DOMAIN s = 1 .. Len(s) BY LenProperties
<1>2. s \in Bijection(1 .. Len(s), ToSet(s))
  <2>1. s \in [1 .. Len(s) -> ToSet(s)] BY <1>1, Listed, IsASeq
  <2> QED BY <1>1, <2>1, Listed DEF Distinct, Bijection, Injection, Surjection, IsInjective, ToSet
<1>3. ExistsBijection(1 .. Len(s), ToSet(s)) BY <1>2 DEF ExistsBijection
<1> QED BY <1>1, <1>3, FS_CountingElements

-----------------------------------------------------------------------------
(* Types *)

(* The index a call reads.                                                 *)
LEMMA IndexRead ==
    ASSUME IInv, NEW b \in Mailbox, Readable(b)
    PROVE  /\ index[b] \in Seq(Id) /\ Distinct(index[b]) /\ ToSet(index[b]) \subseteq acked[b]
           /\ Cap > 0 => Len(index[b]) <= Cap
           /\ b \notin cut => acked[b] \ events \subseteq ToSet(index[b])
           /\ b \notin damaged => ToSet(index[b]) \cap events = {}
           /\ Listing(b) = index[b]
<1>1. index[b] \in Seq(Id) BY DEF IInv, TypeOK, Readable
<1>2. Listing(b) = index[b] /\ index[b] # Torn /\ pc = "unlocked" BY DEF Listing, Readable
<1>3. ListInv(b) BY DEF IInv
<1> QED BY <1>1, <1>2, <1>3 DEF ListInv

LEMMA InitType == Init => TypeOK
<1> SUFFICES ASSUME Init PROVE TypeOK OBVIOUS
<1>1. <<>> \in Seq(Id) /\ Len(<<>>) = 0 BY EmptySeq
<1> QED BY <1>1, FileAssumption DEF Init, TypeOK

LEMMA CallType == ASSUME IInv, Call PROVE TypeOK'
<1> USE DEF Elsewhere, disk, history, scanner
<1>1. ASSUME NEW b \in Mailbox, AddMessage(b) PROVE TypeOK'
  <2>1. index[b] \in Seq(Id) /\ (Cap > 0 => Len(index[b]) <= Cap) BY <1>1, IndexRead DEF AddMessage
  <2>2. TypeOK /\ b # None BY FileAssumption DEF IInv
  <2> QED BY <1>1, <2>1, <2>2 DEF AddMessage, Begin, TypeOK
<1>2. ASSUME NEW b \in Mailbox, PurgeMessages(b) PROVE TypeOK'
  <2>1. index[b] \in Seq(Id) BY <1>2, IndexRead DEF PurgeMessages
  <2>2. ToSet(index[b]) \subseteq Id BY <2>1, Listed
  <2>3. TypeOK /\ b # None BY FileAssumption DEF IInv
  <2>4. <<>> \in Seq(Id) /\ Len(<<>>) = 0 BY EmptySeq
  <2> QED BY <1>2, <2>2, <2>3, <2>4, FileAssumption DEF PurgeMessages, Begin, TypeOK
<1>3. ASSUME NEW b \in Mailbox, MarkSeen(b) PROVE TypeOK'
  <2>1. index[b] \in Seq(Id) /\ (Cap > 0 => Len(index[b]) <= Cap) BY <1>3, IndexRead DEF MarkSeen
  <2>2. TypeOK /\ b # None BY FileAssumption DEF IInv
  <2> QED BY <1>3, <2>1, <2>2 DEF MarkSeen, Begin, TypeOK
<1>4. ASSUME NEW b \in Mailbox, NEW i \in acked[b], RemoveMessage(b, i) PROVE TypeOK'
  <2>1. index[b] \in Seq(Id) /\ (Cap > 0 => Len(index[b]) <= Cap) BY <1>4, IndexRead DEF RemoveMessage
  <2>2. PICK k \in DOMAIN index[b] : Begin("remove", b, RemoveAt(index[b], k), i, "writeIndex")
    BY <1>4 DEF RemoveMessage
  <2>3. k \in 1 .. Len(index[b]) /\ Len(index[b]) \in Nat BY <2>1, Listed
  <2>4. RemoveAt(index[b], k) \in Seq(Id) /\ Len(RemoveAt(index[b], k)) = Len(index[b]) - 1
    BY <2>1, <2>3, RemovedAt
  <2>5. messages' \in Seq(Id) /\ (Cap > 0 => Len(messages') <= Cap)
    <3> HIDE DEF Id
    <3> QED BY <2>1, <2>2, <2>3, <2>4, FileAssumption DEF Begin
  <2>6. TypeOK /\ b # None /\ i \in Id BY FileAssumption DEF IInv, TypeOK
  <2> QED BY <1>4, <2>2, <2>5, <2>6 DEF RemoveMessage, Begin, TypeOK
<1> QED BY <1>1, <1>2, <1>3, <1>4 DEF Call

LEMMA ContinueType == ASSUME IInv, Continue PROVE TypeOK'
<1> USE DEF Elsewhere, disk, history, scanner
<1>t. TypeOK BY DEF IInv
<1>m. pc # "unlocked" => mb \in Mailbox /\ mb # None BY <1>t, FileAssumption DEF TypeOK
<1>e. <<>> \in Seq(Id) /\ Len(<<>>) = 0 BY EmptySeq
<1>r. <<>> \in Seq(Id) /\ (Cap > 0 => Len(<<>>) <= Cap) BY <1>e, FileAssumption
<1>1. CASE CapLoop
  <2>1. messages # <<>>
    <3>1. Cap > 0 /\ Len(messages) >= Cap /\ Cap \in Nat BY <1>1, FileAssumption DEF CapLoop, OverCap
    <3> QED BY <3>1, <1>e
  <2>2. Tail(messages) \in Seq(Id) /\ Len(Tail(messages)) = Len(messages) - 1 /\ Head(messages) \in Id
    BY <1>t, <2>1, HeadTailProperties, TailRemoves DEF TypeOK
  <2>3. Cap > 0 => Len(messages') <= Cap
    <3>1. Len(messages) \in Nat BY <1>t, LenProperties DEF TypeOK
    <3> QED BY <1>1, <1>t, <2>2, <3>1, FileAssumption DEF CapLoop, TypeOK
  <2> QED BY <1>1, <1>t, <2>2, <2>3 DEF CapLoop, TypeOK
<1>2. CASE NewMessage
  <2>1. NextId \in Id BY <1>t DEF NextId, Id, TypeOK
  <2>2. burst < Width
    <3>1. pc = "cap" /\ CallInv /\ IdInv BY <1>2 DEF NewMessage, IInv
    <3>2. call = "add" /\ ~Adding BY <3>1 DEF CallInv, Writing
    <3> QED BY <3>1, <3>2 DEF IdInv, Fresh
  <2>3. count' \in 0 .. Width - 1 /\ burst' \in 0 .. Width
    BY <1>2, <1>t, <2>2, FileAssumption DEF NewMessage, TypeOK
  <2> QED BY <1>2, <1>t, <1>m, <2>1, <2>3 DEF NewMessage, TypeOK
<1>3. CASE CreateRaw
  <2>1. msg \in Id BY <1>3 DEF CreateRaw, IInv, IdInv, Fresh
  <2>2. Append(messages, msg) \in Seq(Id) /\ Len(Append(messages, msg)) = Len(messages) + 1
    BY <1>t, <2>1, AppendProperties DEF TypeOK
  <2>3. Cap > 0 => Len(messages') <= Cap
    <3>1. Cap > 0 => Len(messages) < Cap BY <1>3 DEF CreateRaw, IInv, CallInv
    <3>2. Len(messages) \in Nat BY <1>t, LenProperties DEF TypeOK
    <3> QED BY <1>3, <2>2, <3>1, <3>2, FileAssumption DEF CreateRaw
  <2> QED BY <1>3, <1>t, <1>m, <2>1, <2>2, <2>3 DEF CreateRaw, TypeOK
<1>4. CASE CreateRawFails BY <1>4, <1>t, <1>r DEF CreateRawFails, Return, TypeOK
<1>5. CASE OpenIndex BY <1>5, <1>t, <1>m DEF OpenIndex, Step, TypeOK
<1>6. CASE WriteIndex
  <2>1. Adding => msg \in Id BY DEF IInv, IdInv, Fresh
  <2> QED BY <1>6, <1>t, <1>m, <1>r, <2>1 DEF WriteIndex, Return, Step, TypeOK
<1>7. CASE RemoveDir
  <2> QED BY <1>7, <1>t, <1>m, <1>r DEF RemoveDir, Removed, Return, Step, TypeOK
<1>8. CASE RemoveRaw
  <2> QED BY <1>8, <1>t, <1>m, <1>r DEF RemoveRaw, Removed, Return, Step, TypeOK
<1> QED BY <1>1, <1>2, <1>3, <1>4, <1>5, <1>6, <1>7, <1>8 DEF Continue

(* A failure or a crash leaves what types allow.                           *)
LEMMA FailureType ==
    ASSUME IInv, OpenIndexFails \/ WriteIndexFails \/ RemoveDirFails \/ Crash PROVE TypeOK'
<1> USE DEF Elsewhere, disk, history, scanner
<1>t. TypeOK BY DEF IInv
<1>m. pc # "unlocked" => mb \in Mailbox /\ mb # None BY <1>t, FileAssumption DEF TypeOK
<1>e. <<>> \in Seq(Id) /\ Len(<<>>) = 0 BY EmptySeq
<1>r. <<>> \in Seq(Id) /\ (Cap > 0 => Len(<<>>) <= Cap) BY <1>e, FileAssumption
<1>c. pc # "unlocked" => CallInv BY DEF IInv
<1>p. pc = "write" => \A left \in Partial : left \in Seq(Id) \cup {Torn}
  <2> SUFFICES ASSUME pc = "write", NEW k \in 0 .. Len(messages) - 1 PROVE SubSeq(messages, 1, k) \in Seq(Id)
    BY DEF Partial
  <2> QED BY <1>t, <1>c, PrefixDistinct DEF TypeOK, CallInv
<1>f. Adding => msg \in Id BY DEF IInv, IdInv, Fresh
<1>1. CASE OpenIndexFails
  <2> QED BY <1>1, <1>t, <1>m, <1>r DEF OpenIndexFails, GiveUp, Interrupted, Removed, Return, Step, TypeOK
<1>2. CASE WriteIndexFails
  <2>1. PICK left \in Partial : index' = [index EXCEPT ![mb] = left] BY <1>2 DEF WriteIndexFails
  <2>2. index' \in [Mailbox -> Seq(Id) \cup {Torn}] BY <1>2, <1>t, <1>p, <2>1 DEF WriteIndexFails, TypeOK
  <2>3. raw' \in [Mailbox -> SUBSET Id] BY <1>2, <1>t DEF WriteIndexFails, GiveUp, TypeOK
  <2> QED BY <1>2, <1>t, <1>m, <1>r, <2>2, <2>3
          DEF WriteIndexFails, GiveUp, Interrupted, Removed, Return, Step, TypeOK
<1>3. CASE RemoveDirFails
  <2>1. raw' \in [Mailbox -> SUBSET Id] BY <1>3, <1>t, <1>m DEF RemoveDirFails, SomeFilesGone, TypeOK
  <2>2. index' \in [Mailbox -> Seq(Id) \cup {Torn}]
    <3>1. PICK i \in {index[mb], <<>>} : index' = [index EXCEPT ![mb] = i]
      BY <1>3 DEF RemoveDirFails, SomeFilesGone
    <3>2. mb \in Mailbox /\ index \in [Mailbox -> Seq(Id) \cup {Torn}]
      BY <1>3, <1>t, <1>m DEF RemoveDirFails, TypeOK
    <3> QED BY <1>e, <3>1, <3>2
  <2> QED BY <1>3, <1>t, <1>m, <1>r, <2>1, <2>2 DEF RemoveDirFails, Interrupted, Removed, Return, Step, TypeOK
<1>4. CASE Crash
  <2>0. pc # "unlocked" /\ mb \in Mailbox BY <1>4, <1>m DEF Crash
  <2>1. raw' \in [Mailbox -> SUBSET Id]
    <3>1. CASE pc = "create"
      <4>1. msg \in Id BY <3>1 DEF IInv, IdInv, Fresh
      <4> QED BY <1>4, <1>t, <3>1, <4>1 DEF Crash, TypeOK
    <3>2. CASE pc # "create" BY <1>4, <1>t, <2>0, <3>2 DEF Crash, SomeFilesGone, TypeOK
    <3> QED BY <3>1, <3>2
  <2>2. index' \in [Mailbox -> Seq(Id) \cup {Torn}]
    <3>1. CASE pc = "write"
      <4>1. PICK left \in Partial : index' = [index EXCEPT ![mb] = left] BY <1>4, <3>1 DEF Crash
      <4> QED BY <1>t, <1>p, <3>1, <4>1 DEF TypeOK
    <3>2. CASE pc # "write" BY <1>4, <1>t, <1>e, <2>0, <3>2 DEF Crash, SomeFilesGone, TypeOK
    <3> QED BY <3>1, <3>2
  <2>3. /\ now' \in 0 .. MaxTime /\ count' \in 0 .. Width - 1 /\ burst' \in 0 .. Width
    BY <1>4, <1>t, FileAssumption DEF Crash, TypeOK
  <2>4. /\ mb' = None /\ pc' = "unlocked" /\ call' = "none" /\ messages' = <<>> /\ msg' = None
    BY <1>4 DEF Crash, Return
  <2>5. {names', visited', steady', cut', damaged'} \subseteq SUBSET Mailbox
    BY <1>4, <1>t, <2>0 DEF Crash, Interrupted, TypeOK
  <2> QED BY <1>4, <1>t, <1>r, <2>1, <2>2, <2>3, <2>4, <2>5 DEF Crash, TypeOK
<1> QED BY <1>1, <1>2, <1>3, <1>4

LEMMA ScanType == ASSUME IInv, Scan \/ Tick \/ UNCHANGED vars PROVE TypeOK'
<1> USE DEF ScanOnly, ScanEnds, disk, caller, clock, history, scanner
<1>t. TypeOK BY DEF IInv
<1>1. CASE VisitMailboxes BY <1>1, <1>t DEF VisitMailboxes, TypeOK
<1>2. CASE ReadLevel1 BY <1>2, <1>t DEF ReadLevel1, TypeOK
<1>3. CASE ScanDone BY <1>3, <1>t DEF ScanDone, TypeOK
<1>4. ASSUME NEW d \in dirs, ReadLevel2(d) PROVE TypeOK' BY <1>4, <1>t DEF ReadLevel2, TypeOK
<1>5. ASSUME NEW b \in names, Visit(b) PROVE TypeOK' BY <1>5, <1>t DEF Visit, TypeOK
<1>6. CASE Tick BY <1>6, <1>t, FileAssumption DEF Tick, TypeOK
<1>7. CASE UNCHANGED vars BY <1>7, <1>t DEF vars, TypeOK
<1> QED BY <1>1, <1>2, <1>3, <1>4, <1>5, <1>6, <1>7 DEF Scan

LEMMA NextType == ASSUME IInv, [Next]_vars PROVE TypeOK'
BY CallType, ContinueType, FailureType, ScanType DEF Next

-----------------------------------------------------------------------------
(* Ids *)

LEMMA InitIds == Init => IdInv
BY FileAssumption DEF Init, IdInv, Returned, Fresh, Adding

(* The steps that give out no id and return none.                          *)
LEMMA IdsKept ==
    ASSUME IInv, UNCHANGED <<acked, now, count, burst>>, events' \subseteq Returned,
           call' = "add" /\ ~Fresh' => burst < Width,
           Fresh' => Fresh /\ msg' = msg
    PROVE  IdInv'
<1>1. IdInv BY DEF IInv
<1>2. Returned' = Returned BY DEF Returned
<1>3. \A i : Given(i)' <=> Given(i) BY DEF Given
<1> QED BY <1>1, <1>2, <1>3 DEF IdInv

(* An id names one message for ever: the next number is none of the last   *)
(* burst ones as long as burst is below Width.                             *)
LEMMA NewMessageIds == ASSUME IInv, NewMessage PROVE IdInv'
<1>t. TypeOK /\ IdInv BY DEF IInv
<1>1. burst < Width
  <2>1. pc = "cap" /\ CallInv BY DEF NewMessage, IInv
  <2>2. call = "add" /\ ~Fresh BY <2>1 DEF CallInv, Writing, Fresh
  <2> QED BY <1>t, <2>2 DEF IdInv
<1>2. /\ UNCHANGED <<acked, events, now>> /\ msg' = NextId /\ pc' = "create"
      /\ burst' = burst + 1 /\ count' = (count + 1) % Width
  BY DEF NewMessage, history
<1>3. /\ now \in Nat /\ count \in Nat /\ burst \in Nat /\ Width \in Nat /\ count < Width
  BY <1>t, FileAssumption DEF TypeOK
<1>4. count' = IF count + 1 = Width THEN 0 ELSE count + 1
  BY <1>2, <1>3
<1>5. ASSUME NEW i \in Id, Given(i) PROVE Given(i)' /\ i # NextId
  <2>1. i.time \in Nat /\ i.n \in Nat /\ i.n < Width BY FileAssumption DEF Id
  <2>2. CASE i.time < now BY <1>2, <1>3, <2>1, <2>2 DEF Given, NextId
  <2>3. CASE i.time = now /\ i.n \in (count - burst) .. (count - 1)
    <3>1. i.n # count BY <1>3, <2>1, <2>3
    <3>2. CASE count + 1 = Width
      <4>1. count' = 0 /\ i.n >= count' + Width - burst' BY <1>2, <1>3, <1>4, <2>1, <2>3, <3>2
      <4> QED BY <1>2, <2>3, <3>1, <4>1 DEF Given, NextId
    <3>3. CASE count + 1 # Width
      <4>1. i.n \in (count' - burst') .. (count' - 1) BY <1>2, <1>3, <1>4, <2>1, <2>3, <3>3
      <4> QED BY <1>2, <2>3, <3>1, <4>1 DEF Given, NextId
    <3> QED BY <3>2, <3>3
  <2>4. CASE i.time = now /\ i.n >= count + Width - burst
    <3>1. i.n # count /\ i.n > count BY <1>1, <1>3, <2>1, <2>4
    <3>2. count + 1 # Width /\ i.n >= count' + Width - burst' BY <1>2, <1>3, <1>4, <2>1, <2>4, <3>1
    <3> QED BY <1>2, <2>4, <3>1, <3>2 DEF Given, NextId
  <2> QED BY <1>5, <2>2, <2>3, <2>4 DEF Given
<1>6. Given(msg)'
  <2>1. msg'.time = now' /\ msg'.n = count BY <1>2 DEF NextId
  <2>2. CASE count + 1 = Width
    <3>1. count >= count' + Width - burst'
      <4>1. count' = 0 /\ burst' = burst + 1 /\ Width = count + 1 BY <1>2, <1>4, <2>2
      <4> QED BY <1>3, <4>1
    <3> QED BY <2>1, <3>1 DEF Given
  <2>3. CASE count + 1 # Width
    <3>1. count \in (count' - burst') .. (count' - 1) BY <1>2, <1>3, <1>4, <2>3
    <3> QED BY <2>1, <3>1 DEF Given
  <2> QED BY <2>2, <2>3
<1>7. msg' \in Id /\ Returned' = Returned BY <1>2, <1>t DEF NextId, Id, TypeOK, Returned
<1>8. \A b \in Mailbox : \A i \in acked[b] : i \in Id /\ Given(i)' /\ i # msg'
  BY <1>t, <1>2, <1>5 DEF IdInv, TypeOK
<1>9. msg' \notin Returned' BY <1>7, <1>8 DEF Returned
<1>10. Fresh' BY <1>2 DEF Fresh
<1> QED BY <1>t, <1>2, <1>6, <1>7, <1>8, <1>9, <1>10 DEF IdInv

(* An addition returns the id that was given out for it.                   *)
LEMMA WriteIndexIds == ASSUME IInv, WriteIndex, Adding PROVE IdInv'
<1>t. TypeOK /\ IdInv /\ Fresh BY DEF IInv, Fresh
<1>1. /\ acked' = [acked EXCEPT ![mb] = @ \cup {msg}] /\ UNCHANGED <<events, now, count, burst>>
      /\ pc' = "unlocked" /\ call' = "none"
  BY DEF WriteIndex, Adding, Return, Elsewhere
<1>2. mb \in Mailbox BY FileAssumption, <1>t DEF WriteIndex, TypeOK
<1>3. \A i : Given(i)' <=> Given(i) BY <1>1 DEF Given
<1>4. \A b \in Mailbox : acked'[b] = IF b = mb THEN acked[b] \cup {msg} ELSE acked[b]
  BY <1>1, <1>t DEF TypeOK
<1>5. Given(msg) /\ \A b \in Mailbox : msg \notin acked[b] BY <1>t DEF IdInv, Returned
<1>6. \A b \in Mailbox : \A i \in acked'[b] : Given(i)' BY <1>t, <1>3, <1>4, <1>5 DEF IdInv
<1>7. \A b, c \in Mailbox : b # c => acked'[b] \cap acked'[c] = {} BY <1>t, <1>4, <1>5 DEF IdInv
<1>8. Returned \subseteq Returned' BY <1>4 DEF Returned
<1>9. ~Fresh' BY <1>1 DEF Fresh, Adding
<1> QED BY <1>t, <1>1, <1>6, <1>7, <1>8, <1>9 DEF IdInv

(* In a later second all ids given out are of the past.                    *)
LEMMA LaterIds ==
    ASSUME IInv, now' = now + 1, UNCHANGED <<acked, events>>, burst' = 0,
           Fresh' => Fresh /\ msg' = msg
    PROVE  IdInv'
<1>t. TypeOK /\ IdInv BY DEF IInv
<1>1. \A i \in Id : Given(i) => Given(i)'
  <2> SUFFICES ASSUME NEW i \in Id, Given(i) PROVE i.time < now' BY DEF Given
  <2>1. i.time \in Nat /\ now \in Nat BY <1>t, FileAssumption DEF Id, TypeOK
  <2> QED BY <2>1 DEF Given
<1>2. \A b \in Mailbox : \A i \in acked'[b] : Given(i)' BY <1>t, <1>1 DEF IdInv, TypeOK
<1>3. Returned' = Returned BY DEF Returned
<1>4. burst' < Width BY FileAssumption
<1>5. Fresh' => msg' \in Id /\ Given(msg)' /\ msg' \notin Returned'
  <2> SUFFICES ASSUME Fresh' PROVE msg' \in Id /\ Given(msg)' /\ msg' \notin Returned' OBVIOUS
  <2>1. msg \in Id /\ Given(msg) /\ msg \notin Returned BY <1>t DEF IdInv
  <2>2. msg'.time < now'
    <3>1. msg.time \in Nat /\ now \in Nat BY <2>1, <1>t, FileAssumption DEF Id, TypeOK
    <3> QED BY <2>1, <3>1 DEF Given
  <2> QED BY <2>1, <2>2, <1>3 DEF Given
<1> QED BY <1>t, <1>2, <1>3, <1>4, <1>5 DEF IdInv

(* No step gives out an id for the second time.                            *)
LEMMA NextIds == ASSUME IInv, [Next]_vars PROVE IdInv'
<1> USE DEF Elsewhere, disk, history, scanner
<1>t. TypeOK /\ IdInv BY DEF IInv
<1>c. pc # "unlocked" => CallInv /\ mb \in Mailbox BY FileAssumption, <1>t DEF IInv, TypeOK
<1>a. \A b \in Mailbox : acked[b] \subseteq Returned BY DEF Returned
<1>n. pc \in {"cap", "remove"} => ~Adding BY <1>c DEF CallInv, Writing
<1>b. call = "add" /\ ~Fresh => burst < Width BY <1>t DEF IdInv
<1>e. events \subseteq Returned BY <1>t DEF IdInv
<1>r. Return => ~Fresh' /\ call' = "none" BY DEF Return, Fresh, Adding
<1>s. \A step \in {"cap", "write", "remove"} : Step(step) => (Fresh' <=> Adding) /\ UNCHANGED <<call, msg>>
  BY DEF Step, Fresh, Adding
<1>1. ASSUME NEW b \in Mailbox, AddMessage(b) PROVE IdInv'
  <2>1. index[b] \in Seq(Id) BY <1>1, IndexRead DEF AddMessage
  <2>2. None \notin ToSet(index[b]) BY <2>1, Listed, FileAssumption
  <2>3. ~Fresh' BY <1>1, <2>2 DEF AddMessage, Begin, Fresh, Adding
  <2> QED BY <1>1, <1>e, <2>3, IdsKept DEF AddMessage
<1>2. ASSUME NEW b \in Mailbox, PurgeMessages(b) \/ MarkSeen(b) \/ \E i \in acked[b] : RemoveMessage(b, i) PROVE IdInv'
  <2>1. ToSet(index[b]) \subseteq Returned BY <1>2, <1>a, IndexRead DEF PurgeMessages, MarkSeen, RemoveMessage
  <2>2. events' \subseteq Returned BY <1>2, <1>a, <1>e, <2>1 DEF PurgeMessages, MarkSeen, RemoveMessage
  <2>3. call' # "add" /\ ~Fresh' BY <1>2 DEF PurgeMessages, MarkSeen, RemoveMessage, Begin, Fresh, Adding
  <2> QED BY <1>2, <2>2, <2>3, IdsKept DEF PurgeMessages, MarkSeen, RemoveMessage
<1>3. CASE CapLoop
  <2>1. messages \in Seq(Id) /\ messages # <<>>
    <3>1. Cap > 0 /\ Len(messages) >= Cap /\ Cap \in Nat BY <1>3, FileAssumption DEF CapLoop, OverCap
    <3> QED BY <3>1, <1>t, EmptySeq DEF TypeOK
  <2>2. 1 \in 1 .. Len(messages) /\ messages[1] = Head(messages) /\ RemoveAt(messages, 1) = Tail(messages)
    BY <2>1, TailRemoves
  <2>3. Distinct(messages) /\ ToSet(messages) \subseteq acked[mb] BY <1>3, <1>c, <1>n DEF CapLoop, CallInv
  <2>4. Head(messages) \notin ToSet(Tail(messages))
    <3>1. ToSet(RemoveAt(messages, 1)) = ToSet(messages) \ {messages[1]} BY <2>1, <2>2, <2>3, RemoveDistinct
    <3> QED BY <2>2, <3>1
  <2>5. Head(messages) \in Returned BY <1>3, <1>a, <1>c, <2>1, <2>2, <2>3, Listed DEF CapLoop
  <2>6. ~Fresh' BY <1>3, <2>4 DEF CapLoop, Fresh, Adding
  <2>7. ~Fresh BY <1>3, <1>n DEF CapLoop, Fresh
  <2> QED BY <1>3, <1>b, <1>e, <2>5, <2>6, <2>7, IdsKept DEF CapLoop
<1>4. CASE NewMessage BY <1>4, NewMessageIds
<1>5. CASE CreateRaw
  <2>1. Fresh /\ UNCHANGED <<msg, call>> BY <1>5 DEF CreateRaw, Fresh
  <2>2. call = "add" /\ msg \in Id /\ msg \notin Returned
    BY <1>5, <1>c, <1>t, <2>1 DEF CreateRaw, CallInv, IdInv
  <2>3. ~Adding BY <1>5, <1>c DEF CreateRaw, CallInv, Writing
  <2>4. msg \in ToSet(Append(messages, msg))
    <3>1. messages \in Seq(Id) /\ msg \notin ToSet(messages) /\ Distinct(messages)
      BY <1>5, <1>c, <1>t, <2>2, <2>3 DEF CreateRaw, CallInv, TypeOK, Adding
    <3> QED BY <2>2, <3>1, AppendDistinct
  <2>5. Fresh' BY <1>5, <2>1, <2>2, <2>4 DEF CreateRaw, Fresh, Adding
  <2> QED BY <1>5, <1>e, <2>1, <2>5, IdsKept DEF CreateRaw
<1>6. CASE CreateRawFails BY <1>6, <1>e, <1>r, IdsKept DEF CreateRawFails
<1>7. CASE OpenIndex
  <2>1. (Fresh' <=> Adding) /\ (Adding <=> Fresh) /\ UNCHANGED <<call, msg>> BY <1>7, <1>s DEF OpenIndex, Fresh
  <2> QED BY <1>7, <1>b, <1>e, <2>1, IdsKept DEF OpenIndex
<1>8. CASE WriteIndex /\ ~Adding
  <2>1. (~Fresh' /\ call' = "none") \/ ((Fresh' <=> Adding) /\ UNCHANGED <<call, msg>>)
    BY <1>8, <1>r, <1>s DEF WriteIndex
  <2>2. ~Fresh BY <1>8 DEF WriteIndex, Fresh
  <2> QED BY <1>8, <1>b, <1>e, <2>1, <2>2, IdsKept DEF WriteIndex
<1>9. CASE RemoveDir \/ RemoveRaw \/ RemoveDirFails
  <2>1. ~Adding BY <1>9, <1>n, EmptySeq DEF RemoveDir, RemoveRaw, RemoveDirFails, Adding, ToSet
  <2>2. ~Fresh BY <1>9, <2>1 DEF RemoveDir, RemoveRaw, RemoveDirFails, Fresh
  <2>3. Removed BY <1>9 DEF RemoveDir, RemoveRaw, RemoveDirFails
  <2>4. ~Fresh' /\ (call' = "add" => call = "add") BY <1>r, <1>s, <2>1, <2>3 DEF Removed
  <2> QED BY <1>9, <1>b, <1>e, <2>2, <2>4, IdsKept DEF RemoveDir, RemoveRaw, RemoveDirFails
<1>10. CASE OpenIndexFails \/ WriteIndexFails
  <2>1. GiveUp /\ pc # "create" BY <1>10 DEF OpenIndexFails, WriteIndexFails
  <2>2. ~Fresh' /\ (call' = "add" => call = "add" /\ ~Fresh) BY <1>r, <1>s, <2>1 DEF GiveUp, Removed, Fresh
  <2> QED BY <1>10, <1>b, <1>e, <2>2, IdsKept DEF OpenIndexFails, WriteIndexFails
<1>11. CASE Crash BY <1>11, <1>r, LaterIds DEF Crash
<1>12. CASE Tick
  <2>1. Fresh' <=> Fresh BY <1>12 DEF Tick, Fresh, Adding, caller
  <2> QED BY <1>12, <2>1, LaterIds DEF Tick, caller
<1>13. CASE Scan \/ UNCHANGED vars
  <2>1. UNCHANGED <<acked, events, now, count, burst, caller>>
    <3>1. CASE Scan BY <3>1 DEF Scan, VisitMailboxes, ReadLevel1, ScanDone, ReadLevel2, Visit, ScanOnly, clock
    <3>2. CASE UNCHANGED vars BY <3>2 DEF vars, caller
    <3> QED BY <1>13, <3>1, <3>2
  <2>2. (Fresh' <=> Fresh) /\ UNCHANGED <<call, msg>> BY <2>1 DEF Fresh, Adding, caller
  <2> QED BY <1>b, <1>e, <2>1, <2>2, IdsKept
<1> QED
  BY <1>1, <1>2, <1>3, <1>4, <1>5, <1>6, <1>7, <1>8, <1>9, <1>10, <1>11, <1>12, <1>13, WriteIndexIds
  DEF Next, Call, Continue

-----------------------------------------------------------------------------
(* The scan *)

(* Directories that vanish under the scan end it, and those that stay are  *)
(* visited.                                                                *)
LEMMA NextScan == ASSUME IInv, [Next]_vars PROVE ScanInv'
<1>t. TypeOK /\ ScanInv BY DEF IInv
<1>k. ASSUME UNCHANGED scanner, steady' \subseteq steady, steady' \subseteq dir' PROVE ScanInv'
  BY <1>k, <1>t DEF ScanInv, ScanComplete, scanner
<1>d. steady \subseteq dir BY <1>t DEF ScanInv
<1>1. CASE Call
  <2>1. UNCHANGED <<scanner, steady, dir>>
    BY <1>1 DEF Call, AddMessage, RemoveMessage, PurgeMessages, MarkSeen, Elsewhere, disk
  <2> QED BY <1>d, <1>k, <2>1
<1>2. CASE Continue
  <2>1. UNCHANGED scanner /\ steady' \subseteq steady /\ steady' \subseteq dir'
    BY <1>2, <1>d DEF Continue, CapLoop, NewMessage, CreateRaw, CreateRawFails, OpenIndex, WriteIndex, RemoveDir,
                      RemoveRaw, Elsewhere, disk
  <2> QED BY <1>k, <2>1
<1>3. CASE OpenIndexFails \/ WriteIndexFails \/ RemoveDirFails
  <2>1. UNCHANGED <<scanner, steady, dir>>
    BY <1>3 DEF OpenIndexFails, WriteIndexFails, RemoveDirFails, Elsewhere
  <2> QED BY <1>d, <1>k, <2>1
<1>4. CASE Crash BY <1>4 DEF Crash, ScanInv, ScanComplete
<1>5. CASE VisitMailboxes
  <2>1. steady' = dir /\ dir' = dir BY <1>5 DEF VisitMailboxes, ScanOnly, disk
  <2>2. scan' = "level1" \/ (dir = {} /\ scan' = "complete") BY <1>5 DEF VisitMailboxes, ScanEnds
  <2> QED BY <2>1, <2>2 DEF ScanInv, ScanComplete
<1>6. CASE ReadLevel1
  <2>1. UNCHANGED <<steady, dir>> BY <1>6 DEF ReadLevel1, ScanOnly, disk
  <2>2. scan' = "error" \/ (scan' = "level2" /\ dirs' = {Parent[b] : b \in dir}) BY <1>6 DEF ReadLevel1, ScanEnds
  <2> QED BY <1>d, <2>1, <2>2 DEF ScanInv, ScanComplete
<1>7. ASSUME NEW d \in dirs, ReadLevel2(d) PROVE ScanInv'
  <2>1. UNCHANGED <<steady, dir, visited>> /\ scan = "level2" /\ names = {}
    BY <1>7 DEF ReadLevel2, ScanOnly, disk
  <2>2. \A b \in steady : b \in visited \/ Parent[b] \in dirs BY <1>t, <2>1 DEF ScanInv
  <2>3. scan' = "error" \/ (names' = {b \in dir : Parent[b] = d} /\ dirs' = dirs \ {d} /\ scan' = scan)
    BY <1>7 DEF ReadLevel2, ScanEnds
  <2>4. CASE scan' = "error" BY <1>d, <2>1, <2>4 DEF ScanInv, ScanComplete
  <2>5. CASE names' = {b \in dir : Parent[b] = d} /\ dirs' = dirs \ {d} /\ scan' = scan
    <3>1. \A b \in steady : b \in visited \/ b \in names' \/ Parent[b] \in dirs' BY <1>d, <2>2, <2>5
    <3> QED BY <1>d, <2>1, <2>5, <3>1 DEF ScanInv, ScanComplete
  <2> QED BY <2>3, <2>4, <2>5
<1>8. ASSUME NEW b \in names, Visit(b) PROVE ScanInv'
  <2>1. UNCHANGED <<steady, dir>> /\ scan = "level2" BY <1>8 DEF Visit, ScanOnly, disk
  <2>2. scan' \in {"error", "idle"} \/
        (visited' = visited \cup {b} /\ names' = names \ {b} /\ UNCHANGED <<scan, dirs>>)
    BY <1>8 DEF Visit, ScanEnds
  <2> QED BY <1>t, <2>1, <2>2 DEF ScanInv, ScanComplete
<1>9. CASE ScanDone
  <2>1. UNCHANGED <<steady, dir, visited>> /\ scan' = "complete" /\ scan = "level2" /\ names = {} /\ dirs = {}
    BY <1>9 DEF ScanDone, ScanOnly, disk, ScanEnds
  <2> QED BY <1>t, <2>1 DEF ScanInv, ScanComplete
<1>10. CASE Tick \/ UNCHANGED vars
  <2>1. UNCHANGED <<scanner, steady, dir>> BY <1>10 DEF Tick, vars, disk, scanner
  <2> QED BY <1>d, <1>k, <2>1
<1> QED BY <1>1, <1>2, <1>3, <1>4, <1>5, <1>6, <1>7, <1>8, <1>9, <1>10 DEF Next, Scan

-----------------------------------------------------------------------------
(* The lists on the disk and in memory *)

(* A mailbox whose list nobody changes.                                    *)
LEMMA ListingKept ==
    ASSUME NEW b \in Mailbox, ListInv(b), Listing(b)' = Listing(b), acked'[b] = acked[b],
           events \subseteq events', cut \subseteq cut', damaged \subseteq damaged', b \in dir => b \in dir',
           b \notin damaged' =>
              /\ raw'[b] = ToSet(Listing(b)) \cup Unlisted(b)'
              /\ (pc' = "unlocked" \/ b # mb') => ToSet(Listing(b)) \cap events' = {}
    PROVE  ListInv(b)'
<1>1. ToSet(Listing(b))' = ToSet(Listing(b)) /\ Distinct(Listing(b))' = Distinct(Listing(b))
      /\ Len(Listing(b))' = Len(Listing(b))
  BY DEF ToSet, Distinct
<1> QED BY <1>1 DEF ListInv

(* The mailboxes that the call is not about: it names none of their        *)
(* messages in its events.                                                 *)
LEMMA OtherLists ==
    ASSUME IInv, NEW c \in Mailbox, ListInv(c)',
           \A b \in Mailbox \ {c} : /\ b # mb /\ b # mb'
                                    /\ b \in dir => b \in dir'
                                    /\ index'[b] = index[b] /\ raw'[b] = raw[b] /\ acked'[b] = acked[b],
           events \subseteq events', events' \subseteq events \cup acked[c],
           cut \subseteq cut', damaged \subseteq damaged'
    PROVE  \A b \in Mailbox : ListInv(b)'
<1> SUFFICES ASSUME NEW b \in Mailbox, b # c PROVE ListInv(b)'
  OBVIOUS
<1>1. ListInv(b) /\ acked[b] \cap acked[c] = {} BY DEF IInv, IdInv
<1>2. Listing(b) = index[b] /\ Listing(b)' = index'[b] /\ Unlisted(b) = {} /\ Unlisted(b)' = {}
  BY DEF Listing, Unlisted
<1>3. Listing(b)' = Listing(b) BY <1>2
<1>4. ASSUME b \notin damaged
      PROVE raw'[b] = ToSet(Listing(b)) \cup Unlisted(b)' /\ ToSet(Listing(b)) \cap events' = {}
  <2>1. b \notin cut BY <1>4 DEF IInv
  <2>2. /\ raw[b] = ToSet(Listing(b)) \cup Unlisted(b) /\ ToSet(Listing(b)) \cap events = {}
        /\ ToSet(Listing(b)) \subseteq acked[b]
    BY <1>1, <1>4, <2>1 DEF ListInv
  <2> QED BY <1>1, <1>2, <2>2
<1> QED BY <1>1, <1>3, <1>4, ListingKept

LEMMA Unlocked == ASSUME IInv, NEW b \in Mailbox, pc = "unlocked" PROVE b # mb /\ Unlisted(b) = {}
BY FileAssumption DEF IInv, TypeOK, Unlisted

(* A call begins.                                                          *)
LEMMA CallLists ==
    ASSUME IInv, NEW b \in Mailbox, Readable(b), mb' = b, pc' \in {"cap", "writeIndex"}, ~Adding',
           UNCHANGED <<disk, history>>, events \subseteq events', events' \subseteq events \cup acked[b]
    PROVE  \A x \in Mailbox : ListInv(x)'
<1>1. pc = "unlocked" BY DEF Readable
<1>2. \A x \in Mailbox : x # mb BY <1>1, Unlocked
<1>3. Listing(b)' = Listing(b) BY <1>1 DEF Listing, disk
<1>4. Unlisted(b)' = {} /\ Unlisted(b) = {} BY <1>1, Unlocked DEF Unlisted
<1>5. ListInv(b) BY DEF IInv
<1>6. b \notin damaged => raw'[b] = ToSet(Listing(b)) \cup Unlisted(b)' BY <1>4, <1>5 DEF ListInv, disk
<1>7. ListInv(b)'
  BY <1>3, <1>5, <1>6, ListingKept DEF disk, history
<1> QED BY <1>2, <1>7, OtherLists DEF disk, history
LEMMA CallsBegin == ASSUME IInv, Call PROVE (\A x \in Mailbox : ListInv(x)') /\ CallInv' /\ pc' # "unlocked"
<1> USE DEF Elsewhere
<1>1. ASSUME NEW b \in Mailbox, AddMessage(b) PROVE (\A x \in Mailbox : ListInv(x)') /\ CallInv' /\ pc' # "unlocked"
  <2>0. Readable(b) BY <1>1 DEF AddMessage
  <2>1. /\ index[b] \in Seq(Id) /\ Distinct(index[b]) /\ ToSet(index[b]) \subseteq acked[b]
        /\ b \notin cut => acked[b] \ events \subseteq ToSet(index[b])
        /\ b \notin damaged => ToSet(index[b]) \cap events = {}
    BY <2>0, IndexRead
  <2>2. None \notin ToSet(index[b]) BY <2>1, Listed, FileAssumption
  <2>3. /\ call' = "add" /\ mb' = b /\ messages' = index[b] /\ msg' = None /\ pc' = "cap"
        /\ UNCHANGED <<disk, history, events>>
    BY <1>1 DEF AddMessage, Begin
  <2>4. ~Adding' BY <2>2, <2>3 DEF Adding
  <2>5. \A x \in Mailbox : ListInv(x)' BY <2>0, <2>3, <2>4, CallLists
  <2>6. Listing(mb)' = messages' BY <2>3 DEF Listing, disk
  <2>7. Distinct(messages)' BY <2>1, <2>3 DEF Distinct
  <2>8. ToSet(messages)' = ToSet(index[b]) BY <2>3 DEF ToSet
  <2> QED BY <2>1, <2>3, <2>4, <2>5, <2>6, <2>7, <2>8 DEF CallInv, Change, Writing, history
<1>2. ASSUME NEW b \in Mailbox, PurgeMessages(b) PROVE (\A x \in Mailbox : ListInv(x)') /\ CallInv' /\ pc' # "unlocked"
  <2>0. Readable(b) BY <1>2 DEF PurgeMessages
  <2>1. /\ index[b] \in Seq(Id) /\ Distinct(index[b]) /\ ToSet(index[b]) \subseteq acked[b]
        /\ b \notin cut => acked[b] \ events \subseteq ToSet(index[b])
    BY <2>0, IndexRead
  <2>2. /\ call' = "purge" /\ mb' = b /\ messages' = <<>> /\ pc' = "writeIndex"
        /\ events' = events \cup ToSet(index[b])
        /\ UNCHANGED <<disk, history>>
    BY <1>2 DEF PurgeMessages, Begin
  <2>3. ~Adding' BY <2>2 DEF Adding
  <2>4. \A x \in Mailbox : ListInv(x)' BY <2>0, <2>1, <2>2, <2>3, CallLists
  <2>5. Distinct(messages)' /\ ToSet(messages)' = {} BY <2>2, EmptySeq DEF Distinct, ToSet
  <2> QED BY <2>1, <2>2, <2>3, <2>4, <2>5 DEF CallInv, Change, Writing, history
<1>3. ASSUME NEW b \in Mailbox, MarkSeen(b) PROVE (\A x \in Mailbox : ListInv(x)') /\ CallInv' /\ pc' # "unlocked"
  <2>0. Readable(b) BY <1>3 DEF MarkSeen
  <2>1. /\ index[b] \in Seq(Id) /\ Distinct(index[b]) /\ ToSet(index[b]) \subseteq acked[b]
        /\ b \notin cut => acked[b] \ events \subseteq ToSet(index[b])
        /\ b \notin damaged => ToSet(index[b]) \cap events = {}
    BY <2>0, IndexRead
  <2>2. /\ call' = "markSeen" /\ mb' = b /\ messages' = index[b] /\ pc' = "writeIndex"
        /\ UNCHANGED <<disk, history, events>>
    BY <1>3 DEF MarkSeen, Begin
  <2>3. ~Adding' BY <2>2 DEF Adding
  <2>4. \A x \in Mailbox : ListInv(x)' BY <2>0, <2>2, <2>3, CallLists
  <2>5. Listing(mb)' = messages' BY <2>2 DEF Listing, disk
  <2>6. Distinct(messages)' /\ ToSet(messages)' = ToSet(index[b]) BY <2>1, <2>2 DEF Distinct, ToSet
  <2> QED BY <2>1, <2>2, <2>3, <2>4, <2>5, <2>6 DEF CallInv, Change, Writing, history
<1>4. ASSUME NEW b \in Mailbox, NEW i \in acked[b], RemoveMessage(b, i)
      PROVE  (\A x \in Mailbox : ListInv(x)') /\ CallInv' /\ pc' # "unlocked"
  <2>0. Readable(b) BY <1>4 DEF RemoveMessage
  <2>1. /\ index[b] \in Seq(Id) /\ Distinct(index[b]) /\ ToSet(index[b]) \subseteq acked[b]
        /\ b \notin cut => acked[b] \ events \subseteq ToSet(index[b])
        /\ b \notin damaged => ToSet(index[b]) \cap events = {}
    BY <2>0, IndexRead
  <2>2. PICK k \in DOMAIN index[b] : index[b][k] = i /\ Begin("remove", b, RemoveAt(index[b], k), i, "writeIndex")
    BY <1>4 DEF RemoveMessage
  <2>3. k \in 1 .. Len(index[b]) BY <2>1, Listed
  <2>4. Distinct(RemoveAt(index[b], k)) /\ ToSet(RemoveAt(index[b], k)) = ToSet(index[b]) \ {i}
    BY <2>1, <2>2, <2>3, RemoveDistinct
  <2>5. /\ call' = "remove" /\ mb' = b /\ messages' = RemoveAt(index[b], k) /\ msg' = i /\ pc' = "writeIndex"
        /\ events' = events \cup {i} /\ UNCHANGED <<disk, history>>
    BY <1>4, <2>2 DEF RemoveMessage, Begin
  <2>6. ~Adding' BY <2>5 DEF Adding
  <2>7. \A x \in Mailbox : ListInv(x)' BY <2>0, <2>5, <2>6, CallLists
  <2>8. Listing(mb)' = index[b] BY <2>5 DEF Listing, disk
  <2>9. Distinct(messages)' /\ ToSet(messages)' = ToSet(index[b]) \ {i} BY <2>4, <2>5 DEF Distinct, ToSet
  <2>10. i \in Id BY DEF IInv, TypeOK
  <2>11. Change(Listing(mb))' BY <2>2, <2>3, <2>5, <2>8 DEF Change, Writing
  <2> QED BY <2>1, <2>5, <2>6, <2>7, <2>9, <2>10, <2>11 DEF CallInv, Writing, history
<1> QED BY <1>1, <1>2, <1>3, <1>4 DEF Call

(* What is known inside a call.                                            *)
LEMMA InCall ==
    ASSUME IInv, pc # "unlocked"
    PROVE  /\ mb \in Mailbox /\ CallInv /\ ListInv(mb) /\ messages \in Seq(Id) /\ mb # None
           /\ pc # "write" => Listing(mb) = index[mb]
           /\ cut \subseteq damaged
           /\ \A b \in Mailbox \ {mb} : b # None
BY FileAssumption DEF IInv, TypeOK, Listing

(* One pass of the cap loop takes the oldest message out of the list in    *)
(* memory, and announces it.                                               *)
LEMMA CapLoopLists ==
    ASSUME IInv, CapLoop PROVE (\A x \in Mailbox : ListInv(x)') /\ CallInv' /\ pc' # "unlocked"
<1> USE DEF Elsewhere
<1>1. mb \in Mailbox /\ CallInv /\ ListInv(mb) /\ messages \in Seq(Id) /\ Listing(mb) = index[mb] /\ cut \subseteq damaged
  BY InCall DEF CapLoop
<1>2. messages # <<>>
  <2>1. Cap > 0 /\ Len(messages) >= Cap /\ Cap \in Nat BY FileAssumption DEF CapLoop, OverCap
  <2> QED BY <2>1, EmptySeq
<1> DEFINE h == Head(messages)
<1>3. /\ 1 \in 1 .. Len(messages) /\ messages[1] = h /\ RemoveAt(messages, 1) = Tail(messages) /\ h \in Id
  BY <1>1, <1>2, TailRemoves
<1>4. call = "add" /\ ~Adding /\ Distinct(messages) /\ ToSet(messages) \subseteq acked[mb]
  BY <1>1 DEF CapLoop, CallInv, Writing
<1>5. Distinct(Tail(messages)) /\ ToSet(Tail(messages)) = ToSet(messages) \ {h}
  <2>1. Distinct(RemoveAt(messages, 1)) /\ ToSet(RemoveAt(messages, 1)) = ToSet(messages) \ {messages[1]}
    BY <1>1, <1>3, <1>4, RemoveDistinct
  <2> QED BY <1>3, <2>1
<1>6. /\ messages' = Tail(messages) /\ msg' = h /\ events' = events \cup {h} /\ pc' = "writeIndex" /\ pc = "cap"
      /\ UNCHANGED <<call, mb, disk, history>>
  BY DEF CapLoop
<1>7. h \in ToSet(messages) BY <1>1, <1>3, Listed
<1> HIDE DEF h
<1>8. ToSet(messages)' = ToSet(messages) \ {h} /\ Distinct(messages)' BY <1>5, <1>6 DEF ToSet, Distinct
<1>9. ~Adding' BY <1>6, <1>8 DEF Adding
<1>10. Listing(mb)' = Listing(mb) BY <1>1, <1>6 DEF Listing, disk
<1>11. Unlisted(mb) = {} /\ Unlisted(mb)' = {} BY <1>4, <1>6, <1>9 DEF Unlisted
<1>12. ListInv(mb)'
  <2>1. mb \notin damaged => raw'[mb] = ToSet(Listing(mb)) \cup Unlisted(mb)' BY <1>1, <1>6, <1>11 DEF ListInv, disk
  <2> QED BY <1>1, <1>6, <1>10, <2>1, ListingKept DEF disk, history
<1>13. \A x \in Mailbox : ListInv(x)'
  <2>1. events' \subseteq events \cup acked[mb] BY <1>4, <1>6, <1>7
  <2> QED BY <1>1, <1>6, <1>12, <2>1, OtherLists DEF disk, history
<1>14. mb \notin damaged => ToSet(messages') \cap events' = {} /\ Change(Listing(mb))'
  <2> SUFFICES ASSUME mb \notin damaged PROVE ToSet(messages') \cap events' = {} /\ Change(Listing(mb))' OBVIOUS
  <2>1. ToSet(messages) \cap events = {} /\ messages = Listing(mb)
    BY <1>1, <1>6 DEF CallInv, Change, Writing
  <2>2. ToSet(messages') \cap events' = {} BY <1>6, <1>8, <2>1
  <2>3. Change(Listing(mb))' BY <1>2, <1>4, <1>6, <1>9, <1>10, <2>1 DEF Change, Writing, h
  <2> QED BY <2>2, <2>3
<1>15. mb \notin cut => acked[mb] \ events' \subseteq ToSet(messages') BY <1>1, <1>6, <1>8 DEF CallInv
<1> QED BY <1>3, <1>4, <1>6, <1>8, <1>9, <1>13, <1>14, <1>15 DEF CallInv, Writing, history

(* The message has its id and no raw file.                                 *)
LEMMA NewMessageLists ==
    ASSUME IInv, NewMessage PROVE (\A x \in Mailbox : ListInv(x)') /\ CallInv' /\ pc' # "unlocked"
<1>1. mb \in Mailbox /\ CallInv /\ ListInv(mb) /\ messages \in Seq(Id) /\ Listing(mb) = index[mb]
  BY InCall DEF NewMessage
<1>2. /\ pc = "cap" /\ pc' = "create" /\ dir' = dir \cup {mb} /\ UNCHANGED <<call, mb, messages, index, raw, events, history>>
      /\ ~OverCap
  BY DEF NewMessage
<1>3. call = "add" /\ ~Adding /\ ToSet(messages) \subseteq acked[mb] BY <1>1, <1>2 DEF CallInv, Writing
<1>4. ~Adding'
  <2>1. IdInv' BY NextIds DEF Next, Continue
  <2>2. msg' \notin acked[mb] BY <1>1, <1>2, <2>1 DEF IdInv, Fresh, Returned, history
  <2> QED BY <1>2, <1>3, <2>2 DEF Adding
<1>5. Listing(mb)' = Listing(mb) BY <1>1, <1>2 DEF Listing
<1>6. Unlisted(mb) = {} /\ Unlisted(mb)' = {} BY <1>2, <1>3, <1>4 DEF Unlisted
<1>7. ListInv(mb)'
  <2>1. mb \notin damaged => raw'[mb] = ToSet(Listing(mb)) \cup Unlisted(mb)' BY <1>1, <1>2, <1>6 DEF ListInv
  <2> QED BY <1>1, <1>2, <1>5, <2>1, ListingKept DEF history
<1>8. \A x \in Mailbox : ListInv(x)' BY <1>1, <1>2, <1>7, OtherLists DEF history
<1>9. Cap > 0 => Len(messages) < Cap
  <2>1. Len(messages) \in Nat BY <1>1, LenProperties
  <2> QED BY <1>2, <2>1, FileAssumption DEF OverCap
<1>10. mb \notin damaged => Change(Listing(mb))'
  BY <1>1, <1>2, <1>4, <1>5 DEF CallInv, Change, Writing
<1> QED BY <1>1, <1>2, <1>3, <1>4, <1>8, <1>9, <1>10 DEF CallInv, Writing, Distinct, history

(* The raw file is there and the message at the end of the list in memory. *)
LEMMA CreateRawLists ==
    ASSUME IInv, CreateRaw PROVE (\A x \in Mailbox : ListInv(x)') /\ CallInv' /\ pc' # "unlocked"
<1>1. mb \in Mailbox /\ CallInv /\ ListInv(mb) /\ messages \in Seq(Id) /\ Listing(mb) = index[mb]
  BY InCall DEF CreateRaw
<1>2. /\ pc = "create" /\ pc' = "writeIndex" /\ raw' = [raw EXCEPT ![mb] = @ \cup {msg}]
      /\ messages' = Append(messages, msg) /\ UNCHANGED <<call, mb, msg, index, dir, events, history>>
  BY DEF CreateRaw, Elsewhere
<1>3. call = "add" /\ ~Adding /\ ToSet(messages) \subseteq acked[mb] /\ Distinct(messages)
  BY <1>1, <1>2 DEF CallInv, Writing
<1>4. msg \in Id /\ msg \notin Returned BY <1>2 DEF IInv, IdInv, Fresh
<1>5. msg \notin acked[mb] /\ msg \notin events BY <1>1, <1>4 DEF Returned, IInv, IdInv
<1>6. /\ Distinct(messages') /\ messages' # <<>> /\ messages'[Len(messages')] = msg
      /\ ToSet(messages') = ToSet(messages) \cup {msg}
  BY <1>1, <1>2, <1>3, <1>4, <1>5, AppendDistinct
<1>7. Adding' BY <1>2, <1>3, <1>6 DEF Adding
<1>8. Listing(mb)' = Listing(mb) BY <1>1, <1>2 DEF Listing
<1>9. Unlisted(mb) = {} /\ Unlisted(mb)' = {msg} BY <1>2, <1>3, <1>7 DEF Unlisted
<1>r. raw \in [Mailbox -> SUBSET Id] BY DEF IInv, TypeOK
<1>10. ListInv(mb)'
  <2>1. mb \notin damaged => raw'[mb] = ToSet(Listing(mb)) \cup Unlisted(mb)' BY <1>1, <1>2, <1>9, <1>r DEF ListInv
  <2> QED BY <1>1, <1>2, <1>8, <2>1, ListingKept DEF history
<1>11. \A x \in Mailbox : ListInv(x)' BY <1>1, <1>2, <1>10, <1>r, OtherLists DEF history
<1>12. mb \notin damaged => Change(Listing(mb))' /\ ToSet(messages') \cap events' = {}
  <2> SUFFICES ASSUME mb \notin damaged PROVE Change(Listing(mb))' /\ ToSet(messages') \cap events' = {} OBVIOUS
  <2>1. ToSet(messages) \cap events = {} /\ messages = Listing(mb)
    BY <1>1, <1>2 DEF CallInv, Change, Writing
  <2> QED BY <1>2, <1>5, <1>6, <1>7, <1>8, <2>1 DEF Change, Writing
<1>13. Distinct(messages)' /\ ToSet(messages)' = ToSet(messages') BY <1>6 DEF Distinct, ToSet
<1> QED BY <1>1, <1>2, <1>3, <1>4, <1>6, <1>7, <1>11, <1>12, <1>13 DEF CallInv, Writing, history

(* The index is truncated: the list that others see is the one before.     *)
LEMMA OpenIndexLists ==
    ASSUME IInv, OpenIndex PROVE (\A x \in Mailbox : ListInv(x)') /\ CallInv' /\ pc' # "unlocked"
<1>1. mb \in Mailbox /\ CallInv /\ ListInv(mb) /\ messages \in Seq(Id) /\ Listing(mb) = index[mb]
  BY InCall DEF OpenIndex
<1>2. /\ pc = "writeIndex" /\ pc' = "write" /\ messages # <<>> /\ dir' = dir \cup {mb} /\ previous' = index[mb]
      /\ index' = [index EXCEPT ![mb] = Torn]
      /\ UNCHANGED <<call, mb, messages, msg, raw, events, acked, cut, damaged>>
  BY DEF OpenIndex, Step, Elsewhere
<1>3. Listing(mb)' = Listing(mb) BY <1>1, <1>2 DEF Listing
<1>4. (Adding' <=> Adding) /\ Unlisted(mb)' = Unlisted(mb) BY <1>2 DEF Adding, Unlisted
<1>t. index \in [Mailbox -> Seq(Id) \cup {Torn}] BY DEF IInv, TypeOK
<1>5. ListInv(mb)'
  <2>1. mb \notin damaged => raw'[mb] = ToSet(Listing(mb)) \cup Unlisted(mb)'
    <3>1. mb \notin damaged => raw[mb] = ToSet(Listing(mb)) \cup Unlisted(mb) BY <1>1 DEF ListInv
    <3> QED BY <1>2, <1>4, <3>1
  <2> QED BY <1>1, <1>2, <1>3, <2>1, ListingKept
<1>6. \A x \in Mailbox : ListInv(x)' BY <1>1, <1>2, <1>5, <1>t, OtherLists
<1>7. mb \notin damaged => Change(Listing(mb))'
  <2> SUFFICES ASSUME mb \notin damaged PROVE Change(Listing(mb))' OBVIOUS
  <2>1. Change(Listing(mb)) BY <1>1 DEF CallInv
  <2> QED BY <1>2, <1>3, <1>4, <2>1 DEF Change, Writing
<1>8. index'[mb] = Torn BY <1>1, <1>2, <1>t
<1>9. Distinct(messages)' /\ ToSet(messages)' = ToSet(messages) BY <1>1, <1>2 DEF CallInv, Distinct, ToSet
<1> QED BY <1>1, <1>2, <1>4, <1>6, <1>7, <1>8, <1>9 DEF CallInv, Writing

(* The same of a mailbox by its name, which outlives the call.             *)
LEMMA CallOn ==
    ASSUME IInv, pc # "unlocked"
    PROVE  \E c \in Mailbox :
             /\ c = mb /\ c # None /\ CallInv /\ ListInv(c) /\ messages \in Seq(Id) /\ cut \subseteq damaged
             /\ pc # "write" => Listing(c) = index[c]
             /\ Listing(c) = Listing(mb) /\ (Adding \/ pc = "remove" => Unlisted(c) = {msg})
             /\ (~Adding /\ pc # "remove" => Unlisted(c) = {})
             /\ \A b \in Mailbox \ {c} : b # mb /\ b # None
BY InCall, FileAssumption DEF IInv, Unlisted

(* A call that ends without having changed the mailbox's list.             *)
LEMMA EndLists ==
    ASSUME IInv, NEW c \in Mailbox, c = mb, pc \in {"create", "remove", "writeIndex"},
           pc' \in {"unlocked", "cap"}, mb' \in {mb, None}, ~Adding',
           UNCHANGED <<index, dir, events, acked, previous>>,
           cut \subseteq cut', damaged \subseteq damaged',
           \A b \in Mailbox \ {c} : raw'[b] = raw[b],
           c \notin damaged' => ToSet(messages) = ToSet(Listing(c)) /\ raw'[c] = ToSet(Listing(c))
    PROVE  \A x \in Mailbox : ListInv(x)'
<1>1. CallInv /\ ListInv(c) /\ Listing(c) = index[c] /\ \A b \in Mailbox : b # None
  BY InCall, FileAssumption
<1>2. Listing(c)' = Listing(c) BY <1>1 DEF Listing
<1>3. Unlisted(c)' = {} BY DEF Unlisted
<1>4. c \notin damaged' => ToSet(Listing(c)) \cap events = {} BY <1>1 DEF CallInv
<1>5. ListInv(c)' BY <1>1, <1>2, <1>3, <1>4, ListingKept
<1>6. \A b \in Mailbox \ {c} : b # mb /\ b # mb' BY <1>1
<1> QED BY <1>5, <1>6, OtherLists

(* Creating the raw file fails.                                            *)
LEMMA CreateRawFailsLists ==
    ASSUME IInv, CreateRawFails PROVE (\A x \in Mailbox : ListInv(x)') /\ pc' = "unlocked"
<1>1. PICK c \in Mailbox : /\ c = mb /\ CallInv /\ ListInv(c) /\ Listing(c) = Listing(mb)
                           /\ (~Adding /\ pc # "remove" => Unlisted(c) = {})
  BY CallOn DEF CreateRawFails
<1>2. pc = "create" /\ pc' = "unlocked" /\ mb' = None /\ call' = "none" /\ UNCHANGED <<disk, events, history>>
  BY DEF CreateRawFails, Return
<1>3. ~Adding /\ ~Adding' BY <1>1, <1>2 DEF CallInv, Writing, Adding
<1>4. c \notin damaged => messages = Listing(c) BY <1>1, <1>2 DEF CallInv, Change, Writing
<1>5. c \notin damaged => raw[c] = ToSet(Listing(c)) BY <1>1, <1>2, <1>3 DEF ListInv
<1> QED BY <1>1, <1>2, <1>3, <1>4, <1>5, EndLists DEF disk, history

(* The last file that was not listed goes.                                 *)
LEMMA RemoveRawLists ==
    ASSUME IInv, RemoveRaw PROVE (\A x \in Mailbox : ListInv(x)') /\ (pc' # "unlocked" => CallInv')
<1>1. PICK c \in Mailbox : /\ c = mb /\ CallInv /\ ListInv(c) /\ Listing(c) = Listing(mb) /\ messages \in Seq(Id)
                           /\ (Adding \/ pc = "remove" => Unlisted(c) = {msg})
                           /\ Listing(c) = index[c]
  BY CallOn DEF RemoveRaw
<1>2. pc = "remove" /\ raw' = [raw EXCEPT ![mb] = @ \ {msg}] /\ Removed /\ UNCHANGED <<index, dir, events, history>>
  BY DEF RemoveRaw
<1>3. ~Adding /\ msg \notin ToSet(messages) BY <1>1, <1>2 DEF CallInv, Writing
<1>4. \/ call = "add" /\ pc' = "cap" /\ UNCHANGED <<call, mb, messages, msg>>
      \/ pc' = "unlocked" /\ mb' = None /\ call' = "none"
  BY <1>2 DEF Removed, Step, Return
<1>5. ~Adding' BY <1>3, <1>4 DEF Adding
<1>6. c \notin damaged => messages = Listing(c) BY <1>1, <1>2 DEF CallInv, Change, Writing
<1>r. raw \in [Mailbox -> SUBSET Id] BY DEF IInv, TypeOK
<1>7. c \notin damaged => raw'[c] = ToSet(Listing(c))
  <2> SUFFICES ASSUME c \notin damaged PROVE raw'[c] = ToSet(Listing(c)) OBVIOUS
  <2>1. raw[c] = ToSet(messages) \cup {msg} BY <1>1, <1>2, <1>6 DEF ListInv
  <2> QED BY <1>1, <1>2, <1>3, <1>6, <1>r, <2>1
<1>8. \A x \in Mailbox : ListInv(x)'
  BY <1>1, <1>2, <1>4, <1>5, <1>6, <1>7, <1>r, EndLists DEF history
<1>9. ASSUME pc' # "unlocked" PROVE CallInv'
  <2>1. call = "add" /\ pc' = "cap" /\ UNCHANGED <<call, mb, messages, msg>> BY <1>4, <1>9
  <2>2. Listing(mb)' = Listing(mb) BY <1>1, <1>2, <2>1 DEF Listing
  <2>3. mb \notin damaged => Change(Listing(mb))' BY <1>1, <1>2, <1>6, <2>1, <2>2 DEF Change
  <2>4. Distinct(messages)' /\ ToSet(messages)' = ToSet(messages) BY <1>1, <2>1 DEF CallInv, Distinct, ToSet
  <2> QED BY <1>1, <1>2, <1>3, <1>5, <2>1, <2>3, <2>4 DEF CallInv, Writing, history
<1> QED BY <1>8, <1>9

(* A mailbox with a new list.                                              *)
LEMMA ListChanged ==
    ASSUME NEW c \in Mailbox, NEW list, Listing(c)' = list,
           list # Torn => /\ Distinct(list) /\ ToSet(list) \subseteq acked'[c]
                          /\ Cap > 0 => Len(list) <= Cap,
           c \notin cut' => list # Torn /\ acked'[c] \ events' \subseteq ToSet(list),
           c \notin damaged' =>
              /\ raw'[c] = ToSet(list) \cup Unlisted(c)'
              /\ list # <<>> => c \in dir'
              /\ (pc' = "unlocked" \/ c # mb') => ToSet(list) \cap events' = {}
    PROVE  ListInv(c)'
<1>1. Distinct(Listing(c))' = Distinct(list) /\ ToSet(Listing(c))' = ToSet(list) /\ Len(Listing(c))' = Len(list)
  BY DEF Distinct, ToSet
<1> QED BY <1>1 DEF ListInv

(* What the write is going to make of the list, as sets.                   *)
LEMMA ChangeAsSets ==
    ASSUME IInv, Writing, mb \notin damaged
    PROVE  LET list == Listing(mb) IN
           /\ list \in Seq(Id) /\ Distinct(list)
           /\ call = "add" /\ Adding => ToSet(messages) = ToSet(list) \cup {msg}
           /\ call = "add" /\ ~Adding => ToSet(list) = ToSet(messages) \cup {msg} /\ messages = RemoveAt(list, 1)
           /\ call = "remove" => ToSet(list) = ToSet(messages) \cup {msg}
           /\ call = "purge" => messages = <<>>
           /\ call = "markSeen" => messages = list
           /\ call \in {"add", "remove", "purge", "markSeen"}
<1> DEFINE list == Listing(mb)
<1>1. mb \in Mailbox /\ CallInv /\ ListInv(mb) /\ messages \in Seq(Id) BY InCall DEF Writing
<1>2. list # Torn /\ Distinct(list) /\ ToSet(list) \subseteq acked[mb] BY <1>1 DEF ListInv, IInv
<1>3. list \in Seq(Id) BY <1>1, <1>2 DEF Listing, IInv, TypeOK
<1>4. Change(list) BY <1>1 DEF CallInv
<1> HIDE DEF list
<1>5. pc \notin {"cap", "create", "remove"} BY DEF Writing
<1>6. CASE Adding /\ messages = Append(list, msg)
  <2>1. msg \in Id /\ msg \notin ToSet(list) /\ call = "add"
    BY <1>1, <1>2, <1>6 DEF IInv, IdInv, Fresh, Returned, Adding
  <2>2. ToSet(messages) = ToSet(list) \cup {msg} BY <1>2, <1>3, <1>6, <2>1, AppendDistinct
  <2> QED BY <1>2, <1>3, <1>6, <2>1, <2>2 DEF list
<1>7. CASE call = "add" /\ ~Adding /\ list # <<>> /\ msg = Head(list) /\ messages = Tail(list)
  <2>1. 1 \in 1 .. Len(list) /\ list[1] = msg /\ messages = RemoveAt(list, 1) BY <1>3, <1>7, TailRemoves
  <2>2. ToSet(messages) = ToSet(list) \ {msg} BY <1>2, <1>3, <2>1, RemoveDistinct
  <2>3. msg \in ToSet(list) BY <1>3, <2>1, Listed
  <2> QED BY <1>2, <1>3, <1>7, <2>1, <2>2, <2>3 DEF list
<1>8. CASE call = "remove" /\ \E k \in 1 .. Len(list) : list[k] = msg /\ messages = RemoveAt(list, k)
  <2>1. PICK k \in 1 .. Len(list) : list[k] = msg /\ messages = RemoveAt(list, k) BY <1>8
  <2>2. ToSet(messages) = ToSet(list) \ {msg} BY <1>2, <1>3, <2>1, RemoveDistinct
  <2>3. msg \in ToSet(list) BY <1>3, <2>1, Listed
  <2> QED BY <1>2, <1>3, <1>8, <2>2, <2>3 DEF list
<1>9. CASE call = "purge" /\ messages = <<>> BY <1>2, <1>3, <1>9 DEF list
<1>10. CASE call = "markSeen" /\ messages = list BY <1>2, <1>3, <1>10 DEF list
<1> QED BY <1>4, <1>5, <1>6, <1>7, <1>8, <1>9, <1>10 DEF Change

(* The list in memory becomes the list of the mailbox.                     *)
LEMMA WriteIndexLists ==
    ASSUME IInv, WriteIndex PROVE (\A x \in Mailbox : ListInv(x)') /\ (pc' # "unlocked" => CallInv')
<1>1. PICK c \in Mailbox : /\ c = mb /\ c # None /\ CallInv /\ ListInv(c) /\ Listing(c) = Listing(mb) /\ messages \in Seq(Id)
                           /\ (Adding \/ pc = "remove" => Unlisted(c) = {msg})
                           /\ (~Adding /\ pc # "remove" => Unlisted(c) = {})
                           /\ \A b \in Mailbox \ {c} : b # mb /\ b # None
  BY CallOn DEF WriteIndex
<1>2. /\ pc = "write" /\ index' = [index EXCEPT ![mb] = messages]
      /\ acked' = IF Adding THEN [acked EXCEPT ![mb] = @ \cup {msg}] ELSE acked
      /\ UNCHANGED <<raw, dir, events, cut, damaged>>
  BY DEF WriteIndex, Elsewhere
<1>t. TypeOK /\ cut \subseteq damaged BY DEF IInv
<1>3. \/ /\ call = "remove" \/ (call = "add" /\ ~Adding)
         /\ pc' = "remove" /\ UNCHANGED <<call, mb, messages, msg>>
      \/ /\ ~(call = "remove" \/ (call = "add" /\ ~Adding))
         /\ pc' = "unlocked" /\ mb' = None /\ call' = "none"
  BY DEF WriteIndex, Step, Return
<1>4. Listing(c)' = messages BY <1>1, <1>2, <1>3, <1>t DEF Listing, TypeOK
<1>5. acked'[c] = IF Adding THEN acked[c] \cup {msg} ELSE acked[c] BY <1>1, <1>2, <1>t DEF TypeOK
<1>6. /\ Distinct(messages) /\ ToSet(messages) \subseteq acked'[c]
      /\ Cap > 0 => Len(messages) <= Cap
  BY <1>1, <1>5, <1>t DEF CallInv, TypeOK
<1>7. messages # Torn BY <1>1, FileAssumption
<1>8. c \notin cut' => acked'[c] \ events' \subseteq ToSet(messages) BY <1>1, <1>2, <1>5 DEF CallInv, Adding
<1>9. ~Adding' BY <1>3 DEF Adding
<1>10. Unlisted(c)' = IF pc' = "remove" THEN {msg} ELSE {} BY <1>1, <1>3, <1>9 DEF Unlisted
<1>11. c \notin damaged' =>
         /\ raw'[c] = ToSet(messages) \cup Unlisted(c)' /\ c \in dir' /\ ToSet(messages) \cap events' = {}
  <2> SUFFICES ASSUME c \notin damaged
               PROVE  raw[c] = ToSet(messages) \cup Unlisted(c)' /\ c \in dir /\ ToSet(messages) \cap events = {}
    BY <1>2
  <2>1. raw[c] = ToSet(Listing(mb)) \cup Unlisted(c) BY <1>1 DEF ListInv
  <2>2. messages # <<>> /\ c \in dir /\ ToSet(messages) \cap events = {} BY <1>1, <1>2 DEF CallInv
  <2>3. Writing BY <1>2 DEF Writing
  <2>4. CASE Adding
    <3>1. call = "add" BY <2>4 DEF Adding
    <3>2. ToSet(messages) = ToSet(Listing(mb)) \cup {msg} BY <1>1, <2>3, <2>4, <3>1, ChangeAsSets
    <3> QED BY <1>1, <1>3, <1>10, <2>1, <2>2, <2>4, <3>1, <3>2
  <2>5. CASE call = "remove" \/ (call = "add" /\ ~Adding)
    <3>1. ToSet(Listing(mb)) = ToSet(messages) \cup {msg} /\ ~Adding BY <1>1, <2>3, <2>5, ChangeAsSets DEF Adding
    <3> QED BY <1>1, <1>2, <1>3, <1>10, <2>1, <2>2, <2>5, <3>1
  <2>6. CASE call = "markSeen"
    <3>1. messages = Listing(mb) /\ ~Adding BY <1>1, <2>3, <2>6, ChangeAsSets DEF Adding
    <3> QED BY <1>1, <1>2, <1>3, <1>10, <2>1, <2>2, <2>6, <3>1
  <2>7. CASE call = "purge" BY <1>1, <2>2, <2>3, <2>7, ChangeAsSets
  <2>8. call \in {"add", "remove", "purge", "markSeen"} BY <1>1, <2>3, ChangeAsSets
  <2> QED BY <2>4, <2>5, <2>6, <2>7, <2>8
<1>12. ListInv(c)' BY <1>4, <1>6, <1>7, <1>8, <1>11, ListChanged
<1>13. \A x \in Mailbox : ListInv(x)'
  <2>1. \A b \in Mailbox \ {c} : b # mb' /\ index'[b] = index[b] /\ acked'[b] = acked[b]
    BY <1>1, <1>2, <1>3, <1>t DEF TypeOK
  <2> QED BY <1>1, <1>2, <1>12, <2>1, OtherLists
<1>14. ASSUME pc' # "unlocked" PROVE CallInv'
  <2>1. /\ call = "remove" \/ (call = "add" /\ ~Adding)
        /\ pc' = "remove" /\ UNCHANGED <<call, mb, messages, msg>>
    BY <1>3, <1>14
  <2>2. ~Adding /\ acked' = acked BY <1>2, <2>1 DEF Adding
  <2>3. Listing(mb)' = messages BY <1>1, <1>4, <2>1
  <2>4. mb \notin damaged => Change(Listing(mb))' BY <2>1, <2>3 DEF Change
  <2>5. Distinct(messages)' /\ ToSet(messages)' = ToSet(messages) BY <1>1, <2>1 DEF CallInv, Distinct, ToSet
  <2>6. msg \in Id /\ msg \notin ToSet(messages) /\ messages # <<>>
    BY <1>1, <1>2, <2>1, <2>2 DEF CallInv, Writing, Adding
  <2> QED BY <1>1, <1>2, <1>9, <2>1, <2>2, <2>4, <2>5, <2>6 DEF CallInv, Writing
<1> QED BY <1>13, <1>14

(* The list is empty: the directory goes.                                  *)
LEMMA RemoveDirLists ==
    ASSUME IInv, RemoveDir PROVE (\A x \in Mailbox : ListInv(x)') /\ (pc' # "unlocked" => CallInv')
<1>1. PICK c \in Mailbox : /\ c = mb /\ c # None /\ CallInv /\ ListInv(c) /\ messages \in Seq(Id)
                           /\ \A b \in Mailbox \ {c} : b # mb /\ b # None
  BY CallOn DEF RemoveDir
<1>t. TypeOK BY DEF IInv
<1>2. /\ pc = "writeIndex" /\ messages = <<>> /\ index' = [index EXCEPT ![mb] = <<>>]
      /\ raw' = [raw EXCEPT ![mb] = {}] /\ dir' = dir \ {mb} /\ UNCHANGED <<events, history>>
  BY DEF RemoveDir, Elsewhere
<1>3. \/ call = "add" /\ pc' = "cap" /\ UNCHANGED <<call, mb, messages, msg>>
      \/ pc' = "unlocked" /\ mb' = None /\ call' = "none"
  BY DEF RemoveDir, Removed, Step, Return
<1>4. ToSet(messages) = {} /\ ToSet(<<>>) = {} /\ Distinct(<<>>) /\ Len(<<>>) = 0 /\ <<>> \in Seq(Id)
  BY <1>2, EmptySeq DEF ToSet, Distinct
<1>5. ~Adding /\ ~Adding' BY <1>3, <1>4 DEF Adding, ToSet
<1>6. Listing(c)' = <<>> BY <1>1, <1>2, <1>3, <1>t DEF Listing, TypeOK
<1>7. Unlisted(c)' = {} BY <1>3, <1>5 DEF Unlisted
<1>8. c \notin cut' => acked'[c] \ events' \subseteq ToSet(<<>>)
  BY <1>1, <1>2, <1>4 DEF CallInv, history
<1>9. <<>> # Torn /\ raw'[c] = {} BY <1>1, <1>2, <1>4, <1>t, FileAssumption DEF TypeOK
<1>10. ListInv(c)'
  <2>1. Cap > 0 => Len(<<>>) <= Cap BY <1>4, FileAssumption
  <2> QED BY <1>4, <1>6, <1>7, <1>8, <1>9, <2>1, ListChanged
<1>11. \A x \in Mailbox : ListInv(x)'
  <2>1. \A b \in Mailbox \ {c} : /\ b # mb' /\ index'[b] = index[b] /\ raw'[b] = raw[b]
                                 /\ b \in dir => b \in dir'
    BY <1>1, <1>2, <1>3, <1>t DEF TypeOK
  <2> QED BY <1>1, <1>2, <1>10, <2>1, OtherLists DEF history
<1>12. ASSUME pc' # "unlocked" PROVE CallInv'
  <2>1. call = "add" /\ pc' = "cap" /\ UNCHANGED <<call, mb, messages, msg>> BY <1>3, <1>12
  <2>2. Change(Listing(mb))' BY <1>1, <1>2, <1>6, <2>1 DEF Change
  <2>3. Distinct(messages)' /\ ToSet(messages)' = {} BY <1>1, <1>4, <2>1 DEF CallInv, Distinct, ToSet
  <2> QED BY <1>1, <1>2, <1>4, <1>5, <2>1, <2>2, <2>3 DEF CallInv, Writing, history
<1> QED BY <1>11, <1>12

(* On a mailbox that a failure interrupted, a call knows little, and what  *)
(* it knows does not depend on the disk.                                   *)
LEMMA DamagedCall ==
    ASSUME IInv, CallInv, ~Adding, call = "add", pc' = "cap", UNCHANGED <<call, mb, messages, msg, acked, events>>,
           mb \in damaged', cut \subseteq cut'
    PROVE  CallInv'
<1>1. ~Adding' BY DEF Adding
<1>2. Distinct(messages)' /\ ToSet(messages)' = ToSet(messages) BY DEF CallInv, Distinct, ToSet
<1> QED BY <1>1, <1>2 DEF CallInv, Writing

(* The index could not be opened: the list is the one before.              *)
LEMMA OpenIndexFailsLists ==
    ASSUME IInv, OpenIndexFails PROVE (\A x \in Mailbox : ListInv(x)') /\ (pc' # "unlocked" => CallInv')
<1>1. PICK c \in Mailbox : c = mb /\ CallInv BY CallOn DEF OpenIndexFails
<1>2. /\ pc = "writeIndex" /\ damaged' = damaged \cup {mb} /\ GiveUp
      /\ UNCHANGED <<index, dir, events, acked, previous, cut>>
  BY DEF OpenIndexFails, Interrupted, Elsewhere
<1>3. \/ ~Adding /\ call = "add" /\ pc' = "cap" /\ UNCHANGED <<call, mb, messages, msg>>
      \/ pc' = "unlocked" /\ mb' = None /\ call' = "none"
  BY <1>2 DEF GiveUp, Removed, Step, Return
<1>4. ~Adding' BY <1>3 DEF Adding
<1>5. \A b \in Mailbox \ {c} : raw'[b] = raw[b] BY <1>1, <1>2 DEF GiveUp, IInv, TypeOK
<1>6. \A x \in Mailbox : ListInv(x)' BY <1>1, <1>2, <1>3, <1>4, <1>5, EndLists
<1>7. ASSUME pc' # "unlocked" PROVE CallInv' BY <1>1, <1>2, <1>3, <1>7, DamagedCall
<1> QED BY <1>6, <1>7

(* What is left of an index that was cut is a list of the mailbox, if it   *)
(* is one.                                                                 *)
LEMMA PartialList ==
    ASSUME IInv, pc = "write", NEW left \in Partial, left # Torn
    PROVE  /\ Distinct(left) /\ ToSet(left) \subseteq acked[mb]
           /\ Cap > 0 => Len(left) <= Cap
<1>1. mb \in Mailbox /\ CallInv /\ messages \in Seq(Id) BY InCall
<1>2. PICK k \in 0 .. Len(messages) - 1 : left = SubSeq(messages, 1, k) BY DEF Partial
<1>3. Distinct(messages) /\ ToSet(messages) \subseteq acked[mb] \cup (IF Adding THEN {messages[Len(messages)]} ELSE {})
  BY <1>1 DEF CallInv
<1>4. Distinct(left) /\ Len(left) = k /\ ToSet(left) \subseteq ToSet(messages) \ {messages[Len(messages)]}
  BY <1>1, <1>2, <1>3, PrefixDistinct
<1>5. Cap > 0 => Len(left) <= Cap
  <2>1. Len(messages) \in Nat BY <1>1, LenProperties
  <2>2. Cap > 0 => Len(messages) <= Cap BY DEF IInv, TypeOK
  <2> QED BY <1>4, <2>1, <2>2, FileAssumption
<1> QED BY <1>3, <1>4, <1>5

(* A mailbox whose index has been cut.                                     *)
LEMMA CutList ==
    ASSUME IInv, pc = "write", NEW c \in Mailbox, c = mb, NEW left \in Partial,
           index' = [index EXCEPT ![mb] = left], UNCHANGED acked,
           cut' = cut \cup {mb}, damaged' = damaged \cup {mb}, pc' # "write"
    PROVE  ListInv(c)'
<1>1. Listing(c)' = left BY DEF Listing, IInv, TypeOK
<1>2. left # Torn => /\ Distinct(left) /\ ToSet(left) \subseteq acked'[c]
                     /\ Cap > 0 => Len(left) <= Cap
  BY PartialList
<1> QED BY <1>1, <1>2, ListChanged

(* The index was not written to its end: the mailbox is cut.               *)
LEMMA WriteIndexFailsLists ==
    ASSUME IInv, WriteIndexFails PROVE (\A x \in Mailbox : ListInv(x)') /\ (pc' # "unlocked" => CallInv')
<1>1. PICK c \in Mailbox : c = mb /\ CallInv /\ \A b \in Mailbox \ {c} : b # mb /\ b # None
  BY CallOn DEF WriteIndexFails
<1>2. /\ pc = "write" /\ damaged' = damaged \cup {mb} /\ cut' = cut \cup {mb} /\ GiveUp
      /\ UNCHANGED <<dir, events, acked>>
  BY DEF WriteIndexFails, Interrupted, Elsewhere
<1>3. \/ ~Adding /\ call = "add" /\ pc' = "cap" /\ UNCHANGED <<call, mb, messages, msg>>
      \/ pc' = "unlocked" /\ mb' = None /\ call' = "none"
  BY <1>2 DEF GiveUp, Removed, Step, Return
<1>4. PICK left \in Partial : index' = [index EXCEPT ![mb] = left] BY DEF WriteIndexFails
<1>5. ListInv(c)' BY <1>1, <1>2, <1>3, <1>4, CutList
<1>6. \A b \in Mailbox \ {c} : b # mb' /\ index'[b] = index[b] /\ raw'[b] = raw[b]
  BY <1>1, <1>2, <1>3, <1>4 DEF GiveUp, IInv, TypeOK
<1>7. \A x \in Mailbox : ListInv(x)' BY <1>1, <1>2, <1>5, <1>6, OtherLists
<1>8. ASSUME pc' # "unlocked" PROVE CallInv' BY <1>1, <1>2, <1>3, <1>8, DamagedCall
<1> QED BY <1>7, <1>8

(* A mailbox whose directory is half gone has no message that would still  *)
(* have to be there.                                                       *)
LEMMA HalfGone ==
    ASSUME IInv, NEW c \in Mailbox, c = mb, pc = "writeIndex", messages = <<>>,
           \E list \in {index[mb], <<>>} : index' = [index EXCEPT ![mb] = list],
           UNCHANGED <<acked, events, cut>>, damaged' = damaged \cup {mb}, pc' # "write"
    PROVE  ListInv(c)'
<1>1. CallInv /\ ListInv(c) /\ Listing(c) = index[c] BY InCall
<1>2. PICK list \in {index[mb], <<>>} : index' = [index EXCEPT ![mb] = list] OBVIOUS
<1>3. Listing(c)' = list BY <1>2 DEF Listing, IInv, TypeOK
<1>4. <<>> \in Seq(Id) /\ Len(<<>>) = 0 /\ Distinct(<<>>) /\ ToSet(<<>>) = {} BY EmptySeq DEF Distinct, ToSet
<1>5. c \notin cut => acked[c] \ events = {} BY <1>1, <1>4 DEF CallInv
<1>6. list # Torn => /\ Distinct(list) /\ ToSet(list) \subseteq acked'[c]
                     /\ Cap > 0 => Len(list) <= Cap
  BY <1>1, <1>2, <1>4, FileAssumption DEF ListInv
<1>7. c \notin cut' => list # Torn /\ acked'[c] \ events' \subseteq ToSet(list)
  BY <1>1, <1>2, <1>4, <1>5, FileAssumption DEF ListInv
<1> QED BY <1>3, <1>6, <1>7, ListChanged

(* Some files of an emptied mailbox are left.                              *)
LEMMA RemoveDirFailsLists ==
    ASSUME IInv, RemoveDirFails PROVE (\A x \in Mailbox : ListInv(x)') /\ (pc' # "unlocked" => CallInv')
<1>1. PICK c \in Mailbox : c = mb /\ CallInv /\ \A b \in Mailbox \ {c} : b # mb /\ b # None
  BY CallOn DEF RemoveDirFails
<1>2. /\ pc = "writeIndex" /\ messages = <<>> /\ damaged' = damaged \cup {mb} /\ SomeFilesGone
      /\ UNCHANGED <<dir, events, acked, cut>>
  BY DEF RemoveDirFails, Interrupted, Elsewhere
<1>n. ~Adding BY <1>2, EmptySeq DEF Adding, ToSet
<1>3. \/ call = "add" /\ pc' = "cap" /\ UNCHANGED <<call, mb, messages, msg>>
      \/ pc' = "unlocked" /\ mb' = None /\ call' = "none"
  BY DEF RemoveDirFails, Removed, Step, Return
<1>4. ListInv(c)' BY <1>1, <1>2, <1>3, HalfGone DEF SomeFilesGone
<1>5. \A b \in Mailbox \ {c} : b # mb' /\ index'[b] = index[b] /\ raw'[b] = raw[b]
  BY <1>1, <1>2, <1>3 DEF SomeFilesGone, IInv, TypeOK
<1>6. \A x \in Mailbox : ListInv(x)' BY <1>1, <1>2, <1>4, <1>5, OtherLists
<1>7. ASSUME pc' # "unlocked" PROVE CallInv' BY <1>1, <1>2, <1>3, <1>n, <1>7, DamagedCall
<1> QED BY <1>6, <1>7

(* The process dies in the middle of a call.                               *)
LEMMA CrashLists == ASSUME IInv, Crash PROVE (\A x \in Mailbox : ListInv(x)') /\ pc' = "unlocked"
<1>1. PICK c \in Mailbox : /\ c = mb /\ c # None /\ CallInv /\ ListInv(c) /\ (pc # "write" => Listing(c) = index[c])
                           /\ \A b \in Mailbox \ {c} : b # mb /\ b # None
  BY CallOn DEF Crash
<1>2. /\ pc' = "unlocked" /\ mb' = None /\ damaged' = damaged \cup {mb} /\ UNCHANGED <<dir, events, acked>>
      /\ cut' = IF pc = "write" THEN cut \cup {mb} ELSE cut
  BY DEF Crash, Return, Interrupted
<1>3. ListInv(c)'
  <2>1. CASE pc = "write"
    <3>1. PICK left \in Partial : index' = [index EXCEPT ![mb] = left] BY <2>1 DEF Crash
    <3> QED BY <1>1, <1>2, <2>1, <3>1, CutList
  <2>2. CASE pc = "writeIndex" /\ messages = <<>>
    BY <1>1, <1>2, <2>2, HalfGone DEF Crash, SomeFilesGone
  <2>3. CASE pc # "write" /\ ~(pc = "writeIndex" /\ messages = <<>>)
    <3>1. index' = index BY <2>3 DEF Crash
    <3>2. Listing(c)' = Listing(c) BY <1>1, <1>2, <2>3, <3>1 DEF Listing
    <3> QED BY <1>1, <1>2, <2>3, <3>2, ListingKept
  <2> QED BY <2>1, <2>2, <2>3
<1>4. \A b \in Mailbox \ {c} : index'[b] = index[b] /\ raw'[b] = raw[b]
  BY <1>1 DEF Crash, SomeFilesGone, IInv, TypeOK
<1> QED BY <1>1, <1>2, <1>3, <1>4, OtherLists

(* The scan and the clock change nothing of this.                          *)
LEMMA IdleLists ==
    ASSUME IInv, Scan \/ Tick \/ UNCHANGED vars
    PROVE  (\A x \in Mailbox : ListInv(x)') /\ (pc' # "unlocked" => CallInv') /\ UNCHANGED <<pc, call>>
<1>1. UNCHANGED <<disk, events, caller, history>>
  <2>1. CASE Scan BY <2>1 DEF Scan, VisitMailboxes, ReadLevel1, ScanDone, ReadLevel2, Visit, ScanOnly
  <2>2. CASE Tick BY <2>2 DEF Tick
  <2>3. CASE UNCHANGED vars BY <2>3 DEF vars, disk, caller, history
  <2> QED BY <2>1, <2>2, <2>3
<1>2. (Adding' <=> Adding) /\ \A x \in Mailbox : Listing(x)' = Listing(x) /\ Unlisted(x)' = Unlisted(x)
  BY <1>1 DEF Adding, Listing, Unlisted, disk, caller, history
<1>3. ASSUME NEW x \in Mailbox PROVE ListInv(x)'
  <2>1. ListInv(x) BY DEF IInv
  <2>2. UNCHANGED <<raw, dir, events, pc, mb, acked, cut, damaged>> BY <1>1 DEF disk, caller, history
  <2>3. x \notin damaged' => /\ raw'[x] = ToSet(Listing(x)) \cup Unlisted(x)'
                             /\ (pc' = "unlocked" \/ x # mb') => ToSet(Listing(x)) \cap events' = {}
    BY <1>2, <2>1, <2>2 DEF ListInv
  <2> QED BY <1>2, <2>1, <2>2, <2>3, ListingKept
<1>4. ASSUME pc # "unlocked" PROVE CallInv'
  <2>1. CallInv /\ mb \in Mailbox BY <1>4, InCall
  <2>2. UNCHANGED <<index, dir, events, pc, call, mb, messages, msg, acked, cut, damaged>>
    BY <1>1 DEF disk, caller, history
  <2>3. Listing(mb)' = Listing(mb) BY <1>2, <2>1, <2>2
  <2>4. Distinct(messages)' = Distinct(messages) /\ ToSet(messages)' = ToSet(messages)
    BY <2>2 DEF Distinct, ToSet
  <2>5. Change(Listing(mb))' <=> Change(Listing(mb))
    BY <1>2, <2>2, <2>3 DEF Change, Writing
  <2> QED BY <1>2, <2>1, <2>2, <2>4, <2>5 DEF CallInv, Writing
<1> QED BY <1>1, <1>3, <1>4 DEF caller

-----------------------------------------------------------------------------
(* The invariant *)

LEMMA InitIInv == Init => IInv
<1> SUFFICES ASSUME Init PROVE IInv OBVIOUS
<1>1. TypeOK /\ IdInv BY InitType, InitIds
<1>2. ScanInv /\ cut \subseteq damaged BY DEF Init, ScanInv, ScanComplete
<1>3. ~Adding BY DEF Init, Adding
<1>4. <<>> \in Seq(Id) /\ Len(<<>>) = 0 /\ Distinct(<<>>) /\ ToSet(<<>>) = {} /\ <<>> # Torn
  <2>1. <<>> \in Seq(Id) /\ Len(<<>>) = 0 /\ Distinct(<<>>) /\ ToSet(<<>>) = {}
    BY EmptySeq DEF Distinct, ToSet
  <2> QED BY <2>1, FileAssumption
<1>5. ASSUME NEW b \in Mailbox PROVE ListInv(b)
  <2>1. Listing(b) = <<>> /\ Unlisted(b) = {} /\ raw[b] = {} /\ acked[b] = {}
    BY FileAssumption DEF Init, Listing, Unlisted
  <2> QED BY <1>4, <2>1, FileAssumption DEF ListInv
<1> QED BY <1>1, <1>2, <1>3, <1>5 DEF IInv, Init, Fresh

LEMMA NextIInv == ASSUME IInv, [Next]_vars PROVE IInv'
<1>1. TypeOK' /\ IdInv' /\ ScanInv' BY NextType, NextIds, NextScan
<1>2. cut' \subseteq damaged'
  <2>1. cut \subseteq damaged BY DEF IInv
  <2>2. UNCHANGED <<cut, damaged>> \/ (damaged' = damaged \cup {mb} /\ cut' \subseteq cut \cup {mb})
    <3>1. CASE Call
      BY <3>1 DEF Call, AddMessage, RemoveMessage, PurgeMessages, MarkSeen, history
    <3>2. CASE Continue
      BY <3>2 DEF Continue, CapLoop, NewMessage, CreateRaw, CreateRawFails, OpenIndex, WriteIndex, RemoveDir,
                  RemoveRaw, history
    <3>3. CASE OpenIndexFails \/ WriteIndexFails \/ RemoveDirFails
      BY <3>3 DEF OpenIndexFails, WriteIndexFails, RemoveDirFails, Interrupted
    <3>4. CASE Crash BY <3>4 DEF Crash, Interrupted
    <3>5. CASE Scan
      BY <3>5 DEF Scan, VisitMailboxes, ReadLevel1, ScanDone, ReadLevel2, Visit, ScanOnly, history
    <3>6. CASE Tick \/ UNCHANGED vars BY <3>6 DEF Tick, history, vars
    <3> QED BY <3>1, <3>2, <3>3, <3>4, <3>5, <3>6 DEF Next
  <2> QED BY <2>1, <2>2
<1>3. (\A b \in Mailbox : ListInv(b)') /\ (pc' # "unlocked" => CallInv')
  <2>1. CASE Call BY <2>1, CallsBegin
  <2>2. CASE Continue
    BY <2>2, CapLoopLists, NewMessageLists, CreateRawLists, CreateRawFailsLists, OpenIndexLists,
       WriteIndexLists, RemoveDirLists, RemoveRawLists DEF Continue
  <2>3. CASE OpenIndexFails \/ WriteIndexFails \/ RemoveDirFails \/ Crash
    BY <2>3, OpenIndexFailsLists, WriteIndexFailsLists, RemoveDirFailsLists, CrashLists
  <2>4. CASE Scan \/ Tick \/ UNCHANGED vars BY <2>4, IdleLists
  <2> QED BY <2>1, <2>2, <2>3, <2>4 DEF Next
<1>4. pc' = "unlocked" => ~Fresh' /\ call' = "none"
  <2> SUFFICES ASSUME pc' = "unlocked" PROVE call' = "none" BY DEF Fresh, Adding
  <2>1. CASE Call BY <2>1, CallsBegin
  <2>2. CASE Continue \/ OpenIndexFails \/ WriteIndexFails \/ RemoveDirFails \/ Crash
    <3>1. Return \/ pc' # "unlocked"
      BY <2>2 DEF Continue, CapLoop, NewMessage, CreateRaw, CreateRawFails, OpenIndex, WriteIndex, RemoveDir,
         RemoveRaw, Crash, OpenIndexFails, WriteIndexFails, RemoveDirFails, GiveUp, Removed, Step
    <3> QED BY <3>1 DEF Return
  <2>3. CASE Scan \/ Tick \/ UNCHANGED vars BY <2>3, IdleLists DEF IInv
  <2> QED BY <2>1, <2>2, <2>3 DEF Next
<1> QED BY <1>1, <1>2, <1>3, <1>4 DEF IInv

LEMMA Invariant == Spec => []IInv
<1>1. IInv /\ [Next]_vars => IInv' BY NextIInv
<1> QED BY InitIInv, <1>1, PTL DEF Spec

-----------------------------------------------------------------------------
(* What a mailbox is between two calls *)

(* The three parts of ListInv, for a mailbox that no call is about.        *)
LEMMA BetweenCalls ==
    ASSUME IInv, pc = "unlocked", NEW b \in Mailbox
    PROVE  /\ b \notin damaged =>
                /\ raw[b] = ToSet(index[b]) /\ ToSet(index[b]) = acked[b] \ events
                /\ index[b] # <<>> => b \in dir
                /\ index[b] \in Seq(Id) /\ Distinct(index[b])
           /\ b \notin cut => acked[b] \ events \subseteq ToSet(index[b])
<1>1. ListInv(b) /\ Listing(b) = index[b] /\ Unlisted(b) = {} /\ cut \subseteq damaged /\ TypeOK
  BY Unlocked DEF IInv, Listing
<1>2. b \notin damaged => index[b] \in Seq(Id) BY <1>1 DEF ListInv, TypeOK
<1> QED BY <1>1, <1>2 DEF ListInv

(* Between two calls the raw files are those of the messages the index     *)
(* lists, whatever failed or died on other mailboxes.                      *)
THEOREM DiskIsSound == Spec => []DiskSound
<1>1. IInv => DiskSound
  <2>1. IInv => FilesMatchIndex BY BetweenCalls DEF FilesMatchIndex
  <2> QED BY <2>1 DEF DiskSound, IInv
<1> QED BY Invariant, <1>1, PTL

(* A message whose AddMessage returned is listed, once and under its id,   *)
(* until a delete event names it, but for what a failure or a crash hit;   *)
(* and of that only where it hit the index itself.                         *)
THEOREM AcknowledgedMailStays == Spec => []MailIsKept
<1>1. IInv => ListedUntilDeleted
  <2> SUFFICES ASSUME IInv, pc = "unlocked", NEW b \in Mailbox \ damaged
               PROVE  ToSet(index[b]) = acked[b] \ events /\ Len(index[b]) = Cardinality(acked[b] \ events)
    BY DEF ListedUntilDeleted
  <2>1. ToSet(index[b]) = acked[b] \ events /\ index[b] \in Seq(Id) /\ Distinct(index[b]) BY BetweenCalls
  <2> QED BY <2>1, DistinctLength
<1>2. IInv => AckedSurvives BY BetweenCalls DEF AckedSurvives
<1> QED BY Invariant, <1>1, <1>2, PTL DEF MailIsKept

(* VisitMailboxes that returns no error has visited every mailbox that was *)
(* there from its start to its end.                                        *)
THEOREM ScansAreComplete == Spec => []ScanComplete
<1>1. IInv => ScanComplete BY DEF IInv, ScanInv
<1> QED BY Invariant, <1>1, PTL

-----------------------------------------------------------------------------
(* The storage contract, step by step *)

Boxes == [b \in Mailbox |-> Listing(b)]

(* The steps that show nothing to whoever waits for the lock.              *)
LEMMA QuietStep ==
    ASSUME NEW c \in Mailbox, Listing(c)' = Listing(c), UNCHANGED acked,
           \A b \in Mailbox \ {c} : b # mb /\ b # mb' /\ index'[b] = index[b]
    PROVE  UNCHANGED Contract!vars
<1>1. \A b \in Mailbox : Listing(b)' = Listing(b) BY DEF Listing
<1>2. Boxes' = Boxes BY <1>1 DEF Boxes
<1> QED BY <1>2 DEF Contract!vars, Boxes

(* The steps that give c a new list.                                       *)
LEMMA NewList ==
    ASSUME IInv, NEW c \in Mailbox, NEW list, Listing(c)' = list,
           \A b \in Mailbox \ {c} : b # mb /\ b # mb' /\ index'[b] = index[b]
    PROVE  Boxes' = [Boxes EXCEPT ![c] = list] /\ Boxes[c] = Listing(c)
<1>1. \A b \in Mailbox : Listing(b)' = IF b = c THEN list ELSE Listing(b) BY DEF Listing
<1>2. Boxes' = [b \in Mailbox |-> IF b = c THEN list ELSE Listing(b)] BY <1>1 DEF Boxes
<1> QED BY <1>2 DEF Boxes

(* The write of the new list is what the call promised.                    *)
LEMMA WriteIsCall ==
    ASSUME IInv, Writing, mb \notin damaged, NEW c \in Mailbox, c = mb,
           Boxes' = [Boxes EXCEPT ![c] = messages], Boxes[c] = Listing(c),
           acked' = IF Adding THEN [acked EXCEPT ![c] = @ \cup {msg}] ELSE acked
    PROVE  Contract!Next \/ UNCHANGED Contract!vars
<1> DEFINE list == Listing(c)
<1>1. /\ list \in Seq(Id) /\ CallInv /\ Change(list) /\ messages \in Seq(Id)
  BY ChangeAsSets, InCall DEF CallInv, Writing
<1>2. Contract!vars = <<Boxes, Returned, {}>> BY DEF Contract!vars, Boxes, Returned
<1>t. acked \in [Mailbox -> SUBSET Id] BY DEF IInv, TypeOK
<1>p. pc \notin {"cap", "create", "remove"} BY DEF Writing
<1> HIDE DEF list
<1>3. CASE Adding /\ messages = Append(list, msg)
  <2>1. PICK m \in Id : m = msg BY <1>3 DEF IInv, IdInv, Fresh
  <2>2. m \notin Returned BY <1>3, <2>1 DEF IInv, IdInv, Fresh
  <2>3. Contract!Newest(messages) = messages
    <3>1. Cap > 0 => Len(messages) <= Cap BY DEF IInv, TypeOK
    <3> QED BY <3>1, FileAssumption DEF Contract!Newest
  <2>4. Returned' = Returned \cup {m} BY <1>3, <1>t, <2>1 DEF Returned
  <2>5. Boxes' = [Boxes EXCEPT ![c] = Contract!Newest(Append(@, m))]
    <3>1. messages = Contract!Newest(Append(Boxes[c], m)) BY <1>3, <2>1, <2>3 DEF list
    <3> QED BY <3>1
  <2>6. Contract!AddMessage(c, m) BY <2>2, <2>4, <2>5 DEF Contract!AddMessage, Boxes, Returned
  <2> QED BY <2>6 DEF Contract!Next
<1>4. ASSUME ~Adding, msg \in Id, NEW k \in 1 .. Len(list), list[k] = msg, messages = RemoveAt(list, k)
      PROVE  Contract!Next
  <2>1. k \in DOMAIN Boxes[c] /\ Boxes[c][k] = msg BY <1>1, <1>4, Listed DEF list
  <2>2. Contract!RemoveAt(list, k) = RemoveAt(list, k) BY DEF Contract!RemoveAt, RemoveAt
  <2>3. Boxes' = [Boxes EXCEPT ![c] = Contract!RemoveAt(@, k)]
    <3>1. messages = Contract!RemoveAt(Boxes[c], k) BY <1>4, <2>2 DEF list
    <3> QED BY <3>1
  <2>4. Returned' = Returned BY <1>4 DEF Returned
  <2>5. Contract!RemoveMessage(c, msg) BY <2>1, <2>3, <2>4 DEF Contract!RemoveMessage, Boxes, Returned
  <2> QED BY <1>4, <2>5 DEF Contract!Next
<1>5. CASE call = "add" /\ ~Adding /\ list # <<>> /\ msg = Head(list) /\ messages = Tail(list)
  <2>1. 1 \in 1 .. Len(list) /\ list[1] = msg /\ messages = RemoveAt(list, 1) /\ msg \in Id
    BY <1>1, <1>5, TailRemoves
  <2> QED BY <1>4, <1>5, <2>1
<1>6. CASE call = "remove" /\ \E k \in 1 .. Len(list) : list[k] = msg /\ messages = RemoveAt(list, k)
  <2>1. ~Adding /\ msg \in Id BY <1>1, <1>6 DEF Adding, CallInv, Writing
  <2> QED BY <1>4, <1>6, <2>1
<1>7. CASE call = "purge" /\ messages = <<>>
  <2>1. ~Adding BY <1>7 DEF Adding
  <2>2. Contract!PurgeMessages(c) BY <1>7, <2>1 DEF Contract!PurgeMessages, Boxes
  <2> QED BY <2>2 DEF Contract!Next
<1>8. CASE call = "markSeen" /\ messages = list
  <2>1. ~Adding BY <1>8 DEF Adding
  <2>2. Boxes' = Boxes
    <3>1. messages = Boxes[c] BY <1>8 DEF list
    <3> QED BY <3>1 DEF Boxes
  <2> QED BY <2>1, <2>2 DEF Contract!vars, Boxes
<1> QED BY <1>1, <1>3, <1>5, <1>6, <1>7, <1>8, <1>p, Writing DEF Change

(* Every step of the file store is one of the contract, or none.           *)
LEMMA StepImplements ==
    ASSUME IInv, [Next]_vars, damaged' = {} PROVE Contract!Next \/ UNCHANGED Contract!vars
<1>t. TypeOK BY DEF IInv
<1>1. CASE Call
  <2>1. PICK b \in Mailbox : pc = "unlocked" /\ mb' = b /\ pc' # "write" /\ UNCHANGED <<disk, history>>
    BY <1>1 DEF Call, AddMessage, RemoveMessage, PurgeMessages, MarkSeen, Readable, Begin
  <2>2. \A x \in Mailbox : x # mb BY <2>1, Unlocked
  <2>3. Listing(b)' = Listing(b) BY <2>1, <2>2 DEF Listing, disk
  <2> QED BY <2>1, <2>2, <2>3, QuietStep DEF disk, history
<1>2. CASE Continue
  <2>1. PICK c \in Mailbox : /\ c = mb /\ c # None /\ CallInv /\ (pc # "write" => Listing(c) = index[c])
                             /\ \A b \in Mailbox \ {c} : b # mb /\ b # None
    BY <1>2, CallOn DEF Continue, CapLoop, NewMessage, CreateRaw, CreateRawFails, OpenIndex, WriteIndex,
                        RemoveDir, RemoveRaw
  <2>2. mb' \in {mb, None}
    BY <1>2 DEF Continue, CapLoop, NewMessage, CreateRaw, CreateRawFails, OpenIndex, WriteIndex, RemoveDir,
                RemoveRaw, Removed, Step, Return
  <2>3. \A b \in Mailbox \ {c} : b # mb /\ b # mb' BY <2>1, <2>2
  <2>4. damaged = {} BY <1>2 DEF Continue, CapLoop, NewMessage, CreateRaw, CreateRawFails, OpenIndex, WriteIndex,
                                 RemoveDir, RemoveRaw, history
  <2>5. CASE CapLoop \/ NewMessage \/ CreateRaw \/ CreateRawFails \/ RemoveRaw
    <3>1. pc # "write" /\ pc' # "write" /\ UNCHANGED <<index, acked>>
      BY <2>5 DEF CapLoop, NewMessage, CreateRaw, CreateRawFails, RemoveRaw, Removed, Step, Return, disk, history
    <3>2. Listing(c)' = Listing(c) BY <3>1 DEF Listing
    <3> QED BY <2>3, <3>1, <3>2, QuietStep
  <2>6. CASE OpenIndex
    <3>1. /\ pc = "writeIndex" /\ pc' = "write" /\ mb' = mb /\ previous' = index[mb] /\ acked' = acked
          /\ index' = [index EXCEPT ![mb] = Torn]
      BY <2>6 DEF OpenIndex, Step
    <3>2. Listing(c)' = Listing(c) BY <2>1, <3>1 DEF Listing
    <3>3. \A b \in Mailbox \ {c} : index'[b] = index[b] BY <2>1, <3>1, <1>t DEF TypeOK
    <3> QED BY <2>3, <3>1, <3>2, <3>3, QuietStep
  <2>7. CASE WriteIndex \/ RemoveDir
    <3>1. /\ Writing /\ index' = [index EXCEPT ![mb] = messages] /\ pc' # "write"
          /\ acked' = IF Adding THEN [acked EXCEPT ![mb] = @ \cup {msg}] ELSE acked
      <4>1. CASE WriteIndex BY <4>1 DEF WriteIndex, Writing, Step, Return
      <4>2. CASE RemoveDir
        <5>1. ~Adding BY <4>2, EmptySeq DEF RemoveDir, Adding, ToSet
        <5> QED BY <4>2, <5>1 DEF RemoveDir, Writing, Removed, Step, Return, history
      <4> QED BY <2>7, <4>1, <4>2
    <3>2. Listing(c)' = messages /\ \A b \in Mailbox \ {c} : index'[b] = index[b]
      BY <2>1, <3>1, <1>t DEF Listing, TypeOK
    <3>3. Boxes' = [Boxes EXCEPT ![c] = messages] /\ Boxes[c] = Listing(c) BY <2>3, <3>2, NewList
    <3> QED BY <2>1, <2>4, <3>1, <3>3, WriteIsCall
  <2> QED BY <1>2, <2>5, <2>6, <2>7 DEF Continue
<1>3. CASE OpenIndexFails \/ WriteIndexFails \/ RemoveDirFails \/ Crash
  BY <1>3 DEF OpenIndexFails, WriteIndexFails, RemoveDirFails, Crash, Interrupted
<1>4. CASE Scan \/ Tick \/ UNCHANGED vars
  <2>1. UNCHANGED <<disk, caller, history>>
    <3>1. CASE Scan BY <3>1 DEF Scan, VisitMailboxes, ReadLevel1, ScanDone, ReadLevel2, Visit, ScanOnly
    <3>2. CASE Tick BY <3>2 DEF Tick
    <3>3. CASE UNCHANGED vars BY <3>3 DEF vars, disk, caller, history
    <3> QED BY <1>4, <3>1, <3>2, <3>3
  <2>2. \A b \in Mailbox : Listing(b)' = Listing(b) BY <2>1 DEF Listing, disk, caller, history
  <2>3. Boxes' = Boxes BY <2>2 DEF Boxes
  <2> QED BY <2>1, <2>3 DEF Contract!vars, Boxes, history
<1> QED BY <1>1, <1>2, <1>3, <1>4 DEF Next

(* The file store does what storage.Store promises, step by step, as long  *)
(* as no write fails and the process lives: of a mailbox that is being     *)
(* rewritten, the list before is what it holds.                            *)
THEOREM FilesImplementTheContract == Spec => ImplementsMailStore
<1>1. Init => Contract!Init
  <2> SUFFICES ASSUME Init PROVE Contract!Init OBVIOUS
  <2>1. \A b \in Mailbox : Listing(b) = <<>> /\ acked[b] = {} BY DEF Init, Listing
  <2> QED BY <2>1 DEF Contract!Init
<1>2. IInv /\ [Next]_vars => [damaged' = {} => Contract!Next \/ UNCHANGED Contract!vars]_vars
  BY StepImplements
<1> QED BY Invariant, <1>1, <1>2, PTL DEF Spec, ImplementsMailStore
-----------------------------------------------------------------------------
(* The retention scanner *)

(* What a scan takes for expired is past the period, however long the scan *)
(* lasts, and the scanner with a period of 0 takes nothing for expired.    *)
ExpiredIsOld == \A m \in expired : m \in Msg /\ age[m] > period

OffIsStopped == period = 0 => phase = "stopped" /\ expired = {}

AgesCounted == age \in [Msg -> Nat] /\ period \in Nat

ScannerInv == AgesCounted /\ ExpiredIsOld /\ OffIsStopped

LEMMA InitScannerInv == RetentionInit => ScannerInv
BY RetentionAssumption DEF RetentionInit, ScannerInv, AgesCounted, ExpiredIsOld, OffIsStopped

(* Time only adds to an age, and all else leaves the ages alone.           *)
LEMMA TimeKeeps == ASSUME ScannerInv, TimePasses PROVE ScannerInv'
<1>1. age' \in [Msg -> Nat] /\ \A m \in Msg : age'[m] >= age[m]
  BY DEF ScannerInv, AgesCounted, TimePasses
<1>2. UNCHANGED <<period, phase, expired>> BY DEF TimePasses, scanVars, config
<1>3. \A m \in expired : m \in Msg /\ age[m] \in Nat /\ age[m] > period
  BY DEF ScannerInv, ExpiredIsOld, AgesCounted
<1>4. ExpiredIsOld'
  <2> SUFFICES ASSUME NEW m \in expired PROVE m \in Msg /\ age'[m] > period
    BY <1>2 DEF ExpiredIsOld
  <2>1. m \in Msg /\ age[m] \in Nat /\ age'[m] \in Nat /\ age'[m] >= age[m] /\ age[m] > period
    BY <1>1, <1>3
  <2> QED BY <2>1 DEF ScannerInv, AgesCounted
<1>5. AgesCounted' /\ OffIsStopped' BY <1>1, <1>2 DEF ScannerInv, AgesCounted, OffIsStopped
<1> QED BY <1>4, <1>5 DEF ScannerInv

LEMMA KickoffKeeps == ASSUME ScannerInv, Kickoff PROVE ScannerInv'
<1>1. UNCHANGED <<period, age>> BY DEF Kickoff, storeVars, config
<1>2. expired' = {m \in Stored : age[m] > period} BY DEF Kickoff
<1>3. Stored \subseteq Msg BY DEF Stored
<1>4. period # 0 BY DEF Kickoff, ScannerInv, OffIsStopped
<1> QED BY <1>1, <1>2, <1>3, <1>4 DEF ScannerInv, AgesCounted, ExpiredIsOld, OffIsStopped

(* The steps that keep the ages and at most forget what was expired.       *)
LEMMA OthersKeep ==
    ASSUME ScannerInv, UNCHANGED <<period, age>>, expired' \subseteq expired, phase = "stopped" => phase' = "stopped"
    PROVE  ScannerInv'
BY DEF ScannerInv, AgesCounted, ExpiredIsOld, OffIsStopped

(* A new message takes no place that the scan still remembers.             *)
LEMMA DeliverKeeps == ASSUME ScannerInv, NEW m \in Msg, NEW b \in Box, Deliver(m, b) PROVE ScannerInv'
<1>1. age' = [age EXCEPT ![m] = 0] /\ m \notin expired BY DEF Deliver
<1>2. UNCHANGED <<period, phase, expired>> BY DEF Deliver, scanVars, config
<1>3. \A n \in Msg \ {m} : age'[n] = age[n] BY <1>1 DEF ScannerInv, AgesCounted
<1>4. AgesCounted' /\ OffIsStopped' BY <1>1, <1>2 DEF ScannerInv, AgesCounted, OffIsStopped
<1>5. ExpiredIsOld' BY <1>1, <1>2, <1>3 DEF ScannerInv, ExpiredIsOld
<1> QED BY <1>4, <1>5 DEF ScannerInv

LEMMA ScannerInvKept == ASSUME ScannerInv, [RetentionNext]_retentionVars PROVE ScannerInv'
<1>1. CASE TimePasses BY <1>1, TimeKeeps
<1>2. CASE Kickoff BY <1>2, KickoffKeeps
<1>3. ASSUME NEW m \in Msg, RemoveByOthers(m) \/ \E b \in Box : Deliver(m, b) PROVE ScannerInv'
  BY <1>3, OthersKeep, DeliverKeeps DEF RemoveByOthers, scanVars, config
<1>4. CASE Cancel BY <1>4, OthersKeep DEF Cancel, storeVars, config, scanVars
<1>5. CASE Stops \/ VisitNext \/ EndOfBox \/ Slept
  BY <1>5, OthersKeep DEF Stops, VisitNext, EndOfBox, Slept, storeVars, config
<1>6. CASE VisitFails \/ VisitedAll \/ Aborted
  BY <1>6, OthersKeep DEF VisitFails, VisitedAll, Aborted, EndOfScan, storeVars, config
<1>7. ASSUME NEW m \in Msg, RemoveExpired(m) \/ Retain(m) PROVE ScannerInv'
  BY <1>7, OthersKeep DEF RemoveExpired, Retain, storeVars, config
<1>8. CASE UNCHANGED retentionVars BY <1>8, OthersKeep DEF retentionVars, storeVars, config, scanVars
<1> QED BY <1>1, <1>2, <1>3, <1>4, <1>5, <1>6, <1>7, <1>8 DEF RetentionNext, Scanner, Removes

(* What the scan of DoScan takes for expired is older than the period at   *)
(* every later moment of it.                                               *)
THEOREM ExpiredStaysOld == RetentionSpec => []ScannerInv
<1>1. ScannerInv /\ [RetentionNext]_retentionVars => ScannerInv' BY ScannerInvKept
<1> QED BY InitScannerInv, <1>1, PTL DEF RetentionSpec

(* RemoveMessage is called for nothing that is not past the period by then.*)
LEMMA RemovalIsOld ==
    ASSUME ScannerInv
    PROVE  Removes => \A m \in Msg : place'[m] # place[m] => period > 0 /\ age[m] > period
<1> SUFFICES ASSUME NEW r \in Msg, RemoveExpired(r), NEW m \in Msg, place'[m] # place[m]
             PROVE  period > 0 /\ age[m] > period
  BY DEF Removes
<1>1. r \in expired /\ place' = [place EXCEPT ![r] = Gone] BY DEF RemoveExpired
<1>2. m = r BY <1>1
<1>3. age[m] > period BY <1>1, <1>2 DEF ScannerInv, ExpiredIsOld
<1>4. period \in Nat /\ period # 0 BY <1>1 DEF ScannerInv, AgesCounted, OffIsStopped
<1> QED BY <1>3, <1>4

(* The scanner of retention.go removes only what is older than the         *)
(* configured period, whatever arrives and goes while it scans, and with a *)
(* period of 0 nothing.                                                    *)
THEOREM RemovesOnlyExpired == RetentionSpec => OnlyExpiredGo
<1>1. ScannerInv /\ [RetentionNext]_retentionVars => [Removes => \A m \in Msg : place'[m] # place[m] => period > 0 /\ age[m] > period]_retentionVars
  BY RemovalIsOld
<1> QED BY ExpiredStaysOld, <1>1, PTL DEF RetentionSpec, OnlyExpiredGo

LEMMA RetentionInitType == RetentionInit => RetentionTypeOK
BY RetentionAssumption DEF RetentionInit, RetentionTypeOK

LEMMA TimeType == ASSUME ScannerInv, RetentionTypeOK, TimePasses PROVE RetentionTypeOK'
<1>1. UNCHANGED <<config, period, place, phase, listing, expired>> BY DEF TimePasses, scanVars, config
<1>2. period \in Nat BY DEF ScannerInv, AgesCounted
<1>3. ASSUME NEW m \in Msg PROVE age'[m] \in 0 .. period + 1
  <2>1. age[m] \in 0 .. period + 1 BY DEF RetentionTypeOK
  <2>2. age'[m] = IF m \in Stored /\ age[m] <= period THEN age[m] + 1 ELSE age[m] BY DEF TimePasses
  <2> QED BY <1>2, <2>1, <2>2
<1>4. age' \in [Msg -> 0 .. period + 1] BY <1>3 DEF TimePasses
<1>5. since' \in 0 .. Minute BY RetentionAssumption DEF TimePasses, RetentionTypeOK
<1> QED BY <1>1, <1>4, <1>5 DEF RetentionTypeOK, config

LEMMA RetentionNextType == ASSUME ScannerInv, RetentionTypeOK, [RetentionNext]_retentionVars PROVE RetentionTypeOK'
<1>1. CASE TimePasses BY <1>1, TimeType
<1>2. CASE Kickoff BY <1>2, RetentionAssumption DEF Kickoff, RetentionTypeOK, storeVars, config, Stored
<1>3. ASSUME NEW m \in Msg, RemoveByOthers(m) PROVE RetentionTypeOK'
  BY <1>3 DEF RemoveByOthers, RetentionTypeOK, scanVars, config
<1>4. ASSUME NEW m \in Msg, NEW b \in Box, Deliver(m, b) PROVE RetentionTypeOK'
  <2>1. place' = [place EXCEPT ![m] = b] /\ age' = [age EXCEPT ![m] = 0] BY <1>4 DEF Deliver
  <2>2. 0 \in 0 .. period + 1 BY DEF ScannerInv, AgesCounted
  <2>3. UNCHANGED <<config, period, since, phase, listing, expired>> BY <1>4 DEF Deliver, scanVars, config
  <2>4. place' \in [Msg -> Box \cup {Gone}] /\ age' \in [Msg -> 0 .. period + 1]
    BY <2>1, <2>2 DEF RetentionTypeOK
  <2> QED BY <2>3, <2>4 DEF RetentionTypeOK, config
<1>5. CASE Cancel BY <1>5 DEF Cancel, RetentionTypeOK, storeVars, config, scanVars
<1>6. CASE VisitNext BY <1>6 DEF VisitNext, RetentionTypeOK, storeVars, config, In
<1>7. CASE Stops \/ EndOfBox \/ Slept BY <1>7 DEF Stops, EndOfBox, Slept, RetentionTypeOK, storeVars, config
<1>8. CASE VisitFails \/ VisitedAll \/ Aborted
  BY <1>8 DEF VisitFails, VisitedAll, Aborted, EndOfScan, RetentionTypeOK, storeVars, config
<1>9. ASSUME NEW m \in Msg, RemoveExpired(m) PROVE RetentionTypeOK' BY <1>9 DEF RemoveExpired, RetentionTypeOK, config
<1>10. ASSUME NEW m \in Msg, Retain(m) PROVE RetentionTypeOK' BY <1>10 DEF Retain, RetentionTypeOK, storeVars, config
<1>11. CASE UNCHANGED retentionVars BY <1>11 DEF retentionVars, RetentionTypeOK, storeVars, config, scanVars
<1> QED BY <1>1, <1>2, <1>3, <1>4, <1>5, <1>6, <1>7, <1>8, <1>9, <1>10, <1>11 DEF RetentionNext, Scanner, Removes

(* Every variable keeps its type: the ages stop one past the period and    *)
(* the time since the last scan at a minute.                               *)
THEOREM RetentionTypeCorrect == RetentionSpec => []RetentionTypeOK
<1>1. ScannerInv /\ RetentionTypeOK /\ [RetentionNext]_retentionVars => RetentionTypeOK' BY RetentionNextType
<1> QED BY RetentionInitType, ExpiredStaysOld, <1>1, PTL DEF RetentionSpec
=============================================================================
