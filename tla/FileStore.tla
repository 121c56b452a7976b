------------------------------ MODULE FileStore ------------------------------
(***************************************************************************)
(* The file store, pkg/storage/file, for the mailboxes behind one of its   *)
(* hash locks: the calls of the Store interface, step by step on the disk, *)
(* the scan of VisitMailboxes, which reads directories without the lock,   *)
(* and the process dying at any point.                                     *)
(*                                                                         *)
(* A mailbox is a directory with an index and one raw file per message.    *)
(* Every call reads the index, changes the list in memory, and writes the  *)
(* whole index anew; an empty list removes the directory instead.  The     *)
(* mailboxes of another lock are in other directories.  A call that finds  *)
(* an index it cannot decode returns the error and changes nothing.        *)
(***************************************************************************)
EXTENDS Integers, Sequences, FiniteSets, SequencesExt

CONSTANTS
    Mailbox,     \* mailbox names, of one hash lock
    Parent,      \* Parent[mb]: the level 2 directory of mb
    Cap,         \* config.Storage.MailboxMsgCap, 0 for no cap
    Width,       \* numbers countGenerator counts through, 10000 in the code
    MaxAdds,     \* bound: messages added
    MaxTime,     \* bound: seconds that pass
    CanFail,     \* whether a call that writes to the disk may fail, once
    CanCrash,    \* whether the process may die, once
    Torn,        \* an index that does not decode
    None

(* generateID: the second, and the next number of the counter.             *)
Id == [time : 0 .. MaxTime, n : 0 .. Width - 1]

ASSUME FileAssumption ==
    /\ DOMAIN Parent = Mailbox
    /\ Cap \in Nat /\ Width \in Nat \ {0}
    /\ MaxAdds \in Nat /\ MaxTime \in Nat
    /\ CanFail \in BOOLEAN /\ CanCrash \in BOOLEAN
    /\ None \notin Mailbox \cup Id /\ Torn \notin Seq(Id)

VARIABLES
    index,         \* index[mb]: the ids in the index file, oldest first, or Torn
    raw,           \* raw[mb]: the raw files
    dir,           \* the mailboxes whose directory exists
    events,        \* ids AfterMessageDeleted was emitted for
    pc, call, mb,  \* the call that has the lock: its step, operation, mailbox
    messages,      \* its mb.messages
    msg,           \* the message it adds or removes
    scan,          \* where VisitMailboxes is
    dirs, names,   \* level 2 directories and mailboxes it has still to visit
    now, count,    \* the clock, and countGenerator's next number
    burst,         \* auxiliary: ids generated this second
    acked,         \* auxiliary: acked[mb]: ids AddMessage has returned
    previous,      \* auxiliary: the index before it was opened for writing
    cut,           \* auxiliary: mailboxes whose index was not written to its end
    damaged,       \* auxiliary: mailboxes a failure or a crash interrupted a call on
    steady,        \* auxiliary: mailboxes that had a directory ever since the scan began
    visited        \* auxiliary: mailboxes this scan has visited

disk == <<index, raw, dir>>
caller == <<pc, call, mb, messages, msg>>
scanner == <<scan, dirs, names, visited>>
clock == <<now, count, burst>>
history == <<acked, previous, cut, damaged>>
vars == <<index, raw, dir, events, pc, call, mb, messages, msg, scan, dirs, names, visited,
          now, count, burst, acked, previous, cut, damaged, steady>>

TypeOK ==
    /\ index \in [Mailbox -> Seq(Id) \cup {Torn}]
    /\ raw \in [Mailbox -> SUBSET Id]
    /\ dir \subseteq Mailbox /\ events \subseteq Id
    /\ pc \in {"unlocked", "cap", "create", "writeIndex", "write", "remove"}
    /\ call \in {"add", "remove", "purge", "markSeen", "none"}
    /\ mb \in Mailbox \cup {None} /\ (mb = None <=> pc = "unlocked")
    /\ messages \in Seq(Id) /\ (Cap > 0 => Len(messages) <= Cap)
    /\ msg \in Id \cup {None}
    /\ scan \in {"idle", "level1", "level2", "complete", "error"}
    /\ dirs \subseteq {Parent[b] : b \in Mailbox}
    /\ {names, visited, steady, cut, damaged} \subseteq SUBSET Mailbox
    /\ now \in 0 .. MaxTime /\ count \in 0 .. Width - 1 /\ burst \in 0 .. Width
    /\ acked \in [Mailbox -> SUBSET Id]
    /\ previous \in Seq(Id) \cup {Torn}

Init ==
    /\ index = [b \in Mailbox |-> <<>>] /\ raw = [b \in Mailbox |-> {}]
    /\ dir = {} /\ events = {}
    /\ pc = "unlocked" /\ call = "none" /\ mb = None /\ messages = <<>> /\ msg = None
    /\ scan = "idle" /\ dirs = {} /\ names = {} /\ visited = {} /\ steady = {}
    /\ now = 0 /\ count = 0 /\ burst = 0
    /\ acked = [b \in Mailbox |-> {}] /\ previous = <<>> /\ cut = {} /\ damaged = {}

-----------------------------------------------------------------------------
(* Steps of a call *)

(* The lock is taken and the index read.                                   *)
Readable(b) == pc = "unlocked" /\ index[b] # Torn

Begin(op, b, list, m, step) ==
    /\ call' = op /\ mb' = b /\ messages' = list /\ msg' = m /\ pc' = step

Return == pc' = "unlocked" /\ call' = "none" /\ mb' = None /\ messages' = <<>> /\ msg' = None

Step(step) == pc' = step /\ UNCHANGED <<call, mb, messages, msg>>

Elsewhere == UNCHANGED <<scanner, now, burst>>

(* removeMessage was called by newMessage's cap loop, or by RemoveMessage. *)
Removed == IF call = "add" THEN Step("cap") ELSE Return

(* No more than Width messages are added in one second.                    *)
AddMessage(b) ==
    /\ Readable(b)
    /\ burst < Width
    /\ Begin("add", b, index[b], None, "cap")
    /\ Elsewhere /\ UNCHANGED <<disk, events, count, history, steady>>

RemoveMessage(b, i) ==
    /\ Readable(b)
    /\ \E k \in DOMAIN index[b] :
          index[b][k] = i /\ Begin("remove", b, RemoveAt(index[b], k), i, "writeIndex")
    /\ events' = events \cup {i}
    /\ Elsewhere /\ UNCHANGED <<disk, count, history, steady>>

PurgeMessages(b) ==
    /\ Readable(b)
    /\ Begin("purge", b, <<>>, None, "writeIndex")
    /\ events' = events \cup ToSet(index[b])
    /\ Elsewhere /\ UNCHANGED <<disk, count, history, steady>>

(* MarkSeen writes the index, with the flag of the message set or, when    *)
(* its id is unknown, as it was.  The flag itself is left out.             *)
MarkSeen(b) ==
    /\ Readable(b)
    /\ Begin("markSeen", b, index[b], None, "writeIndex")
    /\ Elsewhere /\ UNCHANGED <<disk, events, count, history, steady>>

(* newMessage: one pass of the cap loop calls removeMessage.               *)
OverCap_Exclusive == Cap > 0 /\ Len(messages) > Cap
OverCap == Cap > 0 /\ Len(messages) >= Cap

CapLoop ==
    /\ pc = "cap"
    /\ OverCap
    /\ messages' = Tail(messages)
    /\ msg' = Head(messages)
    /\ events' = events \cup {Head(messages)}
    /\ pc' = "writeIndex"
    /\ Elsewhere /\ UNCHANGED <<call, mb, disk, count, history, steady>>

(* generateID                                                              *)
NextId_OfCounter == [time |-> 0, n |-> count]
NextId == [time |-> now, n |-> count]

(* The rest of newMessage, and createDir.                                  *)
NewMessage ==
    /\ pc = "cap"
    /\ ~OverCap
    /\ msg' = NextId
    /\ count' = (count + 1) % Width
    /\ burst' = burst + 1
    /\ dir' = dir \cup {mb}
    /\ pc' = "create"
    /\ UNCHANGED <<call, mb, messages, index, raw, events, scanner, now, history, steady>>

(* The raw file is complete, and the message joins the list.               *)
CreateRaw_AnswersFirst ==
    /\ pc = "create"
    /\ raw' = [raw EXCEPT ![mb] = @ \cup {msg}]
    /\ messages' = Append(messages, msg)
    /\ acked' = [acked EXCEPT ![mb] = @ \cup {msg}]
    /\ pc' = "writeIndex"
    /\ Elsewhere /\ UNCHANGED <<call, mb, msg, index, dir, events, count, previous, cut, damaged, steady>>

CreateRaw_NewestFirst ==
    /\ pc = "create"
    /\ raw' = [raw EXCEPT ![mb] = @ \cup {msg}]
    /\ messages' = <<msg>> \o messages
    /\ pc' = "writeIndex"
    /\ Elsewhere /\ UNCHANGED <<call, mb, msg, index, dir, events, count, history, steady>>

CreateRaw ==
    /\ pc = "create"
    /\ raw' = [raw EXCEPT ![mb] = @ \cup {msg}]
    /\ messages' = Append(messages, msg)
    /\ pc' = "writeIndex"
    /\ Elsewhere /\ UNCHANGED <<call, mb, msg, index, dir, events, count, history, steady>>

(* It could not be created or written: it is removed, the call fails.      *)
CreateRawFails ==
    /\ CanFail
    /\ pc = "create"
    /\ Return
    /\ Elsewhere /\ UNCHANGED <<disk, events, count, history, steady>>

(* writeIndex: os.Create truncates the index.                              *)
OpenIndex ==
    /\ pc = "writeIndex"
    /\ messages # <<>>
    /\ dir' = dir \cup {mb}
    /\ previous' = index[mb]
    /\ index' = [index EXCEPT ![mb] = Torn]
    /\ Step("write")
    /\ Elsewhere /\ UNCHANGED <<raw, events, count, acked, cut, damaged, steady>>

(* The index is encoded and flushed.  An addition is done with that, a     *)
(* removal has still to remove the raw file.                               *)
Adding == call = "add" /\ msg \in ToSet(messages)

WriteIndex ==
    /\ pc = "write"
    /\ index' = [index EXCEPT ![mb] = messages]
    /\ IF call = "remove" \/ (call = "add" /\ ~Adding) THEN Step("remove") ELSE Return
    /\ acked' = IF Adding THEN [acked EXCEPT ![mb] = @ \cup {msg}] ELSE acked
    /\ previous' = <<>>
    /\ Elsewhere /\ UNCHANGED <<raw, dir, events, count, cut, damaged, steady>>

(* An empty list: removeDir, and with the directory all raw files.         *)
RemoveDir ==
    /\ pc = "writeIndex"
    /\ messages = <<>>
    /\ index' = [index EXCEPT ![mb] = <<>>]
    /\ raw' = [raw EXCEPT ![mb] = {}]
    /\ dir' = dir \ {mb}
    /\ steady' = steady \ {mb}
    /\ Removed
    /\ Elsewhere /\ UNCHANGED <<events, count, history>>

(* removeMessage's os.Remove.                                              *)
RemoveRaw_OnlyForRemove ==
    /\ pc = "remove"
    /\ raw' = IF call = "remove" THEN [raw EXCEPT ![mb] = @ \ {msg}] ELSE raw
    /\ Removed
    /\ Elsewhere /\ UNCHANGED <<index, dir, events, count, history, steady>>

RemoveRaw ==
    /\ pc = "remove"
    /\ raw' = [raw EXCEPT ![mb] = @ \ {msg}]
    /\ Removed
    /\ Elsewhere /\ UNCHANGED <<index, dir, events, count, history, steady>>

-----------------------------------------------------------------------------
(* Failures *)

(* What is left of an index that was not written to its end.               *)
Partial == {Torn} \cup {SubSeq(messages, 1, k) : k \in 0 .. Len(messages) - 1}

Interrupted == damaged' = damaged \cup {mb}

(* writeIndex fails: the addition removes its raw file, the cap loop logs  *)
(* the error and goes on with the list it has in memory.                   *)
GiveUp ==
    /\ raw' = IF Adding THEN [raw EXCEPT ![mb] = @ \ {msg}] ELSE raw
    /\ IF Adding THEN Return ELSE Removed

(* The index cannot be opened and stays as it was.                         *)
OpenIndexFails ==
    /\ CanFail /\ damaged = {}
    /\ pc = "writeIndex"
    /\ messages # <<>>
    /\ GiveUp
    /\ Interrupted
    /\ Elsewhere /\ UNCHANGED <<index, dir, events, count, acked, previous, cut, steady>>

(* It is not written to its end.                                           *)
WriteIndexFails ==
    /\ CanFail /\ damaged = {}
    /\ pc = "write"
    /\ \E left \in Partial : index' = [index EXCEPT ![mb] = left]
    /\ GiveUp
    /\ cut' = cut \cup {mb} /\ previous' = <<>>
    /\ Interrupted
    /\ Elsewhere /\ UNCHANGED <<dir, events, count, acked, steady>>

(* RemoveAll, interrupted or failing, has removed some of the files.       *)
SomeFilesGone ==
    /\ \E left \in SUBSET raw[mb] : raw' = [raw EXCEPT ![mb] = left]
    /\ \E i \in {index[mb], <<>>} : index' = [index EXCEPT ![mb] = i]

RemoveDirFails ==
    /\ CanFail /\ damaged = {}
    /\ pc = "writeIndex"
    /\ messages = <<>>
    /\ SomeFilesGone
    /\ Removed
    /\ Interrupted
    /\ Elsewhere /\ UNCHANGED <<dir, events, count, acked, previous, cut, steady>>

(* The process dies, by a panic, a signal, or os.Exit when draining takes  *)
(* too long; the next one starts in a later second, and counts from 0.     *)
Crash ==
    /\ CanCrash /\ damaged = {}
    /\ pc # "unlocked" /\ now < MaxTime
    /\ IF pc = "writeIndex" /\ messages = <<>> THEN SomeFilesGone
       ELSE IF pc = "write" THEN \E left \in Partial : index' = [index EXCEPT ![mb] = left] /\ UNCHANGED raw
       ELSE IF pc = "create" THEN \E r \in {{}, {msg}} : raw' = [raw EXCEPT ![mb] = @ \cup r] /\ UNCHANGED index
       ELSE UNCHANGED <<index, raw>>
    /\ cut' = IF pc = "write" THEN cut \cup {mb} ELSE cut
    /\ Interrupted /\ previous' = <<>>
    /\ Return
    /\ scan' = "idle" /\ dirs' = {} /\ names' = {} /\ visited' = {} /\ steady' = {}
    /\ now' = now + 1 /\ count' = 0 /\ burst' = 0
    /\ UNCHANGED <<dir, events, acked>>

-----------------------------------------------------------------------------
(* VisitMailboxes *)

ScanOnly == UNCHANGED <<disk, events, caller, clock, history>>

ScanEnds(how) == scan' = how /\ dirs' = {} /\ names' = {}

(* readDirNames of the root: with no level 1 directory there is no mail.   *)
VisitMailboxes ==
    /\ scan \in {"idle", "complete", "error"}
    /\ visited' = {}
    /\ steady' = dir
    /\ IF dir = {} THEN ScanEnds("complete") ELSE scan' = "level1" /\ UNCHANGED <<dirs, names>>
    /\ ScanOnly

(* readDirNames of the level 1 directory, which goes with the last below.  *)
ReadLevel1 ==
    /\ scan = "level1"
    /\ IF dir = {} THEN ScanEnds("error")
       ELSE scan' = "level2" /\ dirs' = {Parent[b] : b \in dir} /\ UNCHANGED names
    /\ ScanOnly /\ UNCHANGED <<visited, steady>>

ReadLevel2_Eager(d) ==
    /\ scan = "level2" /\ d \in dirs
    /\ names' = {b \in dir : Parent[b] = d}
    /\ dirs' = dirs \ {d}
    /\ ScanOnly /\ UNCHANGED <<scan, visited, steady>>

ReadLevel2(d) ==
    /\ scan = "level2" /\ names = {}
    /\ d \in dirs
    /\ IF \E b \in dir : Parent[b] = d
       THEN names' = {b \in dir : Parent[b] = d} /\ dirs' = dirs \ {d} /\ UNCHANGED scan
       ELSE ScanEnds("error")
    /\ ScanOnly /\ UNCHANGED <<visited, steady>>

(* getMessages under the read lock.  A mailbox that has gone meanwhile is  *)
(* an empty one; the visitor may stop the scan.                            *)
Visit(b) ==
    /\ scan = "level2"
    /\ b \in names
    /\ pc = "unlocked"
    /\ IF index[b] = Torn
       THEN ScanEnds("error") /\ UNCHANGED visited
       ELSE /\ visited' = visited \cup {b}
            /\ \/ ScanEnds("idle")
               \/ names' = names \ {b} /\ UNCHANGED <<scan, dirs>>
    /\ ScanOnly /\ UNCHANGED steady

ScanDone ==
    /\ scan = "level2" /\ names = {} /\ dirs = {}
    /\ ScanEnds("complete")
    /\ ScanOnly /\ UNCHANGED <<visited, steady>>

-----------------------------------------------------------------------------
Tick ==
    /\ now < MaxTime
    /\ now' = now + 1
    /\ burst' = 0
    /\ UNCHANGED <<disk, events, caller, scanner, count, history, steady>>

Call ==
    \E b \in Mailbox :
        \/ Cardinality(UNION {acked[c] : c \in Mailbox}) < MaxAdds /\ AddMessage(b)
        \/ PurgeMessages(b) \/ MarkSeen(b)
        \/ \E i \in acked[b] : RemoveMessage(b, i)

Continue == CapLoop \/ NewMessage \/ CreateRaw \/ CreateRawFails \/ OpenIndex \/ WriteIndex \/ RemoveDir \/ RemoveRaw

Scan ==
    \/ VisitMailboxes \/ ReadLevel1 \/ ScanDone
    \/ \E d \in dirs : ReadLevel2(d)
    \/ \E b \in names : Visit(b)

Next == Call \/ Continue \/ OpenIndexFails \/ WriteIndexFails \/ RemoveDirFails \/ Crash \/ Scan \/ Tick

Spec == Init /\ [][Next]_vars

-----------------------------------------------------------------------------
(* Properties *)

(* No raw file is left behind and none is missing: between two calls, a    *)
(* mailbox has the raw files of exactly the messages its index lists, with *)
(* deliveries that failed and messages over the cap cleaned up.            *)
FilesMatchIndex ==
    pc = "unlocked" => \A b \in Mailbox \ damaged :
        /\ raw[b] = ToSet(index[b])
        /\ index[b] # <<>> => b \in dir

(* The disk between two calls: its index, its raw files, its directories.  *)
DiskSound == TypeOK /\ FilesMatchIndex

(* An id names one message for ever: those of a mailbox are the ids that   *)
(* AddMessage returned and no delete event has named, each listed once,    *)
(* and nothing comes back under the id of a message that is gone.          *)
ListedUntilDeleted ==
    pc = "unlocked" => \A b \in Mailbox \ damaged :
        /\ ToSet(index[b]) = acked[b] \ events
        /\ Len(index[b]) = Cardinality(acked[b] \ events)

(* Whatever a crash or a failure interrupts, a message whose AddMessage    *)
(* returned stays listed until its deletion is announced, unless it hit    *)
(* the writing of that very index.                                         *)
AckedSurvives ==
    pc = "unlocked" => \A b \in Mailbox \ cut : acked[b] \ events \subseteq ToSet(index[b])

(* Mail that was acknowledged is there, under its id, until its deletion   *)
(* is announced.                                                           *)
MailIsKept == ListedUntilDeleted /\ AckedSurvives

(* A scan that ends without an error has visited every mailbox that was    *)
(* there all the time, whatever was added and removed around it.           *)
ScanComplete == scan = "complete" => steady \subseteq visited

(* What b holds for whoever waits for the lock: the index that is being    *)
(* rewritten is still the one before.                                      *)
Listing(b) == IF pc = "write" /\ b = mb THEN previous ELSE index[b]

(* The storage contract: while the index is being rewritten nobody sees    *)
(* it, and the cap loop is a removal of its own.                           *)
Contract == INSTANCE MailStore WITH
    Message <- Id,
    seen <- {},
    box <- [b \in Mailbox |-> Listing(b)],
    used <- UNION {acked[b] : b \in Mailbox}

ImplementsMailStore == Contract!Init /\ [][damaged' = {} => Contract!Next \/ UNCHANGED Contract!vars]_vars
=============================================================================
