------------------------------- MODULE WebApi -------------------------------
(***************************************************************************)
(* The HTTP side of one mailbox: the REST handlers of                      *)
(* pkg/rest/apiv1_controller.go, the web UI's of                           *)
(* pkg/webui/mailbox_controller.go, the message manager between them and   *)
(* the store, and what the Go client of pkg/rest/client asks for.  A       *)
(* handler that reads a message makes two steps, finding the message and   *)
(* opening its source; mail arrives and goes between them, and the disk     *)
(* under a file store may fail.  A message is its id, ids are given in the *)
(* order of arrival.                                                       *)
(***************************************************************************)
EXTENDS Integers, FiniteSets

CONSTANTS
    Caller,   \* clients with one request at a time
    MaxId,    \* bound: messages that ever arrive
    Garbled   \* those of them that enmime.ReadEnvelope does not parse

Id == 1 .. MaxId

ASSUME ApiAssumption == MaxId \in Nat /\ Garbled \subseteq Id

None == 0
Latest == -1    \* stands for the id "latest"

(* GET .../{id}, .../{id}/source; of the web UI, .../{id}, .../{id}/html,  *)
(* .../{id}/source and .../{id}/attach/{num}, of an attachment it has.     *)
ApiReads == {"show", "source"}
UiReads == {"ui show", "ui html", "ui source", "ui attach"}
Reads == ApiReads \cup UiReads

(* PATCH says seen or not.                                                 *)
Writes == {"delete", "seen", "not seen"}
OnMailbox == {"list", "purge"}

(* What may be wrong with a request itself: a mailbox name that            *)
(* MailboxForAddress does not parse; a PATCH without a body to decode, as  *)
(* the Go client's; an attachment's number that is none, or that is not    *)
(* one of the message's.                                                   *)
FlawsOf(op) ==
    {"none", "name"} \cup (IF op = "seen" THEN {"body"} ELSE {})
                     \cup (IF op = "ui attach" THEN {"number", "no such number"} ELSE {})

VARIABLES
    kind,    \* config.Storage.Type
    box,     \* messages in the mailbox
    last,    \* id of the newest message ever
    seen,    \* messages marked as seen
    faulty,  \* calls to the file system may fail here, or have left damage
    step,    \* of each caller's request: idle, asked, found, answered
    ask,     \* what it asks for
    found,   \* the message that GetMessage returned
    answer,  \* the reply
    since,   \* the mailbox's contents since the request was made
    trouble  \* whether faulty has been TRUE since the request was made

storeVars == <<box, last, seen, faulty>>
requestVars == <<step, ask, found, answer, since, trouble>>
vars == <<kind, storeVars, requestVars>>

Ask == {a \in [op : Reads \cup Writes \cup OnMailbox, id : Id \cup {Latest, None},
                flaw : {"none", "name", "body", "number", "no such number"}] :
            (a.op \in OnMailbox <=> a.id = None) /\ a.flaw \in FlawsOf(a.op)}

Reply(code, msg, list) == [code |-> code, msg |-> msg, list |-> list]
NoReply == Reply("none", None, {})

Newest(b) == CHOOSE i \in b : \A j \in b : j <= i

(* Mutant: "latest" is the first of the listing.                           *)
GetMessage_First(b, id) ==
    IF id = Latest THEN IF b = {} THEN None ELSE CHOOSE i \in b : \A j \in b : i <= j
    ELSE IF id \in b THEN id ELSE None

(* Store.GetMessage, with b in the mailbox.                                *)
GetMessage(b, id) ==
    IF id = Latest THEN IF b = {} THEN None ELSE Newest(b)
    ELSE IF id \in b THEN id ELSE None

Busy(c) == step[c] \in {"asked", "found"}

(* The mailbox becomes b: whoever waits for an answer lives through it.    *)
BoxBecomes(b) ==
    /\ box' = b
    /\ since' = [c \in Caller |-> IF Busy(c) THEN since[c] \cup {b} ELSE since[c]]

(* What a call of the store takes for the mailbox: readIndex ignores any   *)
(* error of os.Stat, as if the mailbox were not there.                     *)
Indexes == IF faulty THEN {box, {}} ELSE {box}

(* What a call that fails while it makes b of the mailbox leaves: nothing  *)
(* was written, or the index of b from the oldest message on to some one.  *)
Remains(b) == {box} \cup {{j \in b : j < i} : i \in 1 .. last + 1}

Init ==
    /\ kind \in {"memory", "file"}
    /\ box = {} /\ last = 0 /\ seen = {} /\ faulty = FALSE
    /\ step = [c \in Caller |-> "idle"]
    /\ ask = [c \in Caller |-> [op |-> "list", id |-> None, flaw |-> "none"]]
    /\ found = [c \in Caller |-> None]
    /\ answer = [c \in Caller |-> NoReply]
    /\ since = [c \in Caller |-> {}]
    /\ trouble = [c \in Caller |-> FALSE]

-----------------------------------------------------------------------------
(* The mailbox under the handlers *)

Deliver ==
    /\ last < MaxId
    /\ last' = last + 1
    /\ \E b \in Indexes : BoxBecomes(b \cup {last + 1})
    /\ UNCHANGED <<seen, faulty, step, ask, found, answer, trouble>>

(* POP3, the retention scan, a message cap.                                *)
RemoveByOthers(i) ==
    /\ i \in box
    /\ BoxBecomes(box \ {i})
    /\ UNCHANGED <<last, seen, faulty, step, ask, found, answer, trouble>>

(* A delivery or a removal of theirs that fails.                           *)
WriteFails ==
    /\ faulty
    /\ \E i \in Id : \E b \in Remains(box \ {i}) : BoxBecomes(b)
    /\ UNCHANGED <<last, seen, faulty, step, ask, found, answer, trouble>>

DiskFails ==
    /\ kind = "file" /\ ~faulty
    /\ faulty' = TRUE
    /\ trouble' = [c \in Caller |-> trouble[c] \/ Busy(c)]
    /\ UNCHANGED <<box, last, seen, step, ask, found, answer, since>>

(* Every call succeeds again, and what was damaged has been made good.     *)
DiskRecovers ==
    /\ faulty
    /\ faulty' = FALSE
    /\ UNCHANGED <<box, last, seen, requestVars>>

-----------------------------------------------------------------------------
(* Requests *)

Request(c, a) ==
    /\ ~Busy(c)
    /\ step' = [step EXCEPT ![c] = "asked"]
    /\ ask' = [ask EXCEPT ![c] = a]
    /\ found' = [found EXCEPT ![c] = None]
    /\ answer' = [answer EXCEPT ![c] = NoReply]
    /\ since' = [since EXCEPT ![c] = {box}]
    /\ trouble' = [trouble EXCEPT ![c] = faulty]
    /\ UNCHANGED storeVars

Asked(c, ops) == step[c] = "asked" /\ ask[c].op \in ops

Answer(c, r) ==
    /\ step' = [step EXCEPT ![c] = "answered"]
    /\ answer' = [answer EXCEPT ![c] = r]
    /\ found' = [found EXCEPT ![c] = None]
    /\ UNCHANGED ask

OK == Reply("ok", None, {})
NotFound == Reply("not found", None, {})
ServerError == Reply("error", None, {})

(* What a handler looks at before it turns to the store.                   *)
Refused(c) == ask[c].flaw \in {"name", "body", "number"}

(* 500: the request is refused, or the store returns an error and leaves b *)
(* of the mailbox.  The memory store never does.                           *)
Fails(c, b) ==
    /\ IF Refused(c) THEN b = box ELSE faulty
    /\ BoxBecomes(b)
    /\ Answer(c, ServerError)

(* A message that is not there: the file store returns ErrNotExist, which  *)
(* every handler answers with 404; the memory store returns nothing and no *)
(* error, for which the REST handlers and the UI's first look, the others  *)
(* not.                                                                    *)
NilChecked == ApiReads \cup {"ui show"}

(* Mutant: the handlers answer every error of the store with 500.          *)
FindNothing_Error(c) ==
    /\ Asked(c, Reads) /\ ~Refused(c)
    /\ \E b \in Indexes : GetMessage(b, ask[c].id) = None
    /\ BoxBecomes(box)
    /\ Answer(c, ServerError)
    /\ UNCHANGED seen

FindNothing(c) ==
    /\ Asked(c, Reads) /\ ~Refused(c)
    /\ \E b \in Indexes : GetMessage(b, ask[c].id) = None
    /\ BoxBecomes(box)
    /\ Answer(c, IF kind = "file" \/ ask[c].op \in NilChecked THEN NotFound ELSE Reply("panic", None, {}))
    /\ UNCHANGED seen

(* The first half of every reader: the request is refused, the store fails *)
(* or returns the message.                                                 *)
Find(c) ==
    /\ Asked(c, Reads)
    /\ \/ Fails(c, box)
       \/ /\ ~Refused(c)
          /\ GetMessage(box, ask[c].id) # None
          /\ found' = [found EXCEPT ![c] = GetMessage(box, ask[c].id)]
          /\ step' = [step EXCEPT ![c] = "found"]
          /\ BoxBecomes(box)
          /\ UNCHANGED <<ask, answer>>
    /\ UNCHANGED seen

(* All but the two that copy the source as it is.                          *)
Parsing == Reads \ {"source", "ui source"}

(* Mutant: what cannot be opened or parsed is answered with 404.           *)
Open_NotFound(c) ==
    /\ step[c] = "found"
    /\ BoxBecomes(box)
    /\ Answer(c, IF found[c] \in box \ Garbled THEN Reply("ok", found[c], {}) ELSE NotFound)
    /\ UNCHANGED seen

(* Source: held in memory, or a file that is opened by its path without    *)
(* the mailbox's lock: that of a message that has left the index may have  *)
(* gone.  Then ReadEnvelope, and for an attachment, whether it has one of  *)
(* that number.                                                            *)
Open(c) ==
    /\ step[c] = "found"
    /\ BoxBecomes(box)
    /\ LET missing == kind = "file" /\ (faulty \/ found[c] \notin box)
           useless == (ask[c].op \in Parsing /\ found[c] \in Garbled) \/ ask[c].flaw = "no such number"
       IN  \/ (missing \/ useless) /\ Answer(c, ServerError)
           \/ ~useless /\ Answer(c, Reply("ok", found[c], {}))
    /\ UNCHANGED seen

(* Mutant: a mailbox whose name does not parse is an empty one.            *)
List_ErrorIgnored(c) ==
    /\ Asked(c, {"list"})
    /\ BoxBecomes(box)
    /\ \E b \in Indexes \cup (IF Refused(c) THEN {{}} ELSE {}) : Answer(c, Reply("ok", None, b))
    /\ UNCHANGED seen

List(c) ==
    /\ Asked(c, {"list"})
    /\ \/ Fails(c, box)
       \/ /\ ~Refused(c)
          /\ BoxBecomes(box)
          /\ \E b \in Indexes : Answer(c, Reply("ok", None, b))
    /\ UNCHANGED seen

(* Mutant: the newest message stays.                                       *)
Purge_ButNewest(c) ==
    /\ Asked(c, {"purge"})
    /\ BoxBecomes(IF box = {} THEN {} ELSE {Newest(box)})
    /\ Answer(c, OK)
    /\ UNCHANGED seen

Purge(c) ==
    /\ Asked(c, {"purge"})
    /\ \/ \E b \in Remains({}) : Fails(c, b)
       \/ ~Refused(c) /\ BoxBecomes({}) /\ Answer(c, OK)
    /\ UNCHANGED seen

(* RemoveMessage does not know "latest"; of a message that is not there    *)
(* the memory store says nothing.                                          *)
Delete(c) ==
    /\ Asked(c, {"delete"})
    /\ \/ \E b \in Remains(box \ {ask[c].id}) : Fails(c, b)
       \/ ~Refused(c) /\ \E b \in Indexes :
              IF kind = "file" /\ ask[c].id \notin b THEN BoxBecomes(box) /\ Answer(c, NotFound)
              ELSE BoxBecomes(box \ {ask[c].id}) /\ Answer(c, OK)
    /\ UNCHANGED seen

(* Mutant: a missing message is marked as well.                            *)
MarkSeen_Missing(c) ==
    /\ Asked(c, {"seen", "not seen"}) /\ ~Refused(c)
    /\ seen' = IF ask[c].op = "seen" THEN seen \cup {ask[c].id} ELSE seen
    /\ BoxBecomes(box)
    /\ Answer(c, OK)

(* Neither store says so when there is nothing to mark.  The file store    *)
(* writes the index as it has read it; "not seen" does not get so far.     *)
MarkSeen(c) ==
    /\ Asked(c, {"seen", "not seen"})
    /\ \/ Refused(c) /\ Fails(c, box) /\ UNCHANGED seen
       \/ ~Refused(c) /\ ask[c].op = "not seen" /\ BoxBecomes(box) /\ Answer(c, OK) /\ UNCHANGED seen
       \/ /\ ~Refused(c) /\ ask[c].op = "seen"
          /\ \/ \E b \in Remains(box) : Fails(c, b) /\ seen' \in {seen, seen \cup ({ask[c].id} \cap b)}
             \/ \E b \in Indexes : BoxBecomes(b) /\ Answer(c, OK) /\ seen' = seen \cup ({ask[c].id} \cap b)

-----------------------------------------------------------------------------
Others == Deliver \/ (\E i \in Id : RemoveByOthers(i)) \/ WriteFails \/ DiskFails \/ DiskRecovers

Handle(c) ==
    /\ FindNothing(c) \/ Find(c) \/ Open(c) \/ List(c) \/ Purge(c) \/ Delete(c) \/ MarkSeen(c)
    /\ UNCHANGED <<last, faulty, trouble>>

(* The store was chosen when the server started.                           *)
Next ==
    /\ Others \/ \E c \in Caller : Handle(c) \/ \E a \in Ask : Request(c, a)
    /\ UNCHANGED kind

Spec == Init /\ [][Next]_vars

-----------------------------------------------------------------------------
TypeOK ==
    /\ kind \in {"memory", "file"}
    /\ box \subseteq 1 .. last /\ last \in 0 .. MaxId /\ seen \subseteq 1 .. last
    /\ faulty \in BOOLEAN
    /\ step \in [Caller -> {"idle", "asked", "found", "answered"}]
    /\ ask \in [Caller -> Ask]
    /\ found \in [Caller -> Id \cup {None}]
    /\ \A c \in Caller : /\ answer[c].code \in {"none", "ok", "not found", "error", "panic"}
                         /\ answer[c].msg \in Id \cup {None}
                         /\ answer[c].list \subseteq Id
    /\ since \in [Caller -> SUBSET SUBSET Id]
    /\ trouble \in [Caller -> BOOLEAN]

Answered(c, codes) == step[c] = "answered" /\ answer[c].code \in codes

Names(c, i, b) == i \in b /\ (ask[c].id = i \/ (ask[c].id = Latest /\ \A j \in b : j <= i))

(* A reader is shown the message it asked for, and "latest" is the one     *)
(* that was the newest at some moment of the request, never one that had   *)
(* already gone when it was made; a listing is what the mailbox held at    *)
(* some moment of the request, or nothing from a disk that failed.         *)
AnswersAreTrue ==
    \A c \in Caller :
        /\ Answered(c, {"ok"}) /\ ask[c].op \in Reads => \E b \in since[c] : Names(c, answer[c].msg, b)
        /\ Answered(c, {"ok"}) /\ ask[c].op = "list" =>
              answer[c].list \in since[c] \/ (trouble[c] /\ answer[c].list = {})

(* 404 is for a message that was not there at some moment of the request,  *)
(* not for one that went while it was read, nor, unless the disk fails,    *)
(* for one that the store cannot read.  (DELETE does not take "latest".)   *)
NotFoundIsHonest ==
    \A c \in Caller :
        Answered(c, {"not found"}) /\ ~(ask[c].op = "delete" /\ ask[c].id = Latest) =>
            trouble[c] \/ \E b \in since[c] : \A i \in b : ~Names(c, i, b)

(* What was wrong with a message that a reader found: it does not parse,   *)
(* or its file went before it was opened.                                  *)
Unreadable(c, i) == (ask[c].op \in Parsing /\ i \in Garbled) \/ (kind = "file" /\ i \notin box)

(* 500 has a cause: the request itself, a disk under a file store that     *)
(* failed during it, or, for a reader, a message that it names and that    *)
(* cannot be parsed or went after it was found.  A request with nothing    *)
(* wrong, in a mailbox that nobody else changes and on a disk that works,  *)
(* is not answered with 500, nor is one for a message that is not there.   *)
ErrorsHaveCauses ==
    \A c \in Caller :
        Answered(c, {"error"}) =>
            \/ ask[c].flaw # "none"
            \/ kind = "file" /\ trouble[c]
            \/ ask[c].op \in Reads /\ \E b \in since[c] : \E i \in b : Names(c, i, b) /\ Unreadable(c, i)

(* Each answer, 200, 404 or 500, is true of a moment of its request.       *)
AnswersAreHonest == TypeOK /\ AnswersAreTrue /\ NotFoundIsHonest /\ ErrorsHaveCauses

(* A DELETE answered with 200 is final: the message it named, or with a    *)
(* purge every one there was during the request, is not in the mailbox    *)
(* again, whatever arrives later.                                          *)
DeletedStaysDeleted ==
    \A c \in Caller :
        Answered(c, {"ok"}) /\ ask[c].op \in {"delete", "purge"} =>
            \A i \in box : ~(\E b \in since[c] : i \in b /\ (ask[c].op = "delete" => i = ask[c].id))
=============================================================================
