---------------------------- MODULE Pop3Replies ----------------------------
(***************************************************************************)
(* What a POP3 session says: the replies that Pop3Server leaves out.       *)
(*                                                                         *)
(* A client knows a message by its number and reads a reply by the rules   *)
(* of the protocol: a status line, then, after +OK to a command of several *)
(* lines, everything up to a line that is a dot, with a dot taken off the  *)
(* lines that begin with one.  The session sends the status before it      *)
(* opens the message, and the message may be gone from the store.          *)
(***************************************************************************)
EXTENDS Pop3Server, FiniteSetsExt

Seqs == INSTANCE SequencesExt

CONSTANTS
    Contents,   \* the messages that are delivered, each a sequence of lines
    KeepsText,  \* a removed message can still be read by who listed it (mem)
    MaxTop      \* bound: lines that a client asks for with TOP

(* A line of text by what the session looks at: the dots it begins with,   *)
(* and the rest of it.                                                     *)
Line(dots, text) == [dots |-> dots, text |-> text]
Ok == Line(0, "+OK")
Err == Line(0, "-ERR")
End == Line(1, "")
Blank == Line(0, "")
TooLong == Line(0, "a line longer than bufio.Scanner takes")

ASSUME RepliesAssumption ==
    /\ KeepsText \in BOOLEAN /\ MaxTop \in Nat
    /\ Contents \subseteq Seq([dots : Nat, text : STRING])

VARIABLES
    content,  \* the lines of message i
    own,      \* the session has agreed on TLS with its client
    told,     \* the numbers, with the messages, that the client was told
    reply     \* the last reply sent

replyVars == <<content, own, told, reply>>

NoReply == [cmd |-> "none"]

RepliesInit ==
    /\ Init
    /\ content = <<>>
    /\ own = [s \in Session |-> FALSE]
    /\ told = [s \in Session |-> {}]
    /\ reply = NoReply

-----------------------------------------------------------------------------
(* Sending a message *)

(* Mutant: lines are sent as they are.                                     *)
Stuffed_Plain(line) == line
Stuffed(line) == IF line.dots > 0 THEN Line(line.dots + 1, line.text) ELSE line

(* The lines a bufio.Scanner yields: it stops at one that is too long.     *)
Scanned(lines) == SubSeq(lines, 1, Min({i \in DOMAIN lines : lines[i] = TooLong} \cup {Len(lines) + 1}) - 1)
ScanFails(lines) == \E i \in DOMAIN lines : lines[i] = TooLong

(* Mutant: an error takes the place of the dot.                            *)
Ending_NoDot(cutShort) == IF cutShort THEN <<Err>> ELSE <<End>>

(* After the lines, and after an error too, the dot; then the error.       *)
Ending(cutShort) == IF cutShort THEN <<End, Err>> ELSE <<End>>

(* sendMessage of a message whose Source can be opened.                    *)
SendMessage(lines) ==
    LET sent == Scanned(lines)
    IN  [i \in DOMAIN sent |-> Stuffed(sent[i])] \o Ending(ScanFails(lines))

(* Mutant: the blank line counts as one of the body.                       *)
TopLine_CountsBlank(loop, line) ==
    CASE loop.done -> loop
      [] loop.inBody /\ loop.left < 1 -> [loop EXCEPT !.done = TRUE]
      [] OTHER -> [loop EXCEPT !.sent = Append(@, Stuffed(line)),
                               !.inBody = @ \/ Stuffed(line) = Blank,
                               !.left = IF loop.inBody \/ line = Blank THEN @ - 1 ELSE @]

(* One turn of sendMessageTop's loop: the break is looked at when a line   *)
(* of the body has been scanned, before it is sent.                        *)
TopLine(loop, line) ==
    CASE loop.done -> loop
      [] loop.inBody /\ loop.left < 1 -> [loop EXCEPT !.done = TRUE]
      [] OTHER -> [loop EXCEPT !.sent = Append(@, Stuffed(line)),
                               !.inBody = @ \/ Stuffed(line) = Blank,
                               !.left = IF loop.inBody THEN @ - 1 ELSE @]

SendMessageTop(lines, n) ==
    LET scanned == Scanned(lines)
        loop[i \in 0 .. Len(scanned)] ==
            IF i = 0 THEN [sent |-> <<>>, inBody |-> FALSE, left |-> n, done |-> FALSE]
            ELSE TopLine(loop[i-1], scanned[i])
        end == loop[Len(scanned)]
    IN  end.sent \o Ending(~end.done /\ ScanFails(lines))

(* Source: the file store opens the message's file, the memory store has   *)
(* the text in the message.                                                *)
Readable(id) == KeepsText \/ id \in box

(* +OK is on its way before Source is called.                              *)
Transfer(id, sending) == <<Ok>> \o (IF Readable(id) THEN sending ELSE <<Err>>)

-----------------------------------------------------------------------------
(* Commands *)

Reply(s, r) ==
    /\ Answer(s)
    /\ reply' = r
    /\ UNCHANGED <<content, own>>

(* Mutant: the offer does not look at tlsState.                            *)
Capa_Always(s) ==
    /\ Reply(s, [cmd |-> "CAPA", to |-> s, offers |-> TLSEnabled /\ ~ForceTLS])
    /\ UNCHANGED told

Capa(s) ==
    /\ Reply(s, [cmd |-> "CAPA", to |-> s, offers |-> TLSEnabled /\ ~tlsState /\ ~ForceTLS])
    /\ UNCHANGED told

(* STLS where a TLS session "already agreed upon" is told of.              *)
StlsRefused(s) ==
    /\ state[s] = "AUTHORIZATION"
    /\ TLSEnabled /\ ~ForceTLS /\ tlsState
    /\ Reply(s, [cmd |-> "STLS", to |-> s])
    /\ UNCHANGED told

StlsAgreed(s) ==
    /\ Stls(s)
    /\ own' = [own EXCEPT ![s] = TRUE]
    /\ reply' = NoReply
    /\ UNCHANGED <<content, told>>

Stat(s) ==
    /\ state[s] = "TRANSACTION"
    /\ Reply(s, [cmd |-> "STAT", to |-> s, count |-> Cardinality(retain[s])])
    /\ UNCHANGED told

Named(s, n) == <<n, messages[s][n]>>

(* Mutant: messages are numbered by their place in the list sent.          *)
ListAll_ByPlace(s, cmd) ==
    \E kept \in Ascending(retain[s]) :
        LET listed == [i \in DOMAIN kept |-> <<i, messages[s][kept[i]]>>]
        IN  /\ state[s] = "TRANSACTION"
            /\ Reply(s, [cmd |-> cmd, to |-> s, count |-> msgCount[s], listed |-> listed])
            /\ told' = [told EXCEPT ![s] = @ \cup {listed[i] : i \in DOMAIN listed}]

(* Mutant: marked messages are listed.                                     *)
ListAll_WithMarked(s, cmd) ==
    LET listed == [i \in Numbers(s) |-> Named(s, i)]
    IN  /\ state[s] = "TRANSACTION"
        /\ Reply(s, [cmd |-> cmd, to |-> s, count |-> msgCount[s], listed |-> listed])
        /\ told' = [told EXCEPT ![s] = @ \cup {listed[i] : i \in DOMAIN listed}]

(* LIST and UIDL name the messages by size and by id.                      *)
ListAll(s, cmd) ==
    \E kept \in Ascending(retain[s]) :
        LET listed == [i \in DOMAIN kept |-> Named(s, kept[i])]
        IN  /\ state[s] = "TRANSACTION"
            /\ Reply(s, [cmd |-> cmd, to |-> s, count |-> msgCount[s], listed |-> listed])
            /\ told' = [told EXCEPT ![s] = @ \cup {listed[i] : i \in DOMAIN listed}]

(* With a number: of a marked message it tells only that it is.            *)
ListOne(s, n) ==
    /\ state[s] = "TRANSACTION"
    /\ n \in retain[s]
    /\ Reply(s, NoReply)
    /\ told' = [told EXCEPT ![s] = @ \cup {Named(s, n)}]

(* RETR and TOP send marked messages as well.                              *)
Retr(s, n) ==
    /\ state[s] = "TRANSACTION"
    /\ n \in Numbers(s)
    /\ LET id == messages[s][n]
       IN  Reply(s, [cmd |-> "RETR", to |-> s, n |-> n, wire |-> Transfer(id, SendMessage(content[id]))])
    /\ UNCHANGED told

Top(s, n, k) ==
    /\ state[s] = "TRANSACTION"
    /\ n \in Numbers(s)
    /\ LET id == messages[s][n]
       IN  Reply(s, [cmd |-> "TOP", to |-> s, n |-> n, top |-> k,
                     wire |-> Transfer(id, SendMessageTop(content[id], k))])
    /\ UNCHANGED told

(* Whatever else is answered, here with its status only.                   *)
SaysNoMore(s) ==
    /\ Reply(s, NoReply)
    /\ UNCHANGED told

Start(s) ==
    /\ Connect(s)
    /\ own' = [own EXCEPT ![s] = ForceTLS]
    /\ reply' = NoReply
    /\ UNCHANGED <<content, told>>

DeliverText ==
    /\ Deliver
    /\ \E c \in Contents : content' = Append(content, c)
    /\ reply' = NoReply
    /\ UNCHANGED <<own, told>>

(* A session of the same server that is not looked at agrees on TLS.       *)
StlsElsewhere ==
    /\ TLSEnabled /\ ~ForceTLS /\ ~tlsState
    /\ tlsState' = TRUE
    /\ reply' = NoReply
    /\ UNCHANGED <<box, last, sessionVars, content, own, told>>

(* The steps of Pop3Server that say nothing a client relies on later.      *)
Others ==
    /\ \/ \E i \in box : RemoveByOthers(i)
       \/ \E s \in Session :
            \/ User(s) \/ Pass(s) \/ Apop(s) \/ Rset(s) \/ Quit(s)
            \/ \E n \in Numbers(s) : Dele(s, n)
            \/ DeleteNext(s) \/ Updated(s) \/ Close(s) \/ Break(s)
    /\ reply' = NoReply
    /\ UNCHANGED <<content, own, told>>

RepliesNext ==
    \/ DeliverText \/ StlsElsewhere \/ Others
    \/ \E s \in Session :
        \/ Start(s) \/ Capa(s) \/ StlsAgreed(s) \/ StlsRefused(s) \/ SaysNoMore(s) \/ Stat(s)
        \/ \E cmd \in {"LIST", "UIDL"} : ListAll(s, cmd)
        \/ \E n \in Numbers(s) : ListOne(s, n) \/ Retr(s, n) \/ \E k \in 0 .. MaxTop : Top(s, n, k)

RepliesSpec == RepliesInit /\ [][RepliesNext]_<<vars, replyVars>>

(* The fairness of Pop3Server: its steps are steps of Others.              *)
FairRepliesSpec == RepliesSpec /\ Fairness

-----------------------------------------------------------------------------
(* Reading a reply of several lines, as a client does (RFC 1939) *)

EndsAt(wire) == Min({i \in 2 .. Len(wire) : wire[i] = End} \cup {Len(wire) + 1})
Unstuffed(line) == IF line.dots > 0 THEN Line(line.dots - 1, line.text) ELSE line
Body(wire) == [i \in 1 .. EndsAt(wire) - 2 |-> Unstuffed(wire[i + 1])]

OneReply(wire) == EndsAt(wire) = Len(wire)

(* The headers, the blank line, and the first k lines of the body.         *)
TopOf(lines, k) ==
    LET header == Min({i \in DOMAIN lines : lines[i] = Blank} \cup {Len(lines)})
    IN  SubSeq(lines, 1, Min({Len(lines), header + k}))

-----------------------------------------------------------------------------
(* Properties *)

RepliesTypeOK ==
    /\ TypeOK
    /\ Len(content) = last /\ \A i \in DOMAIN content : content[i] \in Contents
    /\ own \in [Session -> BOOLEAN]
    /\ told \in [Session -> SUBSET ((1 .. MaxId) \X (1 .. MaxId))]
    /\ reply.cmd \in {"none", "CAPA", "STLS", "STAT", "LIST", "UIDL", "RETR", "TOP"}
    /\ reply # NoReply => reply.to \in Session

(* A number that a session has told names one message from then on, and a  *)
(* message has one number: through DELE and RSET, through deliveries and   *)
(* removals by others, until the session deletes by those numbers.         *)
NumbersLast ==
    \A s \in Session :
        /\ \A a, b \in told[s] : a[1] = b[1] <=> a[2] = b[2]
        /\ removed[s] \subseteq {messages[s][n] : n \in Numbers(s)}
        /\ \A t \in told[s] : t[2] \in removed[s] => t[1] \notin retain[s]

(* The counts a client compares agree: LIST and UIDL list as many messages *)
(* as their status line announces and as STAT would count, and they list   *)
(* none that the client has deleted.                                       *)
CountsAgree ==
    /\ reply.cmd \in {"LIST", "UIDL"} =>
        /\ Len(reply.listed) = reply.count
        /\ \A i \in DOMAIN reply.listed : reply.listed[i][2] \notin asked[reply.to]
    /\ reply.cmd = "STAT" => reply.count = msgCount[reply.to]

(* A session in TLS, by STLS or from its start, is not offered TLS again.  *)
NeverTwice == reply.cmd = "CAPA" /\ reply.offers => ~own[reply.to]

(* What a status line says is so: counts, listings and the offer of TLS.   *)
RepliesAreTrue == RepliesTypeOK /\ CountsAgree /\ NeverTwice

(* A client that reads RETR's or TOP's reply to its end has the message it *)
(* was told under that number, or the top of it, line by line, whatever    *)
(* dots its lines begin with; the session is then in step with the client. *)
(* This is of messages that are there, and have no line that is too long.  *)
GetsTheText ==
    reply.cmd \in {"RETR", "TOP"} =>
        \A t \in told[reply.to] :
            LET lines == content[t[2]]
            IN  t[1] = reply.n /\ Readable(t[2]) /\ ~ScanFails(lines) =>
                    /\ OneReply(reply.wire)
                    /\ Body(reply.wire) = IF reply.cmd = "TOP" THEN TopOf(lines, reply.top) ELSE lines

(* A line that is too long costs the rest of the message and no more: what *)
(* the client has before the error is a beginning of the message.          *)
NothingElse ==
    reply.cmd \in {"RETR", "TOP"} =>
        LET lines == content[messages[reply.to][reply.n]]
        IN  Len(reply.wire) > 2 => Seqs!IsPrefix(Body(reply.wire), lines)

(* The text behind +OK is the message's, or the beginning of it.           *)
TextAsTold == GetsTheText /\ NothingElse
=============================================================================
