------------------------------ MODULE SmtpProofs ------------------------------
(***************************************************************************)
(* Proofs about the SMTP side: SmtpSession, for every set of senders and   *)
(* recipients, every policy, every extension and every limit; and          *)
(* AddressPolicy, for every text and alphabet, any limits, any configured  *)
(* lists and patterns.                                                     *)
(***************************************************************************)
EXTENDS SmtpSession, AddressPolicy, WellFoundedInduction, FunctionTheorems, FiniteSetTheorems,
        SequenceTheorems, TLAPS

(* Induction over the naturals as a statement about sets: the library's    *)
(* NatInduction takes a predicate, which the provers cannot instantiate.   *)
(* A set of naturals with 0 and every successor holds them all: the least  *)
(* natural outside it could be neither.                                    *)
LEMMA NatSetInduction ==
    ASSUME NEW T, T \subseteq Nat, 0 \in T, \A n \in T : n + 1 \in T
    PROVE  T = Nat
<1> DEFINE R == {ss \in Nat \X Nat : ss[1] < ss[2]}
           U == Nat \ T
<1>1. SUFFICES ASSUME U # {} PROVE FALSE
  OBVIOUS
<1>2. IsWellFoundedOn(R, Nat)
  BY NatLessThanWellFounded DEF OpToRel
<1>3. \A x, y \in Nat : x < y => <<x, y>> \in R
  OBVIOUS
<1> HIDE DEF R
<1>4. PICK x \in U : \A y \in U : ~ (<<y, x>> \in R)
  <2>1. U \subseteq Nat OBVIOUS
  <2> HIDE DEF U
  <2> QED BY <2>1, <1>1, <1>2, WFMin
<1>5. x # 0 /\ x - 1 \in Nat /\ x - 1 < x /\ x - 1 + 1 = x
  OBVIOUS
<1>6. x - 1 \in U
  BY <1>5
<1> QED BY <1>3, <1>4, <1>5, <1>6

(* f runs a loop of n turns: step[k][r] is the state after turn k from r.  *)
Runs(f, n, S, first, step) ==
    f \in [0 .. n -> S] /\ f[0] = first /\ \A k \in 1 .. n : f[k] = step[k][f[k - 1]]

(* A loop whose turns keep to a set of states runs: by induction over the  *)
(* turns.                                                                  *)
LEMMA Course ==
    ASSUME NEW n \in Nat, NEW S, NEW first \in S, NEW step \in [1 .. n -> [S -> S]]
    PROVE  \E f : Runs(f, n, S, first, step)
<1> DEFINE Goes(f, k) == f[0] = first /\ \A i \in 1 .. k : f[i] = step[i][f[i - 1]]
           T == {k \in Nat : k <= n => \E f \in [0 .. k -> S] : Goes(f, k)}
<1>1. 0 \in T
  <2>1. [i \in 0 .. 0 |-> first] \in [0 .. 0 -> S] /\ Goes([i \in 0 .. 0 |-> first], 0) OBVIOUS
  <2>2. \E f \in [0 .. 0 -> S] : Goes(f, 0) BY <2>1
  <2> QED BY <2>2
<1>2. ASSUME NEW k \in T PROVE k + 1 \in T
  <2>1. CASE k + 1 <= n
    <3>1. k \in Nat /\ k <= n BY <2>1
    <3>2. PICK f \in [0 .. k -> S] : Goes(f, k) BY <1>2, <3>1
    <3> DEFINE g == [i \in 0 .. k + 1 |-> IF i = k + 1 THEN step[i][f[k]] ELSE f[i]]
    <3>3. f[k] \in S /\ k + 1 \in 1 .. n BY <2>1, <3>1
    <3>4. step[k + 1][f[k]] \in S BY <3>3
    <3>5. g \in [0 .. k + 1 -> S]
      <4>1. ASSUME NEW i \in 0 .. k + 1 PROVE g[i] \in S
        BY <3>1, <3>4, i = k + 1 \/ i \in 0 .. k
      <4> QED BY <4>1
    <3>6. g[0] = first BY <3>1, <3>2
    <3>7. ASSUME NEW i \in 1 .. k + 1 PROVE g[i] = step[i][g[i - 1]]
      <4>1. CASE i = k + 1
        <5>1. g[i - 1] = f[k] BY <3>1, <4>1
        <5> QED BY <4>1, <5>1
      <4>2. CASE i # k + 1
        <5>1. i \in 1 .. k /\ g[i - 1] = f[i - 1] /\ g[i] = f[i] BY <3>1, <4>2
        <5> QED BY <3>2, <5>1
      <4> QED BY <4>1, <4>2
    <3> HIDE DEF g
    <3>8. Goes(g, k + 1) BY <3>6, <3>7
    <3> HIDE DEF Goes
    <3> QED BY <3>1, <3>5, <3>8
  <2>2. CASE ~ k + 1 <= n BY <2>2
  <2> QED BY <2>1, <2>2
<1>3. T = Nat
  <2> HIDE DEF T
  <2>1. T \subseteq Nat BY DEF T
  <2> QED BY <1>1, <1>2, <2>1, NatSetInduction
<1>4. n \in T BY <1>3
<1> QED BY <1>4 DEF Runs

(* Every mailbox a message can go to is in Mailbox.                        *)
LEMMA MailboxTypes ==
    /\ \A r \in Recipient : MailboxOf[r] \in Mailbox
    /\ Overrides \subseteq Seq(Mailbox)
<1>1. \A r \in Recipient : MailboxOf[r] \in Mailbox
  BY DEF Mailbox
<1>2. ASSUME NEW s \in Overrides PROVE s \in Seq(Mailbox)
  <2>1. s \in Seq(ToSet(s)) BY SessionAssumption
  <2>2. ToSet(s) \subseteq Mailbox BY DEF Mailbox
  <2> QED BY <2>1, <2>2, SeqMonotonic
<1> QED BY <1>1, <1>2

(* Deliver's loop builds a sequence of mailboxes: by induction over the    *)
(* recipients, that the recursion defines a function and then its type.    *)
LEMMA DestinationType ==
    ASSUME NEW rcpts \in Seq(Recipient), NEW extResult \in Overrides \cup {None}
    PROVE  Destination(rcpts, extResult) \in Seq(Mailbox)
<1> DEFINE n == Len(rcpts)
           turn(g, k) == IF k = 0 THEN <<>>
                         ELSE IF rcpts[k] \in Stores THEN Append(g[k-1], MailboxOf[rcpts[k]])
                         ELSE g[k-1]
           step == [k \in 1 .. n |-> [r \in Seq(Mailbox) |->
                       IF rcpts[k] \in Stores THEN Append(r, MailboxOf[rcpts[k]]) ELSE r]]
           stored == CHOOSE f : f = [k \in 0 .. n |-> turn(f, k)]
<1>1. n \in Nat /\ \A k \in 1 .. n : rcpts[k] \in Recipient
  OBVIOUS
<1>2. \A g, k : k \in 1 .. n /\ g[k-1] \in Seq(Mailbox) => turn(g, k) \in Seq(Mailbox)
  <2> TAKE g, k
  <2> HAVE k \in 1 .. n /\ g[k-1] \in Seq(Mailbox)
  <2>1. k # 0 /\ MailboxOf[rcpts[k]] \in Mailbox
    BY <1>1, MailboxTypes
  <2>2. Append(g[k-1], MailboxOf[rcpts[k]]) \in Seq(Mailbox)
    BY <2>1, AppendProperties
  <2> QED BY <2>1, <2>2
<1>3. \A g : turn(g, 0) = <<>>
  OBVIOUS
<1>4. <<>> \in Seq(Mailbox)
  OBVIOUS
<1>5. step \in [1 .. n -> [Seq(Mailbox) -> Seq(Mailbox)]]
  <2>1. ASSUME NEW k \in 1 .. n, NEW r \in Seq(Mailbox)
        PROVE  (IF rcpts[k] \in Stores THEN Append(r, MailboxOf[rcpts[k]]) ELSE r) \in Seq(Mailbox)
    <3>1. MailboxOf[rcpts[k]] \in Mailbox BY <1>1, MailboxTypes
    <3> QED BY <3>1, AppendProperties
  <2> QED BY <2>1
<1>6. \A g : \A k \in 1 .. n : g[k-1] \in Seq(Mailbox) => step[k][g[k-1]] = turn(g, k)
  OBVIOUS
<1> HIDE DEF turn, step
<1>7. \E f : f = [k \in 0 .. n |-> turn(f, k)]
  <2>1. PICK f : Runs(f, n, Seq(Mailbox), <<>>, step) BY <1>1, <1>4, <1>5, Course
  <2>2. f \in [0 .. n -> Seq(Mailbox)] /\ f[0] = <<>> /\ \A k \in 1 .. n : f[k] = step[k][f[k-1]]
    BY <2>1 DEF Runs
  <2>3. ASSUME NEW k \in 0 .. n PROVE f[k] = turn(f, k)
    <3>1. CASE k = 0 BY <1>3, <2>2, <3>1
    <3>2. CASE k # 0
      <4>1. k \in 1 .. n /\ f[k-1] \in Seq(Mailbox) BY <1>1, <2>2, <3>2
      <4> QED BY <1>6, <2>2, <4>1
    <3> QED BY <3>1, <3>2
  <2>4. f = [k \in 0 .. n |-> turn(f, k)] BY <2>2, <2>3
  <2> QED BY <2>4
<1>8. stored = [k \in 0 .. n |-> turn(stored, k)]
  BY <1>7, Zenon
<1> DEFINE U == {k \in Nat : k <= n => stored[k] \in Seq(Mailbox)}
<1> HIDE DEF stored
<1>9. 0 \in U
  BY <1>1, <1>3, <1>4, <1>8
<1>10. ASSUME NEW k \in U PROVE k + 1 \in U
  <2>1. k \in Nat /\ k + 1 \in Nat /\ (k <= n => stored[k] \in Seq(Mailbox))
    OBVIOUS
  <2>2. ASSUME k + 1 <= n PROVE stored[k + 1] \in Seq(Mailbox)
    <3>1. k + 1 \in 1 .. n /\ k + 1 \in 0 .. n /\ stored[(k + 1) - 1] \in Seq(Mailbox)
      BY <1>1, <2>1, <2>2
    <3>2. stored[k + 1] = turn(stored, k + 1)
      BY <1>8, <3>1
    <3>3. turn(stored, k + 1) \in Seq(Mailbox)
      BY <1>2, <3>1, Zenon
    <3> QED BY <3>2, <3>3
  <2> QED BY <2>1, <2>2
<1>11. stored[n] \in Seq(Mailbox)
  <2>1. U = Nat
    <3> HIDE DEF U
    <3>1. U \subseteq Nat BY DEF U
    <3> QED BY <3>1, <1>9, <1>10, NatSetInduction
  <2> QED BY <2>1, <1>1
<1>12. Destination(rcpts, None) = stored[n]
  BY DEF Destination, stored, turn
<1> QED BY <1>11, <1>12, MailboxTypes DEF Destination

-----------------------------------------------------------------------------
(* Types *)

LEMMA ResetTypes == Reset => state' \in State /\ from' \in Sender \cup {None}
                             /\ recipients' \in Seq(Recipient) /\ Len(recipients') <= MaxRecipients
BY SessionAssumption DEF Reset, State

LEMMA SendType == TypeOK /\ Send => sendError' \in BOOLEAN
BY DEF TypeOK, Send

LEMMA EmptyType == Empty \in [from : Sender \cup {None}, rcpts : Seq(Recipient)]
BY DEF Empty

(* What Told leaves in view has its type, whatever the link.               *)
LEMMA ToldType ==
    ASSUME TypeOK, NEW v \in [from : Sender \cup {None}, rcpts : Seq(Recipient)], Told(v)
    PROVE  view' \in [from : Sender \cup {None}, rcpts : Seq(Recipient)]
BY DEF TypeOK, Told

LEMMA InitTypeOK == Init => TypeOK
<1> SUFFICES ASSUME Init PROVE TypeOK
  OBVIOUS
<1>1. <<>> \in Seq(Recipient) /\ <<>> \in Seq(Mailbox) /\ Len(<<>>) = 0
  OBVIOUS
<1>2. view \in [from : Sender \cup {None}, rcpts : Seq(Recipient)]
  BY EmptyType DEF Init
<1>3. tls \in BOOLEAN
  BY SessionAssumption DEF Init
<1>4. recipients \in Seq(Recipient) /\ Len(recipients) <= MaxRecipients
  BY <1>1, SessionAssumption DEF Init
<1>5. due \in Seq(Mailbox) /\ mail \in Seq(Mailbox) /\ owed \in Seq(Mailbox)
  BY <1>1 DEF Init
<1> QED
  BY <1>2, <1>3, <1>4, <1>5 DEF Init, TypeOK, State

LEMMA NextTypeOK == TypeOK /\ [Next]_vars => TypeOK'
<1> SUFFICES ASSUME TypeOK, [Next]_vars PROVE TypeOK'
  OBVIOUS
<1> USE DEF storeVars
<1>1. CASE Refuse
  BY <1>1, SendType DEF Refuse, TypeOK
<1>2. CASE Helo
  BY <1>2, SendType DEF Helo, TypeOK, State
<1>3. CASE ResetSession
  BY <1>3, SendType, ResetTypes, EmptyType, ToldType DEF ResetSession, TypeOK
<1>4. CASE Quit
  BY <1>4, SendType DEF Quit, TypeOK, State
<1>5. CASE StartTLS
  BY <1>5, SendType DEF StartTLS, TypeOK, State
<1>6. CASE AuthLogin
  BY <1>6, SendType DEF AuthLogin, TypeOK, State
<1>7. ASSUME NEW a \in Sender, NEW action \in Action, Mail(a, action) PROVE TypeOK'
  <2>1. [from |-> a, rcpts |-> <<>>] \in [from : Sender \cup {None}, rcpts : Seq(Recipient)]
    OBVIOUS
  <2>2. view' \in [from : Sender \cup {None}, rcpts : Seq(Recipient)]
    BY <1>7, <2>1, ToldType DEF Mail, TypeOK
  <2> QED
    BY <1>7, <2>2, SendType DEF Mail, TypeOK, State
<1>8. ASSUME NEW r \in Recipient, NEW action \in Action, Rcpt(r, action) PROVE TypeOK'
  <2>1. /\ recipients' \in Seq(Recipient) /\ Len(recipients') = Len(recipients) + 1
        /\ Len(recipients) \in Nat
    BY <1>8 DEF Rcpt, TypeOK
  <2>2. Len(recipients') <= MaxRecipients
    BY <1>8, <2>1, SessionAssumption DEF Rcpt, HasRoom
  <2>3. Append(view.rcpts, r) \in Seq(Recipient) /\ view.from \in Sender \cup {None}
    BY DEF TypeOK
  <2>4. [from |-> view.from, rcpts |-> Append(view.rcpts, r)]
           \in [from : Sender \cup {None}, rcpts : Seq(Recipient)]
    BY <2>3
  <2>5. view' \in [from : Sender \cup {None}, rcpts : Seq(Recipient)]
    BY <1>8, <2>4, ToldType DEF Rcpt
  <2> QED
    BY <1>8, <2>1, <2>2, <2>5, SendType DEF Rcpt, TypeOK
<1>9. CASE Data
  BY <1>9 DEF Data, TypeOK, State
<1>10. CASE Prompt354
  BY <1>10, SendType DEF Prompt354, TypeOK
<1>11. CASE ReadBlock
  <2>1. PICK extResult \in Overrides \cup {None} :
           /\ due' = Destination(recipients, extResult)
           /\ owed' = Destination(view.rcpts, extResult)
    BY <1>11 DEF ReadBlock
  <2>2. recipients \in Seq(Recipient) /\ view.rcpts \in Seq(Recipient)
    BY DEF TypeOK
  <2>3. due' \in Seq(Mailbox) /\ owed' \in Seq(Mailbox)
    BY <2>1, <2>2, DestinationType
  <2> QED
    BY <1>11, <2>3 DEF ReadBlock, TypeOK
<1>12. CASE Store
  <2>1. mail' \in Seq(Mailbox) /\ due' \in Seq(Mailbox)
    BY <1>12, HeadTailProperties, AppendProperties DEF Store, TypeOK
  <2> QED
    BY <1>12, <2>1 DEF Store, TypeOK
<1>13. ASSUME NEW v \in {"stored", "failed"}, Answer(v) PROVE TypeOK'
  <2>1. verdict' \in {"none", "stored", "failed"}
    BY <1>13 DEF Answer, TypeOK
  <2> QED
    BY <1>13, <2>1, SendType, ResetTypes, EmptyType, ToldType DEF Answer, TypeOK
<1>14. CASE Accepted
  BY <1>13, <1>14 DEF Accepted
<1>15. CASE Failed
  BY <1>13, <1>15 DEF Failed
<1>16. CASE ReadError
  BY <1>16, SendType DEF ReadError, TypeOK
<1>17. CASE ReadBlockError
  BY <1>17, SendType DEF ReadBlockError, TypeOK, State
<1>18. CASE HangUp
  BY <1>18 DEF HangUp, TypeOK
<1>19. CASE Break
  BY <1>19 DEF Break, TypeOK
<1>20. CASE UNCHANGED vars
  BY <1>20 DEF vars, TypeOK
<1> QED
  BY <1>1, <1>2, <1>3, <1>4, <1>5, <1>6, <1>7, <1>8, <1>9, <1>10, <1>11, <1>12, <1>14, <1>15,
     <1>16, <1>17, <1>18, <1>19, <1>20
  DEF Next, Command, DeliverStep, EndOfInput

(* The session keeps its types, and never holds more recipients than the   *)
(* configuration allows.                                                   *)
THEOREM TypeCorrect == Spec => []TypeOK
<1>1. Init => TypeOK BY InitTypeOK
<1>2. TypeOK /\ [Next]_vars => TypeOK' BY NextTypeOK
<1> QED BY <1>1, <1>2, PTL DEF Spec

-----------------------------------------------------------------------------
(* The envelope *)

(* A DATA block is read and delivered in state DATA only.                  *)
DataPhase == pc \in {"read", "deliver"} => state = "DATA"

(* While the connection works the client's view is the session's, in every *)
(* state but QUIT and also while a DATA block is read and delivered.       *)
ViewInv ==
    link = "up" /\ state # "QUIT" =>
        IF state \in {"MAIL", "DATA"}
        THEN view = [from |-> from, rcpts |-> recipients]
        ELSE view = Empty /\ recipients = <<>>

EnvInv == DataPhase /\ ViewInv

LEMMA InitEnvInv == Init => EnvInv
BY DEF Init, EnvInv, DataPhase, ViewInv

(* A reset leaves no envelope on either side.                              *)
LEMMA ResetView == Reset /\ Told(Empty) /\ UNCHANGED link => ViewInv'
BY DEF Reset, Told, ViewInv

LEMMA NextEnvInv == EnvInv /\ [Next]_vars => EnvInv'
<1> SUFFICES ASSUME EnvInv, [Next]_vars PROVE EnvInv'
  OBVIOUS
<1> USE DEF storeVars, EnvInv, DataPhase, AtPrompt
<1>1. CASE Refuse
  BY <1>1 DEF Refuse, ViewInv
<1>2. CASE Helo
  BY <1>2 DEF Helo, ViewInv
<1>3. CASE ResetSession
  <2>1. pc' = "loop"
    BY <1>3 DEF ResetSession, AtAnyPrompt
  <2> QED BY <1>3, <2>1, ResetView DEF ResetSession
<1>4. CASE Quit
  <2>1. pc' = "loop" /\ state' = "QUIT"
    BY <1>4 DEF Quit, AtAnyPrompt
  <2> QED BY <2>1 DEF ViewInv
<1>5. CASE StartTLS
  BY <1>5 DEF StartTLS, ViewInv
<1>6. CASE AuthLogin
  BY <1>6 DEF AuthLogin, ViewInv
<1>7. ASSUME NEW a \in Sender, NEW action \in Action, Mail(a, action) PROVE EnvInv'
  <2>1. pc' = "loop" /\ link' = link /\ recipients' = recipients /\ from' = a
    BY <1>7 DEF Mail
  <2>2. link = "up" => recipients = <<>> /\ view = Empty
    BY <1>7 DEF Mail, ViewInv
  <2>3. CASE state' = "MAIL" /\ Told([from |-> a, rcpts |-> <<>>])
    BY <2>1, <2>2, <2>3 DEF Told, ViewInv
  <2>4. CASE UNCHANGED <<state, view>>
    BY <1>7, <2>1, <2>2, <2>4 DEF Mail, ViewInv
  <2> QED BY <1>7, <2>3, <2>4 DEF Mail
<1>8. ASSUME NEW r \in Recipient, NEW action \in Action, Rcpt(r, action) PROVE EnvInv'
  <2>1. link = "up" => view.from = from /\ view.rcpts = recipients
    BY <1>8 DEF Rcpt, ViewInv
  <2> QED BY <1>8, <2>1 DEF Rcpt, Told, ViewInv
<1>9. CASE Data
  BY <1>9 DEF Data, ViewInv
<1>10. CASE Prompt354
  BY <1>10 DEF Prompt354, ViewInv
<1>11. CASE ReadBlock
  BY <1>11 DEF ReadBlock, ViewInv
<1>12. CASE Store
  BY <1>12 DEF Store, ViewInv
<1>13. ASSUME NEW v, Answer(v) PROVE EnvInv'
  BY <1>13, ResetView DEF Answer
<1>14. CASE Accepted
  BY <1>13, <1>14 DEF Accepted
<1>15. CASE Failed
  BY <1>13, <1>15 DEF Failed
<1>16. CASE ReadError
  BY <1>16 DEF ReadError, ViewInv
<1>17. CASE ReadBlockError
  BY <1>17 DEF ReadBlockError, ViewInv
<1>18. CASE HangUp
  BY <1>18 DEF HangUp, ViewInv
<1>19. CASE Break
  BY <1>19 DEF Break, ViewInv
<1>20. CASE UNCHANGED vars
  BY <1>20 DEF vars, ViewInv
<1> QED
  BY <1>1, <1>2, <1>3, <1>4, <1>5, <1>6, <1>7, <1>8, <1>9, <1>10, <1>11, <1>12, <1>14, <1>15,
     <1>16, <1>17, <1>18, <1>19, <1>20
  DEF Next, Command, DeliverStep, EndOfInput

LEMMA EnvInvariant == Spec => []EnvInv
<1>1. Init => EnvInv BY InitEnvInv
<1>2. EnvInv /\ [Next]_vars => EnvInv' BY NextEnvInv
<1> QED BY <1>1, <1>2, PTL DEF Spec

(* Between two commands on a working connection, the session's envelope is *)
(* what the client was told 250 for.                                       *)
THEOREM EnvelopeIsAgreed == Spec => []EnvelopeAgreed
<1>1. EnvInv => EnvelopeAgreed
  BY DEF EnvInv, ViewInv, EnvelopeAgreed
<1> QED BY <1>1, EnvInvariant, PTL

(* The envelope stays within its bounds and is the one the client knows,   *)
(* for any limit of recipients.                                            *)
THEOREM EnvelopeIsSound == Spec => []EnvelopeSound
<1>1. TypeOK /\ EnvelopeAgreed => EnvelopeSound BY DEF EnvelopeSound
<1> QED BY <1>1, TypeCorrect, EnvelopeIsAgreed, PTL

-----------------------------------------------------------------------------
(* Delivery *)

(* What is stored and what is still due is what is owed; the client has no *)
(* verdict before the answer, and what it is told then holds.              *)
Undecided == pc = "deliver" => verdict = "none"
NothingLost == pc = "deliver" /\ link = "up" => mail \o due = owed

DeliverInv ==
    /\ TypeOK
    /\ EnvInv
    /\ Undecided
    /\ NothingLost
    /\ AcceptedIsStored
    /\ FailedIsPartial

LEMMA InitDeliverInv == Init => DeliverInv
<1>1. Init => Undecided /\ NothingLost /\ AcceptedIsStored /\ FailedIsPartial
  BY DEF Init, Undecided, NothingLost, AcceptedIsStored, FailedIsPartial
<1> QED BY <1>1, InitTypeOK, InitEnvInv DEF DeliverInv

(* One more copy: it moves from due to mail.                               *)
LEMMA StoreMovesOne ==
    ASSUME TypeOK, Store PROVE mail' \o due' = mail \o due
<1>1. mail \in Seq(Mailbox) /\ due \in Seq(Mailbox) /\ due # <<>>
  BY DEF TypeOK, Store
<1>2. Head(due) \in Mailbox /\ Tail(due) \in Seq(Mailbox) /\ <<Head(due)>> \in Seq(Mailbox)
  BY <1>1, HeadTailProperties
<1>3. mail' = mail \o <<Head(due)>>
  BY <1>1, <1>2, AppendIsConcat DEF Store
<1>4. mail' \o due' = mail \o (<<Head(due)>> \o Tail(due))
  BY <1>1, <1>2, <1>3, ConcatAssociative DEF Store
<1>5. <<Head(due)>> \o Tail(due) = due
  BY <1>1, <1>2
<1> QED BY <1>4, <1>5

LEMMA NextDeliverInv == DeliverInv /\ [Next]_vars => DeliverInv'
<1> SUFFICES ASSUME DeliverInv, [Next]_vars PROVE DeliverInv'
  OBVIOUS
<1> USE DEF storeVars
<1>1. TypeOK /\ EnvInv /\ TypeOK' /\ EnvInv'
  BY NextTypeOK, NextEnvInv DEF DeliverInv
<1>2. SUFFICES Undecided' /\ NothingLost' /\ AcceptedIsStored' /\ FailedIsPartial'
  BY <1>1 DEF DeliverInv
<1>3. CASE ReadBlock
  <2>1. link = "up" => recipients = view.rcpts
    BY <1>1, <1>3 DEF EnvInv, DataPhase, ViewInv, ReadBlock
  <2>2. link = "up" => due' = owed'
    BY <1>3, <2>1 DEF ReadBlock
  <2>3. mail' \o due' = due'
    BY <1>1, <1>3, ConcatEmptySeq DEF ReadBlock, TypeOK
  <2>4. NothingLost'
    BY <1>3, <2>2, <2>3 DEF ReadBlock, NothingLost
  <2> QED
    BY <1>3, <2>4 DEF ReadBlock, Undecided, AcceptedIsStored, FailedIsPartial
<1>4. CASE Store
  <2>1. verdict' = "none"
    BY <1>4 DEF DeliverInv, Undecided, Store
  <2>2. NothingLost'
    BY <1>1, <1>4, StoreMovesOne DEF DeliverInv, NothingLost, Store
  <2> QED
    BY <2>1, <2>2 DEF Undecided, AcceptedIsStored, FailedIsPartial
<1>5. CASE Accepted
  <2>1. pc' # "deliver"
    BY <1>5 DEF Accepted, Answer
  <2>2. link = "up" => mail = owed
    <3>1. mail \o <<>> = mail
      BY <1>1, ConcatEmptySeq DEF TypeOK
    <3> QED BY <1>5, <3>1 DEF Accepted, DeliverInv, NothingLost
  <2>3. verdict' # "failed" /\ AcceptedIsStored'
    BY <1>5, <2>2 DEF Accepted, Answer, DeliverInv, Undecided, AcceptedIsStored
  <2> QED
    BY <2>1, <2>3 DEF Undecided, NothingLost, FailedIsPartial
<1>6. CASE Failed
  <2>1. pc' # "deliver" /\ verdict' # "stored"
    BY <1>6 DEF Failed, Answer, DeliverInv, Undecided
  <2>2. ASSUME link = "up" PROVE IsPrefix(mail, owed) /\ (mail # owed \/ mail = <<>>)
    <3>1. mail \in Seq(Mailbox) /\ due \in Seq(Mailbox) /\ mail \o due = owed
      BY <1>1, <1>6, <2>2 DEF TypeOK, Failed, DeliverInv, NothingLost
    <3>2. IsPrefix(mail, owed)
      BY <3>1 DEF IsPrefix
    <3>3. mail = owed => due = <<>>
      BY <3>1, ConcatEqualIffEmpty
    <3> QED BY <1>6, <3>2, <3>3 DEF Failed
  <2>3. FailedIsPartial'
    BY <1>6, <2>2 DEF Failed, Answer, DeliverInv, Undecided, FailedIsPartial
  <2> QED
    BY <2>1, <2>3 DEF Undecided, NothingLost, AcceptedIsStored
<1>7. CASE UNCHANGED storeVars /\ (pc' = "deliver" => pc = "deliver") /\ (link' = "up" => link = "up")
  BY <1>7 DEF DeliverInv, Undecided, NothingLost, AcceptedIsStored, FailedIsPartial
<1>8. CASE Command \/ Prompt354
  BY <1>7, <1>8
  DEF Command, Refuse, Helo, ResetSession, Quit, StartTLS, AuthLogin, Mail, Rcpt, Data, Prompt354
<1>9. CASE EndOfInput \/ HangUp \/ Break \/ UNCHANGED vars
  BY <1>7, <1>9 DEF EndOfInput, ReadError, ReadBlockError, HangUp, Break, vars
<1> QED
  BY <1>3, <1>4, <1>5, <1>6, <1>8, <1>9 DEF Next, DeliverStep

LEMMA DeliverInvariant == Spec => []DeliverInv
<1>1. Init => DeliverInv BY InitDeliverInv
<1>2. DeliverInv /\ [Next]_vars => DeliverInv' BY NextDeliverInv
<1> QED BY <1>1, <1>2, PTL DEF Spec

(* A message answered with 250 is in every mailbox it belongs in, once for *)
(* each of its accepted recipients.                                        *)
THEOREM AcceptedMailIsStored == Spec => []AcceptedIsStored
<1>1. DeliverInv => AcceptedIsStored BY DEF DeliverInv
<1> QED BY <1>1, DeliverInvariant, PTL

(* A message answered with an error is in a proper part of its mailboxes:  *)
(* those before the first failure, each once.                              *)
THEOREM FailedMailIsPartial == Spec => []FailedIsPartial
<1>1. DeliverInv => FailedIsPartial BY DEF DeliverInv
<1> QED BY <1>1, DeliverInvariant, PTL
(* The reply to a DATA block, 250 or 451, is true of the mailboxes.        *)
THEOREM AnswersAreTrue == Spec => []AnswerIsTrue
<1>1. AcceptedIsStored /\ FailedIsPartial => AnswerIsTrue BY DEF AnswerIsTrue
<1> QED BY <1>1, AcceptedMailIsStored, FailedMailIsPartial, PTL

-----------------------------------------------------------------------------
(* The loop over a domain *)

(* The characters of a label but the hyphen.                               *)
Word == Letter \cup Digit \cup {"_"}

(* After k characters, the label that is being read begins at i.           *)
Within(t, i, k) ==
    /\ i \in 1 .. k + 1
    /\ i = 1 \/ t[i - 1] = "."
    /\ \A q \in i .. k : t[q] # "."

(* Its characters that count for its length.                               *)
Letters(t, i, k) == {q \in i .. k : t[q] # "-"}

(* The character at p is right where it is.                                *)
Right(t, p) ==
    /\ t[p] \in Word \cup {"-", "."}
    /\ t[p] \in {"-", "."} => p > 1 /\ t[p - 1] \notin {"-", "."}
    /\ t[p] = "." => \A i \in 1 .. p : Within(t, i, p - 1) => Cardinality(Letters(t, i, p - 1)) <= MaxLabel

(* The states of the loop.                                                 *)
Scans == [ok : BOOLEAN, prev : Char \cup {".", "-", "_"}, len : Nat, alnum : BOOLEAN]

(* What a word is made of is no hyphen and no period.                      *)
LEMMA Sorts == Word \cap {"-", "."} = {} /\ "-" # "." /\ Word \subseteq Char \cup {"_"}
<1>1. Letter \cup Digit \cup Special \cup NonAscii \subseteq Char BY PolicyAssumption
<1>2. {"+", "-", "_"} \subseteq Special BY PolicyAssumption
<1>3. \A c \in Special \cup {"*"} : c \notin Letter \cup Digit \cup NonAscii BY PolicyAssumption
<1>4. \A c \in {".", "\\", "\"", "@", "["} : c \notin Letter \cup Digit \cup Special \cup NonAscii BY PolicyAssumption
<1>5. "." \notin Letter \cup Digit BY <1>4
<1>6. "-" \notin Letter \cup Digit BY <1>2, <1>3
<1>7. Letter \cup Digit \subseteq Char BY <1>1
<1> QED BY <1>5, <1>6, <1>7 DEF Word

(* A state of the loop over a domain, from its fields.                     *)
LEMMA ScanMade ==
    ASSUME NEW ok \in BOOLEAN, NEW prev \in Char \cup {".", "-", "_"}, NEW len \in Nat, NEW alnum \in BOOLEAN
    PROVE  [ok |-> ok, prev |-> prev, len |-> len, alnum |-> alnum] \in Scans
BY DEF Scans

(* The fields of a state of the loop.                                      *)
LEMMA ScanParts ==
    ASSUME NEW s \in Scans
    PROVE  s.ok \in BOOLEAN /\ s.prev \in Char \cup {".", "-", "_"} /\ s.len \in Nat /\ s.alnum \in BOOLEAN
BY DEF Scans

(* What one turn of the loop does with each sort of character.             *)
LEMMA OneLabelStep ==
    ASSUME NEW s \in Scans, NEW c
    PROVE  /\ LabelStep(s, c) \in Scans
           /\ c \in Word => LabelStep(s, c) = [ok |-> s.ok, prev |-> c, len |-> s.len + 1, alnum |-> TRUE]
           /\ c = "-" => LabelStep(s, c) =
                [ok |-> s.ok /\ s.prev \notin {".", "-"}, prev |-> c, len |-> s.len, alnum |-> s.alnum]
           /\ c = "." => LabelStep(s, c) =
                [ok |-> s.ok /\ s.prev \notin {".", "-"} /\ s.len <= MaxLabel /\ s.alnum,
                 prev |-> ".", len |-> 0, alnum |-> FALSE]
           /\ c \notin Word \cup {"-", "."} => LabelStep(s, c) = [s EXCEPT !.ok = FALSE]
<1>1. CASE c \in Word
  <2>1. LabelStep(s, c) = [s EXCEPT !.alnum = TRUE, !.len = @ + 1, !.prev = c]
    BY <1>1, Sorts DEF LabelStep, Word
  <2>2. LabelStep(s, c) = [ok |-> s.ok, prev |-> c, len |-> s.len + 1, alnum |-> TRUE]
    BY <2>1 DEF Scans
  <2>3. LabelStep(s, c) \in Scans
    <3>1. s.len + 1 \in Nat
      <4>1. s.len \in Nat BY ScanParts
      <4> QED BY <4>1
    <3>2. c \in Char \cup {".", "-", "_"} BY <1>1, Sorts
    <3>3. s.ok \in BOOLEAN /\ TRUE \in BOOLEAN BY ScanParts
    <3>4. [ok |-> s.ok, prev |-> c, len |-> s.len + 1, alnum |-> TRUE] \in Scans
      BY <3>1, <3>2, <3>3, ScanMade
    <3> QED BY <2>2, <3>4
  <2> QED BY <1>1, <2>2, <2>3, Sorts
<1>2. CASE c = "-"
  <2>1. LabelStep(s, c) = [s EXCEPT !.ok = @ /\ s.prev \notin {".", "-"}, !.prev = c]
    BY <1>2, Sorts DEF LabelStep, Word
  <2>2. LabelStep(s, c) =
          [ok |-> s.ok /\ s.prev \notin {".", "-"}, prev |-> c, len |-> s.len, alnum |-> s.alnum]
    BY <2>1 DEF Scans
  <2>3. LabelStep(s, c) \in Scans
    <3>1. (s.ok /\ s.prev \notin {".", "-"}) \in BOOLEAN OBVIOUS
    <3>2. c \in Char \cup {".", "-", "_"} /\ s.len \in Nat BY <1>2, ScanParts
    <3>3. s.alnum \in BOOLEAN BY ScanParts
    <3>4. [ok |-> s.ok /\ s.prev \notin {".", "-"}, prev |-> c, len |-> s.len, alnum |-> s.alnum] \in Scans
      BY <3>1, <3>2, <3>3, ScanMade
    <3> QED BY <2>2, <3>4
  <2> QED BY <1>2, <2>2, <2>3, Sorts
<1>3. CASE c = "."
  <2>1. LabelStep(s, c) =
          [LabelStart EXCEPT !.ok = s.ok /\ s.prev \notin {".", "-"} /\ s.len <= MaxLabel /\ s.alnum]
    BY <1>3, Sorts DEF LabelStep, Word
  <2>2. LabelStep(s, c) = [ok |-> s.ok /\ s.prev \notin {".", "-"} /\ s.len <= MaxLabel /\ s.alnum,
                           prev |-> ".", len |-> 0, alnum |-> FALSE]
    BY <2>1 DEF LabelStart
  <2>3. LabelStep(s, c) \in Scans
    <3>1. (s.ok /\ s.prev \notin {".", "-"} /\ s.len <= MaxLabel /\ s.alnum) \in BOOLEAN OBVIOUS
    <3>2. FALSE \in BOOLEAN OBVIOUS
    <3>3. 0 \in Nat /\ "." \in Char \cup {".", "-", "_"} OBVIOUS
    <3>4. [ok |-> s.ok /\ s.prev \notin {".", "-"} /\ s.len <= MaxLabel /\ s.alnum,
           prev |-> ".", len |-> 0, alnum |-> FALSE] \in Scans
      BY <3>1, <3>2, <3>3, ScanMade
    <3> QED BY <2>2, <3>4
  <2> QED BY <1>3, <2>2, <2>3, Sorts
<1>4. CASE c \notin Word \cup {"-", "."}
  <2>1. LabelStep(s, c) = [s EXCEPT !.ok = FALSE] BY <1>4 DEF LabelStep, Word
  <2>2. LabelStep(s, c) = [ok |-> FALSE, prev |-> s.prev, len |-> s.len, alnum |-> s.alnum] BY <2>1 DEF Scans
  <2>3. LabelStep(s, c) \in Scans
    <3>1. FALSE \in BOOLEAN OBVIOUS
    <3>2. s.prev \in Char \cup {".", "-", "_"} /\ s.len \in Nat /\ s.alnum \in BOOLEAN BY ScanParts
    <3>3. [ok |-> FALSE, prev |-> s.prev, len |-> s.len, alnum |-> s.alnum] \in Scans
      BY <3>1, <3>2, ScanMade
    <3> QED BY <2>2, <3>3
  <2> QED BY <1>4, <2>1, <2>3
<1> QED BY <1>1, <1>2, <1>3, <1>4

(* Where a label begins.                                                   *)
LEMMA OneBeginning ==
    ASSUME NEW t, NEW k \in Nat, NEW i, NEW j, Within(t, i, k), Within(t, j, k)
    PROVE  i = j
<1>1. i \in 1 .. k + 1 /\ j \in 1 .. k + 1 BY DEF Within
<1>2. ~(i < j)
  <2> SUFFICES ASSUME i < j PROVE FALSE OBVIOUS
  <2>1. j - 1 \in i .. k /\ j # 1 BY <1>1
  <2> QED BY <2>1 DEF Within
<1>3. ~(j < i)
  <2> SUFFICES ASSUME j < i PROVE FALSE OBVIOUS
  <2>1. i - 1 \in j .. k /\ i # 1 BY <1>1
  <2> QED BY <2>1 DEF Within
<1> QED BY <1>1, <1>2, <1>3

(* A label has a number of characters that count.                          *)
LEMMA LettersFinite ==
    ASSUME NEW t, NEW i \in Nat, NEW k \in Nat
    PROVE  IsFiniteSet(Letters(t, i, k)) /\ Cardinality(Letters(t, i, k)) \in Nat
<1>1. IsFiniteSet(i .. k) BY FS_Interval
<1>2. Letters(t, i, k) \in SUBSET (i .. k) BY DEF Letters
<1>3. IsFiniteSet(Letters(t, i, k)) BY <1>1, <1>2, FS_Subset
<1> QED BY <1>3, FS_CardinalityType

(* A character more in the label.                                          *)
LEMMA LabelGrows ==
    ASSUME NEW t, NEW k \in Nat \ {0}, NEW i, Within(t, i, k - 1), t[k] # "."
    PROVE  /\ Within(t, i, k)
           /\ Cardinality(Letters(t, i, k)) =
                IF t[k] = "-" THEN Cardinality(Letters(t, i, k - 1)) ELSE Cardinality(Letters(t, i, k - 1)) + 1
<1>1. i \in 1 .. k /\ k - 1 \in Nat BY DEF Within
<1>2. \A q \in i .. k : q = k \/ q \in i .. k - 1 BY <1>1
<1>3. Within(t, i, k) BY <1>1, <1>2 DEF Within
<1>4. Letters(t, i, k) = Letters(t, i, k - 1) \cup (IF t[k] = "-" THEN {} ELSE {k})
  BY <1>1, <1>2 DEF Letters
<1>5. k \notin Letters(t, i, k - 1) BY <1>1 DEF Letters
<1>6. IsFiniteSet(Letters(t, i, k - 1)) BY <1>1, LettersFinite
<1>7. Cardinality(Letters(t, i, k - 1) \cup {k}) = Cardinality(Letters(t, i, k - 1)) + 1
  BY <1>5, <1>6, FS_AddElement
<1>8. CASE t[k] = "-"
  <2>1. Letters(t, i, k) = Letters(t, i, k - 1) BY <1>4, <1>8
  <2> QED BY <1>3, <1>8, <2>1
<1>9. CASE t[k] # "-"
  <2>1. Letters(t, i, k) = Letters(t, i, k - 1) \cup {k} BY <1>4, <1>9
  <2> QED BY <1>3, <1>7, <1>9, <2>1
<1> QED BY <1>8, <1>9

(* A label begins behind a period.                                         *)
LEMMA LabelBegins ==
    ASSUME NEW t, NEW k \in Nat, k = 0 \/ t[k] = "."
    PROVE  Within(t, k + 1, k) /\ Cardinality(Letters(t, k + 1, k)) = 0
<1>1. Within(t, k + 1, k) BY DEF Within
<1>2. Letters(t, k + 1, k) = {} BY DEF Letters
<1> QED BY <1>1, <1>2, FS_EmptySet

(* What the loop knows after k characters, all of which were right.        *)
Knows(s, t, k) ==
    /\ s.prev = IF k = 0 THEN "." ELSE t[k]
    /\ \E i \in 1 .. k + 1 : Within(t, i, k) /\ s.len = Cardinality(Letters(t, i, k))
    /\ s.prev \in Word => s.alnum = TRUE

Judged(s, t, k) ==
    /\ s.ok = TRUE <=> \A p \in 1 .. k : Right(t, p)
    /\ s.ok = TRUE => Knows(s, t, k)

(* What a turn that reads c makes of the fields of s.                      *)
Turns(s, c, r) ==
    /\ s.ok \in BOOLEAN /\ r.ok \in BOOLEAN
    /\ c \in Word => (r.ok = TRUE <=> s.ok = TRUE) /\ r.prev = c /\ r.len = s.len + 1 /\ r.alnum = TRUE
    /\ c = "-" => /\ r.ok = TRUE <=> s.ok = TRUE /\ s.prev \notin {".", "-"}
                  /\ r.prev = c /\ r.len = s.len
    /\ c = "." => /\ r.ok = TRUE <=> /\ s.ok = TRUE /\ s.prev \notin {".", "-"}
                                    /\ s.len <= MaxLabel /\ s.alnum = TRUE
                  /\ r.prev = "." /\ r.len = 0
    /\ c \notin Word \cup {"-", "."} => r.ok = FALSE

(* The fields of the state after a turn.                                   *)
LEMMA StepFields ==
    ASSUME NEW s \in Scans, NEW c, NEW r, r = LabelStep(s, c)
    PROVE  Turns(s, c, r)
<1>1. s.ok \in BOOLEAN /\ s.alnum \in BOOLEAN /\ r.ok \in BOOLEAN BY OneLabelStep, ScanParts
<1>2. CASE c \in Word
  <2>1. r = [ok |-> s.ok, prev |-> c, len |-> s.len + 1, alnum |-> TRUE] BY <1>2, OneLabelStep
  <2>2. r.ok = s.ok /\ r.prev = c /\ r.len = s.len + 1 /\ r.alnum = TRUE BY <2>1
  <2> QED BY <1>1, <1>2, <2>2, Sorts DEF Turns
<1>3. CASE c = "-"
  <2>1. r = [ok |-> s.ok /\ s.prev \notin {".", "-"}, prev |-> c, len |-> s.len, alnum |-> s.alnum]
    BY <1>3, OneLabelStep
  <2>2. r.ok = (s.ok /\ s.prev \notin {".", "-"}) /\ r.prev = c /\ r.len = s.len BY <2>1
  <2> QED BY <1>1, <1>3, <2>2, Sorts DEF Turns
<1>4. CASE c = "."
  <2>1. r = [ok |-> s.ok /\ s.prev \notin {".", "-"} /\ s.len <= MaxLabel /\ s.alnum,
             prev |-> ".", len |-> 0, alnum |-> FALSE]
    BY <1>4, OneLabelStep
  <2>2. /\ r.ok = (s.ok /\ s.prev \notin {".", "-"} /\ s.len <= MaxLabel /\ s.alnum)
        /\ r.prev = "." /\ r.len = 0
    BY <2>1
  <2> QED BY <1>1, <1>4, <2>2, Sorts DEF Turns
<1>5. CASE c \notin Word \cup {"-", "."}
  <2>1. r = [s EXCEPT !.ok = FALSE] BY <1>5, OneLabelStep
  <2>2. r.ok = FALSE BY <2>1 DEF Scans
  <2> QED BY <1>1, <1>5, <2>2 DEF Turns
<1> QED BY <1>2, <1>3, <1>4, <1>5

(* The loop judges the characters one by one.                              *)
LEMMA LabelTurn ==
    ASSUME NEW t, NEW k \in Nat \ {0}, NEW s \in Scans, Judged(s, t, k - 1)
    PROVE  Judged(LabelStep(s, t[k]), t, k)
<1>r. PICK r : r = LabelStep(s, t[k]) OBVIOUS
<1>f. s.ok \in BOOLEAN /\ Turns(s, t[k], r) BY <1>r, ScanParts, StepFields
<1>1. /\ r.ok = TRUE => s.ok = TRUE
      /\ s.ok = TRUE \/ s.ok = FALSE
  <2>1. CASE t[k] \in Word BY <1>f, <2>1 DEF Turns
  <2>2. CASE t[k] = "-" BY <1>f, <2>2 DEF Turns
  <2>3. CASE t[k] = "." BY <1>f, <2>3 DEF Turns
  <2>4. CASE t[k] \notin Word \cup {"-", "."}
    <3>1. r.ok = FALSE BY <1>f, <2>4 DEF Turns
    <3> QED BY <1>f, <3>1
  <2> QED BY <2>1, <2>2, <2>3, <2>4
<1>2. (\A p \in 1 .. k : Right(t, p)) <=> (\A p \in 1 .. k - 1 : Right(t, p)) /\ Right(t, k)
  <2>1. \A p \in 1 .. k : p = k \/ p \in 1 .. k - 1 OBVIOUS
  <2> QED BY <2>1
<1>3. CASE s.ok = FALSE
  <2>1. r.ok # TRUE BY <1>1, <1>3
  <2> QED BY <1>2, <1>3, <1>r, <2>1 DEF Judged
<1>4. CASE s.ok = TRUE
  <2>1. Knows(s, t, k - 1) /\ \A p \in 1 .. k - 1 : Right(t, p) BY <1>4 DEF Judged
  <2>2. PICK i \in 1 .. k : Within(t, i, k - 1) /\ s.len = Cardinality(Letters(t, i, k - 1))
    BY <2>1 DEF Knows
  <2>3. /\ s.prev = IF k = 1 THEN "." ELSE t[k - 1]
        /\ s.prev \in Word => s.alnum = TRUE
    BY <2>1 DEF Knows
  <2>4. (r.ok = TRUE <=> Right(t, k)) /\ (r.ok = TRUE => Knows(r, t, k))
    <3>1. CASE t[k] \in Word
      <4>1. r.ok = TRUE /\ r.prev = t[k] /\ r.len = s.len + 1 /\ r.alnum = TRUE BY <1>4, <1>f, <3>1 DEF Turns
      <4>2. t[k] \notin {"-", "."} BY <3>1, Sorts
      <4>3. Right(t, k) BY <3>1, <4>2 DEF Right
      <4>4. Within(t, i, k) /\ r.len = Cardinality(Letters(t, i, k)) BY <2>2, <4>1, <4>2, LabelGrows
      <4> QED BY <4>1, <4>3, <4>4 DEF Knows
    <3>2. CASE t[k] = "-"
      <4>1. /\ r.ok = TRUE <=> s.ok = TRUE /\ s.prev \notin {".", "-"}
            /\ r.prev = t[k] /\ r.len = s.len
        BY <1>f, <3>2 DEF Turns
      <4>2. s.prev \notin {".", "-"} <=> k > 1 /\ t[k - 1] \notin {".", "-"} BY <2>3
      <4>3. Right(t, k) <=> s.prev \notin {".", "-"} BY <3>2, <4>2, Sorts DEF Right
      <4>4. Within(t, i, k) /\ r.len = Cardinality(Letters(t, i, k)) BY <2>2, <3>2, <4>1, LabelGrows
      <4>5. r.prev \notin Word BY <3>2, <4>1, Sorts
      <4>6. \E j \in 1 .. k + 1 : Within(t, j, k) /\ r.len = Cardinality(Letters(t, j, k)) BY <4>4
      <4>7. Knows(r, t, k) BY <4>1, <4>5, <4>6 DEF Knows
      <4> QED BY <1>4, <4>1, <4>3, <4>7
    <3>3. CASE t[k] = "."
      <4>0. /\ r.ok = TRUE <=> /\ s.ok = TRUE /\ s.prev \notin {".", "-"}
                               /\ s.len <= MaxLabel /\ s.alnum = TRUE
            /\ r.prev = "." /\ r.len = 0
        BY <1>f, <3>3 DEF Turns
      <4>1. r.ok = TRUE <=> s.prev \notin {".", "-"} /\ s.len <= MaxLabel /\ s.alnum = TRUE
        BY <1>4, <4>0
      <4>2. s.prev \notin {".", "-"} <=> k > 1 /\ t[k - 1] \notin {".", "-"} BY <2>3
      <4>3. s.prev \notin {".", "-"} => s.alnum = TRUE
        <5> SUFFICES ASSUME s.prev \notin {".", "-"} PROVE s.prev \in Word BY <2>3
        <5>1. k > 1 /\ s.prev = t[k - 1] /\ Right(t, k - 1) BY <2>1, <2>3, <4>2
        <5> QED BY <5>1 DEF Right
      <4>4. (\A j \in 1 .. k : Within(t, j, k - 1) => Cardinality(Letters(t, j, k - 1)) <= MaxLabel)
            <=> s.len <= MaxLabel
        <5>1. \A j \in 1 .. k : Within(t, j, k - 1) => j = i BY <2>2, OneBeginning
        <5> QED BY <2>2, <5>1
      <4>5. Right(t, k) <=> s.prev \notin {".", "-"} /\ s.len <= MaxLabel BY <3>3, <4>2, <4>4 DEF Right
      <4>6. Within(t, k + 1, k) /\ Cardinality(Letters(t, k + 1, k)) = 0 BY <3>3, LabelBegins
      <4>7. \E j \in 1 .. k + 1 : Within(t, j, k) /\ r.len = Cardinality(Letters(t, j, k)) BY <4>0, <4>6
      <4>8. r.prev = t[k] /\ r.prev \notin Word BY <3>3, <4>0, Sorts
      <4>9. Knows(r, t, k) BY <4>7, <4>8 DEF Knows
      <4> QED BY <4>1, <4>3, <4>5, <4>9
    <3>4. CASE t[k] \notin Word \cup {"-", "."}
      <4>1. r.ok = FALSE BY <1>f, <3>4 DEF Turns
      <4> QED BY <3>4, <4>1 DEF Right
    <3> QED BY <3>1, <3>2, <3>3, <3>4
  <2> QED BY <1>2, <1>4, <1>r, <2>1, <2>4 DEF Judged
<1> QED BY <1>1, <1>3, <1>4

(* The loop of ValidateDomainPart over the text t, as the model states it. *)
Seen(t) == CHOOSE g : g = [k \in 0 .. Len(t) |->
                             IF k = 0 THEN LabelStart ELSE LabelStep(g[k - 1], t[k])]

(* The loop runs: it has the recursion's equations.                        *)
LEMMA SeenUnfolds ==
    ASSUME NEW X, NEW t \in Seq(X)
    PROVE  /\ Seen(t)[0] = LabelStart
           /\ \A k \in 1 .. Len(t) : Seen(t)[k] = LabelStep(Seen(t)[k - 1], t[k])
<1> DEFINE n == Len(t)
           turn == [k \in 1 .. n |-> [r \in Scans |-> LabelStep(r, t[k])]]
<1>1. n \in Nat OBVIOUS
<1>2. LabelStart \in Scans BY ScanMade, TRUE \in BOOLEAN, FALSE \in BOOLEAN DEF LabelStart
<1>3. turn \in [1 .. n -> [Scans -> Scans]]
  <2>1. \A k \in 1 .. n, r \in Scans : LabelStep(r, t[k]) \in Scans BY OneLabelStep
  <2> QED BY <2>1
<1>4. \A k \in 1 .. n, r \in Scans : turn[k][r] = LabelStep(r, t[k])
  OBVIOUS
<1> HIDE DEF turn, n
<1>5. PICK f : Runs(f, n, Scans, LabelStart, turn)
  BY <1>1, <1>2, <1>3, Course
<1>6. \A k \in 1 .. n : f[k] = LabelStep(f[k - 1], t[k])
  <2> TAKE k \in 1 .. n
  <2>1. k - 1 \in 0 .. n BY <1>1
  <2>2. f[k - 1] \in Scans BY <2>1, <1>5 DEF Runs
  <2> QED BY <2>2, <1>4, <1>5 DEF Runs
<1>7. f = [k \in 0 .. n |-> IF k = 0 THEN LabelStart ELSE LabelStep(f[k - 1], t[k])]
  <2>1. \A k \in 0 .. n : k = 0 \/ k \in 1 .. n BY <1>1
  <2>2. \A k \in 0 .. n : f[k] = IF k = 0 THEN LabelStart ELSE LabelStep(f[k - 1], t[k])
    BY <1>5, <1>6, <2>1 DEF Runs
  <2> QED BY <2>2, <1>5 DEF Runs
<1>8. \E g : g = [k \in 0 .. n |-> IF k = 0 THEN LabelStart ELSE LabelStep(g[k - 1], t[k])]
  BY <1>7
<1>9. Seen(t) = [k \in 0 .. n |-> IF k = 0 THEN LabelStart ELSE LabelStep(Seen(t)[k - 1], t[k])]
  BY <1>8, Zenon DEF Seen, n
<1> HIDE DEF Seen
<1>10. \A k \in 1 .. n : k \in 0 .. n /\ k # 0 BY <1>1
<1>11. 0 \in 0 .. n BY <1>1
<1> USE DEF n
<1> QED BY <1>9, <1>10, <1>11

(* The loop passes a text exactly when every character is right where it is.*)
LEMMA LoopJudges ==
    ASSUME NEW X, NEW t \in Seq(X)
    PROVE  Seen(t)[Len(t)].ok <=> \A p \in 1 .. Len(t) : Right(t, p)
<1> DEFINE n == Len(t)
           T == {k \in Nat : k <= n => Seen(t)[k] \in Scans /\ Judged(Seen(t)[k], t, k)}
<1>1. n \in Nat OBVIOUS
<1>2. 0 \in T
  <2>1. Seen(t)[0] = LabelStart BY SeenUnfolds
  <2>2. LabelStart \in Scans BY ScanMade, TRUE \in BOOLEAN, FALSE \in BOOLEAN DEF LabelStart
  <2>3. LabelStart.ok = TRUE /\ LabelStart.prev = "." /\ LabelStart.len = 0 BY DEF LabelStart
  <2>4. Within(t, 1, 0) /\ Cardinality(Letters(t, 1, 0)) = 0 BY LabelBegins
  <2>5. Knows(LabelStart, t, 0)
    <3>1. \E i \in 1 .. 0 + 1 : Within(t, i, 0) /\ LabelStart.len = Cardinality(Letters(t, i, 0)) BY <2>3, <2>4
    <3>2. LabelStart.prev \notin Word BY <2>3, Sorts
    <3> QED BY <2>3, <3>1, <3>2 DEF Knows
  <2>6. Judged(LabelStart, t, 0) BY <2>3, <2>5 DEF Judged
  <2> QED BY <2>1, <2>2, <2>6
<1>3. ASSUME NEW k \in T PROVE k + 1 \in T
  <2>1. k \in Nat /\ (k <= n => Seen(t)[k] \in Scans /\ Judged(Seen(t)[k], t, k)) OBVIOUS
  <2>2. ASSUME k + 1 <= n PROVE Seen(t)[k + 1] \in Scans /\ Judged(Seen(t)[k + 1], t, k + 1)
    <3>1. k + 1 \in 1 .. n /\ k + 1 \in Nat \ {0} /\ (k + 1) - 1 = k BY <1>1, <2>1, <2>2
    <3>2. Seen(t)[k] \in Scans /\ Judged(Seen(t)[k], t, k) BY <1>1, <2>1, <2>2
    <3>3. Seen(t)[k + 1] = LabelStep(Seen(t)[k], t[k + 1]) BY <3>1, SeenUnfolds
    <3>4. LabelStep(Seen(t)[k], t[k + 1]) \in Scans BY <3>2, OneLabelStep
    <3>5. Judged(LabelStep(Seen(t)[k], t[k + 1]), t, k + 1) BY <3>1, <3>2, LabelTurn
    <3> QED BY <3>3, <3>4, <3>5
  <2> QED BY <2>1, <2>2
<1>4. T = Nat
  <2> HIDE DEF T
  <2>1. T \subseteq Nat BY DEF T
  <2> QED BY <1>2, <1>3, <2>1, NatSetInduction
<1>5. n \in T BY <1>1, <1>4
<1>6. Seen(t)[n] \in Scans /\ Judged(Seen(t)[n], t, n) BY <1>1, <1>5
<1>7. Seen(t)[n].ok \in BOOLEAN BY <1>6, ScanParts
<1>8. Seen(t)[n].ok = TRUE <=> \A p \in 1 .. n : Right(t, p) BY <1>6 DEF Judged
<1> QED BY <1>7, <1>8

(* The domain as the loop reads it.                                        *)
Dotted(d) == IF d[Len(d)] = "." THEN d ELSE Append(d, ".")

(* What ValidateDomainPart does with a domain without brackets.            *)
LEMMA PassIsRight ==
    ASSUME NEW X, NEW d \in Seq(X), ~Bracketed(d)
    PROVE  ValidateDomainPart(d) <=>
             /\ Len(d) \in 1 .. MaxDomain
             /\ \A p \in 1 .. Len(Dotted(d)) : Right(Dotted(d), p)
<1>1. ValidateDomainPart(d) <=> Len(d) \in 1 .. MaxDomain /\ Seen(Dotted(d))[Len(Dotted(d))].ok
  BY DEF ValidateDomainPart, Bracketed, Dotted, Seen
<1>2. Dotted(d) \in Seq(X \cup {"."})
  BY DEF Dotted
<1> QED BY <1>1, <1>2, LoopJudges

-----------------------------------------------------------------------------
(* Labels *)

(* At every place of a text a label has begun.                             *)
LEMMA BeginningExists ==
    ASSUME NEW t, NEW n \in Nat
    PROVE  \E i \in 1 .. n + 1 : Within(t, i, n)
<1> DEFINE T == {k \in Nat : \E i \in 1 .. k + 1 : Within(t, i, k)}
<1>1. 0 \in T
  <2>1. Within(t, 0 + 1, 0) BY LabelBegins
  <2> QED BY <2>1
<1>2. ASSUME NEW k \in T PROVE k + 1 \in T
  <2>1. k \in Nat /\ k + 1 \in Nat \ {0} /\ (k + 1) - 1 = k OBVIOUS
  <2>2. PICK i \in 1 .. k + 1 : Within(t, i, k) OBVIOUS
  <2>3. CASE t[k + 1] = "."
    <3>1. Within(t, (k + 1) + 1, k + 1) BY <2>1, <2>3, LabelBegins
    <3> QED BY <2>1, <3>1
  <2>4. CASE t[k + 1] # "."
    <3>1. Within(t, i, k + 1) BY <2>1, <2>2, <2>4, LabelGrows
    <3>2. i \in 1 .. (k + 1) + 1 BY <2>1
    <3> QED BY <2>1, <3>1, <3>2
  <2> QED BY <2>3, <2>4
<1>3. T = Nat
  <2> HIDE DEF T
  <2>1. T \subseteq Nat BY DEF T
  <2> QED BY <1>1, <1>2, <2>1, NatSetInduction
<1>4. n \in T BY <1>3
<1> QED BY <1>4

(* Before a period at the end, every label ends.                           *)
LEMMA EndExists ==
    ASSUME NEW t, NEW n \in Nat, t[n] = ".", NEW p \in 1 .. n
    PROVE  \E e \in p .. n : t[e] = "." /\ \A q \in p .. e - 1 : t[q] # "."
<1> SUFFICES ASSUME \A e \in p .. n : t[e] = "." => \E q \in p .. e - 1 : t[q] = "."
             PROVE  FALSE
  OBVIOUS
<1> DEFINE T == {k \in Nat : \A q \in p .. p + k : q <= n => t[q] # "."}
<1>1. 0 \in T
  <2>1. \A q \in p .. p + 0 : q = p OBVIOUS
  <2>2. p .. p - 1 = {} OBVIOUS
  <2>3. t[p] # "." BY <2>2
  <2> QED BY <2>1, <2>3
<1>2. ASSUME NEW k \in T PROVE k + 1 \in T
  <2>1. k \in Nat /\ k + 1 \in Nat /\ \A q \in p .. p + k : q <= n => t[q] # "." OBVIOUS
  <2>2. ASSUME NEW q \in p .. p + (k + 1), q <= n PROVE t[q] # "."
    <3>1. CASE q \in p .. p + k BY <2>1, <2>2, <3>1
    <3>2. CASE q \notin p .. p + k
      <4>1. q = p + (k + 1) BY <2>1, <3>2
      <4>2. \A r \in p .. q - 1 : r \in p .. p + k /\ r <= n BY <2>1, <2>2, <4>1
      <4>3. \A r \in p .. q - 1 : t[r] # "." BY <2>1, <4>2
      <4>4. q \in p .. n BY <2>1, <2>2, <4>1
      <4> QED BY <4>3, <4>4
    <3> QED BY <3>1, <3>2
  <2> QED BY <2>1, <2>2
<1>3. T = Nat
  <2> HIDE DEF T
  <2>1. T \subseteq Nat BY DEF T
  <2> QED BY <1>1, <1>2, <2>1, NatSetInduction
<1>4. n - p \in T /\ n \in p .. p + (n - p) BY <1>3
<1> QED BY <1>4

(* t is the text u with a period behind it.                                *)
Closes(t, u) ==
    /\ \A q \in 1 .. Len(u) : t[q] = u[q]
    /\ t[Len(u) + 1] = "."

(* l is what t holds from i to the period at p.                            *)
Cut(l, t, i, p) == Len(l) = p - i /\ \A k \in 1 .. p - i : l[k] = t[i + k - 1]

(* The label that begins at i and ends before the period at p.             *)
LEMMA LabelAt ==
    ASSUME NEW X, NEW u \in Seq(X), NEW t, Closes(t, u), NEW p \in 1 .. Len(u) + 1, t[p] = ".",
           NEW i, Within(t, i, p - 1), NEW l, l = SubSeq(u, i, p - 1)
    PROVE  l \in Labels(u) /\ l \in Seq(X) /\ Cut(l, t, i, p)
<1>1. Len(u) \in Nat /\ i \in 1 .. p /\ i \in Int /\ p - 1 \in Int BY DEF Within
<1>2. \A k \in i .. p - 1 : k \in 1 .. Len(u) /\ u[k] \in X /\ u[k] = t[k] BY <1>1 DEF Closes
<1>3. /\ SubSeq(u, i, p - 1) \in Seq(X)
      /\ Len(SubSeq(u, i, p - 1)) = IF i <= p - 1 THEN (p - 1) - i + 1 ELSE 0
      /\ \A k \in 1 .. (p - 1) - i + 1 : SubSeq(u, i, p - 1)[k] = u[i + k - 1]
  BY <1>1, <1>2, SubSeqProperties
<1>4. \A k \in 1 .. p - i : SubSeq(u, i, p - 1)[k] = t[i + k - 1]
  <2> TAKE k \in 1 .. p - i
  <2>1. k \in 1 .. (p - 1) - i + 1 /\ i + k - 1 \in i .. p - 1 BY <1>1
  <2> QED BY <2>1, <1>2, <1>3
<1>5. Len(SubSeq(u, i, p - 1)) = p - i BY <1>1, <1>3
<1>6. SubSeq(u, i, p - 1) \in Labels(u)
  <2>1. i \in 1 .. Len(u) + 1 /\ p - 1 \in 0 .. Len(u) /\ p - 1 >= i - 1 BY <1>1
  <2>2. i = 1 \/ u[i - 1] = "."
    <3>1. i # 1 => i - 1 \in 1 .. Len(u) BY <1>1
    <3> QED BY <3>1 DEF Within, Closes
  <2>3. p - 1 = Len(u) \/ u[(p - 1) + 1] = "."
    <3>1. p - 1 # Len(u) => p \in 1 .. Len(u) /\ (p - 1) + 1 = p BY <1>1
    <3> QED BY <3>1 DEF Closes
  <2>4. \A k \in i .. p - 1 : u[k] # "." BY <1>2 DEF Within
  <2> DEFINE ends == {ij \in (1 .. Len(u) + 1) \X (0 .. Len(u)) :
                        /\ ij[2] >= ij[1] - 1
                        /\ ij[1] = 1 \/ u[ij[1] - 1] = "."
                        /\ ij[2] = Len(u) \/ u[ij[2] + 1] = "."
                        /\ \A k \in ij[1] .. ij[2] : u[k] # "."}
  <2>5. <<i, p - 1>> \in ends BY <2>1, <2>2, <2>3, <2>4
  <2>6. Labels(u) = {SubSeq(u, ij[1], ij[2]) : ij \in ends} BY DEF Labels
  <2>7. PICK e : e = <<i, p - 1>> OBVIOUS
  <2>8. e[1] = i /\ e[2] = p - 1 BY <2>7
  <2>9. e \in ends BY <2>5, <2>7
  <2> HIDE DEF ends
  <2>10. SubSeq(u, e[1], e[2]) \in Labels(u) BY <2>6, <2>9
  <2> QED BY <2>8, <2>10
<1> QED BY <1>3, <1>4, <1>5, <1>6, Zenon DEF Cut

(* Every label of u lies in t between a beginning and a period.            *)
LEMMA LabelsAre ==
    ASSUME NEW X, NEW u \in Seq(X), NEW t, Closes(t, u), NEW l \in Labels(u)
    PROVE  \E p \in 1 .. Len(u) + 1, i \in 1 .. Len(u) + 1 :
              t[p] = "." /\ Within(t, i, p - 1) /\ l = SubSeq(u, i, p - 1)
<1>1. PICK i \in 1 .. Len(u) + 1, j \in 0 .. Len(u) :
        /\ l = SubSeq(u, i, j)
        /\ j >= i - 1
        /\ i = 1 \/ u[i - 1] = "."
        /\ j = Len(u) \/ u[j + 1] = "."
        /\ \A k \in i .. j : u[k] # "."
  BY DEF Labels
<1>2. Len(u) \in Nat /\ j + 1 \in 1 .. Len(u) + 1 /\ (j + 1) - 1 = j OBVIOUS
<1>3. t[j + 1] = "."
  <2>1. j # Len(u) => j + 1 \in 1 .. Len(u) BY <1>2
  <2> QED BY <1>1, <1>2, <2>1 DEF Closes
<1>4. Within(t, i, j)
  <2>1. i \in 1 .. j + 1 BY <1>1
  <2>2. i = 1 \/ t[i - 1] = "."
    <3>1. i # 1 => i - 1 \in 1 .. Len(u) BY <1>2
    <3> QED BY <1>1, <3>1 DEF Closes
  <2>3. \A k \in i .. j : t[k] # "."
    <3>1. \A k \in i .. j : k \in 1 .. Len(u) BY <1>2
    <3> QED BY <1>1, <3>1 DEF Closes
  <2> QED BY <2>1, <2>2, <2>3 DEF Within
<1> QED BY <1>1, <1>2, <1>3, <1>4

(* The characters that count, in the text and in the label cut out of it.  *)
LEMMA CountsAgree ==
    ASSUME NEW X, NEW t, NEW i \in Nat \ {0}, NEW p \in Nat, i <= p, NEW l \in Seq(X), Len(l) = p - i,
           \A k \in 1 .. p - i : l[k] = t[i + k - 1]
    PROVE  Cardinality(Counted(l)) = Cardinality(Letters(t, i, p - 1))
<1> DEFINE S == Letters(t, i, p - 1)
           F == [q \in S |-> q - i + 1]
<1>1. DOMAIN l = 1 .. p - i OBVIOUS
<1>2. ASSUME NEW q \in S PROVE q \in i .. p - 1 /\ t[q] # "-" /\ q - i + 1 \in Counted(l)
  <2>1. q \in i .. p - 1 /\ t[q] # "-" BY DEF Letters
  <2>2. q - i + 1 \in 1 .. p - i /\ i + (q - i + 1) - 1 = q BY <2>1
  <2>3. l[q - i + 1] = t[q] BY <2>2
  <2> QED BY <1>1, <2>1, <2>2, <2>3 DEF Counted
<1>3. ASSUME NEW k \in Counted(l) PROVE \E q \in S : F[q] = k
  <2>1. k \in 1 .. p - i /\ l[k] # "-" BY <1>1 DEF Counted
  <2>2. i + k - 1 \in i .. p - 1 /\ t[i + k - 1] # "-" /\ (i + k - 1) - i + 1 = k BY <2>1
  <2>3. i + k - 1 \in S BY <2>2 DEF Letters
  <2> QED BY <2>2, <2>3
<1>4. F \in [S -> Counted(l)] BY <1>2
<1>5. ASSUME NEW a \in S, NEW b \in S, F[a] = F[b] PROVE a = b
  <2>1. a \in i .. p - 1 /\ b \in i .. p - 1 BY <1>2
  <2>2. a - i + 1 = b - i + 1 BY <1>5
  <2> QED BY <2>1, <2>2
<1>6. \A a, b \in S : F[a] = F[b] => a = b BY <1>5
<1>7. \A k \in Counted(l) : \E q \in S : F[q] = k BY <1>3
<1>8. IsFiniteSet(S)
  <2>1. p - 1 \in Nat \/ S = {}
    <3>1. i .. p - 1 = {} \/ p - 1 \in Nat OBVIOUS
    <3> QED BY <3>1 DEF Letters
  <2> QED BY <2>1, LettersFinite, FS_EmptySet
<1> HIDE DEF S, F
<1>9. F \in Bijection(S, Counted(l)) BY <1>4, <1>6, <1>7, Fun_IsBij
<1>10. ExistsBijection(S, Counted(l)) BY <1>9 DEF ExistsBijection
<1>11. Cardinality(Counted(l)) = Cardinality(S) BY <1>8, <1>10, FS_Bijection
<1> QED BY <1>11 DEF S

(* Every label is right by itself exactly when every character is right    *)
(* where it is.                                                            *)
LEMMA RightMakesLabels ==
    ASSUME NEW X, NEW u \in Seq(X), NEW t, Closes(t, u), \A p \in 1 .. Len(u) + 1 : Right(t, p),
           NEW l \in Labels(u)
    PROVE  LabelOK(l) /\ Cardinality(Counted(l)) <= MaxLabel
<1>1. PICK p \in 1 .. Len(u) + 1, i \in 1 .. Len(u) + 1 :
        t[p] = "." /\ Within(t, i, p - 1) /\ l = SubSeq(u, i, p - 1)
  BY LabelsAre
<1>2. Len(u) \in Nat /\ i \in 1 .. p BY <1>1 DEF Within
<1>3. /\ l \in Seq(X) /\ Len(l) = p - i
      /\ \A k \in 1 .. p - i : l[k] = t[i + k - 1]
  <2>1. l \in Seq(X) /\ Cut(l, t, i, p) BY <1>1, LabelAt
  <2> QED BY <2>1 DEF Cut
<1>4. DOMAIN l = 1 .. p - i BY <1>3
<1>5. Right(t, p) /\ p > 1 /\ t[p - 1] # "-" /\ t[p - 1] # "." BY <1>1 DEF Right
<1>6. i <= p - 1
  <2>1. i # p BY <1>1, <1>5 DEF Within
  <2> QED BY <1>2, <2>1
<1>7. \A q \in i .. p - 1 : Right(t, q) /\ t[q] # "." BY <1>1, <1>2 DEF Within
<1>8. \A k \in 1 .. p - i : i + k - 1 \in i .. p - 1 BY <1>2
<1>9. \A k \in DOMAIN l : l[k] \in Letter \cup Digit \cup {"_", "-"}
  <2> TAKE k \in DOMAIN l
  <2>1. i + k - 1 \in i .. p - 1 /\ l[k] = t[i + k - 1] BY <1>3, <1>4, <1>8
  <2>2. t[i + k - 1] \in Word \cup {"-", "."} /\ t[i + k - 1] # "." BY <1>7, <2>1 DEF Right
  <2> QED BY <2>1, <2>2 DEF Word
<1>10. l # <<>> /\ l[1] # "-" /\ l[Len(l)] # "-"
  <2>1. l[1] = t[i] /\ l[Len(l)] = t[p - 1]
    <3>1. 1 \in 1 .. p - i /\ i + 1 - 1 = i /\ p - i \in 1 .. p - i /\ i + (p - i) - 1 = p - 1 BY <1>2, <1>6
    <3> QED BY <1>3, <3>1
  <2>2. t[i] # "-"
    <3> SUFFICES ASSUME t[i] = "-" PROVE FALSE OBVIOUS
    <3>1. i \in i .. p - 1 BY <1>2, <1>6
    <3>2. i > 1 /\ t[i - 1] # "." BY <1>7, <3>1 DEF Right
    <3> QED BY <1>1, <3>2 DEF Within
  <2>3. Len(l) # 0 BY <1>2, <1>3, <1>6
  <2> QED BY <1>3, <1>5, <2>1, <2>2, <2>3
<1>11. \A k \in 1 .. Len(l) - 1 : <<l[k], l[k + 1]>> # <<"-", "-">>
  <2> TAKE k \in 1 .. Len(l) - 1
  <2>1. /\ k \in 1 .. p - i /\ k + 1 \in 1 .. p - i
        /\ i + (k + 1) - 1 \in i .. p - 1 /\ (i + (k + 1) - 1) - 1 = i + k - 1
    BY <1>2, <1>3
  <2>2. l[k] = t[i + k - 1] /\ l[k + 1] = t[i + (k + 1) - 1] BY <1>3, <2>1
  <2>3. t[i + (k + 1) - 1] = "-" => t[i + k - 1] # "-"
    <3>1. Right(t, i + (k + 1) - 1) BY <1>7, <2>1
    <3> QED BY <2>1, <3>1 DEF Right
  <2> QED BY <2>2, <2>3
<1>12. Cardinality(Counted(l)) <= MaxLabel
  <2>1. i \in Nat \ {0} /\ p \in Nat /\ i <= p BY <1>2
  <2>2. Cardinality(Counted(l)) = Cardinality(Letters(t, i, p - 1)) BY <1>3, <2>1, CountsAgree
  <2>3. Cardinality(Letters(t, i, p - 1)) <= MaxLabel BY <1>1, <1>2, <1>5 DEF Right
  <2> QED BY <2>2, <2>3
<1> QED BY <1>9, <1>10, <1>11, <1>12 DEF LabelOK

(* The other way: no character is wrong where all labels are right.        *)
LEMMA LabelsMakeRight ==
    ASSUME NEW X, NEW u \in Seq(X), NEW t, Closes(t, u), NEW p \in 1 .. Len(u) + 1,
           \A l \in Labels(u) : LabelOK(l) /\ Cardinality(Counted(l)) <= MaxLabel
    PROVE  Right(t, p)
<1>1. Len(u) \in Nat /\ Len(u) + 1 \in Nat /\ p - 1 \in Nat OBVIOUS
<1>2. PICK e \in p .. Len(u) + 1 : t[e] = "." /\ \A q \in p .. e - 1 : t[q] # "."
  BY <1>1, EndExists DEF Closes
<1>3. PICK i \in 1 .. p : Within(t, i, p - 1)
  <2>1. \E i \in 1 .. (p - 1) + 1 : Within(t, i, p - 1) BY <1>1, BeginningExists
  <2>2. (p - 1) + 1 = p BY <1>1
  <2> QED BY <2>1, <2>2
<1>4. Within(t, i, e - 1)
  <2>1. \A q \in i .. e - 1 : q \in i .. p - 1 \/ q \in p .. e - 1 BY <1>2
  <2>2. i \in 1 .. (e - 1) + 1 BY <1>2, <1>3
  <2> QED BY <1>2, <1>3, <2>1, <2>2 DEF Within
<1>l. PICK l : l = SubSeq(u, i, e - 1) OBVIOUS
<1>5. /\ l \in Labels(u) /\ l \in Seq(X) /\ Len(l) = e - i
      /\ \A k \in 1 .. e - i : l[k] = t[i + k - 1]
  <2>1. e \in 1 .. Len(u) + 1 BY <1>1, <1>2
  <2>2. l \in Labels(u) /\ l \in Seq(X) /\ Cut(l, t, i, e) BY <1>2, <1>4, <1>l, <2>1, LabelAt
  <2> QED BY <2>2 DEF Cut
<1>6. LabelOK(l) /\ DOMAIN l = 1 .. e - i BY <1>5
<1>7. i <= e - 1 /\ t[i] # "-" /\ t[e - 1] # "-"
  <2>0. Len(l) # 0
    <3>1. l # <<>> BY <1>6 DEF LabelOK
    <3>2. l \in Seq(X) BY <1>5
    <3> QED BY <3>1, <3>2, EmptySeq
  <2>1. Len(l) # 0 /\ l[1] # "-" /\ l[Len(l)] # "-" BY <2>0, <1>6 DEF LabelOK
  <2>2. e - i >= 1 /\ 1 \in 1 .. e - i /\ e - i \in 1 .. e - i BY <1>2, <1>3, <1>5, <2>1
  <2>3. i + 1 - 1 = i /\ i + (e - i) - 1 = e - 1 BY <1>2, <1>3
  <2>4. l[1] = t[i] /\ l[e - i] = t[e - 1] BY <1>5, <2>2, <2>3
  <2> QED BY <1>5, <2>1, <2>2, <2>4
<1>8. ASSUME NEW q \in i .. e - 1 PROVE t[q] \in Word \cup {"-"} /\ t[q] # "."
  <2>1. q - i + 1 \in 1 .. e - i /\ i + (q - i + 1) - 1 = q BY <1>2, <1>3
  <2>2. t[q] = l[q - i + 1] BY <1>5, <2>1
  <2>3. l[q - i + 1] \in Letter \cup Digit \cup {"_", "-"} BY <1>6, <2>1 DEF LabelOK
  <2> QED BY <2>2, <2>3, Sorts DEF Word
<1>9. CASE t[p] = "."
  <2>1. e = p
    <3>1. ~(p <= e - 1)
      <4> SUFFICES ASSUME p <= e - 1 PROVE FALSE OBVIOUS
      <4>1. p \in p .. e - 1 BY <1>2
      <4> QED BY <1>2, <1>9, <4>1
    <3> QED BY <1>2, <3>1
  <2>2. p > 1 /\ p - 1 \in i .. e - 1 BY <1>3, <1>7, <2>1
  <2>3. t[p - 1] \notin {"-", "."} BY <1>7, <1>8, <2>1, <2>2
  <2>4. ASSUME NEW j \in 1 .. p, Within(t, j, p - 1)
        PROVE  Cardinality(Letters(t, j, p - 1)) <= MaxLabel
    <3>1. j = i BY <1>1, <1>3, <2>4, OneBeginning
    <3>2. i \in Nat \ {0} /\ e \in Nat /\ i <= e BY <1>2, <1>3
    <3>3. Cardinality(Counted(l)) = Cardinality(Letters(t, i, e - 1)) BY <1>5, <3>2, CountsAgree
    <3>4. Cardinality(Counted(l)) <= MaxLabel BY <1>5
    <3> QED BY <2>1, <3>1, <3>3, <3>4
  <2> QED BY <1>9, <2>2, <2>3, <2>4 DEF Right
<1>10. CASE t[p] # "."
  <2>1. p \in i .. e - 1
    <3>1. e # p BY <1>2, <1>10
    <3> QED BY <1>2, <1>3, <3>1
  <2>2. t[p] \in Word \cup {"-"} BY <1>8, <2>1
  <2>3. ASSUME t[p] = "-" PROVE p > 1 /\ t[p - 1] \notin {"-", "."}
    <3>1. p # i BY <1>7, <2>3
    <3>2. p > 1 /\ p - 1 \in i .. e - 1 BY <1>3, <2>1, <3>1
    <3>3. t[p - 1] # "." BY <1>8, <3>2
    <3>4. /\ p - i \in 1 .. Len(l) - 1 /\ p - i \in 1 .. e - i /\ (p - i) + 1 \in 1 .. e - i
          /\ i + (p - i) - 1 = p - 1 /\ i + ((p - i) + 1) - 1 = p
      BY <1>3, <1>5, <2>1, <3>1
    <3>5. <<l[p - i], l[(p - i) + 1]>> # <<"-", "-">> BY <1>6, <3>4 DEF LabelOK
    <3>6. l[p - i] = t[p - 1] /\ l[(p - i) + 1] = t[p] BY <1>5, <3>4
    <3> QED BY <2>3, <3>2, <3>3, <3>5, <3>6
  <2> QED BY <1>10, <2>2, <2>3, Sorts DEF Right
<1> QED BY <1>9, <1>10

(* The loop reads the domain with one period behind it.                    *)
LEMMA DottedCloses ==
    ASSUME NEW X, NEW d \in Seq(X), d # <<>>
    PROVE  /\ Undotted(d) \in Seq(X) /\ Closes(Dotted(d), Undotted(d))
           /\ Len(Dotted(d)) = Len(Undotted(d)) + 1
<1>1. Len(d) \in Nat \ {0} OBVIOUS
<1>2. CASE d[Len(d)] = "."
  <2>1. Undotted(d) = SubSeq(d, 1, Len(d) - 1) /\ Dotted(d) = d BY <1>2 DEF Undotted, Dotted
  <2>2. \A k \in 1 .. Len(d) - 1 : d[k] \in X BY <1>1
  <2>3. /\ SubSeq(d, 1, Len(d) - 1) \in Seq(X)
        /\ Len(SubSeq(d, 1, Len(d) - 1)) = Len(d) - 1
        /\ \A k \in 1 .. Len(d) - 1 : SubSeq(d, 1, Len(d) - 1)[k] = d[k]
    <3>1. /\ SubSeq(d, 1, Len(d) - 1) \in Seq(X)
          /\ Len(SubSeq(d, 1, Len(d) - 1)) = IF 1 <= Len(d) - 1 THEN Len(d) - 1 - 1 + 1 ELSE 0
          /\ \A k \in 1 .. Len(d) - 1 - 1 + 1 : SubSeq(d, 1, Len(d) - 1)[k] = d[1 + k - 1]
      BY <1>1, <2>2, 1 \in Int, Len(d) - 1 \in Int, SubSeqProperties
    <3>2. Len(d) - 1 - 1 + 1 = Len(d) - 1 /\ \A k \in 1 .. Len(d) - 1 : 1 + k - 1 = k BY <1>1
    <3> QED BY <1>1, <3>1, <3>2
  <2> QED BY <1>1, <1>2, <2>1, <2>3 DEF Closes
<1>3. CASE d[Len(d)] # "."
  <2>1. Undotted(d) = d /\ Dotted(d) = Append(d, ".") BY <1>3 DEF Undotted, Dotted
  <2>2. Len(Append(d, ".")) = Len(d) + 1 /\ Append(d, ".")[Len(d) + 1] = "." OBVIOUS
  <2>3. \A k \in 1 .. Len(d) : Append(d, ".")[k] = d[k] OBVIOUS
  <2> QED BY <2>1, <2>2, <2>3 DEF Closes
<1> QED BY <1>2, <1>3

(* The limits of a domain are numbers.                                     *)
LEMMA Limits == MaxDomain \in Nat /\ MaxLabel \in Nat
BY PolicyAssumption

(* The loop judges a domain as its labels do one by one.                   *)
LEMMA DomainSoundHere == text \in Seq(Char) => DomainSound
<1> SUFFICES ASSUME text \in Seq(Char), ~Bracketed(text)
             PROVE  ValidateDomainPart(text) <=>
                       /\ text # <<>> /\ Len(text) <= MaxDomain
                       /\ \A l \in Labels(Undotted(text)) : LabelOK(l) /\ Cardinality(Counted(l)) <= MaxLabel
  BY DEF DomainSound
<1>1. ValidateDomainPart(text) <=>
        /\ Len(text) \in 1 .. MaxDomain
        /\ \A p \in 1 .. Len(Dotted(text)) : Right(Dotted(text), p)
  BY PassIsRight
<1>2. Len(text) \in 1 .. MaxDomain <=> text # <<>> /\ Len(text) <= MaxDomain
  BY Limits
<1>3. CASE text = <<>> BY <1>1, <1>2, <1>3
<1>4. CASE text # <<>>
  <2>1. /\ Undotted(text) \in Seq(Char) /\ Closes(Dotted(text), Undotted(text))
        /\ Len(Dotted(text)) = Len(Undotted(text)) + 1
    BY <1>4, DottedCloses
  <2>2. (\A p \in 1 .. Len(Undotted(text)) + 1 : Right(Dotted(text), p)) <=>
        \A l \in Labels(Undotted(text)) : LabelOK(l) /\ Cardinality(Counted(l)) <= MaxLabel
    BY <2>1, RightMakesLabels, LabelsMakeRight
  <2> QED BY <1>1, <1>2, <2>1, <2>2
<1> QED BY <1>3, <1>4

-----------------------------------------------------------------------------
(* The lists *)

(* What PolicyAssumption says of lower case.                               *)
LEMMA LowerFacts ==
    /\ Char \subseteq DOMAIN Lower
    /\ \A c \in DOMAIN Lower : Lower[c] \in DOMAIN Lower
    /\ \A c \in DOMAIN Lower : Lower[Lower[c]] = Lower[c]
    /\ \A c \in DOMAIN Lower : Lower[c] # c => Lower[c] \in Letter \cup NonAscii
BY PolicyAssumption

(* Two ranges from 1 that are equal end at the same number.                *)
LEMMA SameRange ==
    ASSUME NEW m \in Nat, NEW n \in Nat, 1 .. m = 1 .. n
    PROVE  m = n
<1>1. m # 0 => m \in 1 .. m OBVIOUS
<1>2. n # 0 => n \in 1 .. n OBVIOUS
<1>3. (m # 0 => m <= n) /\ (n # 0 => n <= m) BY <1>1, <1>2
<1> QED BY <1>3

(* Texts are the same but for case when their lower cases are equal.       *)
LEMMA SameLower ==
    ASSUME NEW s \in Seq(DOMAIN Lower), NEW t \in Seq(DOMAIN Lower)
    PROVE  SameIgnoringCase(s, t) <=> ToLower(s) = ToLower(t)
<1>1. /\ DOMAIN s = 1 .. Len(s) /\ DOMAIN t = 1 .. Len(t) /\ Len(s) \in Nat /\ Len(t) \in Nat
      /\ DOMAIN ToLower(s) = DOMAIN s /\ DOMAIN ToLower(t) = DOMAIN t
  BY DEF ToLower
<1>2. (\A k \in DOMAIN s : ToLower(s)[k] = Lower[s[k]]) /\ (\A k \in DOMAIN t : ToLower(t)[k] = Lower[t[k]])
  BY DEF ToLower
<1>3. ASSUME SameIgnoringCase(s, t) PROVE ToLower(s) = ToLower(t)
  <2>1. DOMAIN s = DOMAIN t BY <1>1, <1>3 DEF SameIgnoringCase
  <2>2. ASSUME NEW k \in DOMAIN s PROVE Lower[s[k]] = Lower[t[k]]
    <3>1. CASE s[k] = t[k] BY <3>1
    <3>2. CASE s[k] # t[k]
      <4>1. PICK c \in Letter \cup NonAscii : {Lower[c]} = {Lower[s[k]], Lower[t[k]]}
        BY <1>3, <3>2 DEF SameIgnoringCase
      <4> QED BY <4>1
    <3> QED BY <3>1, <3>2
  <2> QED BY <2>1, <2>2 DEF ToLower
<1>4. ASSUME ToLower(s) = ToLower(t) PROVE SameIgnoringCase(s, t)
  <2>1. DOMAIN s = DOMAIN t BY <1>1, <1>4
  <2>2. Len(s) = Len(t)
    <3>1. 1 .. Len(s) = 1 .. Len(t) BY <1>1, <2>1
    <3>2. Len(s) \in Nat /\ Len(t) \in Nat BY <1>1
    <3> QED BY <3>1, <3>2, SameRange
  <2>3. ASSUME NEW k \in DOMAIN s, s[k] # t[k]
        PROVE  \E c \in Letter \cup NonAscii : {Lower[c]} = {Lower[s[k]], Lower[t[k]]}
    <3>1. Lower[s[k]] = Lower[t[k]] BY <1>2, <1>4, <2>1
    <3>2. s[k] \in DOMAIN Lower /\ t[k] \in DOMAIN Lower BY <1>1, <2>1
    <3>3. Lower[s[k]] # s[k] \/ Lower[t[k]] # t[k] BY <2>3, <3>1
    <3>4. Lower[s[k]] \in Letter \cup NonAscii BY <3>1, <3>2, <3>3, LowerFacts
    <3>5. Lower[Lower[s[k]]] = Lower[s[k]] BY <3>2, LowerFacts
    <3> QED BY <3>1, <3>4, <3>5
  <2> QED BY <2>2, <2>3 DEF SameIgnoringCase
<1> QED BY <1>3, <1>4

(* A domain is on a list in some case when the configured list has it.     *)
LEMMA ListedIsConfigured ==
    ASSUME NEW list, list \subseteq Seq(DOMAIN Lower), NEW s \in Seq(DOMAIN Lower)
    PROVE  (\E d \in list : SameIgnoringCase(d, s)) <=> ToLower(s) \in Configured(list)
<1>1. ToLower(s) \in Configured(list) <=> \E d \in list : ToLower(d) = ToLower(s)
  BY DEF Configured
<1>2. \A d \in list : SameIgnoringCase(d, s) <=> ToLower(d) = ToLower(s)
  BY SameLower
<1> QED BY <1>1, <1>2

(* The lists decide by the domain and not by its case.                     *)
LEMMA ListsIgnoreCaseHere == text \in Seq(Char) => ListsIgnoreCase
<1> SUFFICES ASSUME text \in Seq(Char) PROVE ListsIgnoreCase OBVIOUS
<1> DEFINE listed(list) == \E d \in list : SameIgnoringCase(d, text)
<1>1. text \in Seq(DOMAIN Lower) BY LowerFacts, SeqMonotonic
<1>2. /\ AcceptDomains \subseteq Seq(DOMAIN Lower) /\ RejectDomains \subseteq Seq(DOMAIN Lower)
      /\ StoreDomains \subseteq Seq(DOMAIN Lower) /\ DiscardDomains \subseteq Seq(DOMAIN Lower)
      /\ DefaultAccept \in BOOLEAN /\ DefaultStore \in BOOLEAN
  BY PolicyAssumption
<1>3. /\ listed(AcceptDomains) <=> ToLower(text) \in Configured(AcceptDomains)
      /\ listed(RejectDomains) <=> ToLower(text) \in Configured(RejectDomains)
      /\ listed(StoreDomains) <=> ToLower(text) \in Configured(StoreDomains)
      /\ listed(DiscardDomains) <=> ToLower(text) \in Configured(DiscardDomains)
  BY <1>1, <1>2, ListedIsConfigured
<1>4. /\ \A list : listed(list) \in BOOLEAN
  OBVIOUS
<1> HIDE DEF listed
<1>5. ShouldAcceptDomain(text) <=> listed(IF DefaultAccept THEN RejectDomains ELSE AcceptDomains) # DefaultAccept
  <2>1. CASE DefaultAccept = TRUE BY <1>3, <1>4, <2>1 DEF ShouldAcceptDomain
  <2>2. CASE DefaultAccept = FALSE BY <1>3, <1>4, <2>2 DEF ShouldAcceptDomain
  <2> QED BY <1>2, <2>1, <2>2
<1>6. ShouldStoreDomain(text) <=> listed(IF DefaultStore THEN DiscardDomains ELSE StoreDomains) # DefaultStore
  <2>1. CASE DefaultStore = TRUE BY <1>3, <1>4, <2>1 DEF ShouldStoreDomain
  <2>2. CASE DefaultStore = FALSE BY <1>3, <1>4, <2>2 DEF ShouldStoreDomain
  <2> QED BY <1>2, <2>1, <2>2
<1> QED BY <1>5, <1>6 DEF ListsIgnoreCase, listed

-----------------------------------------------------------------------------
(* Wildcards *)

(* What the matrix of MatchWithWildcards holds at <<i, j>>: the first i    *)
(* characters of s are what the first j of p stand for.                    *)
Fits(p, s, w, j) ==
    /\ w[0] = 0
    /\ \A k \in 1 .. j :
          \/ p[k] = "*" /\ w[k] >= w[k - 1]
          \/ /\ w[k] = w[k - 1] + 1
             /\ p[k] \in {"?", s[w[k]]}

Covers(p, s, i, j) == \E w \in [0 .. j -> 0 .. Len(s)] : Fits(p, s, w, j) /\ w[j] = i

(* The last pattern character takes one character, or, if it is a *, any   *)
(* number of them.                                                         *)
LEMMA CoversStep ==
    ASSUME NEW p, NEW s, Len(s) \in Nat, NEW i \in 0 .. Len(s), NEW j \in Nat \ {0}
    PROVE  Covers(p, s, i, j) <=>
             \E h \in 0 .. Len(s) : /\ Covers(p, s, h, j - 1)
                                    /\ \/ p[j] = "*" /\ i >= h
                                       \/ i = h + 1 /\ p[j] \in {"?", s[i]}
<1>0. j - 1 \in Nat /\ 0 .. j - 1 \subseteq 0 .. j /\ j \in 1 .. j OBVIOUS
<1>1. ASSUME Covers(p, s, i, j)
      PROVE  \E h \in 0 .. Len(s) : /\ Covers(p, s, h, j - 1)
                                    /\ \/ p[j] = "*" /\ i >= h
                                       \/ i = h + 1 /\ p[j] \in {"?", s[i]}
  <2>1. PICK w \in [0 .. j -> 0 .. Len(s)] : Fits(p, s, w, j) /\ w[j] = i BY <1>1 DEF Covers
  <2> DEFINE v == [k \in 0 .. j - 1 |-> w[k]]
  <2>2. v \in [0 .. j - 1 -> 0 .. Len(s)] BY <1>0
  <2>3. \A k \in 0 .. j - 1 : v[k] = w[k] OBVIOUS
  <2>4. v[0] = w[0] /\ v[j - 1] = w[j - 1] BY <1>0
  <2> HIDE DEF v
  <2>5. \A k \in 1 .. j - 1 : k \in 1 .. j /\ v[k] = w[k] /\ v[k - 1] = w[k - 1] BY <1>0, <2>3
  <2>6. Fits(p, s, v, j - 1) BY <2>1, <2>4, <2>5 DEF Fits
  <2>7. Covers(p, s, w[j - 1], j - 1) BY <2>2, <2>4, <2>6 DEF Covers
  <2>8. w[j - 1] \in 0 .. Len(s) BY <1>0, <2>1
  <2>9. \/ p[j] = "*" /\ i >= w[j - 1]
        \/ i = w[j - 1] + 1 /\ p[j] \in {"?", s[i]}
    BY <1>0, <2>1 DEF Fits
  <2> QED BY <2>7, <2>8, <2>9
<1>2. ASSUME NEW h \in 0 .. Len(s), Covers(p, s, h, j - 1),
             \/ p[j] = "*" /\ i >= h
             \/ i = h + 1 /\ p[j] \in {"?", s[i]}
      PROVE  Covers(p, s, i, j)
  <2>1. PICK v \in [0 .. j - 1 -> 0 .. Len(s)] : Fits(p, s, v, j - 1) /\ v[j - 1] = h BY <1>2 DEF Covers
  <2> DEFINE w == [k \in 0 .. j |-> IF k = j THEN i ELSE v[k]]
  <2>2. w \in [0 .. j -> 0 .. Len(s)]
    <3>1. \A k \in 0 .. j : k = j \/ k \in 0 .. j - 1 BY <1>0
    <3> QED BY <2>1, <3>1
  <2>3. w[j] = i /\ \A k \in 0 .. j - 1 : w[k] = v[k]
    <3>1. \A k \in 0 .. j - 1 : k # j /\ k \in 0 .. j BY <1>0
    <3>2. j \in 0 .. j BY <1>0
    <3> QED BY <3>1, <3>2
  <2> HIDE DEF w
  <2>4. w[0] = v[0] /\ w[j - 1] = h BY <1>0, <2>1, <2>3
  <2>5. Fits(p, s, w, j)
    <3>1. w[0] = 0 BY <2>1, <2>4 DEF Fits
    <3>2. ASSUME NEW k \in 1 .. j
          PROVE  \/ p[k] = "*" /\ w[k] >= w[k - 1]
                 \/ w[k] = w[k - 1] + 1 /\ p[k] \in {"?", s[w[k]]}
      <4>1. CASE k = j BY <1>2, <2>3, <2>4, <4>1
      <4>2. CASE k # j
        <5>1. k \in 1 .. j - 1 /\ k \in 0 .. j - 1 /\ k - 1 \in 0 .. j - 1 BY <1>0, <4>2
        <5>2. w[k] = v[k] /\ w[k - 1] = v[k - 1] BY <2>3, <5>1
        <5> QED BY <2>1, <5>1, <5>2 DEF Fits
      <4> QED BY <4>1, <4>2
    <3> QED BY <3>1, <3>2 DEF Fits
  <2> QED BY <2>2, <2>3, <2>5 DEF Covers
<1> QED BY <1>1, <1>2

(* No pattern characters stand for no characters.                          *)
LEMMA CoversNothing ==
    ASSUME NEW p, NEW s, Len(s) \in Nat, NEW i \in 0 .. Len(s)
    PROVE  Covers(p, s, i, 0) <=> i = 0
<1>1. ASSUME Covers(p, s, i, 0) PROVE i = 0
  <2>1. PICK w \in [0 .. 0 -> 0 .. Len(s)] : Fits(p, s, w, 0) /\ w[0] = i BY <1>1 DEF Covers
  <2> QED BY <2>1 DEF Fits
<1>2. ASSUME i = 0 PROVE Covers(p, s, i, 0)
  <2>w. PICK w : w = [k \in 0 .. 0 |-> 0] OBVIOUS
  <2>1. w \in [0 .. 0 -> 0 .. Len(s)] /\ w[0] = 0 BY <2>w
  <2>2. Fits(p, s, w, 0) BY <2>1 DEF Fits
  <2> QED BY <1>2, <2>1, <2>2 DEF Covers
<1> QED BY <1>1, <1>2

(* The recurrence of the matrix, for a text without a literal *.           *)
LEMMA CoversRecurs ==
    ASSUME NEW p, NEW s, Len(s) \in Nat, NEW i \in 0 .. Len(s), NEW j \in Nat,
           i > 0 => s[i] # "*"
    PROVE  /\ j = 0 => (Covers(p, s, i, j) <=> i = 0)
           /\ j > 0 /\ i = 0 => (Covers(p, s, i, j) <=> p[j] = "*" /\ Covers(p, s, 0, j - 1))
           /\ j > 0 /\ i > 0 /\ (p[j] = "?" \/ s[i] = p[j]) =>
                (Covers(p, s, i, j) <=> Covers(p, s, i - 1, j - 1))
           /\ j > 0 /\ i > 0 /\ ~(p[j] = "?" \/ s[i] = p[j]) =>
                (Covers(p, s, i, j) <=> p[j] = "*" /\ (Covers(p, s, i - 1, j) \/ Covers(p, s, i, j - 1)))
<1>1. j = 0 => (Covers(p, s, i, j) <=> i = 0) BY CoversNothing
<1>2. ASSUME j > 0
      PROVE  Covers(p, s, i, j) <=>
               \E h \in 0 .. Len(s) : /\ Covers(p, s, h, j - 1)
                                      /\ \/ p[j] = "*" /\ i >= h
                                         \/ i = h + 1 /\ p[j] \in {"?", s[i]}
  BY <1>2, CoversStep
<1>3. ASSUME j > 0, i = 0 PROVE Covers(p, s, i, j) <=> p[j] = "*" /\ Covers(p, s, 0, j - 1)
  <2>1. \A h \in 0 .. Len(s) : (i >= h <=> h = 0) /\ i # h + 1 BY <1>3
  <2>2. 0 \in 0 .. Len(s) OBVIOUS
  <2> QED BY <1>2, <1>3, <2>1, <2>2
<1>4. ASSUME j > 0, i > 0, p[j] = "?" \/ s[i] = p[j]
      PROVE  Covers(p, s, i, j) <=> Covers(p, s, i - 1, j - 1)
  <2>1. p[j] # "*" /\ p[j] \in {"?", s[i]} BY <1>4
  <2>2. \A h \in 0 .. Len(s) : i = h + 1 <=> h = i - 1 OBVIOUS
  <2>3. i - 1 \in 0 .. Len(s) BY <1>4
  <2> QED BY <1>2, <1>4, <2>1, <2>2, <2>3
<1>5. ASSUME j > 0, i > 0, ~(p[j] = "?" \/ s[i] = p[j])
      PROVE  Covers(p, s, i, j) <=> p[j] = "*" /\ (Covers(p, s, i - 1, j) \/ Covers(p, s, i, j - 1))
  <2>1. p[j] \notin {"?", s[i]} BY <1>5
  <2>2. Covers(p, s, i, j) <=> p[j] = "*" /\ \E h \in 0 .. Len(s) : i >= h /\ Covers(p, s, h, j - 1)
    BY <1>2, <1>5, <2>1
  <2>3. CASE p[j] # "*" BY <2>2, <2>3
  <2>4. CASE p[j] = "*"
    <3>1. i - 1 \in 0 .. Len(s) /\ j \in Nat \ {0} BY <1>5
    <3>2. Covers(p, s, i - 1, j) <=>
            \E h \in 0 .. Len(s) : /\ Covers(p, s, h, j - 1)
                                   /\ \/ p[j] = "*" /\ i - 1 >= h
                                      \/ i - 1 = h + 1 /\ p[j] \in {"?", s[i - 1]}
      BY <3>1, CoversStep
    <3>3. Covers(p, s, i - 1, j) <=> \E h \in 0 .. Len(s) : i - 1 >= h /\ Covers(p, s, h, j - 1)
      <4>1. \A h \in 0 .. Len(s) : i - 1 = h + 1 => i - 1 >= h BY <1>5
      <4> QED BY <2>4, <3>2, <4>1
    <3>4. \A h \in 0 .. Len(s) : i >= h <=> i - 1 >= h \/ h = i BY <1>5
    <3> QED BY <2>2, <2>4, <3>3, <3>4
  <2> QED BY <2>3, <2>4
<1> QED BY <1>1, <1>3, <1>4, <1>5

(* The cells of the matrix.                                                *)
Cells(p, s) == (0 .. Len(s)) \X (0 .. Len(p))

(* What the cells mean solves the recursion.                               *)
LEMMA CoversSolve ==
    ASSUME NEW p, NEW s, Len(s) \in Nat, Len(p) \in Nat, \A k \in 1 .. Len(s) : s[k] # "*",
           NEW G, G = [ij \in Cells(p, s) |-> Covers(p, s, ij[1], ij[2])],
           NEW i \in 0 .. Len(s), NEW j \in 0 .. Len(p)
    PROVE  G[<<i, j>>] = Cell(p, s, G, i, j)
<1>1. ASSUME NEW h \in 0 .. Len(s), NEW k \in 0 .. Len(p) PROVE G[<<h, k>>] = Covers(p, s, h, k)
  <2>1. <<h, k>> \in Cells(p, s) BY DEF Cells
  <2> QED BY <2>1
<1>2. i \in Nat /\ j \in Nat /\ (i > 0 => s[i] # "*") OBVIOUS
<1>3. G[<<i, j>>] = Covers(p, s, i, j) BY <1>1
<1>4. Covers(p, s, i, j) \in BOOLEAN BY DEF Covers
<1>5. CASE j = 0
  <2>1. Cell(p, s, G, i, j) = (i = 0) BY <1>2, <1>5 DEF Cell
  <2>2. Covers(p, s, i, j) <=> i = 0 BY <1>2, <1>5, CoversRecurs
  <2>3. Covers(p, s, i, j) = (i = 0) BY <1>4, <2>2
  <2> QED BY <1>3, <2>1, <2>3
<1>6. CASE j > 0 /\ i = 0
  <2>1. Cell(p, s, G, i, j) = (p[j] = "*" /\ G[<<0, j - 1>>]) BY <1>2, <1>6 DEF Cell
  <2>2. Covers(p, s, i, j) <=> p[j] = "*" /\ Covers(p, s, 0, j - 1) BY <1>2, <1>6, CoversRecurs
  <2>3. 0 \in 0 .. Len(s) /\ j - 1 \in 0 .. Len(p) BY <1>6
  <2>4. G[<<0, j - 1>>] = Covers(p, s, 0, j - 1) BY <1>1, <2>3
  <2>5. Covers(p, s, i, j) = (p[j] = "*" /\ Covers(p, s, 0, j - 1)) BY <1>4, <2>2
  <2> QED BY <1>3, <2>1, <2>4, <2>5
<1>7. CASE j > 0 /\ i > 0 /\ (p[j] = "?" \/ s[i] = p[j])
  <2>1. Cell(p, s, G, i, j) = G[<<i - 1, j - 1>>] BY <1>2, <1>7 DEF Cell
  <2>2. Covers(p, s, i, j) <=> Covers(p, s, i - 1, j - 1) BY <1>2, <1>7, CoversRecurs
  <2>3. i - 1 \in 0 .. Len(s) /\ j - 1 \in 0 .. Len(p) BY <1>7
  <2>4. G[<<i - 1, j - 1>>] = Covers(p, s, i - 1, j - 1) BY <1>1, <2>3
  <2>5. Covers(p, s, i - 1, j - 1) \in BOOLEAN BY DEF Covers
  <2>6. Covers(p, s, i, j) = Covers(p, s, i - 1, j - 1) BY <1>4, <2>2, <2>5
  <2> QED BY <1>3, <2>1, <2>4, <2>6
<1>8. CASE j > 0 /\ i > 0 /\ ~(p[j] = "?" \/ s[i] = p[j])
  <2>1. Cell(p, s, G, i, j) = (p[j] = "*" /\ (G[<<i - 1, j>>] \/ G[<<i, j - 1>>])) BY <1>2, <1>8 DEF Cell
  <2>2. Covers(p, s, i, j) <=> p[j] = "*" /\ (Covers(p, s, i - 1, j) \/ Covers(p, s, i, j - 1))
    BY <1>2, <1>8, CoversRecurs
  <2>3. i - 1 \in 0 .. Len(s) /\ j - 1 \in 0 .. Len(p) BY <1>8
  <2>4. G[<<i - 1, j>>] = Covers(p, s, i - 1, j) /\ G[<<i, j - 1>>] = Covers(p, s, i, j - 1) BY <1>1, <2>3
  <2>5. Covers(p, s, i, j) = (p[j] = "*" /\ (Covers(p, s, i - 1, j) \/ Covers(p, s, i, j - 1))) BY <1>4, <2>2
  <2> QED BY <1>3, <2>1, <2>4, <2>5
<1> QED BY <1>2, <1>5, <1>6, <1>7, <1>8

(* And nothing else does.                                                  *)
LEMMA OneSolution ==
    ASSUME NEW p, NEW s, Len(s) \in Nat, Len(p) \in Nat, NEW G, NEW m,
           \A i \in 0 .. Len(s), j \in 0 .. Len(p) : G[<<i, j>>] = Cell(p, s, G, i, j),
           \A i \in 0 .. Len(s), j \in 0 .. Len(p) : m[<<i, j>>] = Cell(p, s, m, i, j)
    PROVE  m[<<Len(s), Len(p)>>] = G[<<Len(s), Len(p)>>]
<1> DEFINE T == {n \in Nat : \A i \in 0 .. Len(s), j \in 0 .. Len(p) : i + j <= n => m[<<i, j>>] = G[<<i, j>>]}
<1>1. 0 \in T
  <2>1. ASSUME NEW i \in 0 .. Len(s), NEW j \in 0 .. Len(p), i + j <= 0 PROVE m[<<i, j>>] = G[<<i, j>>]
    <3>1. i \in Nat /\ j \in Nat /\ i = 0 /\ j = 0 BY <2>1
    <3>2. Cell(p, s, m, i, j) = (i = 0) /\ Cell(p, s, G, i, j) = (i = 0) BY <3>1 DEF Cell
    <3> QED BY <3>2
  <2> QED BY <2>1
<1>2. ASSUME NEW n \in T PROVE n + 1 \in T
  <2>0. n \in Nat /\ n + 1 \in Nat OBVIOUS
  <2>1. ASSUME NEW i \in 0 .. Len(s), NEW j \in 0 .. Len(p), i + j <= n + 1 PROVE m[<<i, j>>] = G[<<i, j>>]
    <3>1. i \in Nat /\ j \in Nat OBVIOUS
    <3>2. ASSUME NEW h \in 0 .. Len(s), NEW k \in 0 .. Len(p), h + k < i + j PROVE m[<<h, k>>] = G[<<h, k>>]
      <4>1. h + k <= n BY <2>0, <2>1, <3>2
      <4> QED BY <4>1
    <3>3. m[<<i, j>>] = Cell(p, s, m, i, j) /\ G[<<i, j>>] = Cell(p, s, G, i, j) OBVIOUS
    <3>4. Cell(p, s, m, i, j) = Cell(p, s, G, i, j)
      <4>1. CASE j = 0
        <5>1. Cell(p, s, m, i, j) = (i = 0) /\ Cell(p, s, G, i, j) = (i = 0) BY <3>1, <4>1 DEF Cell
        <5> QED BY <5>1
      <4>2. CASE j > 0 /\ i = 0
        <5>1. /\ Cell(p, s, m, i, j) = (p[j] = "*" /\ m[<<0, j - 1>>])
              /\ Cell(p, s, G, i, j) = (p[j] = "*" /\ G[<<0, j - 1>>])
          BY <3>1, <4>2 DEF Cell
        <5>2. 0 \in 0 .. Len(s) /\ j - 1 \in 0 .. Len(p) /\ 0 + (j - 1) < i + j BY <4>2
        <5>3. m[<<0, j - 1>>] = G[<<0, j - 1>>] BY <3>2, <5>2
        <5> QED BY <5>1, <5>3
      <4>3. CASE j > 0 /\ i > 0 /\ (p[j] = "?" \/ s[i] = p[j])
        <5>1. /\ Cell(p, s, m, i, j) = m[<<i - 1, j - 1>>]
              /\ Cell(p, s, G, i, j) = G[<<i - 1, j - 1>>]
          BY <3>1, <4>3 DEF Cell
        <5>2. i - 1 \in 0 .. Len(s) /\ j - 1 \in 0 .. Len(p) /\ (i - 1) + (j - 1) < i + j BY <4>3
        <5>3. m[<<i - 1, j - 1>>] = G[<<i - 1, j - 1>>] BY <3>2, <5>2
        <5> QED BY <5>1, <5>3
      <4>4. CASE j > 0 /\ i > 0 /\ ~(p[j] = "?" \/ s[i] = p[j])
        <5>1. /\ Cell(p, s, m, i, j) = (p[j] = "*" /\ (m[<<i - 1, j>>] \/ m[<<i, j - 1>>]))
              /\ Cell(p, s, G, i, j) = (p[j] = "*" /\ (G[<<i - 1, j>>] \/ G[<<i, j - 1>>]))
          BY <3>1, <4>4 DEF Cell
        <5>2. i - 1 \in 0 .. Len(s) /\ j - 1 \in 0 .. Len(p) /\ (i - 1) + j < i + j /\ i + (j - 1) < i + j BY <4>4
        <5>3. m[<<i - 1, j>>] = G[<<i - 1, j>>] BY <3>2, <5>2
        <5>4. m[<<i, j - 1>>] = G[<<i, j - 1>>] BY <3>2, <5>2
        <5> QED BY <5>1, <5>3, <5>4
      <4> QED BY <3>1, <4>1, <4>2, <4>3, <4>4
    <3> QED BY <3>3, <3>4
  <2> QED BY <2>0, <2>1
<1>3. T = Nat
  <2> HIDE DEF T
  <2>1. T \subseteq Nat BY DEF T
  <2> QED BY <1>1, <1>2, <2>1, NatSetInduction
<1>4. Len(s) + Len(p) \in T
  <2>1. Len(s) + Len(p) \in Nat OBVIOUS
  <2> HIDE DEF T
  <2> QED BY <1>3, <2>1
<1>5. Len(s) \in 0 .. Len(s) /\ Len(p) \in 0 .. Len(p) /\ Len(s) + Len(p) <= Len(s) + Len(p) OBVIOUS
<1> QED BY <1>4, <1>5

(* The matrix says what the pattern covers.                                *)
LEMMA MatchIsCover ==
    ASSUME NEW p, NEW s, Len(s) \in Nat, Len(p) \in Nat, \A k \in 1 .. Len(s) : s[k] # "*"
    PROVE  MatchWithWildcards(p, s) <=> Covers(p, s, Len(s), Len(p))
<1> DEFINE m == CHOOSE m : m = [ij \in Cells(p, s) |-> Cell(p, s, m, ij[1], ij[2])]
           G == [ij \in Cells(p, s) |-> Covers(p, s, ij[1], ij[2])]
<1>1. \A i \in 0 .. Len(s), j \in 0 .. Len(p) : G[<<i, j>>] = Cell(p, s, G, i, j)
  <2> HIDE DEF G
  <2> QED BY CoversSolve DEF G
<1>2. G = [ij \in Cells(p, s) |-> Cell(p, s, G, ij[1], ij[2])]
  <2>1. ASSUME NEW ij \in Cells(p, s) PROVE G[ij] = Cell(p, s, G, ij[1], ij[2])
    <3> HIDE DEF G
    <3>1. ij[1] \in 0 .. Len(s) /\ ij[2] \in 0 .. Len(p) /\ ij = <<ij[1], ij[2]>> BY DEF Cells
    <3> QED BY <1>1, <3>1
  <2>2. DOMAIN G = Cells(p, s) OBVIOUS
  <2>3. G = [ij \in Cells(p, s) |-> G[ij]] OBVIOUS
  <2> HIDE DEF G
  <2> QED BY <2>1, <2>3
<1>3. m = [ij \in Cells(p, s) |-> Cell(p, s, m, ij[1], ij[2])]
  <2> HIDE DEF G
  <2> QED BY <1>2, Zenon
<1> HIDE DEF m
<1>4. \A i \in 0 .. Len(s), j \in 0 .. Len(p) : m[<<i, j>>] = Cell(p, s, m, i, j)
  <2> TAKE i \in 0 .. Len(s), j \in 0 .. Len(p)
  <2>1. PICK e : e = <<i, j>> OBVIOUS
  <2>2. e \in Cells(p, s) /\ e[1] = i /\ e[2] = j BY <2>1 DEF Cells
  <2>3. m[e] = Cell(p, s, m, e[1], e[2]) BY <1>3, <2>2
  <2> QED BY <2>1, <2>2, <2>3
<1>5. m[<<Len(s), Len(p)>>] = G[<<Len(s), Len(p)>>]
  <2> HIDE DEF G
  <2> QED BY <1>1, <1>4, OneSolution
<1>6. G[<<Len(s), Len(p)>>] = Covers(p, s, Len(s), Len(p))
  <2>1. <<Len(s), Len(p)>> \in Cells(p, s) BY DEF Cells
  <2> QED BY <2>1
<1>7. MatchWithWildcards(p, s) = m[<<Len(s), Len(p)>>]
  BY DEF MatchWithWildcards, Cells, Cell, m
<1> QED BY <1>5, <1>6, <1>7

(* The glob of the property is the last cell of the matrix.                *)
LEMMA GlobIsCover ==
    ASSUME NEW X, NEW p \in Seq(X), NEW s
    PROVE  Glob(p, s) <=> Covers(p, s, Len(s), Len(p))
<1>1. DOMAIN p = 1 .. Len(p) OBVIOUS
<1>2. ASSUME Glob(p, s) PROVE Covers(p, s, Len(s), Len(p))
  <2>1. PICK w \in [0 .. Len(p) -> 0 .. Len(s)] :
          /\ w[0] = 0 /\ w[Len(p)] = Len(s)
          /\ \A k \in DOMAIN p :
                \/ p[k] = "*" /\ w[k] >= w[k - 1]
                \/ /\ w[k] = w[k - 1] + 1
                   /\ p[k] \in {"?", s[w[k]]}
    BY <1>2 DEF Glob
  <2>2. Fits(p, s, w, Len(p)) BY <1>1, <2>1 DEF Fits
  <2> QED BY <2>1, <2>2 DEF Covers
<1>3. ASSUME Covers(p, s, Len(s), Len(p)) PROVE Glob(p, s)
  <2>1. PICK w \in [0 .. Len(p) -> 0 .. Len(s)] : Fits(p, s, w, Len(p)) /\ w[Len(p)] = Len(s)
    BY <1>3 DEF Covers
  <2>2. w[0] = 0 BY <2>1 DEF Fits
  <2>3. \A k \in DOMAIN p :
          \/ p[k] = "*" /\ w[k] >= w[k - 1]
          \/ /\ w[k] = w[k - 1] + 1
             /\ p[k] \in {"?", s[w[k]]}
    BY <1>1, <2>1 DEF Fits
  <2> QED BY <2>1, <2>2, <2>3 DEF Glob
<1> QED BY <1>2, <1>3

(* What is in no domain: a *, which lower case does not bring in, and an @.*)
LEMMA Strangers ==
    /\ \A c \in {"*", "@"} : c \notin Word \cup {"-", "."}
    /\ \A ip \in IPs : \A k \in DOMAIN ip : ip[k] \notin {"*", "@"}
    /\ \A c \in DOMAIN Lower : c # "*" => Lower[c] # "*"
<1>1. "*" \notin Letter \cup Digit \cup NonAscii /\ "@" \notin Letter \cup Digit BY PolicyAssumption
<1>2. \A c \in {"*", "@"} : c \notin Word \cup {"-", "."} BY <1>1 DEF Word
<1>3. \A ip \in IPs : \A k \in DOMAIN ip : ip[k] \notin {"*", "@"}
  <2> TAKE ip \in IPs
  <2>1. ip \in Seq(Letter \cup Digit \cup {".", ":"}) BY PolicyAssumption
  <2>2. \A k \in DOMAIN ip : ip[k] \in Letter \cup Digit \cup {".", ":"} BY <2>1
  <2> QED BY <1>1, <2>2
<1>4. \A c \in DOMAIN Lower : c # "*" => Lower[c] # "*" BY <1>1, LowerFacts
<1> QED BY <1>2, <1>3, <1>4

(* A domain without brackets is made of words, hyphens and periods.        *)
LEMMA DomainOfWords ==
    ASSUME NEW X, NEW d \in Seq(X), ValidateDomainPart(d), ~Bracketed(d), NEW k \in 1 .. Len(d)
    PROVE  d[k] \in Word \cup {"-", "."} /\ (d[k] = "." => k > 1 /\ d[k - 1] # ".")
<1>1. Len(d) \in 1 .. MaxDomain /\ \A p \in 1 .. Len(Dotted(d)) : Right(Dotted(d), p) BY PassIsRight
<1>2. Len(Dotted(d)) \in Nat /\ k \in 1 .. Len(Dotted(d)) /\ \A j \in 1 .. Len(d) : Dotted(d)[j] = d[j]
  <2>1. CASE d[Len(d)] = "." BY <2>1 DEF Dotted
  <2>2. CASE d[Len(d)] # "."
    <3>1. Dotted(d) = Append(d, ".") BY <2>2 DEF Dotted
    <3>2. Len(Append(d, ".")) = Len(d) + 1 /\ \A j \in 1 .. Len(d) : Append(d, ".")[j] = d[j] OBVIOUS
    <3> QED BY <3>1, <3>2
  <2> QED BY <2>1, <2>2
<1>3. Right(Dotted(d), k) /\ Dotted(d)[k] = d[k] BY <1>1, <1>2
<1>4. d[k] \in Word \cup {"-", "."} BY <1>3 DEF Right
<1>5. ASSUME d[k] = "." PROVE k > 1 /\ d[k - 1] # "."
  <2>1. k > 1 /\ Dotted(d)[k - 1] \notin {"-", "."} BY <1>3, <1>5 DEF Right
  <2>2. k - 1 \in 1 .. Len(d) BY <2>1
  <2> QED BY <1>2, <2>1, <2>2
<1> QED BY <1>4, <1>5

(* No character of a domain is one, an address in brackets included.       *)
LEMMA DomainHasNone ==
    ASSUME NEW X, NEW d \in Seq(X), ValidateDomainPart(d), NEW k \in 1 .. Len(d)
    PROVE  d[k] \notin {"*", "@"}
<1>1. CASE ~Bracketed(d)
  <2>1. d[k] \in Word \cup {"-", "."} BY <1>1, DomainOfWords
  <2> QED BY <2>1, Strangers
<1>2. CASE Bracketed(d)
  <2> DEFINE n == Len(d)
  <2>1. n \in Nat /\ n >= 4 /\ d[1] = "[" /\ d[n] = "]" BY <1>2 DEF Bracketed
  <2>2. CASE n > 6 /\ SubSeq(d, 2, 6) = <<"I", "P", "v", "6", ":">>
    <3>1. SubSeq(d, 7, n - 1) \in IPs BY <2>1, <2>2 DEF ValidateDomainPart
    <3>2. \A j \in 7 .. n - 1 : d[j] \in X BY <2>1
    <3>3. /\ SubSeq(d, 7, n - 1) \in Seq(X)
          /\ Len(SubSeq(d, 7, n - 1)) = IF 7 <= n - 1 THEN n - 1 - 7 + 1 ELSE 0
          /\ \A j \in 1 .. n - 1 - 7 + 1 : SubSeq(d, 7, n - 1)[j] = d[7 + j - 1]
      <4>1. 7 \in Int /\ n - 1 \in Int BY <2>1
      <4> QED BY <3>2, <4>1, SubSeqProperties
    <3>4. CASE k \in 7 .. n - 1
      <4>1. k - 6 \in 1 .. n - 1 - 7 + 1 /\ 7 + (k - 6) - 1 = k /\ 7 <= n - 1 BY <2>1, <3>4
      <4>2. k - 6 \in DOMAIN SubSeq(d, 7, n - 1) BY <2>1, <3>3, <4>1
      <4> QED BY <3>1, <3>3, <4>1, <4>2, Strangers
    <3>5. CASE k \in 2 .. 6
      <4>1. \A j \in 2 .. 6 : d[j] \in X BY <2>1, <2>2
      <4>2. \A j \in 1 .. 6 - 2 + 1 : SubSeq(d, 2, 6)[j] = d[2 + j - 1]
        BY <4>1, 2 \in Int, 6 \in Int, SubSeqProperties
      <4>3. k - 1 \in 1 .. 6 - 2 + 1 /\ 2 + (k - 1) - 1 = k BY <3>5
      <4>4. d[k] = <<"I", "P", "v", "6", ":">>[k - 1] BY <2>2, <4>2, <4>3
      <4>5. k = 2 \/ k = 3 \/ k = 4 \/ k = 5 \/ k = 6 BY <3>5
      <4> QED BY <4>4, <4>5
    <3>6. CASE k = 1 \/ k = n BY <2>1, <3>6
    <3> QED BY <2>1, <3>4, <3>5, <3>6
  <2>3. CASE ~(n > 6 /\ SubSeq(d, 2, 6) = <<"I", "P", "v", "6", ":">>)
    <3>1. SubSeq(d, 2, n - 1) \in IPs BY <2>1, <2>3 DEF ValidateDomainPart
    <3>2. \A j \in 2 .. n - 1 : d[j] \in X BY <2>1
    <3>3. /\ SubSeq(d, 2, n - 1) \in Seq(X)
          /\ Len(SubSeq(d, 2, n - 1)) = IF 2 <= n - 1 THEN n - 1 - 2 + 1 ELSE 0
          /\ \A j \in 1 .. n - 1 - 2 + 1 : SubSeq(d, 2, n - 1)[j] = d[2 + j - 1]
      <4>1. 2 \in Int /\ n - 1 \in Int BY <2>1
      <4> QED BY <3>2, <4>1, SubSeqProperties
    <3>4. CASE k \in 2 .. n - 1
      <4>1. k - 1 \in 1 .. n - 1 - 2 + 1 /\ 2 + (k - 1) - 1 = k /\ 2 <= n - 1 BY <2>1, <3>4
      <4>2. k - 1 \in DOMAIN SubSeq(d, 2, n - 1) BY <2>1, <3>3, <4>1
      <4> QED BY <3>1, <3>3, <4>1, <4>2, Strangers
    <3>5. CASE k = 1 \/ k = n BY <2>1, <3>5
    <3> QED BY <2>1, <3>4, <3>5
  <2> QED BY <2>2, <2>3
<1> QED BY <1>1, <1>2

(* Lower case keeps the length.                                            *)
LEMMA ToLowerSeq ==
    ASSUME NEW s \in Seq(DOMAIN Lower)
    PROVE  ToLower(s) \in Seq(DOMAIN Lower) /\ Len(ToLower(s)) = Len(s)
<1>1. Len(s) \in Nat /\ DOMAIN s = 1 .. Len(s) OBVIOUS
<1>2. ToLower(s) = [k \in 1 .. Len(s) |-> Lower[s[k]]] BY <1>1 DEF ToLower
<1>3. \A k \in 1 .. Len(s) : Lower[s[k]] \in DOMAIN Lower
  <2>1. \A k \in 1 .. Len(s) : s[k] \in DOMAIN Lower OBVIOUS
  <2> QED BY <2>1, LowerFacts
<1>4. ToLower(s) \in [1 .. Len(s) -> DOMAIN Lower] BY <1>2, <1>3
<1> QED BY <1>1, <1>4

(* A sender's domain is refused when the pattern covers it.                *)
LEMMA OriginGlobHere == text \in Seq(Char) => OriginGlob
<1> SUFFICES ASSUME text \in Seq(Char), ValidateDomainPart(text), NEW p \in Patterns
             PROVE  ShouldAcceptOriginDomain({p}, text) <=> ~Glob(ToLower(p), ToLower(text))
  BY DEF OriginGlob
<1>1. text \in Seq(DOMAIN Lower) BY LowerFacts, SeqMonotonic
<1>2. p \in Seq(DOMAIN Lower) BY PolicyAssumption
<1>3. /\ ToLower(text) \in Seq(DOMAIN Lower) /\ Len(ToLower(text)) = Len(text)
      /\ ToLower(p) \in Seq(DOMAIN Lower)
  BY <1>1, <1>2, ToLowerSeq
<1>4. Len(ToLower(text)) \in Nat /\ Len(ToLower(p)) \in Nat BY <1>3
<1>5. \A k \in 1 .. Len(ToLower(text)) : ToLower(text)[k] # "*"
  <2> TAKE k \in 1 .. Len(ToLower(text))
  <2>1. k \in 1 .. Len(text) /\ k \in DOMAIN text BY <1>3
  <2>2. text[k] # "*" BY <2>1, DomainHasNone
  <2>3. text[k] \in DOMAIN Lower BY <1>1, <2>1
  <2>4. ToLower(text)[k] = Lower[text[k]] BY <2>1 DEF ToLower
  <2> QED BY <2>2, <2>3, <2>4, Strangers
<1>6. MatchWithWildcards(ToLower(p), ToLower(text)) <=> Covers(ToLower(p), ToLower(text), Len(ToLower(text)), Len(ToLower(p)))
  BY <1>4, <1>5, MatchIsCover
<1>7. Glob(ToLower(p), ToLower(text)) <=> Covers(ToLower(p), ToLower(text), Len(ToLower(text)), Len(ToLower(p)))
  BY <1>3, GlobIsCover
<1>8. ShouldAcceptOriginDomain({p}, text) <=> ~MatchWithWildcards(ToLower(p), ToLower(text))
  BY DEF ShouldAcceptOriginDomain, Configured
<1> QED BY <1>6, <1>7, <1>8

(* AddressPolicy's DomainsJudged, of every domain.                         *)
THEOREM DomainsAreJudged == TextSpec => []DomainsJudged
<1>1. TextInit => text \in Seq(Char)
  BY DEF TextInit
<1>2. text \in Seq(Char) /\ [TextNext]_text => (text \in Seq(Char))'
  BY DEF TextNext, Type
<1>3. text \in Seq(Char) => DomainsJudged
  BY DomainSoundHere, ListsIgnoreCaseHere, OriginGlobHere DEF DomainsJudged
<1> QED BY <1>1, <1>2, <1>3, PTL DEF TextSpec

-----------------------------------------------------------------------------
(* Local parts *)

(* The characters of an address.                                           *)
Sign == Char \cup {".", "\\", "\"", "@"}

(* The states of the loop over a local part.                               *)
Cursors == [ok : BOOLEAN, local : Seq(Sign), prev : Sign, char : BOOLEAN, str : BOOLEAN, at : Nat]

(* The loop goes on.                                                       *)
Going(s) == s.ok = TRUE /\ s.at = 0

(* A state of the loop over a local part, from its fields, and its fields. *)
LEMMA CursorMade ==
    ASSUME NEW ok \in BOOLEAN, NEW local \in Seq(Sign), NEW prev \in Sign, NEW char \in BOOLEAN,
           NEW str \in BOOLEAN, NEW at \in Nat
    PROVE  [ok |-> ok, local |-> local, prev |-> prev, char |-> char, str |-> str, at |-> at] \in Cursors
BY DEF Cursors

LEMMA CursorParts ==
    ASSUME NEW s \in Cursors
    PROVE  /\ s.ok \in BOOLEAN /\ s.local \in Seq(Sign) /\ s.prev \in Sign /\ s.char \in BOOLEAN
           /\ s.str \in BOOLEAN /\ s.at \in Nat
BY DEF Cursors

LEMMA CursorFields ==
    ASSUME NEW s \in Cursors
    PROVE  s = [ok |-> s.ok, local |-> s.local, prev |-> s.prev, char |-> s.char, str |-> s.str, at |-> s.at]
BY DEF Cursors

(* What is plain, and what needs a quote.                                  *)
LEMMA SignSorts ==
    /\ Plain \subseteq Sign /\ {"\\", "\"", "@", "["} \cap Plain = {} /\ NonAscii \subseteq Char
    /\ NonAscii \cap (Letter \cup Digit \cup Special) = {}
    /\ {".", "\\", "\"", "@", "["} \cap (Letter \cup Digit \cup Special \cup NonAscii) = {}
    /\ "." # "\\" /\ "." # "\"" /\ "." # "@" /\ "." # "[" /\ "\\" # "\"" /\ "\\" # "@" /\ "\"" # "@"
<1>1. Letter \cup Digit \cup Special \cup NonAscii \subseteq Char BY PolicyAssumption
<1>2. \A c \in {".", "\\", "\"", "@", "["} : c \notin Letter \cup Digit \cup Special \cup NonAscii BY PolicyAssumption
<1>3. NonAscii \cap (Letter \cup Digit \cup Special) = {} BY PolicyAssumption
<1> QED BY <1>1, <1>2, <1>3 DEF Plain, Sign

(* What the turns do to the fields: a character is written, ...            *)
LEMMA WriteFields ==
    ASSUME NEW s \in Cursors, NEW c \in Sign
    PROVE  /\ Write(s, c) = [ok |-> s.ok, local |-> Append(s.local, c), prev |-> c, char |-> FALSE,
                             str |-> s.str, at |-> s.at]
           /\ Write(s, c) \in Cursors
<1>1. Write(s, c) = [ok |-> s.ok, local |-> Append(s.local, c), prev |-> c, char |-> FALSE,
                     str |-> s.str, at |-> s.at]
  <2>1. Write(s, c) = [s EXCEPT !.local = Append(@, c), !.char = FALSE, !.prev = c] BY DEF Write
  <2> QED BY <2>1 DEF Cursors
<1>2. s.ok \in BOOLEAN /\ FALSE \in BOOLEAN /\ s.str \in BOOLEAN /\ s.at \in Nat BY CursorParts
<1>3. Append(s.local, c) \in Seq(Sign) BY CursorParts
<1>4. [ok |-> s.ok, local |-> Append(s.local, c), prev |-> c, char |-> FALSE, str |-> s.str, at |-> s.at] \in Cursors
  BY <1>2, <1>3, CursorMade
<1> QED BY <1>1, <1>4

(* ... the address is refused, ...                                         *)
LEMMA FailFields ==
    ASSUME NEW s \in Cursors
    PROVE  Fail(s).ok = FALSE /\ Fail(s) \in Cursors
<1>1. Fail(s) = [ok |-> FALSE, local |-> s.local, prev |-> s.prev, char |-> s.char, str |-> s.str, at |-> s.at]
  <2>1. Fail(s) = [s EXCEPT !.ok = FALSE] BY DEF Fail
  <2> QED BY <2>1 DEF Cursors
<1>2. FALSE \in BOOLEAN OBVIOUS
<1>3. /\ s.ok \in BOOLEAN /\ s.local \in Seq(Sign) /\ s.prev \in Sign /\ s.char \in BOOLEAN
      /\ s.str \in BOOLEAN /\ s.at \in Nat
  BY CursorParts
<1>4. [ok |-> FALSE, local |-> s.local, prev |-> s.prev, char |-> s.char, str |-> s.str, at |-> s.at] \in Cursors
  BY <1>2, <1>3, CursorMade
<1> QED BY <1>1, <1>4

(* ... a backslash opens, ...                                              *)
Slashed(s) == [s EXCEPT !.char = TRUE, !.prev = "\\"]

LEMMA SlashFields ==
    ASSUME NEW s \in Cursors
    PROVE  /\ Slashed(s) = [ok |-> s.ok, local |-> s.local, prev |-> "\\", char |-> TRUE, str |-> s.str, at |-> s.at]
           /\ Slashed(s) \in Cursors
<1>1. Slashed(s) = [ok |-> s.ok, local |-> s.local, prev |-> "\\", char |-> TRUE, str |-> s.str, at |-> s.at]
  <2>1. Slashed(s) = [s EXCEPT !.char = TRUE, !.prev = "\\"] BY DEF Slashed
  <2> QED BY <2>1 DEF Cursors
<1>2. TRUE \in BOOLEAN /\ "\\" \in Sign BY DEF Sign
<1>3. /\ s.ok \in BOOLEAN /\ s.local \in Seq(Sign) /\ s.prev \in Sign /\ s.char \in BOOLEAN
      /\ s.str \in BOOLEAN /\ s.at \in Nat
  BY CursorParts
<1>4. [ok |-> s.ok, local |-> s.local, prev |-> "\\", char |-> TRUE, str |-> s.str, at |-> s.at] \in Cursors
  BY <1>2, <1>3, CursorMade
<1> QED BY <1>1, <1>4

(* ... a quotation mark opens a string, ...                                *)
Opened(s) == [s EXCEPT !.str = TRUE, !.prev = "\""]

LEMMA OpenFields ==
    ASSUME NEW s \in Cursors
    PROVE  /\ Opened(s) = [ok |-> s.ok, local |-> s.local, prev |-> "\"", char |-> s.char, str |-> TRUE, at |-> s.at]
           /\ Opened(s) \in Cursors
<1>1. Opened(s) = [ok |-> s.ok, local |-> s.local, prev |-> "\"", char |-> s.char, str |-> TRUE, at |-> s.at]
  <2>1. Opened(s) = [s EXCEPT !.str = TRUE, !.prev = "\""] BY DEF Opened
  <2> QED BY <2>1 DEF Cursors
<1>2. "\"" \in Sign /\ TRUE \in BOOLEAN BY DEF Sign
<1>3. /\ s.ok \in BOOLEAN /\ s.local \in Seq(Sign) /\ s.prev \in Sign /\ s.char \in BOOLEAN
      /\ s.str \in BOOLEAN /\ s.at \in Nat
  BY CursorParts
<1>4. [ok |-> s.ok, local |-> s.local, prev |-> "\"", char |-> s.char, str |-> TRUE, at |-> s.at] \in Cursors
  BY <1>2, <1>3, CursorMade
<1> QED BY <1>1, <1>4

(* ... or closes it, ...                                                   *)
Closed(s) == [s EXCEPT !.str = FALSE, !.prev = "\""]

LEMMA CloseFields ==
    ASSUME NEW s \in Cursors
    PROVE  /\ Closed(s) = [ok |-> s.ok, local |-> s.local, prev |-> "\"", char |-> s.char, str |-> FALSE, at |-> s.at]
           /\ Closed(s) \in Cursors
<1>1. Closed(s) = [ok |-> s.ok, local |-> s.local, prev |-> "\"", char |-> s.char, str |-> FALSE, at |-> s.at]
  <2>1. Closed(s) = [s EXCEPT !.str = FALSE, !.prev = "\""] BY DEF Closed
  <2> QED BY <2>1 DEF Cursors
<1>2. "\"" \in Sign /\ FALSE \in BOOLEAN BY DEF Sign
<1>3. /\ s.ok \in BOOLEAN /\ s.local \in Seq(Sign) /\ s.prev \in Sign /\ s.char \in BOOLEAN
      /\ s.str \in BOOLEAN /\ s.at \in Nat
  BY CursorParts
<1>4. [ok |-> s.ok, local |-> s.local, prev |-> "\"", char |-> s.char, str |-> FALSE, at |-> s.at] \in Cursors
  BY <1>2, <1>3, CursorMade
<1> QED BY <1>1, <1>4

(* ... or the local part ends.                                             *)
Ended(s, i) == [s EXCEPT !.at = i]

LEMMA EndFields ==
    ASSUME NEW s \in Cursors, NEW i \in Nat
    PROVE  /\ Ended(s, i) = [ok |-> s.ok, local |-> s.local, prev |-> s.prev, char |-> s.char, str |-> s.str, at |-> i]
           /\ Ended(s, i) \in Cursors
<1>1. Ended(s, i) = [ok |-> s.ok, local |-> s.local, prev |-> s.prev, char |-> s.char, str |-> s.str, at |-> i]
  <2>1. Ended(s, i) = [s EXCEPT !.at = i] BY DEF Ended
  <2> QED BY <2>1 DEF Cursors
<1> QED BY <1>1, CursorParts, CursorMade

(* Where the local part may end.                                           *)
MayEnd(s, c, i) ==
    c = "@" /\ s.char = FALSE /\ s.str = FALSE /\ i - 1 <= MaxLocal /\ s.prev # "."

(* A turn from s at character i, c, to r.                                  *)
Turned(s, c, i, r) ==
    \/ r = Fail(s)
    \/ r = Write(s, c) /\ (c \in Plain \/ s.char = TRUE \/ s.str = TRUE) /\ ~(c = "." /\ s.prev = ".")
    \/ r = Slashed(s) /\ c = "\\"
    \/ r = Closed(s) /\ c = "\"" /\ s.char = FALSE /\ s.str = TRUE
    \/ r = Opened(s) /\ c = "\"" /\ s.char = FALSE /\ i = 1
    \/ r = Ended(s, i) /\ MayEnd(s, c, i)

(* Every turn is one of these.                                             *)
LEMMA OneTurn ==
    ASSUME NEW s \in Cursors, Going(s), NEW c \in Sign, NEW i \in Nat \ {0}
    PROVE  Turned(s, c, i, ScanTurn(s, c, i))
<1>1. ScanTurn(s, c, i) = ScanStep(s, c, i) BY DEF ScanTurn, Going
<1>2. (s.char = TRUE \/ s.char = FALSE) /\ (s.str = TRUE \/ s.str = FALSE) BY CursorParts
<1>3. MaxLocal \in Nat BY PolicyAssumption
<1>4. CASE c \in Letter \cup Digit \cup Special
  <2>1. ScanStep(s, c, i) = Write(s, c) BY <1>4, SignSorts DEF ScanStep
  <2>2. c \in Plain /\ c # "." BY <1>4, SignSorts DEF Plain
  <2> QED BY <1>1, <2>1, <2>2 DEF Turned
<1>5. CASE c = "."
  <2>1. ScanStep(s, c, i) = IF s.prev = "." THEN Fail(s) ELSE Write(s, c) BY <1>5, SignSorts DEF ScanStep
  <2>2. c \in Plain BY <1>5 DEF Plain
  <2> QED BY <1>1, <2>1, <2>2 DEF Turned
<1>6. CASE c = "\\"
  <2>1. ScanStep(s, c, i) = Slashed(s) BY <1>6, SignSorts DEF ScanStep, Slashed
  <2> QED BY <1>1, <1>6, <2>1 DEF Turned
<1>7. CASE c = "\""
  <2>1. ScanStep(s, c, i) = QuoteMark(s, i) BY <1>7, SignSorts DEF ScanStep
  <2>2. CASE s.char = TRUE
    <3>1. QuoteMark(s, i) = Write(s, c) BY <1>7, <2>2 DEF QuoteMark
    <3> QED BY <1>1, <1>7, <2>1, <2>2, <3>1, SignSorts DEF Turned
  <2>3. CASE s.char = FALSE /\ s.str = TRUE
    <3>1. QuoteMark(s, i) = Closed(s) BY <2>3 DEF QuoteMark, Opened, Closed
    <3> QED BY <1>1, <1>7, <2>1, <2>3, <3>1 DEF Turned
  <2>4. CASE s.char = FALSE /\ s.str = FALSE
    <3>1. QuoteMark(s, i) = IF i = 1 THEN Opened(s) ELSE Fail(s) BY <2>4 DEF QuoteMark, Opened, Closed
    <3> QED BY <1>1, <1>7, <2>1, <2>4, <3>1 DEF Turned
  <2> QED BY <1>2, <2>2, <2>3, <2>4
<1>8. CASE c = "@"
  <2>1. ScanStep(s, c, i) = AtSign(s, i) BY <1>8, SignSorts DEF ScanStep
  <2>2. CASE s.char = TRUE \/ s.str = TRUE
    <3>1. AtSign(s, i) = Write(s, c) BY <1>8, <2>2 DEF AtSign
    <3> QED BY <1>1, <1>8, <2>1, <2>2, <3>1, SignSorts DEF Turned
  <2>3. CASE s.char = FALSE /\ s.str = FALSE
    <3>1. AtSign(s, i) = IF i - 1 > MaxLocal \/ s.prev = "." THEN Fail(s) ELSE Ended(s, i)
      BY <2>3 DEF AtSign, Ended
    <3>2. CASE i - 1 > MaxLocal \/ s.prev = "." BY <1>1, <2>1, <3>1, <3>2 DEF Turned
    <3>3. CASE ~(i - 1 > MaxLocal \/ s.prev = ".")
      <4>1. MayEnd(s, c, i) BY <1>3, <1>8, <2>3, <3>3 DEF MayEnd
      <4> QED BY <1>1, <2>1, <3>1, <3>3, <4>1 DEF Turned
    <3> QED BY <3>2, <3>3
  <2> QED BY <1>2, <2>2, <2>3
<1>9. CASE c \in NonAscii
  <2>2. CASE c \in Letter \cup Digit \cup Special BY <1>4, <2>2
  <2>3. CASE c \notin Letter \cup Digit \cup Special
    <3>1. ScanStep(s, c, i) = Fail(s) BY <1>9, <2>3, SignSorts DEF ScanStep
    <3> QED BY <1>1, <3>1 DEF Turned
  <2> QED BY <2>2, <2>3
<1>10. CASE c \notin Letter \cup Digit \cup Special \cup NonAscii \cup {".", "\\", "\"", "@"}
  <2>1. ScanStep(s, c, i) = Other(s, c) BY <1>10 DEF ScanStep
  <2>2. CASE s.char = TRUE \/ s.str = TRUE
    <3>1. Other(s, c) = Write(s, c) BY <2>2 DEF Other
    <3> QED BY <1>1, <1>10, <2>1, <2>2, <3>1 DEF Turned
  <2>3. CASE s.char = FALSE /\ s.str = FALSE
    <3>1. Other(s, c) = Fail(s) BY <2>3 DEF Other
    <3> QED BY <1>1, <2>1, <3>1 DEF Turned
  <2> QED BY <1>2, <2>2, <2>3
<1> QED BY <1>4, <1>5, <1>6, <1>7, <1>8, <1>9, <1>10

(* Counting up to n.                                                       *)
LEMMA CountUp ==
    ASSUME NEW n \in Nat, NEW T, 0 \in T, \A k \in T : k \in 0 .. n - 1 => k + 1 \in T
    PROVE  0 .. n \subseteq T
<1> DEFINE U == {k \in Nat : k <= n => k \in T}
<1>1. 0 \in U OBVIOUS
<1>2. ASSUME NEW k \in U PROVE k + 1 \in U
  <2>1. k \in Nat /\ (k <= n => k \in T) OBVIOUS
  <2>2. ASSUME k + 1 <= n PROVE k + 1 \in T
    <3>1. k <= n /\ k \in 0 .. n - 1 BY <2>1, <2>2
    <3> QED BY <2>1, <3>1
  <2> QED BY <2>1, <2>2
<1>3. U = Nat
  <2>1. U \subseteq Nat OBVIOUS
  <2> HIDE DEF U
  <2> QED BY <1>1, <1>2, <2>1, NatSetInduction
<1> QED BY <1>3

(* A turn keeps to the states of the loop.                                 *)
LEMMA TurnType ==
    ASSUME NEW s \in Cursors, NEW c \in Sign, NEW i \in Nat \ {0}
    PROVE  ScanTurn(s, c, i) \in Cursors
<1>1. CASE ~Going(s)
  <2>1. s.ok \in BOOLEAN /\ s.at \in Nat BY CursorParts
  <2>2. ScanTurn(s, c, i) = s BY <1>1, <2>1 DEF ScanTurn, Going
  <2> QED BY <2>2
<1>2. CASE Going(s)
  <2>1. Turned(s, c, i, ScanTurn(s, c, i)) BY <1>2, OneTurn
  <2>2. Fail(s) \in Cursors BY FailFields
  <2>3. Write(s, c) \in Cursors BY WriteFields
  <2>4. Slashed(s) \in Cursors BY SlashFields
  <2>5. Opened(s) \in Cursors BY OpenFields
  <2>6. Closed(s) \in Cursors BY CloseFields
  <2>7. Ended(s, i) \in Cursors BY EndFields
  <2> QED BY <2>1, <2>2, <2>3, <2>4, <2>5, <2>6, <2>7 DEF Turned
<1> QED BY <1>1, <1>2

(* The loop over the local part of a, as the model states it.              *)
Scan(a) == CHOOSE g : g = [k \in 0 .. Len(a) |->
                             IF k = 0 THEN ScanStart ELSE ScanTurn(g[k - 1], a[k], k)]

LEMMA StartType == ScanStart \in Cursors /\ Going(ScanStart)
<1>1. TRUE \in BOOLEAN /\ FALSE \in BOOLEAN /\ <<>> \in Seq(Sign) /\ "." \in Sign /\ 0 \in Nat BY DEF Sign
<1>2. ScanStart \in Cursors BY <1>1, CursorMade DEF ScanStart
<1>3. ScanStart.ok = TRUE /\ ScanStart.at = 0 BY DEF ScanStart
<1> QED BY <1>2, <1>3 DEF Going

(* The loop runs: it has the recursion's equations.                        *)
LEMMA ScanUnfolds ==
    ASSUME NEW a \in Seq(Sign)
    PROVE  /\ Scan(a)[0] = ScanStart
           /\ \A k \in 1 .. Len(a) : Scan(a)[k] = ScanTurn(Scan(a)[k - 1], a[k], k)
           /\ \A k \in 0 .. Len(a) : Scan(a)[k] \in Cursors
<1> DEFINE n == Len(a)
           turn == [k \in 1 .. n |-> [r \in Cursors |-> ScanTurn(r, a[k], k)]]
<1>1. n \in Nat OBVIOUS
<1>2. ScanStart \in Cursors BY StartType
<1>3. turn \in [1 .. n -> [Cursors -> Cursors]]
  <2>1. \A k \in 1 .. n, r \in Cursors : ScanTurn(r, a[k], k) \in Cursors
    <3> TAKE k \in 1 .. n, r \in Cursors
    <3>1. a[k] \in Sign /\ k \in Nat \ {0} BY <1>1
    <3> QED BY <3>1, TurnType
  <2> QED BY <2>1
<1>4. \A k \in 1 .. n, r \in Cursors : turn[k][r] = ScanTurn(r, a[k], k)
  OBVIOUS
<1> HIDE DEF turn, n
<1>5. PICK f : Runs(f, n, Cursors, ScanStart, turn)
  BY <1>1, <1>2, <1>3, Course
<1>6. \A k \in 1 .. n : f[k] = ScanTurn(f[k - 1], a[k], k)
  <2> TAKE k \in 1 .. n
  <2>1. k - 1 \in 0 .. n BY <1>1
  <2>2. f[k - 1] \in Cursors BY <2>1, <1>5 DEF Runs
  <2> QED BY <2>2, <1>4, <1>5 DEF Runs
<1>7. f = [k \in 0 .. n |-> IF k = 0 THEN ScanStart ELSE ScanTurn(f[k - 1], a[k], k)]
  <2>1. \A k \in 0 .. n : k = 0 \/ k \in 1 .. n BY <1>1
  <2>2. \A k \in 0 .. n : f[k] = IF k = 0 THEN ScanStart ELSE ScanTurn(f[k - 1], a[k], k)
    BY <1>5, <1>6, <2>1 DEF Runs
  <2> QED BY <2>2, <1>5 DEF Runs
<1>8. \E g : g = [k \in 0 .. n |-> IF k = 0 THEN ScanStart ELSE ScanTurn(g[k - 1], a[k], k)]
  BY <1>7
<1>9. Scan(a) = [k \in 0 .. n |-> IF k = 0 THEN ScanStart ELSE ScanTurn(Scan(a)[k - 1], a[k], k)]
  BY <1>8, Zenon DEF Scan, n
<1> HIDE DEF Scan
<1>10. \A k \in 1 .. n : k \in 0 .. n /\ k # 0 BY <1>1
<1>11. 0 \in 0 .. n BY <1>1
<1>12. Scan(a)[0] = ScanStart BY <1>9, <1>11
<1>13. \A k \in 1 .. n : Scan(a)[k] = ScanTurn(Scan(a)[k - 1], a[k], k) BY <1>9, <1>10
<1>14. 0 .. n \subseteq {k \in 0 .. n : Scan(a)[k] \in Cursors}
  <2> DEFINE T == {k \in 0 .. n : Scan(a)[k] \in Cursors}
  <2>1. 0 \in T BY <1>2, <1>11, <1>12
  <2>2. ASSUME NEW k \in T, k \in 0 .. n - 1 PROVE k + 1 \in T
    <3>1. k + 1 \in 1 .. n /\ k + 1 \in Nat \ {0} /\ (k + 1) - 1 = k BY <1>1, <2>2
    <3>2. a[k + 1] \in Sign BY <3>1 DEF n
    <3>3. Scan(a)[k + 1] = ScanTurn(Scan(a)[k], a[k + 1], k + 1) BY <1>13, <3>1
    <3>4. Scan(a)[k] \in Cursors BY <2>2
    <3>5. Scan(a)[k + 1] \in Cursors BY <3>1, <3>2, <3>3, <3>4, TurnType
    <3> QED BY <1>10, <3>1, <3>5
  <2> HIDE DEF T
  <2>3. 0 .. n \subseteq T BY <1>1, <2>1, <2>2, CountUp
  <2> QED BY <2>3 DEF T
<1> USE DEF n
<1> QED BY <1>12, <1>13, <1>14

(* The same characters, the same turns.                                    *)
LEMMA SamePrefix ==
    ASSUME NEW a \in Seq(Sign), NEW b \in Seq(Sign), NEW m \in Nat, m <= Len(a), m <= Len(b),
           \A q \in 1 .. m : a[q] = b[q]
    PROVE  Scan(a)[m] = Scan(b)[m]
<1> DEFINE T == {k \in 0 .. m : Scan(a)[k] = Scan(b)[k]}
<1>1. 0 \in T BY ScanUnfolds
<1>2. ASSUME NEW k \in T, k \in 0 .. m - 1 PROVE k + 1 \in T
  <2>1. k + 1 \in 1 .. m /\ k + 1 \in 1 .. Len(a) /\ k + 1 \in 1 .. Len(b) /\ (k + 1) - 1 = k BY <1>2
  <2>2. Scan(a)[k + 1] = ScanTurn(Scan(a)[k], a[k + 1], k + 1) BY <2>1, ScanUnfolds
  <2>3. Scan(b)[k + 1] = ScanTurn(Scan(b)[k], b[k + 1], k + 1) BY <2>1, ScanUnfolds
  <2>4. Scan(a)[k] = Scan(b)[k] /\ a[k + 1] = b[k + 1] BY <1>2, <2>1
  <2>5. Scan(a)[k + 1] = Scan(b)[k + 1] BY <2>2, <2>3, <2>4
  <2> QED BY <2>1, <2>5
<1> HIDE DEF T
<1>3. 0 .. m \subseteq T BY <1>1, <1>2, CountUp
<1>4. m \in T BY <1>3
<1> QED BY <1>4 DEF T

(* Once the loop is left, nothing changes.                                 *)
LEMMA Frozen ==
    ASSUME NEW a \in Seq(Sign), NEW k \in 0 .. Len(a), NEW m \in k .. Len(a), ~Going(Scan(a)[k])
    PROVE  Scan(a)[m] = Scan(a)[k]
<1> DEFINE T == {j \in Nat : Scan(a)[k + j] = Scan(a)[k]}
<1>1. 0 \in T
  <2>1. k + 0 = k OBVIOUS
  <2> QED BY <2>1
<1>2. m - k \in Nat /\ k + (m - k) = m OBVIOUS
<1>3. ASSUME NEW j \in T, j \in 0 .. (m - k) - 1 PROVE j + 1 \in T
  <2>1. /\ k + (j + 1) \in 1 .. Len(a) /\ k + (j + 1) - 1 = k + j /\ k + j \in 0 .. Len(a) BY <1>3
  <2>2. Scan(a)[k + (j + 1)] = ScanTurn(Scan(a)[k + j], a[k + (j + 1)], k + (j + 1)) BY <2>1, ScanUnfolds
  <2>3. Scan(a)[k + j] = Scan(a)[k] BY <1>3
  <2>4. Scan(a)[k] \in Cursors BY ScanUnfolds
  <2>5. Scan(a)[k].ok \in BOOLEAN /\ Scan(a)[k].at \in Nat BY <2>4, CursorParts
  <2>6. ScanTurn(Scan(a)[k], a[k + (j + 1)], k + (j + 1)) = Scan(a)[k] BY <2>5 DEF ScanTurn, Going
  <2> QED BY <1>3, <2>2, <2>3, <2>6
<1> HIDE DEF T
<1>4. 0 .. (m - k) \subseteq T BY <1>1, <1>2, <1>3, CountUp
<1>5. m - k \in T BY <1>2, <1>4
<1> QED BY <1>2, <1>5 DEF T

(* The local part ends at the @ at i.                                      *)
EndsAt(a, i) ==
    /\ i \in 1 .. Len(a)
    /\ Going(Scan(a)[i - 1])
    /\ MayEnd(Scan(a)[i - 1], a[i], i)

(* A loop that has ended has ended so.                                     *)
LEMMA Stops ==
    ASSUME NEW a \in Seq(Sign), NEW n \in 0 .. Len(a), Scan(a)[n].ok = TRUE, Scan(a)[n].at # 0
    PROVE  LET i == Scan(a)[n].at
           IN  i <= n /\ EndsAt(a, i) /\ Scan(a)[n] = Ended(Scan(a)[i - 1], i)
<1> DEFINE Done(k) == /\ Scan(a)[k].at <= k
                      /\ EndsAt(a, Scan(a)[k].at)
                      /\ Scan(a)[k] = Ended(Scan(a)[Scan(a)[k].at - 1], Scan(a)[k].at)
           T == {k \in 0 .. n : Scan(a)[k].ok = TRUE /\ Scan(a)[k].at # 0 => Done(k)}
<1>1. 0 \in T
  <2>1. Scan(a)[0].at = 0 BY StartType, ScanUnfolds DEF Going
  <2> HIDE DEF Done
  <2> QED BY <2>1
<1>2. ASSUME NEW k \in T, k \in 0 .. n - 1, Scan(a)[k + 1].ok = TRUE, Scan(a)[k + 1].at # 0 PROVE Done(k + 1)
  <2>1. k \in 0 .. Len(a) /\ k + 1 \in 1 .. Len(a) /\ k + 1 \in Nat \ {0} /\ (k + 1) - 1 = k BY <1>2
  <2>2. Scan(a)[k] \in Cursors /\ a[k + 1] \in Sign BY <2>1, ScanUnfolds
  <2>3. Scan(a)[k + 1] = ScanTurn(Scan(a)[k], a[k + 1], k + 1) BY <2>1, ScanUnfolds
  <2>4. CASE ~Going(Scan(a)[k])
    <3>1. k + 1 \in k .. Len(a) BY <2>1
    <3>2. Scan(a)[k + 1] = Scan(a)[k] BY <2>1, <2>4, <3>1, Frozen
    <3>3. Done(k)
      <4> HIDE DEF Done
      <4> QED BY <1>2, <3>2
    <3>4. Scan(a)[k].at \in Nat BY <2>2, CursorParts
    <3> QED BY <2>1, <3>2, <3>3, <3>4
  <2>5. CASE Going(Scan(a)[k])
    <3> DEFINE s == Scan(a)[k]
               c == a[k + 1]
               r == Scan(a)[k + 1]
    <3>1. s \in Cursors /\ c \in Sign /\ r.ok = TRUE /\ r.at # 0 BY <1>2, <2>2
    <3>2. s.at = 0 BY <2>5 DEF Going
    <3>3. Turned(s, c, k + 1, r) BY <2>1, <2>2, <2>3, <2>5, OneTurn
    <3> HIDE DEF s, c, r
    <3>4. r # Fail(s) BY <3>1, FailFields
    <3>5. r # Write(s, c)
      <4>1. Write(s, c).at = s.at BY <3>1, WriteFields
      <4> QED BY <3>1, <3>2, <4>1
    <3>6. r # Slashed(s)
      <4>1. Slashed(s).at = s.at BY <3>1, SlashFields
      <4> QED BY <3>1, <3>2, <4>1
    <3>7. r # Opened(s) /\ r # Closed(s)
      <4>1. ASSUME r = Opened(s) PROVE r.at = s.at
        <5>1. r = [ok |-> s.ok, local |-> s.local, prev |-> "\"", char |-> s.char, str |-> TRUE, at |-> s.at]
          BY <3>1, <4>1, OpenFields
        <5> QED BY <5>1
      <4>2. ASSUME r = Closed(s) PROVE r.at = s.at
        <5>1. r = [ok |-> s.ok, local |-> s.local, prev |-> "\"", char |-> s.char, str |-> FALSE, at |-> s.at]
          BY <3>1, <4>2, CloseFields
        <5> QED BY <5>1
      <4> QED BY <3>1, <3>2, <4>1, <4>2
    <3>8. r = Ended(s, k + 1) /\ MayEnd(s, c, k + 1) BY <3>3, <3>4, <3>5, <3>6, <3>7 DEF Turned
    <3>9. r.at = k + 1 BY <2>1, <3>1, <3>8, EndFields
    <3> USE DEF s, c, r
    <3>10. EndsAt(a, k + 1) BY <2>1, <2>5, <3>8 DEF EndsAt
    <3> QED BY <2>1, <3>8, <3>9, <3>10
  <2> QED BY <2>4, <2>5
<1>3. \A k \in T : k \in 0 .. n - 1 => k + 1 \in T
  <2> HIDE DEF Done
  <2> TAKE k \in T
  <2> HAVE k \in 0 .. n - 1
  <2>1. k + 1 \in 0 .. n OBVIOUS
  <2> QED BY <1>2, <2>1
<1> HIDE DEF T, Done
<1>4. n \in Nat OBVIOUS
<1>5. 0 .. n \subseteq T BY <1>1, <1>3, <1>4, CountUp
<1>6. n \in T BY <1>4, <1>5
<1>7. Done(n) BY <1>6 DEF T
<1> QED BY <1>7 DEF Done

(* Only a loop that goes on has gone on.                                   *)
LEMMA WentOn ==
    ASSUME NEW a \in Seq(Sign), NEW m \in 0 .. Len(a), NEW k \in 0 .. m, Going(Scan(a)[m])
    PROVE  Going(Scan(a)[k])
<1> SUFFICES ASSUME ~Going(Scan(a)[k]) PROVE FALSE OBVIOUS
<1>1. k \in 0 .. Len(a) /\ m \in k .. Len(a) OBVIOUS
<1>2. Scan(a)[m] = Scan(a)[k] BY <1>1, Frozen
<1> QED BY <1>2

(* A turn from which the loop goes on, and what it leaves in the fields.   *)
Goes(s, c, i, r) ==
    \/ /\ r.local = Append(s.local, c) /\ r.prev = c /\ r.char = FALSE /\ r.str = s.str
       /\ c \in Plain \/ s.char = TRUE \/ s.str = TRUE
    \/ c = "\\" /\ r.local = s.local /\ r.prev = c /\ r.str = s.str
    \/ c = "\"" /\ r.local = s.local /\ r.prev = c /\ r.char = FALSE /\ r.str = FALSE /\ s.str = TRUE
    \/ c = "\"" /\ r.local = s.local /\ r.prev = c /\ r.char = FALSE /\ r.str = TRUE /\ i = 1

LEMMA GoingTurn ==
    ASSUME NEW s \in Cursors, NEW c \in Sign, NEW i \in Nat \ {0}, NEW r, Turned(s, c, i, r),
           Going(s), Going(r)
    PROVE  Goes(s, c, i, r)
<1>1. r.ok = TRUE /\ r.at = 0 BY DEF Going
<1>2. ~(r = Fail(s)) BY <1>1, FailFields
<1>3. ~(r = Ended(s, i))
  <2> SUFFICES ASSUME r = Ended(s, i) PROVE FALSE OBVIOUS
  <2>1. r = [ok |-> s.ok, local |-> s.local, prev |-> s.prev, char |-> s.char, str |-> s.str, at |-> i]
    BY EndFields
  <2>2. r.at = i BY <2>1
  <2> QED BY <1>1, <2>2
<1>4. CASE r = Write(s, c) /\ (c \in Plain \/ s.char = TRUE \/ s.str = TRUE)
  <2>1. r = [ok |-> s.ok, local |-> Append(s.local, c), prev |-> c, char |-> FALSE, str |-> s.str, at |-> s.at]
    BY <1>4, WriteFields
  <2>2. r.local = Append(s.local, c) /\ r.prev = c BY <2>1
  <2>3. r.char = FALSE BY <2>1
  <2>4. r.str = s.str BY <2>1
  <2> QED BY <1>4, <2>2, <2>3, <2>4 DEF Goes
<1>5. CASE r = Slashed(s) /\ c = "\\"
  <2>1. r = [ok |-> s.ok, local |-> s.local, prev |-> "\\", char |-> TRUE, str |-> s.str, at |-> s.at]
    BY <1>5, SlashFields
  <2>2. r.local = s.local /\ r.prev = "\\" BY <2>1
  <2>3. r.str = s.str BY <2>1
  <2> QED BY <1>5, <2>2, <2>3 DEF Goes
<1>6. CASE r = Closed(s) /\ c = "\"" /\ s.char = FALSE /\ s.str = TRUE
  <2>1. r = [ok |-> s.ok, local |-> s.local, prev |-> "\"", char |-> s.char, str |-> FALSE, at |-> s.at]
    BY <1>6, CloseFields
  <2>2. r.local = s.local /\ r.prev = "\"" BY <2>1
  <2>3. r.str = FALSE BY <2>1
  <2>4. r.char = s.char BY <2>1
  <2> QED BY <1>6, <2>2, <2>3, <2>4 DEF Goes
<1>7. CASE r = Opened(s) /\ c = "\"" /\ s.char = FALSE /\ i = 1
  <2>1. r = [ok |-> s.ok, local |-> s.local, prev |-> "\"", char |-> s.char, str |-> TRUE, at |-> s.at]
    BY <1>7, OpenFields
  <2>2. r.local = s.local /\ r.prev = "\"" BY <2>1
  <2>3. r.str = TRUE BY <2>1
  <2>4. r.char = s.char BY <2>1
  <2> QED BY <1>7, <2>2, <2>3, <2>4 DEF Goes
<1> QED BY <1>2, <1>3, <1>4, <1>5, <1>6, <1>7 DEF Turned

(* What needs a quote stands behind a backslash, up to k.                  *)
Escaped(a, k) == \A q \in 1 .. k : a[q] \notin Plain \cup {"\\"} => q > 1 /\ a[q - 1] = "\\"

(* What the loop knows after k characters.                                 *)
Known(s, a, k) ==
    /\ Len(s.local) <= k
    /\ s.prev = IF k = 0 THEN "." ELSE a[k]
    /\ s.char = TRUE => k > 0 /\ a[k] = "\\"
    /\ s.str = TRUE => a[1] = "\""
    /\ a[1] # "\"" => Escaped(a, k)

LEMMA KnownTurn ==
    ASSUME NEW a \in Seq(Sign), NEW k \in Nat, k + 1 <= Len(a), NEW s \in Cursors, Known(s, a, k),
           NEW r \in Cursors, Goes(s, a[k + 1], k + 1, r)
    PROVE  Known(r, a, k + 1)
<1> DEFINE c == a[k + 1]
<1>1. c \in Sign /\ k + 1 # 0 /\ (k + 1) - 1 = k OBVIOUS
<1>2. s.local \in Seq(Sign) /\ Len(s.local) \in Nat BY CursorParts
<1>3. (r.char = TRUE \/ r.char = FALSE) /\ (r.str = TRUE \/ r.str = FALSE) BY CursorParts
<1>4. Len(Append(s.local, c)) = Len(s.local) + 1 BY <1>1, <1>2
<1>5. Len(r.local) <= k + 1
  <2>1. r.local = Append(s.local, c) \/ r.local = s.local BY DEF Goes
  <2>2. Len(s.local) <= k BY DEF Known
  <2> HIDE DEF c
  <2> QED BY <1>2, <1>4, <2>1, <2>2
<1>6. r.prev = IF k + 1 = 0 THEN "." ELSE a[k + 1]
  <2>1. r.prev = a[k + 1] BY DEF Goes
  <2> QED BY <1>1, <2>1
<1>7. r.char = TRUE => a[k + 1] = "\\"
  <2> SUFFICES ASSUME r.char = TRUE PROVE a[k + 1] = "\\" OBVIOUS
  <2>1. ~(r.char = FALSE) OBVIOUS
  <2> QED BY <2>1 DEF Goes
<1>8. r.str = TRUE => a[1] = "\""
  <2> SUFFICES ASSUME r.str = TRUE PROVE a[1] = "\"" OBVIOUS
  <2>1. ~(r.str = FALSE) OBVIOUS
  <2>2. CASE r.str = s.str BY <2>2 DEF Known
  <2>3. CASE c = "\"" /\ k + 1 = 1 BY <2>3
  <2> QED BY <2>1, <2>2, <2>3 DEF Goes
<1>9. ASSUME a[1] # "\"" PROVE Escaped(a, k + 1)
  <2>1. Escaped(a, k) BY <1>9 DEF Known
  <2>2. ~(s.str = TRUE) BY <1>9 DEF Known
  <2>3. c \notin Plain \cup {"\\"} => k + 1 > 1 /\ a[k] = "\\"
    <3>1. CASE c \in Plain \/ s.char = TRUE
      <4>1. s.char = TRUE => k > 0 /\ a[k] = "\\" BY DEF Known
      <4>2. k > 0 => k + 1 > 1 OBVIOUS
      <4> HIDE DEF c
      <4> QED BY <3>1, <4>1, <4>2
    <3>2. CASE c = "\\" BY <3>2
    <3>3. CASE c = "\"" /\ k + 1 = 1 BY <1>9, <3>3
    <3> QED BY <2>2, <3>1, <3>2, <3>3 DEF Goes
  <2> SUFFICES ASSUME NEW q \in 1 .. k + 1, a[q] \notin Plain \cup {"\\"} PROVE q > 1 /\ a[q - 1] = "\\"
    BY DEF Escaped
  <2>4. q \in 1 .. k \/ q = k + 1 OBVIOUS
  <2> QED BY <1>1, <2>1, <2>3, <2>4 DEF Escaped
<1>10. a[1] # "\"" => Escaped(a, k + 1) BY <1>9
<1>11. r.char = TRUE => k + 1 > 0 /\ a[k + 1] = "\\" BY <1>7
<1> QED BY <1>5, <1>6, <1>8, <1>10, <1>11 DEF Known

(* The loop knows it as long as it goes on.                                *)
LEMMA Learns ==
    ASSUME NEW a \in Seq(Sign), NEW m \in 0 .. Len(a), Going(Scan(a)[m])
    PROVE  Known(Scan(a)[m], a, m)
<1> DEFINE T == {k \in 0 .. m : Known(Scan(a)[k], a, k)}
<1>1. 0 \in T
  <2>1. Scan(a)[0] = ScanStart BY ScanUnfolds
  <2>2. ScanStart.local = <<>> /\ ScanStart.prev = "." BY DEF ScanStart
  <2>3. ScanStart.char = FALSE BY DEF ScanStart
  <2>4. ScanStart.str = FALSE BY DEF ScanStart
  <2>5. ~(ScanStart.char = TRUE) /\ ~(ScanStart.str = TRUE) BY <2>3, <2>4
  <2>6. Escaped(a, 0) BY DEF Escaped
  <2>7. Len(ScanStart.local) <= 0 BY <2>2
  <2>8. Known(ScanStart, a, 0) BY <2>2, <2>5, <2>6, <2>7 DEF Known
  <2> QED BY <2>1, <2>8
<1>2. ASSUME NEW k \in T, k \in 0 .. m - 1 PROVE k + 1 \in T
  <2>1. /\ k \in 0 .. m /\ k + 1 \in 0 .. m /\ k \in 0 .. Len(a) /\ k + 1 \in 1 .. Len(a)
        /\ k + 1 \in Nat \ {0} /\ (k + 1) - 1 = k /\ k \in Nat /\ k + 1 <= Len(a) /\ k + 1 \in 0 .. Len(a)
    BY <1>2
  <2>2. Scan(a)[k] \in Cursors /\ Scan(a)[k + 1] \in Cursors /\ a[k + 1] \in Sign BY <2>1, ScanUnfolds
  <2>3. Scan(a)[k + 1] = ScanTurn(Scan(a)[k], a[k + 1], k + 1) BY <2>1, ScanUnfolds
  <2>4. Going(Scan(a)[k]) BY <2>1, WentOn
  <2>5. Going(Scan(a)[k + 1]) BY <2>1, WentOn
  <2>6. Turned(Scan(a)[k], a[k + 1], k + 1, Scan(a)[k + 1]) BY <2>1, <2>2, <2>3, <2>4, OneTurn
  <2>7. Goes(Scan(a)[k], a[k + 1], k + 1, Scan(a)[k + 1]) BY <2>1, <2>2, <2>4, <2>5, <2>6, GoingTurn
  <2>8. Known(Scan(a)[k], a, k) BY <1>2
  <2>9. Known(Scan(a)[k + 1], a, k + 1) BY <2>1, <2>2, <2>7, <2>8, KnownTurn
  <2> QED BY <2>1, <2>9
<1>3. m \in Nat OBVIOUS
<1> HIDE DEF T
<1>4. 0 .. m \subseteq T BY <1>1, <1>2, <1>3, CountUp
<1>5. m \in T BY <1>3, <1>4
<1> QED BY <1>5 DEF T

-----------------------------------------------------------------------------
(* Addresses *)

LEMMA ErrFails == Err.ok = FALSE
BY DEF Err

(* The loop in ScanLocal is Scan.                                          *)
LEMMA LocalIsScan ==
    ASSUME NEW b
    PROVE  ScanLocal(b) =
             LET end == Scan(b)[Len(b)]
             IN  IF b = <<>> \/ b[1] = "." \/ ~end.ok \/ end.char \/ end.str THEN Err
                 ELSE [ok |-> TRUE, local |-> end.local,
                       domain |-> IF end.at = 0 THEN <<>> ELSE SubSeq(b, end.at + 1, Len(b))]
BY DEF ScanLocal, Scan

(* b, split at the @ at i.                                                 *)
Split(b, i) == [ok |-> TRUE, local |-> Scan(b)[i - 1].local, domain |-> SubSeq(b, i + 1, Len(b))]

(* Where the local part may end, it does.                                  *)
LEMMA EndTurn ==
    ASSUME NEW s \in Cursors, Going(s), NEW i \in Nat \ {0}, NEW c, MayEnd(s, c, i)
    PROVE  ScanTurn(s, c, i) = Ended(s, i)
<1>1. c = "@" /\ s.prev # "." /\ i - 1 <= MaxLocal BY DEF MayEnd
<1>2. s.char = FALSE BY DEF MayEnd
<1>3. s.str = FALSE BY DEF MayEnd
<1>4. ScanTurn(s, c, i) = ScanStep(s, c, i) BY DEF ScanTurn, Going
<1>5. ScanStep(s, c, i) = AtSign(s, i) BY <1>1, SignSorts DEF ScanStep
<1>6. MaxLocal \in Nat BY PolicyAssumption
<1>7. ~(i - 1 > MaxLocal \/ s.prev = ".") BY <1>1, <1>6
<1>8. AtSign(s, i) = [s EXCEPT !.at = i] BY <1>2, <1>3, <1>7 DEF AtSign
<1> QED BY <1>4, <1>5, <1>8 DEF Ended

LEMMA LocalEnds ==
    ASSUME NEW b \in Seq(Sign), NEW i, EndsAt(b, i), b[1] # "."
    PROVE  ScanLocal(b) = Split(b, i)
<1> DEFINE s == Scan(b)[i - 1]
           e == Scan(b)[Len(b)]
<1>1. i \in 1 .. Len(b) /\ Going(s) /\ MayEnd(s, b[i], i) BY DEF EndsAt
<1>2. i - 1 \in 0 .. Len(b) /\ i \in Nat \ {0} /\ i \in 0 .. Len(b) /\ Len(b) \in i .. Len(b) /\ Len(b) \in Nat BY <1>1
<1>3. s \in Cursors BY <1>2, ScanUnfolds
<1>4. Scan(b)[i] = ScanTurn(s, b[i], i) BY <1>1, ScanUnfolds
<1>5. Scan(b)[i] = Ended(s, i) BY <1>1, <1>2, <1>3, <1>4, EndTurn
<1> HIDE DEF s
<1>6. ASSUME NEW r, r = Ended(s, i)
      PROVE  /\ r.ok = TRUE /\ r.local = s.local /\ r.at = i
             /\ r.char = FALSE
             /\ r.str = FALSE
  <2>1. r = [ok |-> s.ok, local |-> s.local, prev |-> s.prev, char |-> s.char, str |-> s.str, at |-> i]
    BY <1>2, <1>3, <1>6, EndFields
  <2>2. r.ok = TRUE BY <1>1, <2>1 DEF Going
  <2>3. r.local = s.local /\ r.at = i BY <2>1
  <2>4. s.char = FALSE BY <1>1 DEF MayEnd
  <2>5. s.str = FALSE BY <1>1 DEF MayEnd
  <2>6. r.char = FALSE BY <2>1, <2>4
  <2>7. r.str = FALSE BY <2>1, <2>5
  <2> QED BY <2>2, <2>3, <2>6, <2>7
<1>7. ~Going(Scan(b)[i])
  <2>1. Scan(b)[i].at = i BY <1>5, <1>6
  <2> QED BY <1>2, <2>1 DEF Going
<1>8. e = Ended(s, i)
  <2>1. Scan(b)[Len(b)] = Scan(b)[i] BY <1>2, <1>7, Frozen
  <2> QED BY <1>5, <2>1
<1> HIDE DEF e
<1>9. e.ok = TRUE /\ e.local = s.local /\ e.at = i BY <1>6, <1>8
<1>10. e.char = FALSE BY <1>6, <1>8
<1>11. e.str = FALSE BY <1>6, <1>8
<1>12. b # <<>> BY <1>1
<1>13. ~(b = <<>> \/ b[1] = "." \/ ~e.ok \/ e.char \/ e.str) BY <1>9, <1>10, <1>11, <1>12
<1>14. ScanLocal(b) = IF b = <<>> \/ b[1] = "." \/ ~e.ok \/ e.char \/ e.str THEN Err
                      ELSE [ok |-> TRUE, local |-> e.local,
                            domain |-> IF e.at = 0 THEN <<>> ELSE SubSeq(b, e.at + 1, Len(b))]
  BY LocalIsScan DEF e
<1>15. ScanLocal(b) = [ok |-> TRUE, local |-> e.local,
                       domain |-> IF e.at = 0 THEN <<>> ELSE SubSeq(b, e.at + 1, Len(b))]
  BY <1>13, <1>14
<1>16. i # 0 BY <1>2
<1> QED BY <1>9, <1>15, <1>16 DEF Split, s

(* Without an @ that ends it, the address is a local part.                 *)
LEMMA LocalWhole ==
    ASSUME NEW b \in Seq(Sign), Going(Scan(b)[Len(b)]), Scan(b)[Len(b)].char = FALSE,
           Scan(b)[Len(b)].str = FALSE, b # <<>>, b[1] # "."
    PROVE  ScanLocal(b) = [ok |-> TRUE, local |-> Scan(b)[Len(b)].local, domain |-> <<>>]
<1> DEFINE e == Scan(b)[Len(b)]
<1>1. e.ok = TRUE /\ e.at = 0 BY DEF Going
<1>2. e.char = FALSE OBVIOUS
<1>3. e.str = FALSE OBVIOUS
<1> HIDE DEF e
<1>4. ~(b = <<>> \/ b[1] = "." \/ ~e.ok \/ e.char \/ e.str) BY <1>1, <1>2, <1>3
<1>5. ScanLocal(b) = IF b = <<>> \/ b[1] = "." \/ ~e.ok \/ e.char \/ e.str THEN Err
                     ELSE [ok |-> TRUE, local |-> e.local,
                           domain |-> IF e.at = 0 THEN <<>> ELSE SubSeq(b, e.at + 1, Len(b))]
  BY LocalIsScan DEF e
<1>6. ScanLocal(b) = [ok |-> TRUE, local |-> e.local,
                      domain |-> IF e.at = 0 THEN <<>> ELSE SubSeq(b, e.at + 1, Len(b))]
  BY <1>4, <1>5
<1> QED BY <1>1, <1>6 DEF e

LEMMA EmptyNoDomain == ~ValidateDomainPart(<<>>)
BY DEF ValidateDomainPart

(* An address whose domain passes has been split at an @.                  *)
LEMMA LocalSplits ==
    ASSUME NEW b \in Seq(Sign), ScanLocal(b).ok = TRUE, ValidateDomainPart(ScanLocal(b).domain)
    PROVE  LET i == Scan(b)[Len(b)].at IN EndsAt(b, i) /\ ScanLocal(b) = Split(b, i) /\ b[1] # "."
<1> DEFINE e == Scan(b)[Len(b)]
<1>0. Len(b) \in 0 .. Len(b) OBVIOUS
<1>1. e \in Cursors BY <1>0, ScanUnfolds
<1>2. ScanLocal(b) = IF b = <<>> \/ b[1] = "." \/ ~e.ok \/ e.char \/ e.str THEN Err
                     ELSE [ok |-> TRUE, local |-> e.local,
                           domain |-> IF e.at = 0 THEN <<>> ELSE SubSeq(b, e.at + 1, Len(b))]
  BY LocalIsScan
<1>3. ScanLocal(b) # Err BY ErrFails
<1> HIDE DEF e
<1>4. ~(b = <<>> \/ b[1] = "." \/ ~e.ok \/ e.char \/ e.str) BY <1>2, <1>3
<1>5. e.ok = TRUE
  <2>1. e.ok \in BOOLEAN BY <1>1, CursorParts
  <2> QED BY <1>4, <2>1
<1>6. ScanLocal(b) = [ok |-> TRUE, local |-> e.local,
                      domain |-> IF e.at = 0 THEN <<>> ELSE SubSeq(b, e.at + 1, Len(b))]
  BY <1>2, <1>4
<1>7. e.at # 0
  <2> SUFFICES ASSUME e.at = 0 PROVE FALSE OBVIOUS
  <2>1. ScanLocal(b).domain = <<>> BY <1>6
  <2> QED BY <2>1, EmptyNoDomain
<1>8. EndsAt(b, e.at) /\ e = Ended(Scan(b)[e.at - 1], e.at) BY <1>0, <1>5, <1>7, Stops DEF e
<1>9. b[1] # "." BY <1>4
<1> QED BY <1>8, <1>9, LocalEnds DEF e

(* What is written is never longer than what is read.                      *)
LEMMA SplitIsShort ==
    ASSUME NEW b \in Seq(Sign), NEW i, EndsAt(b, i)
    PROVE  /\ Split(b, i).ok = TRUE
           /\ Split(b, i).local = Scan(b)[i - 1].local /\ Split(b, i).domain = SubSeq(b, i + 1, Len(b))
           /\ Scan(b)[i - 1].local \in Seq(Sign) /\ Len(Scan(b)[i - 1].local) <= i - 1 /\ i - 1 <= MaxLocal
<1>1. i \in 1 .. Len(b) /\ Going(Scan(b)[i - 1]) /\ MayEnd(Scan(b)[i - 1], b[i], i) BY DEF EndsAt
<1>2. i - 1 \in 0 .. Len(b) BY <1>1
<1>3. Scan(b)[i - 1] \in Cursors BY <1>2, ScanUnfolds
<1>4. Scan(b)[i - 1].local \in Seq(Sign) BY <1>3, CursorParts
<1>5. Known(Scan(b)[i - 1], b, i - 1) BY <1>1, <1>2, Learns
<1>6. Len(Scan(b)[i - 1].local) <= i - 1 BY <1>5 DEF Known
<1>7. i - 1 <= MaxLocal BY <1>1 DEF MayEnd
<1> QED BY <1>4, <1>6, <1>7 DEF Split

(* Every set of numbers with an element has a least one.                   *)
LEMMA Least ==
    ASSUME NEW S, S \subseteq Nat, S # {}
    PROVE  \E x \in S : \A y \in S : x <= y
<1> DEFINE T == {n \in Nat : \A y \in S : n <= y}
<1> SUFFICES ASSUME \A x \in S : \E y \in S : ~(x <= y) PROVE FALSE OBVIOUS
<1>1. 0 \in T OBVIOUS
<1>2. ASSUME NEW n \in T PROVE n + 1 \in T
  <2>1. n \in Nat /\ \A y \in S : n <= y OBVIOUS
  <2>2. n \notin S BY <2>1
  <2>3. ASSUME NEW y \in S PROVE n + 1 <= y
    <3>1. y \in Nat /\ n <= y /\ y # n BY <2>1, <2>2
    <3> QED BY <2>1, <3>1
  <2> QED BY <2>1, <2>3
<1>3. T \subseteq Nat OBVIOUS
<1>4. PICK x \in S : TRUE OBVIOUS
<1>5. x \in Nat OBVIOUS
<1>6. T = Nat
  <2> HIDE DEF T
  <2> QED BY <1>1, <1>2, <1>3, NatSetInduction
<1>7. x + 1 \in T BY <1>5, <1>6
<1> QED BY <1>5, <1>7

(* IndexOf finds the first.                                                *)
LEMMA FirstOf ==
    ASSUME NEW X, NEW s \in Seq(X), NEW c
    PROVE  /\ IndexOf(s, c) \in 0 .. Len(s)
           /\ IndexOf(s, c) = 0 => \A k \in 1 .. Len(s) : s[k] # c
           /\ IndexOf(s, c) # 0 => s[IndexOf(s, c)] = c /\ \A k \in 1 .. IndexOf(s, c) - 1 : s[k] # c
<1>1. Len(s) \in Nat /\ DOMAIN s = 1 .. Len(s) OBVIOUS
<1>2. CASE \A k \in 1 .. Len(s) : s[k] # c
  <2>1. IndexOf(s, c) = 0 BY <1>1, <1>2 DEF IndexOf
  <2> QED BY <1>1, <1>2, <2>1
<1>3. CASE \E k \in 1 .. Len(s) : s[k] = c
  <2> DEFINE K == {k \in 1 .. Len(s) : s[k] = c}
             First(k) == s[k] = c /\ \A j \in 1 .. k - 1 : s[j] # c
  <2>1. K \subseteq Nat /\ K # {} BY <1>1, <1>3
  <2>2. PICK x \in K : \A y \in K : x <= y
    <3> HIDE DEF K
    <3> QED BY <2>1, Least
  <2>3. x \in DOMAIN s /\ s[x] = c BY <1>1
  <2>4. ASSUME NEW j \in 1 .. x - 1 PROVE s[j] # c
    <3>1. j \in 1 .. Len(s) /\ ~(x <= j) BY <1>1, <2>3
    <3> QED BY <2>2, <3>1
  <2>5. \E k \in DOMAIN s : First(k) BY <2>3, <2>4
  <2>6. IndexOf(s, c) = CHOOSE k \in DOMAIN s : First(k) BY <1>1, <1>3 DEF IndexOf
  <2> HIDE DEF First
  <2>7. IndexOf(s, c) \in DOMAIN s /\ First(IndexOf(s, c)) BY <2>5, <2>6
  <2>8. IndexOf(s, c) \in 1 .. Len(s) BY <1>1, <2>7
  <2> QED BY <1>1, <2>7, <2>8 DEF First
<1> QED BY <1>2, <1>3

(* What the route leaves of an address.                                    *)
Unrouted(a) == IF a[1] = "@" THEN SubSeq(a, IndexOf(a, ":") + 1, Len(a)) ELSE a

LEMMA Routes ==
    ASSUME NEW a \in Seq(Sign), parseEmailAddress(a).ok = TRUE
    PROVE  /\ a # <<>> /\ Len(a) <= MaxAddress
           /\ parseEmailAddress(a) = ScanLocal(Unrouted(a))
           /\ Unrouted(a) \in Seq(Sign) /\ Len(Unrouted(a)) <= Len(a)
           /\ a[1] # "@" => Unrouted(a) = a
           /\ a[1] = "@" => \A j \in 1 .. Len(Unrouted(a)) : \E q \in 2 .. Len(a) : Unrouted(a)[j] = a[q]
<1> DEFINE e == IndexOf(a, ":")
<1>1. Len(a) \in Nat /\ MaxAddress \in Nat
  <2>1. MaxAddress \in Nat BY PolicyAssumption
  <2> QED BY <2>1
<1>2. parseEmailAddress(a) # Err BY ErrFails
<1>3. ~(a = <<>> \/ Len(a) > MaxAddress)
  <2> SUFFICES ASSUME a = <<>> \/ Len(a) > MaxAddress PROVE FALSE OBVIOUS
  <2>1. ~(a # <<>> /\ Len(a) <= MaxAddress /\ a[1] = "@") BY <1>1
  <2>2. parseEmailAddress(a) = Err BY <2>1 DEF parseEmailAddress
  <2> QED BY <1>2, <2>2
<1>4. a # <<>> /\ Len(a) <= MaxAddress BY <1>1, <1>3
<1>5. CASE a[1] # "@"
  <2>1. parseEmailAddress(a) = ScanLocal(a) BY <1>3, <1>4, <1>5 DEF parseEmailAddress
  <2>2. Unrouted(a) = a BY <1>5 DEF Unrouted
  <2> QED BY <1>1, <1>4, <1>5, <2>1, <2>2
<1>6. CASE a[1] = "@"
  <2>1. parseEmailAddress(a) = IF e = 0 THEN Err ELSE ScanLocal(SubSeq(a, e + 1, Len(a)))
    BY <1>3, <1>4, <1>6 DEF parseEmailAddress
  <2>2. e \in 0 .. Len(a) /\ e # 0 BY <1>2, <2>1, FirstOf
  <2> HIDE DEF e
  <2>3. Unrouted(a) = SubSeq(a, e + 1, Len(a)) BY <1>6 DEF Unrouted, e
  <2>4. \A j \in e + 1 .. Len(a) : a[j] \in Sign BY <2>2
  <2>5. e + 1 \in Int /\ Len(a) \in Int BY <2>2
  <2>6. /\ SubSeq(a, e + 1, Len(a)) \in Seq(Sign)
        /\ Len(SubSeq(a, e + 1, Len(a))) = IF e + 1 <= Len(a) THEN Len(a) - (e + 1) + 1 ELSE 0
        /\ \A j \in 1 .. Len(a) - (e + 1) + 1 : SubSeq(a, e + 1, Len(a))[j] = a[e + 1 + j - 1]
    BY <2>4, <2>5, SubSeqProperties
  <2>7. Unrouted(a) \in Seq(Sign) /\ Len(Unrouted(a)) <= Len(a) BY <1>1, <2>2, <2>3, <2>6
  <2>8. ASSUME NEW j \in 1 .. Len(Unrouted(a)) PROVE \E q \in 2 .. Len(a) : Unrouted(a)[j] = a[q]
    <3>1. e + 1 + j - 1 \in 2 .. Len(a) /\ j \in 1 .. Len(a) - (e + 1) + 1 BY <1>1, <2>2, <2>3, <2>6
    <3> QED BY <2>3, <2>6, <3>1
  <2>9. parseEmailAddress(a) = ScanLocal(Unrouted(a)) BY <2>1, <2>2, <2>3
  <2> QED BY <1>4, <1>6, <2>7, <2>8, <2>9
<1> QED BY <1>5, <1>6

(* a is w, an @ and d.                                                     *)
Joined(a, w, d) ==
    /\ a \in Seq(Sign) /\ Len(a) = Len(w) + 1 + Len(d)
    /\ \A k \in 1 .. Len(w) : a[k] = w[k]
    /\ a[Len(w) + 1] = "@"
    /\ \A k \in 1 .. Len(d) : a[Len(w) + 1 + k] = d[k]
    /\ SubSeq(a, Len(w) + 2, Len(a)) = d

LEMMA AtParts ==
    ASSUME NEW w \in Seq(Sign), NEW d \in Seq(Sign)
    PROVE  Joined(At(w, d), w, d)
<1> DEFINE a == At(w, d)
<1>1. Len(w) \in Nat /\ Len(d) \in Nat OBVIOUS
<1>2. a \in Seq(Sign) /\ Len(a) = Len(w) + 1 + Len(d)
  <2>1. "@" \in Sign BY DEF Sign
  <2>2. <<"@">> \in Seq(Sign) /\ Len(<<"@">>) = 1 BY <2>1
  <2> QED BY <2>2 DEF At
<1>3. \A k \in 1 .. Len(w) : a[k] = w[k] BY DEF At
<1>4. a[Len(w) + 1] = "@" BY DEF At
<1>5. \A k \in 1 .. Len(d) : a[Len(w) + 1 + k] = d[k] BY <1>1 DEF At
<1> HIDE DEF a
<1>6. SubSeq(a, Len(w) + 2, Len(a)) = d
  <2>1. \A j \in Len(w) + 2 .. Len(a) : a[j] \in Sign BY <1>1, <1>2
  <2>2. Len(w) + 2 \in Int /\ Len(a) \in Int BY <1>1, <1>2
  <2>3. /\ SubSeq(a, Len(w) + 2, Len(a)) \in Seq(Sign)
        /\ Len(SubSeq(a, Len(w) + 2, Len(a))) = IF Len(w) + 2 <= Len(a) THEN Len(a) - (Len(w) + 2) + 1 ELSE 0
        /\ \A j \in 1 .. Len(a) - (Len(w) + 2) + 1 : SubSeq(a, Len(w) + 2, Len(a))[j] = a[Len(w) + 2 + j - 1]
    BY <2>1, <2>2, SubSeqProperties
  <2>4. Len(SubSeq(a, Len(w) + 2, Len(a))) = Len(d) BY <1>1, <1>2, <2>3
  <2>5. ASSUME NEW j \in 1 .. Len(d) PROVE SubSeq(a, Len(w) + 2, Len(a))[j] = d[j]
    <3>1. j \in 1 .. Len(a) - (Len(w) + 2) + 1 /\ Len(w) + 2 + j - 1 = Len(w) + 1 + j BY <1>1, <1>2
    <3> QED BY <1>5, <2>3, <3>1
  <2> QED BY <2>3, <2>4, <2>5, SeqEqual
<1> QED BY <1>2, <1>3, <1>4, <1>5, <1>6 DEF a, Joined

(* Whether an address is taken is a Boolean.                               *)
LEMMA OkIsBoolean ==
    ASSUME NEW a
    PROVE  /\ parseEmailAddress(a).ok = TRUE \/ parseEmailAddress(a).ok = FALSE
           /\ ParseEmailAddress(a).ok = TRUE \/ ParseEmailAddress(a).ok = FALSE
<1>1. \A b : ScanLocal(b).ok = TRUE \/ ScanLocal(b).ok = FALSE
  <2> TAKE b
  <2>1. \/ ScanLocal(b) = Err
        \/ \E l, d : ScanLocal(b) = [ok |-> TRUE, local |-> l, domain |-> d]
    BY LocalIsScan
  <2>2. ASSUME NEW l, NEW d, ScanLocal(b) = [ok |-> TRUE, local |-> l, domain |-> d] PROVE ScanLocal(b).ok = TRUE
    BY <2>2
  <2> QED BY <2>1, <2>2, ErrFails
<1>2. parseEmailAddress(a) = Err \/ \E b : parseEmailAddress(a) = ScanLocal(b)
  BY DEF parseEmailAddress
<1>3. parseEmailAddress(a).ok = TRUE \/ parseEmailAddress(a).ok = FALSE BY <1>1, <1>2, ErrFails
<1>4. ParseEmailAddress(a) = Err \/ ParseEmailAddress(a) = parseEmailAddress(a) BY DEF ParseEmailAddress
<1> QED BY <1>3, <1>4, ErrFails

(* An address with a domain that passes, from where the route is gone.     *)
Parsed(a, b, i) ==
    /\ b \in Seq(Sign) /\ b[1] # "." /\ EndsAt(b, i)
    /\ parseEmailAddress(a) = Split(b, i)
    /\ ParseEmailAddress(a) = Split(b, i)
    /\ ValidateDomainPart(SubSeq(b, i + 1, Len(b)))

LEMMA AddressSplits ==
    ASSUME NEW a \in Seq(Sign), ParseEmailAddress(a).ok = TRUE
    PROVE  Parsed(a, Unrouted(a), Scan(Unrouted(a))[Len(Unrouted(a))].at) /\ parseEmailAddress(a).ok = TRUE
<1> DEFINE b == Unrouted(a)
           i == Scan(b)[Len(b)].at
<1>1. parseEmailAddress(a).ok /\ ValidateDomainPart(parseEmailAddress(a).domain)
  <2> SUFFICES ASSUME ~(parseEmailAddress(a).ok /\ ValidateDomainPart(parseEmailAddress(a).domain)) PROVE FALSE
    OBVIOUS
  <2>1. ParseEmailAddress(a) = Err BY DEF ParseEmailAddress
  <2> QED BY <2>1, ErrFails
<1>2. ParseEmailAddress(a) = parseEmailAddress(a) BY <1>1 DEF ParseEmailAddress
<1>3. parseEmailAddress(a).ok = TRUE BY <1>1, OkIsBoolean
<1>4. parseEmailAddress(a) = ScanLocal(b) /\ b \in Seq(Sign) BY <1>3, Routes
<1> HIDE DEF b
<1>5. ScanLocal(b).ok = TRUE /\ ValidateDomainPart(ScanLocal(b).domain) BY <1>1, <1>3, <1>4
<1>6. EndsAt(b, i) /\ ScanLocal(b) = Split(b, i) /\ b[1] # "." BY <1>4, <1>5, LocalSplits
<1> HIDE DEF i
<1>7. ValidateDomainPart(SubSeq(b, i + 1, Len(b)))
  <2>1. Split(b, i).domain = SubSeq(b, i + 1, Len(b)) BY DEF Split
  <2> QED BY <1>5, <1>6, <2>1
<1>8. Parsed(a, b, i) BY <1>2, <1>4, <1>6, <1>7 DEF Parsed
<1> QED BY <1>3, <1>8 DEF b, i

(* Behind the text, the domain.                                            *)
LEMMA Written ==
    ASSUME text \in Seq(Char), NEW d \in Domains
    PROVE  /\ text \in Seq(Sign) /\ d \in Seq(Sign) /\ At(text, d) \in Seq(Sign)
           /\ \A k \in 1 .. Len(d) : d[k] # "@"
<1>1. Char \subseteq Sign /\ "@" \in Sign BY DEF Sign
<1>2. text \in Seq(Sign) BY <1>1, SeqMonotonic
<1>3. d \in Seq(Char \ {"@"}) BY PolicyAssumption
<1>4. \A k \in 1 .. Len(d) : d[k] # "@" BY <1>3
<1>5. Char \ {"@"} \subseteq Sign BY <1>1
<1>6. d \in Seq(Sign) BY <1>3, <1>5, SeqMonotonic
<1>7. Joined(At(text, d), text, d) BY <1>2, <1>6, AtParts
<1> QED BY <1>2, <1>4, <1>6, <1>7 DEF Joined

(* With no route, the local part that is read is the one that was written. *)
LEMMA WhereItEnds ==
    ASSUME text \in Seq(Char), NEW d \in Domains, ParseEmailAddress(At(text, d)).ok = TRUE, text[1] # "@"
    PROVE  text # <<>> /\ Parsed(At(text, d), At(text, d), Len(text) + 1)
<1> DEFINE a == At(text, d)
           b == Unrouted(a)
           i == Scan(b)[Len(b)].at
           m == Len(text)
<1>1. text \in Seq(Sign) /\ d \in Seq(Sign) /\ a \in Seq(Sign) /\ \A k \in 1 .. Len(d) : d[k] # "@" BY Written
<1>2. /\ Len(a) = m + 1 + Len(d) /\ \A k \in 1 .. m : a[k] = text[k]
      /\ a[m + 1] = "@" /\ \A k \in 1 .. Len(d) : a[m + 1 + k] = d[k]
  <2>1. Joined(a, text, d) BY <1>1, AtParts
  <2> QED BY <2>1 DEF Joined
<1>3. m \in Nat /\ Len(d) \in Nat BY <1>1
<1> HIDE DEF a
<1>4. Parsed(a, b, i) /\ parseEmailAddress(a).ok = TRUE BY <1>1, AddressSplits DEF a
<1> HIDE DEF i
<1>5. i \in 1 .. Len(b) /\ b[i] = "@" BY <1>4 DEF Parsed, EndsAt, MayEnd
<1>6. \A q \in m + 2 .. Len(a) : a[q] # "@"
  <2> TAKE q \in m + 2 .. Len(a)
  <2>1. q - (m + 1) \in 1 .. Len(d) /\ m + 1 + (q - (m + 1)) = q BY <1>2, <1>3
  <2>2. a[q] = d[q - (m + 1)] BY <1>2, <2>1
  <2> QED BY <1>1, <2>1, <2>2
<1>7. text # <<>>
  <2> SUFFICES ASSUME text = <<>> PROVE FALSE OBVIOUS
  <2>1. m = 0 OBVIOUS
  <2>2. a[1] = "@" BY <1>2, <2>1
  <2>3. \A j \in 1 .. Len(b) : \E q \in 2 .. Len(a) : b[j] = a[q] BY <1>1, <1>4, <2>2, Routes
  <2> HIDE DEF b, m
  <2>4. PICK q \in 2 .. Len(a) : b[i] = a[q] BY <1>5, <2>3
  <2> QED BY <1>5, <1>6, <2>1, <2>4
<1>8. a[1] # "@"
  <2>1. m # 0 BY <1>7
  <2>2. 1 \in 1 .. m BY <1>3, <2>1
  <2> QED BY <1>2, <2>2
<1>9. b = a BY <1>1, <1>4, <1>8, Routes
<1> HIDE DEF b
<1>10. ~(i <= m)
  <2> SUFFICES ASSUME i <= m PROVE FALSE OBVIOUS
  <2>1. Len(a) \in Nat /\ i \in Nat BY <1>1, <1>5
  <2>2. \A j \in i + 1 .. Len(a) : a[j] \in Sign BY <1>1, <2>1
  <2>3. i + 1 \in Int /\ Len(a) \in Int BY <2>1
  <2>4. /\ SubSeq(a, i + 1, Len(a)) \in Seq(Sign)
        /\ Len(SubSeq(a, i + 1, Len(a))) = IF i + 1 <= Len(a) THEN Len(a) - (i + 1) + 1 ELSE 0
        /\ \A j \in 1 .. Len(a) - (i + 1) + 1 : SubSeq(a, i + 1, Len(a))[j] = a[i + 1 + j - 1]
    BY <2>2, <2>3, SubSeqProperties
  <2>5. /\ m + 1 - i \in 1 .. Len(a) - (i + 1) + 1 /\ m + 1 - i \in 1 .. Len(SubSeq(a, i + 1, Len(a)))
        /\ i + 1 + (m + 1 - i) - 1 = m + 1
    BY <1>2, <1>3, <1>5, <2>1, <2>4
  <2>6. SubSeq(a, i + 1, Len(a))[m + 1 - i] = "@" BY <1>2, <2>4, <2>5
  <2>7. ValidateDomainPart(SubSeq(a, i + 1, Len(a))) BY <1>4, <1>9 DEF Parsed
  <2> QED BY <2>4, <2>5, <2>6, <2>7, DomainHasNone
<1>11. i = m + 1
  <2>1. i \in Nat /\ i \in 1 .. Len(a) BY <1>5, <1>9
  <2>2. ~(i \in m + 2 .. Len(a)) BY <1>5, <1>6, <1>9
  <2> QED BY <1>3, <1>10, <2>1, <2>2
<1>12. Parsed(a, a, m + 1) BY <1>4, <1>9, <1>11
<1> QED BY <1>7, <1>12 DEF a

(* AddressPolicy's UnquotedSpecialsRefused, of every text.                 *)
LEMMA UnquotedRefusedHere == text \in Seq(Char) => UnquotedSpecialsRefused
<1> SUFFICES ASSUME text \in Seq(Char), NEW d \in Domains, ParseEmailAddress(At(text, d)).ok
             PROVE  /\ Len(ParseEmailAddress(At(text, d)).local) <= MaxLocal
                    /\ text[1] \notin {"\"", "@"} =>
                         \A k \in DOMAIN text :
                            text[k] \notin Plain \cup {"\\"} => k > 1 /\ text[k - 1] = "\\"
  BY DEF UnquotedSpecialsRefused
<1> DEFINE a == At(text, d)
           m == Len(text)
<1>1. text \in Seq(Sign) /\ d \in Seq(Sign) /\ a \in Seq(Sign) BY Written
<1>2. ParseEmailAddress(a).ok = TRUE BY OkIsBoolean
<1>3. Joined(a, text, d) BY <1>1, AtParts
<1>4. /\ m \in Nat /\ Len(d) \in Nat /\ Len(a) = m + 1 + Len(d)
      /\ \A k \in 1 .. m : a[k] = text[k]
  BY <1>1, <1>3 DEF Joined
<1>5. Len(ParseEmailAddress(a).local) <= MaxLocal
  <2> DEFINE b == Unrouted(a)
             i == Scan(b)[Len(b)].at
  <2> HIDE DEF a
  <2>1. Parsed(a, b, i) BY <1>1, <1>2, AddressSplits
  <2> HIDE DEF b, i
  <2>2. b \in Seq(Sign) /\ EndsAt(b, i) /\ ParseEmailAddress(a) = Split(b, i) BY <2>1 DEF Parsed
  <2>3. /\ Split(b, i).local = Scan(b)[i - 1].local /\ Scan(b)[i - 1].local \in Seq(Sign)
        /\ Len(Scan(b)[i - 1].local) <= i - 1 /\ i - 1 <= MaxLocal
    BY <2>2, SplitIsShort
  <2>4. i \in Nat /\ MaxLocal \in Nat
    <3>1. MaxLocal \in Nat BY PolicyAssumption
    <3> QED BY <2>2, <3>1 DEF EndsAt
  <2>5. Len(Scan(b)[i - 1].local) \in Nat BY <2>3
  <2>6. Len(Scan(b)[i - 1].local) <= MaxLocal BY <2>3, <2>4, <2>5
  <2> QED BY <2>2, <2>3, <2>6
<1>6. ASSUME text[1] \notin {"\"", "@"}, NEW k \in DOMAIN text, text[k] \notin Plain \cup {"\\"}
      PROVE  k > 1 /\ text[k - 1] = "\\"
  <2>1. text # <<>> /\ Parsed(a, a, m + 1) BY <1>2, <1>6, WhereItEnds
  <2> HIDE DEF a
  <2>2. EndsAt(a, m + 1) BY <2>1 DEF Parsed
  <2>3. Going(Scan(a)[m]) /\ m \in 0 .. Len(a)
    <3>1. (m + 1) - 1 = m /\ m \in 0 .. Len(a) BY <1>4
    <3> QED BY <2>2, <3>1 DEF EndsAt
  <2>4. Known(Scan(a)[m], a, m) BY <1>1, <2>3, Learns
  <2>5. k \in 1 .. m /\ 1 \in 1 .. m
    <3>1. DOMAIN text = 1 .. m OBVIOUS
    <3> QED BY <1>4, <3>1
  <2>6. a[1] # "\"" /\ a[k] = text[k] BY <1>4, <1>6, <2>5
  <2>7. Escaped(a, m) BY <2>4, <2>6 DEF Known
  <2>8. k > 1 /\ a[k - 1] = "\\" BY <1>6, <2>5, <2>6, <2>7 DEF Escaped
  <2>9. k - 1 \in 1 .. m BY <1>4, <2>5, <2>8
  <2> QED BY <1>4, <2>8, <2>9
<1> QED BY <1>5, <1>6

-----------------------------------------------------------------------------
(* Quoting *)

(* The loop outside of quotes, behind a backslash, and inside a string.    *)
Bare(l, p) == [ok |-> TRUE, local |-> l, prev |-> p, char |-> FALSE, str |-> FALSE, at |-> 0]
Escaping(l, p) == [ok |-> TRUE, local |-> l, prev |-> p, char |-> TRUE, str |-> FALSE, at |-> 0]
Inside(l, p) == [ok |-> TRUE, local |-> l, prev |-> p, char |-> FALSE, str |-> TRUE, at |-> 0]

(* The fields of such a state.                                             *)
IsBare(s, l, p) ==
    /\ s \in Cursors /\ s.local = l /\ s.prev = p /\ s.at = 0 /\ Going(s)
    /\ s.ok = TRUE /\ s.char = FALSE /\ s.str = FALSE

IsEscaping(s, l, p) ==
    /\ s \in Cursors /\ s.local = l /\ s.prev = p /\ s.at = 0 /\ Going(s)
    /\ s.ok = TRUE /\ s.char = TRUE /\ s.str = FALSE

IsInside(s, l, p) ==
    /\ s \in Cursors /\ s.local = l /\ s.prev = p /\ s.at = 0 /\ Going(s)
    /\ s.ok = TRUE /\ s.char = FALSE /\ s.str = TRUE

LEMMA BareFields ==
    ASSUME NEW l \in Seq(Sign), NEW p \in Sign,
           NEW s, s = Bare(l, p)
    PROVE  IsBare(s, l, p)
<1>1. TRUE \in BOOLEAN /\ FALSE \in BOOLEAN /\ 0 \in Nat OBVIOUS
<1>2. s \in Cursors BY <1>1, CursorMade DEF Bare
<1>3. s.local = l /\ s.prev = p /\ s.at = 0 BY DEF Bare
<1>4. s.ok = TRUE BY DEF Bare
<1>5. s.char = FALSE BY DEF Bare
<1>6. s.str = FALSE BY DEF Bare
<1> QED BY <1>2, <1>3, <1>4, <1>5, <1>6 DEF Going, IsBare

LEMMA EscapingFields ==
    ASSUME NEW l \in Seq(Sign), NEW p \in Sign, NEW s, s = Escaping(l, p)
    PROVE  IsEscaping(s, l, p)
<1>1. TRUE \in BOOLEAN /\ FALSE \in BOOLEAN /\ 0 \in Nat OBVIOUS
<1>2. s \in Cursors BY <1>1, CursorMade DEF Escaping
<1>3. s.local = l /\ s.prev = p /\ s.at = 0 BY DEF Escaping
<1>4. s.ok = TRUE BY DEF Escaping
<1>5. s.char = TRUE BY DEF Escaping
<1>6. s.str = FALSE BY DEF Escaping
<1> QED BY <1>2, <1>3, <1>4, <1>5, <1>6 DEF Going, IsEscaping

LEMMA InsideFields ==
    ASSUME NEW l \in Seq(Sign), NEW p \in Sign,
           NEW s, s = Inside(l, p)
    PROVE  IsInside(s, l, p)
<1>1. TRUE \in BOOLEAN /\ FALSE \in BOOLEAN /\ 0 \in Nat OBVIOUS
<1>2. s \in Cursors BY <1>1, CursorMade DEF Inside
<1>3. s.local = l /\ s.prev = p /\ s.at = 0 BY DEF Inside
<1>4. s.ok = TRUE BY DEF Inside
<1>5. s.char = FALSE BY DEF Inside
<1>6. s.str = TRUE BY DEF Inside
<1> QED BY <1>2, <1>3, <1>4, <1>5, <1>6 DEF Going, IsInside

LEMMA GoingStep ==
    ASSUME NEW s, Going(s), NEW c, NEW i
    PROVE  ScanTurn(s, c, i) = ScanStep(s, c, i)
BY DEF ScanTurn, Going

(* Where a character is written, the turn writes it.                       *)
LEMMA WriteTurn ==
    ASSUME NEW s \in Cursors, Going(s), NEW c \in Sign \ (NonAscii \cup {"\\"}), NEW i \in Nat \ {0},
           c = "." => s.prev # ".",
           c \notin Plain => s.char = TRUE \/ s.str = TRUE,
           c = "\"" => s.char = TRUE
    PROVE  ScanTurn(s, c, i) = Write(s, c)
<1>1. ScanTurn(s, c, i) = ScanStep(s, c, i) BY GoingStep
<1>2. CASE c \in Letter \cup Digit \cup Special BY <1>1, <1>2, SignSorts DEF ScanStep
<1>3. CASE c = "."
  <2>1. ScanStep(s, c, i) = IF s.prev = "." THEN Fail(s) ELSE Write(s, c) BY <1>3, SignSorts DEF ScanStep
  <2> QED BY <1>1, <1>3, <2>1
<1>4. CASE c = "\""
  <2>1. ScanStep(s, c, i) = QuoteMark(s, i) BY <1>4, SignSorts DEF ScanStep
  <2>2. s.char = TRUE BY <1>4
  <2>3. QuoteMark(s, i) = Write(s, "\"") BY <2>2 DEF QuoteMark
  <2> QED BY <1>1, <1>4, <2>1, <2>3
<1>5. CASE c = "@"
  <2>1. ScanStep(s, c, i) = AtSign(s, i) BY <1>5, SignSorts DEF ScanStep
  <2>2. s.char = TRUE \/ s.str = TRUE BY <1>5, SignSorts
  <2>3. AtSign(s, i) = Write(s, "@") BY <2>2 DEF AtSign
  <2> QED BY <1>1, <1>5, <2>1, <2>3
<1>6. CASE c \notin Letter \cup Digit \cup Special \cup {".", "\"", "@"}
  <2>1. ScanStep(s, c, i) = Other(s, c) BY <1>6 DEF ScanStep
  <2>2. s.char = TRUE \/ s.str = TRUE BY <1>6 DEF Plain
  <2>3. Other(s, c) = Write(s, c) BY <2>2 DEF Other
  <2> QED BY <1>1, <2>1, <2>3
<1> QED BY <1>2, <1>3, <1>4, <1>5, <1>6

(* A plain character, outside of quotes.                                   *)
LEMMA PlainTurn ==
    ASSUME NEW l \in Seq(Sign), NEW p \in Sign, NEW c \in Plain, NEW i \in Nat \ {0}, c = "." => p # ".",
           NEW s, s = Bare(l, p), NEW r, r = ScanTurn(s, c, i)
    PROVE  r = Bare(Append(l, c), c)
<1>0. IsBare(s, l, p) BY BareFields
<1>1. s \in Cursors /\ s.local = l /\ s.prev = p /\ s.at = 0 /\ Going(s) BY <1>0 DEF IsBare
<1>2. s.ok = TRUE BY <1>0 DEF IsBare
<1>3. s.str = FALSE BY <1>0 DEF IsBare
<1>4. c \in Sign \ (NonAscii \cup {"\\"}) /\ c # "\"" BY SignSorts DEF Plain
<1>5. r = Write(s, c) BY <1>1, <1>4, WriteTurn
<1>6. r = [ok |-> s.ok, local |-> Append(s.local, c), prev |-> c, char |-> FALSE, str |-> s.str, at |-> s.at]
  BY <1>1, <1>4, <1>5, WriteFields
<1>7. r = [ok |-> TRUE, local |-> Append(l, c), prev |-> c, char |-> FALSE, str |-> FALSE, at |-> 0]
  BY <1>1, <1>2, <1>3, <1>6
<1> QED BY <1>7 DEF Bare

(* A backslash, and what it quotes.                                        *)
LEMMA SlashTurn ==
    ASSUME NEW l \in Seq(Sign), NEW p \in Sign, NEW i \in Nat \ {0},
           NEW s, s = Bare(l, p), NEW r, r = ScanTurn(s, "\\", i)
    PROVE  r = Escaping(l, "\\")
<1>0. IsBare(s, l, p) BY BareFields
<1>1. s \in Cursors /\ s.local = l /\ s.at = 0 /\ Going(s) BY <1>0 DEF IsBare
<1>2. s.ok = TRUE BY <1>0 DEF IsBare
<1>3. s.str = FALSE BY <1>0 DEF IsBare
<1>4. r = ScanStep(s, "\\", i) BY <1>1, GoingStep
<1>5. ScanStep(s, "\\", i) = Slashed(s) BY SignSorts DEF ScanStep, Slashed
<1>6. r = [ok |-> s.ok, local |-> s.local, prev |-> "\\", char |-> TRUE, str |-> s.str, at |-> s.at]
  BY <1>1, <1>4, <1>5, SlashFields
<1>7. r = [ok |-> TRUE, local |-> l, prev |-> "\\", char |-> TRUE, str |-> FALSE, at |-> 0]
  BY <1>1, <1>2, <1>3, <1>6
<1> QED BY <1>7 DEF Escaping

LEMMA EscapedTurn ==
    ASSUME NEW l \in Seq(Sign), NEW p \in Sign, NEW c \in Sign \ (NonAscii \cup {"\\"}),
           NEW i \in Nat \ {0}, c # ".",
           NEW s, s = Escaping(l, p), NEW r, r = ScanTurn(s, c, i)
    PROVE  r = Bare(Append(l, c), c)
<1>0. IsEscaping(s, l, p) BY EscapingFields
<1>1. s \in Cursors /\ s.local = l /\ s.at = 0 /\ Going(s) BY <1>0 DEF IsEscaping
<1>2. s.ok = TRUE BY <1>0 DEF IsEscaping
<1>3. s.str = FALSE BY <1>0 DEF IsEscaping
<1>4. s.char = TRUE BY <1>0 DEF IsEscaping
<1>5. r = Write(s, c) BY <1>1, <1>4, WriteTurn
<1>6. r = [ok |-> s.ok, local |-> Append(s.local, c), prev |-> c, char |-> FALSE, str |-> s.str, at |-> s.at]
  BY <1>1, <1>5, WriteFields
<1>7. r = [ok |-> TRUE, local |-> Append(l, c), prev |-> c, char |-> FALSE, str |-> FALSE, at |-> 0]
  BY <1>1, <1>2, <1>3, <1>6
<1> QED BY <1>7 DEF Bare

(* A character of a string, ...                                            *)
LEMMA InsideTurn ==
    ASSUME NEW l \in Seq(Sign), NEW p \in Sign, NEW c \in Sign \ (NonAscii \cup {"\\", "\""}),
           NEW i \in Nat \ {0}, c = "." => p # ".",
           NEW s, s = Inside(l, p), NEW r, r = ScanTurn(s, c, i)
    PROVE  r = Inside(Append(l, c), c)
<1>0. IsInside(s, l, p) BY InsideFields
<1>1. s \in Cursors /\ s.local = l /\ s.prev = p /\ s.at = 0 /\ Going(s) BY <1>0 DEF IsInside
<1>2. s.ok = TRUE BY <1>0 DEF IsInside
<1>3. s.str = TRUE BY <1>0 DEF IsInside
<1>4. c \in Sign \ (NonAscii \cup {"\\"}) /\ c # "\"" OBVIOUS
<1>5. r = Write(s, c) BY <1>1, <1>3, <1>4, WriteTurn
<1>6. r = [ok |-> s.ok, local |-> Append(s.local, c), prev |-> c, char |-> FALSE, str |-> s.str, at |-> s.at]
  BY <1>1, <1>5, WriteFields
<1>7. r = [ok |-> TRUE, local |-> Append(l, c), prev |-> c, char |-> FALSE, str |-> TRUE, at |-> 0]
  BY <1>1, <1>2, <1>3, <1>6
<1> QED BY <1>7 DEF Inside

(* ... its end, ...                                                        *)
LEMMA CloseTurn ==
    ASSUME NEW l \in Seq(Sign), NEW p \in Sign, NEW i \in Nat \ {0},
           NEW s, s = Inside(l, p), NEW r, r = ScanTurn(s, "\"", i)
    PROVE  r = Bare(l, "\"")
<1>0. IsInside(s, l, p) BY InsideFields
<1>1. s \in Cursors /\ s.local = l /\ s.at = 0 /\ Going(s) BY <1>0 DEF IsInside
<1>2. s.ok = TRUE BY <1>0 DEF IsInside
<1>3. s.str = TRUE BY <1>0 DEF IsInside
<1>4. s.char = FALSE BY <1>0 DEF IsInside
<1>5. r = ScanStep(s, "\"", i) BY <1>1, GoingStep
<1>6. ScanStep(s, "\"", i) = QuoteMark(s, i) BY SignSorts DEF ScanStep
<1>7. QuoteMark(s, i) = Closed(s) BY <1>3, <1>4 DEF QuoteMark, Closed
<1>8. r = [ok |-> s.ok, local |-> s.local, prev |-> "\"", char |-> s.char, str |-> FALSE, at |-> s.at]
  BY <1>1, <1>5, <1>6, <1>7, CloseFields
<1>9. r = [ok |-> TRUE, local |-> l, prev |-> "\"", char |-> FALSE, str |-> FALSE, at |-> 0]
  BY <1>1, <1>2, <1>4, <1>8
<1> QED BY <1>9 DEF Bare

(* ... and its beginning.                                                  *)
LEMMA StartIsBare == ScanStart = Bare(<<>>, ".")
BY DEF ScanStart, Bare

LEMMA StartSigns == <<>> \in Seq(Sign) /\ "." \in Sign
BY DEF Sign

LEMMA OpenTurn ==
    ASSUME NEW s, s = Bare(<<>>, "."), NEW r, r = ScanTurn(s, "\"", 1)
    PROVE  r = Inside(<<>>, "\"")
<1>0. IsBare(s, <<>>, ".") BY StartSigns, BareFields
<1>2. s \in Cursors /\ s.local = <<>> /\ s.at = 0 /\ Going(s) BY <1>0 DEF IsBare
<1>3. s.ok = TRUE BY <1>0 DEF IsBare
<1>4. s.str = FALSE BY <1>0 DEF IsBare
<1>5. s.char = FALSE BY <1>0 DEF IsBare
<1>6. r = ScanStep(s, "\"", 1) BY <1>2, GoingStep
<1>7. ScanStep(s, "\"", 1) = QuoteMark(s, 1) BY SignSorts DEF ScanStep
<1>8. QuoteMark(s, 1) = Opened(s) BY <1>4, <1>5 DEF QuoteMark, Opened
<1>9. r = [ok |-> s.ok, local |-> s.local, prev |-> "\"", char |-> s.char, str |-> TRUE, at |-> s.at]
  BY <1>2, <1>6, <1>7, <1>8, OpenFields
<1>10. r = [ok |-> TRUE, local |-> <<>>, prev |-> "\"", char |-> FALSE, str |-> TRUE, at |-> 0]
  BY <1>2, <1>3, <1>5, <1>9
<1> QED BY <1>10 DEF Inside

(* The state behind the last character.                                    *)
End(g) == Scan(g)[Len(g)]

LEMMA OneMore ==
    ASSUME NEW g \in Seq(Sign), NEW c \in Sign
    PROVE  /\ Append(g, c) \in Seq(Sign) /\ Len(Append(g, c)) = Len(g) + 1
           /\ End(Append(g, c)) = ScanTurn(End(g), c, Len(g) + 1)
<1> DEFINE h == Append(g, c)
           n == Len(g)
<1>1. n \in Nat /\ h \in Seq(Sign) /\ Len(h) = n + 1 /\ h[n + 1] = c OBVIOUS
<1>2. \A q \in 1 .. n : h[q] = g[q] OBVIOUS
<1> HIDE DEF h
<1>3. n + 1 \in 1 .. Len(h) /\ (n + 1) - 1 = n /\ n <= Len(h) /\ n <= Len(g) BY <1>1
<1>4. Scan(h)[n + 1] = ScanTurn(Scan(h)[n], c, n + 1) BY <1>1, <1>3, ScanUnfolds
<1>5. Scan(h)[n] = Scan(g)[n] BY <1>1, <1>2, <1>3, SamePrefix
<1>6. End(h) = Scan(h)[n + 1] BY <1>1 DEF End
<1>7. End(g) = Scan(g)[n] BY DEF End
<1>8. End(h) = ScanTurn(End(g), c, n + 1) BY <1>4, <1>5, <1>6, <1>7
<1> QED BY <1>1, <1>8 DEF h

(* What has been read of a text.                                           *)
LEMMA Taken ==
    ASSUME NEW w \in Seq(Sign)
    PROVE  /\ SubSeq(w, 1, 0) = <<>> /\ SubSeq(w, 1, Len(w)) = w
           /\ \A j \in 0 .. Len(w) - 1 : /\ SubSeq(w, 1, j) \in Seq(Sign)
                                         /\ SubSeq(w, 1, j + 1) = Append(SubSeq(w, 1, j), w[j + 1])
<1>1. SubSeq(w, 1, 0) = <<>> OBVIOUS
<1>2. SubSeq(w, 1, Len(w)) = w OBVIOUS
<1>3. ASSUME NEW j \in 0 .. Len(w) - 1
      PROVE  SubSeq(w, 1, j) \in Seq(Sign) /\ SubSeq(w, 1, j + 1) = Append(SubSeq(w, 1, j), w[j + 1])
  <2> DEFINE s == SubSeq(w, 1, j)
             t == SubSeq(w, 1, j + 1)
  <2>1. j \in Nat /\ j + 1 \in 1 .. Len(w) /\ 1 \in Int /\ j \in Int /\ j + 1 \in Int OBVIOUS
  <2>2. \A q \in 1 .. j + 1 : w[q] \in Sign BY <2>1
  <2>3. \A q \in 1 .. j : w[q] \in Sign BY <2>2
  <2>4. s \in Seq(Sign) /\ Len(s) = j /\ \A q \in 1 .. j : s[q] = w[q]
    <3>1. /\ s \in Seq(Sign)
          /\ Len(s) = IF 1 <= j THEN j - 1 + 1 ELSE 0
          /\ \A q \in 1 .. j - 1 + 1 : s[q] = w[1 + q - 1]
      BY <2>1, <2>3, SubSeqProperties
    <3>2. j - 1 + 1 = j /\ \A q \in 1 .. j : 1 + q - 1 = q BY <2>1
    <3> QED BY <2>1, <3>1, <3>2
  <2>5. t \in Seq(Sign) /\ Len(t) = j + 1 /\ \A q \in 1 .. j + 1 : t[q] = w[q]
    <3>1. /\ t \in Seq(Sign)
          /\ Len(t) = IF 1 <= j + 1 THEN (j + 1) - 1 + 1 ELSE 0
          /\ \A q \in 1 .. (j + 1) - 1 + 1 : t[q] = w[1 + q - 1]
      BY <2>1, <2>2, SubSeqProperties
    <3>2. (j + 1) - 1 + 1 = j + 1 /\ 1 <= j + 1 /\ \A q \in 1 .. j + 1 : 1 + q - 1 = q BY <2>1
    <3> QED BY <2>1, <3>1, <3>2
  <2> HIDE DEF s, t
  <2>6. w[j + 1] \in Sign BY <2>1, <2>2
  <2>7. Append(s, w[j + 1]) \in Seq(Sign) /\ Len(Append(s, w[j + 1])) = j + 1 BY <2>4, <2>6
  <2>8. \A q \in 1 .. j + 1 : Append(s, w[j + 1])[q] = t[q]
    <3> TAKE q \in 1 .. j + 1
    <3>1. CASE q = j + 1 BY <2>1, <2>4, <2>5, <2>6, <3>1
    <3>2. CASE q \in 1 .. j BY <2>1, <2>4, <2>5, <2>6, <3>2
    <3>3. q = j + 1 \/ q \in 1 .. j BY <2>1
    <3> QED BY <3>1, <3>2, <3>3
  <2>9. t = Append(s, w[j + 1]) BY <2>5, <2>7, <2>8, SeqEqual
  <2> QED BY <2>4, <2>9 DEF s, t
<1> QED BY <1>1, <1>2, <1>3

(* Behind a local part that may end there, an address is split.            *)
LEMMA AddressEnds ==
    ASSUME NEW q \in Seq(Sign), NEW d \in Seq(Sign), q # <<>>, q[1] \notin {".", "@"},
           Len(At(q, d)) <= MaxAddress, Going(End(q)), MayEnd(End(q), "@", Len(q) + 1)
    PROVE  parseEmailAddress(At(q, d)) = [ok |-> TRUE, local |-> End(q).local, domain |-> d]
<1> DEFINE a == At(q, d)
           n == Len(q)
<1>1. Joined(a, q, d) BY AtParts
<1>2. n \in Nat /\ Len(d) \in Nat /\ n # 0 OBVIOUS
<1>3. Len(a) <= MaxAddress OBVIOUS
<1> HIDE DEF a
<1>4. a \in Seq(Sign) /\ Len(a) = n + 1 + Len(d) /\ a[n + 1] = "@" BY <1>1 DEF Joined
<1>5. \A k \in 1 .. n : a[k] = q[k] BY <1>1 DEF Joined
<1>6. SubSeq(a, n + 2, Len(a)) = d BY <1>1 DEF Joined
<1>7. n <= Len(a) /\ n + 1 \in 1 .. Len(a) /\ (n + 1) - 1 = n /\ (n + 1) + 1 = n + 2 BY <1>2, <1>4
<1>8. Scan(a)[n] = End(q)
  <2>1. n <= Len(q) /\ n <= Len(a) /\ n \in Nat /\ a \in Seq(Sign) BY <1>2, <1>4, <1>7
  <2> HIDE DEF n
  <2>2. Scan(a)[n] = Scan(q)[n] BY <1>5, <2>1, SamePrefix
  <2> QED BY <2>2 DEF End, n
<1>9. EndsAt(a, n + 1) BY <1>4, <1>7, <1>8 DEF EndsAt
<1>10. a[1] # "." /\ a[1] # "@"
  <2>1. 1 \in 1 .. n BY <1>2
  <2> QED BY <1>5, <2>1
<1>11. ScanLocal(a) = Split(a, n + 1) BY <1>4, <1>9, <1>10, LocalEnds
<1>12. parseEmailAddress(a) = ScanLocal(a)
  <2>1. a # <<>> BY <1>2, <1>4
  <2>2. Len(a) \in Nat /\ MaxAddress \in Nat
    <3>1. MaxAddress \in Nat BY PolicyAssumption
    <3> QED BY <1>4, <3>1
  <2>3. ~(a = <<>> \/ Len(a) > MaxAddress) BY <1>3, <2>1, <2>2
  <2> QED BY <1>10, <2>3 DEF parseEmailAddress
<1>13. Split(a, n + 1) = [ok |-> TRUE, local |-> End(q).local, domain |-> d]
  BY <1>6, <1>7, <1>8 DEF Split
<1> QED BY <1>11, <1>12, <1>13 DEF a

(* The first k of a sequence's sequences, one behind another.              *)
Flat(ss) == CHOOSE g : g = [i \in 1 .. Len(ss) |-> IF i = 1 THEN ss[i] ELSE g[i - 1] \o ss[i]]
FirstPieces(ss, k) == IF k = 0 THEN <<>> ELSE Flat(ss)[k]

(* FlattenSeq puts them all behind one another.                            *)
LEMMA Flattens ==
    ASSUME NEW ss \in Seq(Seq(Sign)), ss # <<>>
    PROVE  /\ FlattenSeq(ss) = FirstPieces(ss, Len(ss))
           /\ FirstPieces(ss, 0) = <<>>
           /\ \A k \in 1 .. Len(ss) : FirstPieces(ss, k) = FirstPieces(ss, k - 1) \o ss[k]
<1> DEFINE n == Len(ss)
           step == [k \in 1 .. n |-> [r \in Seq(Sign) |-> r \o ss[k]]]
<1>1. n \in Nat /\ n # 0 OBVIOUS
<1>2. <<>> \in Seq(Sign) OBVIOUS
<1>3. \A k \in 1 .. n : ss[k] \in Seq(Sign) OBVIOUS
<1>4. step \in [1 .. n -> [Seq(Sign) -> Seq(Sign)]]
  <2>1. \A k \in 1 .. n, r \in Seq(Sign) : r \o ss[k] \in Seq(Sign) BY <1>3
  <2> HIDE DEF n
  <2> QED BY <2>1
<1>5. \A k \in 1 .. n, r \in Seq(Sign) : step[k][r] = r \o ss[k] OBVIOUS
<1> HIDE DEF step, n
<1>6. PICK f : Runs(f, n, Seq(Sign), <<>>, step) BY <1>1, <1>2, <1>4, Course
<1>7. \A k \in 1 .. n : f[k] = f[k - 1] \o ss[k]
  <2> TAKE k \in 1 .. n
  <2>1. k - 1 \in 0 .. n BY <1>1
  <2>2. f[k - 1] \in Seq(Sign) BY <2>1, <1>6 DEF Runs
  <2> QED BY <2>2, <1>5, <1>6 DEF Runs
<1> DEFINE g == [i \in 1 .. n |-> f[i]]
<1>8. g = [i \in 1 .. n |-> IF i = 1 THEN ss[i] ELSE g[i - 1] \o ss[i]]
  <2>1. ASSUME NEW i \in 1 .. n PROVE g[i] = IF i = 1 THEN ss[i] ELSE g[i - 1] \o ss[i]
    <3>1. g[i] = f[i - 1] \o ss[i] BY <1>7
    <3>2. CASE i = 1
      <4>1. f[0] = <<>> /\ i - 1 = 0 BY <1>6, <3>2 DEF Runs
      <4>2. ss[i] \in Seq(Sign) BY <1>3
      <4>3. <<>> \o ss[i] = ss[i] BY <4>2
      <4> QED BY <3>1, <3>2, <4>1, <4>3
    <3>3. CASE i # 1
      <4>1. i - 1 \in 1 .. n BY <1>1, <3>3
      <4>2. g[i - 1] = f[i - 1] BY <4>1
      <4> QED BY <3>1, <3>3, <4>2
    <3> QED BY <3>2, <3>3
  <2> QED BY <2>1
<1>9. \E h : h = [i \in 1 .. n |-> IF i = 1 THEN ss[i] ELSE h[i - 1] \o ss[i]] BY <1>8
<1>10. Flat(ss) = [i \in 1 .. n |-> IF i = 1 THEN ss[i] ELSE Flat(ss)[i - 1] \o ss[i]]
  BY <1>9, Zenon DEF Flat, n
<1>11. FlattenSeq(ss) = Flat(ss)[n]
  <2>1. Len(ss) # 0 BY <1>1 DEF n
  <2> QED BY <2>1 DEF FlattenSeq, Flat, n
<1> HIDE DEF Flat
<1>12. ASSUME NEW k \in 1 .. n PROVE FirstPieces(ss, k) = FirstPieces(ss, k - 1) \o ss[k]
  <2>1. FirstPieces(ss, k) = Flat(ss)[k] BY DEF FirstPieces
  <2>2. CASE k = 1
    <3>1. Flat(ss)[k] = ss[k] BY <1>10, <2>2
    <3>2. FirstPieces(ss, k - 1) = <<>> BY <2>2 DEF FirstPieces
    <3>3. ss[k] \in Seq(Sign) BY <1>3
    <3>4. <<>> \o ss[k] = ss[k] BY <3>3
    <3> QED BY <2>1, <3>1, <3>2, <3>4
  <2>3. CASE k # 1
    <3>1. Flat(ss)[k] = Flat(ss)[k - 1] \o ss[k] BY <1>10, <2>3
    <3>2. k - 1 # 0 BY <2>3
    <3>3. FirstPieces(ss, k - 1) = Flat(ss)[k - 1] BY <3>2 DEF FirstPieces
    <3> QED BY <2>1, <3>1, <3>3
  <2> QED BY <2>2, <2>3
<1>13. FirstPieces(ss, 0) = <<>> BY DEF FirstPieces
<1>14. FlattenSeq(ss) = FirstPieces(ss, n) BY <1>1, <1>11 DEF FirstPieces
<1> QED BY <1>12, <1>13, <1>14 DEF n

(* The characters of w as Quote writes them.                               *)
Pieces(w) == [k \in DOMAIN w |-> IF w[k] \in Plain THEN <<w[k]>> ELSE <<"\\", w[k]>>]

(* The character before the one that comes next, outside of quotes.        *)
Before(w, j) == IF j = 0 THEN "." ELSE w[j]

(* What the loop has after j characters of w, quoted as they need.         *)
QuotedAs(g, w, j) ==
    /\ g \in Seq(Sign)
    /\ j = 0 => g = <<>>
    /\ j > 0 => g # <<>> /\ g[1] \notin {".", "@"}
    /\ End(g) = Bare(SubSeq(w, 1, j), Before(w, j))

QuotedTo(w, j) == QuotedAs(FirstPieces(Pieces(w), j), w, j)

(* w may be written with backslashes.                                      *)
Quotable(w) ==
    /\ w \in Seq(Sign) /\ w # <<>>
    /\ \A k \in 1 .. Len(w) : w[k] \notin NonAscii \cup {"\\"}
    /\ w[1] # "." /\ w[Len(w)] # "."
    /\ \A k \in 1 .. Len(w) - 1 : ~(w[k] = "." /\ w[k + 1] = ".")

(* One more character, quoted as it needs.                                 *)
LEMMA QuotedFurther ==
    ASSUME NEW w, Quotable(w), NEW j \in 0 .. Len(w) - 1, QuotedTo(w, j)
    PROVE  QuotedTo(w, j + 1)
<1> DEFINE c == w[j + 1]
           g == FirstPieces(Pieces(w), j)
           h == FirstPieces(Pieces(w), j + 1)
           l == SubSeq(w, 1, j)
           p == Before(w, j)
<1>1. w \in Seq(Sign) /\ Len(w) \in Nat /\ DOMAIN w = 1 .. Len(w) BY DEF Quotable
<1>2. j \in Nat /\ j + 1 \in 1 .. Len(w) /\ (j + 1) - 1 = j BY <1>1
<1>3. c \in Sign \ (NonAscii \cup {"\\"}) BY <1>1, <1>2 DEF Quotable
<1>4. l \in Seq(Sign) /\ SubSeq(w, 1, j + 1) = Append(l, c) BY <1>1, Taken
<1>5. p \in Sign
  <2>1. "." \in Sign BY StartSigns
  <2>2. j # 0 => j \in 1 .. Len(w) BY <1>2
  <2> QED BY <1>1, <2>1, <2>2 DEF Before
<1>6. c = "." => p # "." /\ j # 0
  <2>1. c = "." => j # 0 BY DEF Quotable
  <2>2. j # 0 => j \in 1 .. Len(w) - 1 BY <1>2
  <2>3. j # 0 => p = w[j] BY DEF Before
  <2> QED BY <2>1, <2>2, <2>3 DEF Quotable
<1>7. g \in Seq(Sign) /\ End(g) = Bare(l, p) BY DEF QuotedTo, QuotedAs
<1>8. (j = 0 => g = <<>>) /\ (j > 0 => g # <<>> /\ g[1] \notin {".", "@"}) BY DEF QuotedTo, QuotedAs
<1>9. Pieces(w) \in Seq(Seq(Sign)) /\ Len(Pieces(w)) = Len(w)
      /\ Pieces(w)[j + 1] = IF c \in Plain THEN <<c>> ELSE <<"\\", c>>
  <2>1. \A k \in 1 .. Len(w) : (IF w[k] \in Plain THEN <<w[k]>> ELSE <<"\\", w[k]>>) \in Seq(Sign)
    <3> TAKE k \in 1 .. Len(w)
    <3>0. "\\" \in Sign BY DEF Sign
    <3>1. w[k] \in Sign /\ "\\" \in Sign BY <1>1, <3>0
    <3>2. <<w[k]>> \in Seq(Sign) /\ <<"\\", w[k]>> \in Seq(Sign) BY <3>1
    <3> QED BY <3>2
  <2>2. Pieces(w) = [k \in 1 .. Len(w) |-> IF w[k] \in Plain THEN <<w[k]>> ELSE <<"\\", w[k]>>]
    BY <1>1 DEF Pieces
  <2>3. Pieces(w) \in Seq(Seq(Sign)) /\ Len(Pieces(w)) = Len(w) BY <1>1, <2>1, <2>2
  <2> QED BY <1>2, <2>2, <2>3
<1>10. h = g \o Pieces(w)[j + 1]
  <2>1. Pieces(w) # <<>> BY <1>2, <1>9
  <2> QED BY <1>2, <1>9, <2>1, Flattens
<1>11. SubSeq(w, 1, j + 1) = Append(l, c) /\ Before(w, j + 1) = c
  <2>1. j + 1 # 0 BY <1>2
  <2> QED BY <1>4, <2>1 DEF Before
<1> HIDE DEF c, g, h, l, p
<1>12. "\\" \in Sign /\ "\\" \notin {".", "@"} BY SignSorts DEF Sign
<1>13. Len(g) \in Nat /\ Len(g) + 1 \in Nat \ {0} BY <1>7
<1>14. CASE c \in Plain
  <2>1. h = Append(g, c)
    <3>1. h = g \o <<c>> BY <1>9, <1>10, <1>14
    <3> QED BY <1>3, <1>7, <3>1
  <2>2. Append(g, c) \in Seq(Sign) /\ End(Append(g, c)) = ScanTurn(End(g), c, Len(g) + 1) BY <1>3, <1>7, OneMore
  <2>3. End(h) = ScanTurn(End(g), c, Len(g) + 1) BY <2>1, <2>2
  <2>4. End(h) = Bare(Append(l, c), c) BY <1>4, <1>5, <1>6, <1>7, <1>13, <1>14, <2>3, PlainTurn
  <2>5. h # <<>> /\ h[1] \notin {".", "@"}
    <3>1. CASE j = 0
      <4>1. h[1] = c BY <1>3, <1>8, <2>1, <3>1
      <4>2. c # "." /\ c # "@" BY <1>6, <1>14, <3>1, SignSorts
      <4> QED BY <1>3, <1>7, <2>1, <4>1, <4>2
    <3>2. CASE j > 0
      <4>1. 1 \in 1 .. Len(g) BY <1>7, <1>8, <3>2
      <4>2. h[1] = g[1] BY <1>3, <1>7, <2>1, <4>1
      <4> QED BY <1>3, <1>7, <1>8, <2>1, <3>2, <4>2
    <3> QED BY <1>2, <3>1, <3>2
  <2>6. QuotedAs(h, w, j + 1)
    <3>1. j + 1 # 0 /\ h \in Seq(Sign) BY <1>2, <2>1, <2>2
    <3> QED BY <1>11, <2>4, <2>5, <3>1 DEF QuotedAs
  <2> QED BY <2>6 DEF QuotedTo, h
<1>15. CASE c \notin Plain
  <2> DEFINE e == Append(g, "\\")
  <2>1. h = Append(e, c)
    <3>1. h = g \o <<"\\", c>> BY <1>9, <1>10, <1>15
    <3> QED BY <1>3, <1>7, <1>12, <3>1
  <2>2. e \in Seq(Sign) /\ Len(e) = Len(g) + 1 /\ End(e) = ScanTurn(End(g), "\\", Len(g) + 1)
    BY <1>7, <1>12, OneMore
  <2>3. e # <<>> /\ e[1] \notin {".", "@"}
    <3>1. CASE j = 0
      <4>1. e[1] = "\\" BY <1>8, <3>1
      <4> QED BY <1>12, <1>13, <2>2, <4>1
    <3>2. CASE j > 0
      <4>1. 1 \in 1 .. Len(g) BY <1>7, <1>8, <3>2
      <4>2. e[1] = g[1] BY <1>7, <1>12, <4>1
      <4> QED BY <1>8, <1>13, <2>2, <3>2, <4>2
    <3> QED BY <1>2, <3>1, <3>2
  <2> HIDE DEF e
  <2>4. End(e) = Escaping(l, "\\") BY <1>4, <1>5, <1>7, <1>13, <2>2, SlashTurn
  <2>5. h \in Seq(Sign) /\ End(h) = ScanTurn(End(e), c, Len(e) + 1) BY <1>3, <2>1, <2>2, OneMore
  <2>6. Len(e) + 1 \in Nat \ {0} BY <1>13, <2>2
  <2>7. c # "." BY <1>15 DEF Plain
  <2>8. End(h) = Bare(Append(l, c), c) BY <1>3, <1>4, <1>12, <2>4, <2>5, <2>6, <2>7, EscapedTurn
  <2>9. h # <<>> /\ h[1] \notin {".", "@"}
    <3>1. 1 \in 1 .. Len(e) BY <2>2, <2>3
    <3>2. h[1] = e[1] BY <1>3, <2>1, <2>2, <3>1
    <3> QED BY <1>3, <2>1, <2>2, <2>3, <3>2
  <2>10. QuotedAs(h, w, j + 1)
    <3>1. j + 1 # 0 BY <1>2
    <3> QED BY <1>11, <2>5, <2>8, <2>9, <3>1 DEF QuotedAs
  <2> QED BY <2>10 DEF QuotedTo, h
<1> QED BY <1>14, <1>15

(* An address whose local part ends well and whose domain passes is taken. *)
LEMMA AddressTaken ==
    ASSUME NEW q \in Seq(Sign), NEW d \in Seq(Sign), q # <<>>, q[1] \notin {".", "@"},
           ShortEnough(q, d), ValidateDomainPart(d),
           NEW l \in Seq(Sign), NEW p \in Sign, p # ".", End(q) = Bare(l, p)
    PROVE  /\ parseEmailAddress(At(q, d)) = [ok |-> TRUE, local |-> l, domain |-> d]
           /\ ParseEmailAddress(At(q, d)) = [ok |-> TRUE, local |-> l, domain |-> d]
<1>1. IsBare(End(q), l, p) BY BareFields
<1>2. Going(End(q)) /\ End(q).local = l /\ End(q).prev = p BY <1>1 DEF IsBare
<1>3. End(q).char = FALSE BY <1>1 DEF IsBare
<1>4. End(q).str = FALSE BY <1>1 DEF IsBare
<1>5. Len(q) <= MaxLocal /\ Len(At(q, d)) <= MaxAddress BY DEF ShortEnough
<1>6. (Len(q) + 1) - 1 <= MaxLocal
  <2>1. Len(q) \in Nat OBVIOUS
  <2> QED BY <1>5, <2>1
<1>7. MayEnd(End(q), "@", Len(q) + 1) BY <1>2, <1>3, <1>4, <1>6 DEF MayEnd
<1>8. parseEmailAddress(At(q, d)) = [ok |-> TRUE, local |-> l, domain |-> d]
  BY <1>2, <1>5, <1>7, AddressEnds
<1>9. parseEmailAddress(At(q, d)).ok = TRUE /\ parseEmailAddress(At(q, d)).domain = d BY <1>8
<1>10. ParseEmailAddress(At(q, d)) = parseEmailAddress(At(q, d)) BY <1>9 DEF ParseEmailAddress
<1> QED BY <1>8, <1>10

(* Backslashes bring a local part back, ...                                *)
LEMMA SlashesRoundTrip ==
    ASSUME NEW w, Quotable(w), NEW d \in Seq(Sign), ValidateDomainPart(d), ShortEnough(Quote(w), d)
    PROVE  ParseEmailAddress(At(Quote(w), d)) = [ok |-> TRUE, local |-> w, domain |-> d]
<1> DEFINE n == Len(w)
           T == {j \in 0 .. n : QuotedTo(w, j)}
<1>1. w \in Seq(Sign) /\ w # <<>> /\ w[n] # "." /\ DOMAIN w = 1 .. n BY DEF Quotable
<1>2. n \in Nat /\ n # 0 /\ n > 0 /\ n \in 1 .. n BY <1>1
<1>3. Pieces(w) \in Seq(Seq(Sign)) /\ Len(Pieces(w)) = n /\ Pieces(w) # <<>>
  <2>1. \A k \in 1 .. n : (IF w[k] \in Plain THEN <<w[k]>> ELSE <<"\\", w[k]>>) \in Seq(Sign)
    <3> TAKE k \in 1 .. n
    <3>0. "\\" \in Sign BY DEF Sign
    <3>1. w[k] \in Sign /\ "\\" \in Sign BY <1>1, <3>0
    <3>2. <<w[k]>> \in Seq(Sign) /\ <<"\\", w[k]>> \in Seq(Sign) BY <3>1
    <3> QED BY <3>2
  <2>2. Pieces(w) = [k \in 1 .. n |-> IF w[k] \in Plain THEN <<w[k]>> ELSE <<"\\", w[k]>>]
    BY <1>1 DEF Pieces
  <2> HIDE DEF n
  <2> QED BY <1>2, <2>1, <2>2
<1>4. 0 \in T
  <2>1. FirstPieces(Pieces(w), 0) = <<>> BY DEF FirstPieces
  <2>2. SubSeq(w, 1, 0) = <<>> BY <1>1, Taken
  <2>3. <<>> \in Seq(Sign) BY StartSigns
  <2>4. Before(w, 0) = "." BY DEF Before
  <2>5. End(<<>>) = ScanStart
    <3>1. Len(<<>>) = 0 OBVIOUS
    <3> QED BY <2>3, <3>1, ScanUnfolds DEF End
  <2>6. ~(0 > 0) OBVIOUS
  <2>7. QuotedAs(<<>>, w, 0) BY <2>2, <2>3, <2>4, <2>5, <2>6, StartIsBare DEF QuotedAs
  <2> QED BY <1>2, <2>1, <2>7 DEF QuotedTo
<1>5. ASSUME NEW k \in T, k \in 0 .. n - 1 PROVE k + 1 \in T
  <2>1. QuotedTo(w, k) OBVIOUS
  <2>2. QuotedTo(w, k + 1) BY <1>5, <2>1, QuotedFurther
  <2>3. k + 1 \in 0 .. n BY <1>2, <1>5
  <2> QED BY <2>2, <2>3
<1> HIDE DEF T
<1>6. 0 .. n \subseteq T BY <1>2, <1>4, <1>5, CountUp
<1>7. n \in T BY <1>2, <1>6
<1>8. QuotedTo(w, n) BY <1>7 DEF T
<1>9. Quote(w) = FirstPieces(Pieces(w), n)
  <2>1. Quote(w) = FlattenSeq(Pieces(w)) BY DEF Quote, Pieces
  <2> QED BY <1>3, <2>1, Flattens
<1> DEFINE q == Quote(w)
<1>10. QuotedAs(q, w, n) BY <1>8, <1>9 DEF QuotedTo
<1>11. SubSeq(w, 1, n) = w BY <1>1, Taken
<1>12. Before(w, n) = w[n] BY <1>2 DEF Before
<1> HIDE DEF n
<1>13. q \in Seq(Sign) /\ q # <<>> /\ q[1] \notin {".", "@"} BY <1>2, <1>10 DEF QuotedAs
<1>14. End(q) = Bare(w, w[n]) BY <1>10, <1>11, <1>12 DEF QuotedAs
<1>15. w[n] \in Sign BY <1>1, <1>2
<1>16. ShortEnough(q, d) OBVIOUS
<1> HIDE DEF q
<1>17. ParseEmailAddress(At(q, d)) = [ok |-> TRUE, local |-> w, domain |-> d]
  BY <1>1, <1>13, <1>14, <1>15, <1>16, AddressTaken
<1> QED BY <1>17 DEF q

(* A quotation mark.                                                       *)
Mark == "\""

LEMMA MarkIsSign == Mark \in Sign /\ Mark # "." /\ Mark # "@" /\ Mark \notin {".", "@"}
BY DEF Mark, Sign

LEMMA MarkOpens ==
    ASSUME NEW s, s = Bare(<<>>, "."), NEW r, r = ScanTurn(s, Mark, 1)
    PROVE  r = Inside(<<>>, Mark)
BY OpenTurn DEF Mark

LEMMA MarkCloses ==
    ASSUME NEW l \in Seq(Sign), NEW p \in Sign, NEW i \in Nat \ {0},
           NEW s, s = Inside(l, p), NEW r, r = ScanTurn(s, Mark, i)
    PROVE  r = Bare(l, Mark)
BY CloseTurn DEF Mark

(* A character that is not a mark, inside a string.                        *)
LEMMA MarkedTurn ==
    ASSUME NEW l \in Seq(Sign), NEW p \in Sign, NEW c \in Sign, c \notin NonAscii, c # "\\", c # Mark,
           NEW i \in Nat \ {0}, c = "." => p # ".",
           NEW s, s = Inside(l, p), NEW r, r = ScanTurn(s, c, i)
    PROVE  r = Inside(Append(l, c), c)
BY InsideTurn DEF Mark

(* w between quotation marks.                                              *)
Marked(w) == <<Mark>> \o w \o <<Mark>>
Opening(w) == <<Mark>> \o w

(* w may be written so.                                                    *)
Stringable(w) ==
    /\ w \in Seq(Sign)
    /\ \A k \in 1 .. Len(w) : w[k] \notin NonAscii /\ w[k] # "\\" /\ w[k] # Mark
    /\ \A k \in 1 .. Len(w) - 1 : ~(w[k] = "." /\ w[k + 1] = ".")

(* A mark first, and one more character; a mark at the end.                *)
LEMMA MarkBefore ==
    ASSUME NEW t \in Seq(Sign), NEW c \in Sign
    PROVE  /\ Opening(t) \in Seq(Sign) /\ Len(Opening(t)) = Len(t) + 1 /\ Opening(t)[1] = Mark
           /\ Opening(Append(t, c)) = Append(Opening(t), c)
           /\ Marked(t) = Append(Opening(t), Mark)
<1>0. Mark \in Sign BY MarkIsSign
<1>1. <<Mark>> \in Seq(Sign) /\ Len(<<Mark>>) = 1 BY <1>0
<1> DEFINE g == <<Mark>> \o t
<1>2. g \in Seq(Sign) /\ Len(g) = Len(t) + 1 /\ g[1] = Mark BY <1>1
<1>3. <<Mark>> \o Append(t, c) = Append(g, c) BY <1>1
<1>4. g \o <<Mark>> = Append(g, Mark) BY <1>0, <1>2
<1> QED BY <1>2, <1>3, <1>4 DEF Opening, Marked

LEMMA MarkAlone == Opening(<<>>) = Append(<<>>, Mark)
BY DEF Opening

(* The character before the one that comes next, in a string.              *)
LastOr(w, j) == IF j = 0 THEN Mark ELSE w[j]

(* ... and so do quotation marks.                                          *)
LEMMA StringRoundTrips ==
    ASSUME NEW w, Stringable(w), NEW d \in Seq(Sign), ValidateDomainPart(d), ShortEnough(Marked(w), d)
    PROVE  ParseEmailAddress(At(Marked(w), d)) = [ok |-> TRUE, local |-> w, domain |-> d]
<1> DEFINE n == Len(w)
           G(j) == Opening(SubSeq(w, 1, j))
           T == {j \in 0 .. n : SubSeq(w, 1, j) \in Seq(Sign)
                                /\ End(G(j)) = Inside(SubSeq(w, 1, j), LastOr(w, j))}
<1>1. w \in Seq(Sign) /\ n \in Nat /\ n \in 0 .. n BY DEF Stringable
<1>2. Mark \in Sign /\ Mark # "." /\ <<>> \in Seq(Sign) /\ "." \in Sign BY MarkIsSign, StartSigns
<1>3. 0 \in T
  <2>1. SubSeq(w, 1, 0) = <<>> BY <1>1, Taken
  <2>2. G(0) = Append(<<>>, Mark) BY <2>1, MarkAlone
  <2>3. End(Append(<<>>, Mark)) = ScanTurn(End(<<>>), Mark, Len(<<>>) + 1) BY <1>2, OneMore
  <2>4. End(<<>>) = Bare(<<>>, ".") /\ Len(<<>>) + 1 = 1
    <3>1. Len(<<>>) = 0 OBVIOUS
    <3>2. End(<<>>) = ScanStart BY <1>2, <3>1, ScanUnfolds DEF End
    <3> QED BY <3>1, <3>2, StartIsBare
  <2>5. End(Append(<<>>, Mark)) = Inside(<<>>, Mark)
    <3>1. End(Append(<<>>, Mark)) = ScanTurn(End(<<>>), Mark, 1) BY <2>3, <2>4
    <3> QED BY <2>4, <3>1, MarkOpens
  <2>6. LastOr(w, 0) = Mark BY DEF LastOr
  <2>7. 0 \in 0 .. n BY <1>1
  <2> QED BY <1>2, <2>1, <2>2, <2>5, <2>6, <2>7
<1>4. ASSUME NEW k \in T, k \in 0 .. n - 1 PROVE k + 1 \in T
  <2> DEFINE c == w[k + 1]
             l == SubSeq(w, 1, k)
             p == LastOr(w, k)
             g == G(k)
  <2>1. k \in Nat /\ k + 1 \in 1 .. n /\ k + 1 \in 0 .. n /\ k + 1 # 0 BY <1>1, <1>4
  <2>2. c \in Sign /\ c \notin NonAscii /\ c # "\\" /\ c # Mark BY <1>1, <2>1 DEF Stringable
  <2>3. c = "." => p # "."
    <3>1. k # 0 => k \in 1 .. n - 1 /\ p = w[k] BY <1>4, <2>1 DEF LastOr
    <3>2. k = 0 => p = Mark BY DEF LastOr
    <3> QED BY <1>2, <3>1, <3>2 DEF Stringable
  <2>4. p \in Sign
    <3>1. k # 0 => k \in 1 .. n /\ p = w[k] BY <1>4, <2>1 DEF LastOr
    <3>2. k = 0 => p = Mark BY DEF LastOr
    <3> QED BY <1>1, <1>2, <3>1, <3>2
  <2>5. l \in Seq(Sign) /\ End(g) = Inside(l, p) BY <1>4
  <2>6. SubSeq(w, 1, k + 1) = Append(l, c) BY <1>1, <1>4, Taken
  <2>7. G(k + 1) = Opening(Append(l, c)) BY <2>6
  <2>8. g = Opening(l) OBVIOUS
  <2>9. LastOr(w, k + 1) = c BY <2>1 DEF LastOr
  <2> HIDE DEF c, l, p, g, G
  <2>10. g \in Seq(Sign) /\ Len(g) + 1 \in Nat \ {0} /\ G(k + 1) = Append(g, c)
    <3>1. g \in Seq(Sign) /\ Opening(Append(l, c)) = Append(g, c) BY <2>2, <2>5, <2>8, MarkBefore
    <3> QED BY <2>7, <3>1
  <2>11. End(Append(g, c)) = ScanTurn(End(g), c, Len(g) + 1) BY <2>2, <2>10, OneMore
  <2>12. End(G(k + 1)) = Inside(Append(l, c), c)
    <3>1. End(G(k + 1)) = ScanTurn(End(g), c, Len(g) + 1) BY <2>10, <2>11
    <3> QED BY <2>2, <2>3, <2>4, <2>5, <2>10, <3>1, MarkedTurn
  <2>13. Append(l, c) \in Seq(Sign) BY <2>2, <2>5
  <2> QED BY <2>1, <2>6, <2>9, <2>12, <2>13
<1> HIDE DEF T, G
<1>5. 0 .. n \subseteq T BY <1>1, <1>3, <1>4, CountUp
<1>6. n \in T BY <1>1, <1>5
<1>7. End(G(n)) = Inside(SubSeq(w, 1, n), LastOr(w, n)) BY <1>6 DEF T
<1>8. SubSeq(w, 1, n) = w BY <1>1, Taken
<1>9. G(n) = Opening(w) BY <1>8 DEF G
<1> DEFINE g == Opening(w)
           q == Marked(w)
<1>10. g \in Seq(Sign) /\ Len(g) \in Nat /\ Len(g) + 1 \in Nat \ {0} /\ Len(g) = n + 1 /\ g[1] = Mark
       /\ q = Append(g, Mark)
  BY <1>1, <1>2, MarkBefore
<1>11. LastOr(w, n) \in Sign
  <2>1. n # 0 => n \in 1 .. n BY <1>1
  <2> QED BY <1>1, <1>2, <2>1 DEF LastOr
<1>12. End(g) = Inside(w, LastOr(w, n)) BY <1>7, <1>8, <1>9
<1>13. ShortEnough(q, d) OBVIOUS
<1> HIDE DEF g, q, n
<1>14. q \in Seq(Sign) /\ Len(q) = Len(g) + 1 /\ End(q) = ScanTurn(End(g), Mark, Len(g) + 1)
  BY <1>2, <1>10, OneMore
<1>15. End(q) = Bare(w, Mark) BY <1>1, <1>10, <1>11, <1>12, <1>14, MarkCloses
<1>16. q # <<>> /\ q[1] = Mark
  <2>1. 1 \in 1 .. Len(g) BY <1>1, <1>10
  <2>2. q[1] = g[1] BY <1>2, <1>10, <2>1
  <2> QED BY <1>10, <1>14, <2>2
<1>17. Mark \notin {".", "@"} /\ Mark # "." BY MarkIsSign
<1>18. ParseEmailAddress(At(q, d)) = [ok |-> TRUE, local |-> w, domain |-> d]
  BY <1>1, <1>2, <1>13, <1>14, <1>15, <1>16, <1>17, AddressTaken
<1> QED BY <1>18 DEF q

(* Both ways of quoting, for the text that was typed.                      *)
LEMMA QuotingRoundTripsHere == text \in Seq(Char) => QuotingRoundTrips
<1> SUFFICES ASSUME text \in Seq(Char), NEW d \in Domains,
                    \A k \in DOMAIN text : text[k] \notin NonAscii \cup {"\\"},
                    ~DoubleDot(text), ValidateDomainPart(d)
             PROVE  /\ text # <<>> /\ ~(text # <<>> /\ "." \in {text[1], text[Len(text)]})
                          /\ ShortEnough(Quote(text), d)
                       => ParseEmailAddress(At(Quote(text), d)) = [ok |-> TRUE, local |-> text, domain |-> d]
                    /\ ~Contains(text, "\"") /\ ShortEnough(<<"\"">> \o text \o <<"\"">>, d)
                       => ParseEmailAddress(At(<<"\"">> \o text \o <<"\"">>, d))
                            = [ok |-> TRUE, local |-> text, domain |-> d]
  BY DEF QuotingRoundTrips
<1>1. text \in Seq(Sign) /\ d \in Seq(Sign) BY Written
<1>2. DOMAIN text = 1 .. Len(text) BY <1>1
<1>3. \A k \in 1 .. Len(text) : text[k] \notin NonAscii /\ text[k] # "\\" BY <1>2
<1>4. \A k \in 1 .. Len(text) - 1 : ~(text[k] = "." /\ text[k + 1] = ".") BY DEF DoubleDot
<1>5. ASSUME text # <<>>, ~(text # <<>> /\ "." \in {text[1], text[Len(text)]}), ShortEnough(Quote(text), d)
      PROVE  ParseEmailAddress(At(Quote(text), d)) = [ok |-> TRUE, local |-> text, domain |-> d]
  <2>1. text[1] # "." /\ text[Len(text)] # "." BY <1>5
  <2>2. Quotable(text) BY <1>1, <1>3, <1>4, <1>5, <2>1 DEF Quotable
  <2> QED BY <1>1, <1>5, <2>2, SlashesRoundTrip
<1>6. ASSUME ~Contains(text, Mark), ShortEnough(Marked(text), d)
      PROVE  ParseEmailAddress(At(Marked(text), d)) = [ok |-> TRUE, local |-> text, domain |-> d]
  <2>1. \A k \in 1 .. Len(text) : text[k] # Mark BY <1>6 DEF Contains
  <2>2. Stringable(text) BY <1>1, <1>3, <1>4, <2>1 DEF Stringable
  <2> QED BY <1>1, <1>6, <2>2, StringRoundTrips
<1>7. ~Contains(text, "\"") /\ ShortEnough(<<"\"">> \o text \o <<"\"">>, d)
         => ParseEmailAddress(At(<<"\"">> \o text \o <<"\"">>, d)) = [ok |-> TRUE, local |-> text, domain |-> d]
  BY <1>6, Zenon DEF Mark, Marked
<1> QED BY <1>5, <1>7

(* AddressPolicy's QuotingSound, of every text: whatever is quoted comes   *)
(* back from ParseEmailAddress, and what must be quoted is refused without.*)
THEOREM QuotingIsSound == TextSpec => []QuotingSound
<1>1. TextInit => text \in Seq(Char) BY DEF TextInit
<1>2. text \in Seq(Char) /\ [TextNext]_text => (text \in Seq(Char))' BY DEF TextNext, Type
<1>3. text \in Seq(Char) => QuotingSound
  BY QuotingRoundTripsHere, UnquotedRefusedHere DEF QuotingSound
<1> QED BY <1>1, <1>2, <1>3, PTL DEF TextSpec

-----------------------------------------------------------------------------
(* Mailboxes *)

(* The name without an extension, and where the extension begins.          *)
BeforePlus(n) == IF IndexOf(n, "+") > 0 THEN SubSeq(n, 1, IndexOf(n, "+") - 1) ELSE n

IsCut(n, j) ==
    /\ j \in 0 .. Len(n)
    /\ \A k \in 1 .. j : n[k] # "+"
    /\ j = Len(n) \/ n[j + 1] = "+"

LEMMA CutAt ==
    ASSUME NEW n \in Seq(Sign), NEW j, IsCut(n, j)
    PROVE  BeforePlus(n) = SubSeq(n, 1, j)
<1> DEFINE i == IndexOf(n, "+")
<1>1. Len(n) \in Nat /\ i \in 0 .. Len(n) BY FirstOf
<1>2. i = 0 => \A k \in 1 .. Len(n) : n[k] # "+" BY FirstOf
<1>3. i # 0 => n[i] = "+" /\ \A k \in 1 .. i - 1 : n[k] # "+" BY FirstOf
<1>4. BeforePlus(n) = IF i > 0 THEN SubSeq(n, 1, i - 1) ELSE n BY DEF BeforePlus
<1> HIDE DEF i
<1>5. j \in 0 .. Len(n) /\ (\A k \in 1 .. j : n[k] # "+") BY DEF IsCut
<1>6. j = Len(n) \/ n[j + 1] = "+" BY DEF IsCut
<1>7. CASE j = Len(n)
  <2>1. i = 0
    <3> SUFFICES ASSUME i # 0 PROVE FALSE OBVIOUS
    <3>1. i \in 1 .. j BY <1>1, <1>7
    <3> QED BY <1>3, <1>5, <3>1
  <2>2. SubSeq(n, 1, Len(n)) = n OBVIOUS
  <2>3. ~(i > 0) BY <2>1
  <2> QED BY <1>4, <1>7, <2>2, <2>3
<1>8. CASE j # Len(n)
  <2>1. j + 1 \in 1 .. Len(n) /\ n[j + 1] = "+" /\ j \in Nat BY <1>1, <1>5, <1>6, <1>8
  <2>2. i # 0 BY <1>2, <2>1
  <2>3. ~(j + 1 < i)
    <3> SUFFICES ASSUME j + 1 < i PROVE FALSE OBVIOUS
    <3>1. j + 1 \in 1 .. i - 1 BY <1>1, <2>1
    <3> QED BY <1>3, <2>1, <2>2, <3>1
  <2>4. ~(i <= j)
    <3> SUFFICES ASSUME i <= j PROVE FALSE OBVIOUS
    <3>1. i \in 1 .. j BY <1>1, <2>1, <2>2
    <3> QED BY <1>3, <1>5, <2>2, <3>1
  <2>5. i - 1 = j /\ i > 0 BY <1>1, <2>1, <2>3, <2>4
  <2> QED BY <1>4, <2>5
<1> QED BY <1>7, <1>8

LEMMA CutExists ==
    ASSUME NEW n \in Seq(Sign)
    PROVE  \E j : IsCut(n, j)
<1> DEFINE i == IndexOf(n, "+")
<1>1. Len(n) \in Nat /\ i \in 0 .. Len(n) BY FirstOf
<1>2. i = 0 => \A k \in 1 .. Len(n) : n[k] # "+" BY FirstOf
<1>3. i # 0 => n[i] = "+" /\ \A k \in 1 .. i - 1 : n[k] # "+" BY FirstOf
<1> HIDE DEF i
<1>4. CASE i = 0
  <2>1. IsCut(n, Len(n)) BY <1>1, <1>2, <1>4 DEF IsCut
  <2> QED BY <2>1
<1>5. CASE i # 0
  <2>1. i - 1 \in 0 .. Len(n) /\ (i - 1) + 1 = i BY <1>1, <1>5
  <2>2. IsCut(n, i - 1) BY <1>3, <1>5, <2>1 DEF IsCut
  <2> QED BY <2>2
<1> QED BY <1>4, <1>5

(* The beginning of a text, and of a longer one.                           *)
LEMMA SubParts ==
    ASSUME NEW n \in Seq(Sign), NEW j \in 0 .. Len(n)
    PROVE  /\ SubSeq(n, 1, j) \in Seq(Sign) /\ Len(SubSeq(n, 1, j)) = j
           /\ \A q \in 1 .. j : SubSeq(n, 1, j)[q] = n[q]
<1>1. j \in Nat /\ j \in Int /\ 1 \in Int /\ \A q \in 1 .. j : n[q] \in Sign OBVIOUS
<1>2. /\ SubSeq(n, 1, j) \in Seq(Sign)
      /\ Len(SubSeq(n, 1, j)) = IF 1 <= j THEN j - 1 + 1 ELSE 0
      /\ \A q \in 1 .. j - 1 + 1 : SubSeq(n, 1, j)[q] = n[1 + q - 1]
  BY <1>1, SubSeqProperties
<1>3. j - 1 + 1 = j /\ \A q \in 1 .. j : 1 + q - 1 = q BY <1>1
<1> QED BY <1>1, <1>2, <1>3

LEMMA SameBeginning ==
    ASSUME NEW n \in Seq(Sign), NEW m \in Seq(Sign), NEW j \in 0 .. Len(n), j \in 0 .. Len(m),
           \A q \in 1 .. j : n[q] = m[q]
    PROVE  SubSeq(n, 1, j) = SubSeq(m, 1, j)
<1> DEFINE s == SubSeq(n, 1, j)
           t == SubSeq(m, 1, j)
<1>1. s \in Seq(Sign) /\ Len(s) = j /\ \A q \in 1 .. j : s[q] = n[q] BY SubParts
<1>2. t \in Seq(Sign) /\ Len(t) = j /\ \A q \in 1 .. j : t[q] = m[q] BY SubParts
<1> HIDE DEF s, t
<1>3. s = t BY <1>1, <1>2, SeqEqual
<1> QED BY <1>3 DEF s, t

(* A local part from which a mailbox gets its name.                        *)
Mailable(w) == w # <<>> /\ \A k \in 1 .. Len(w) : Lower[w[k]] \in Plain

LEMMA BoxOfLocal ==
    ASSUME NEW w \in Seq(Sign)
    PROVE  /\ Mailable(w) => parseMailboxName(w) = Named(BeforePlus(ToLower(w)))
           /\ ~Mailable(w) => parseMailboxName(w) = Err
<1>1. DOMAIN w = 1 .. Len(w) OBVIOUS
<1>2. ToLower(w) = [k \in 1 .. Len(w) |-> Lower[w[k]]] BY <1>1 DEF ToLower
<1>3. (w = <<>> \/ \E k \in DOMAIN ToLower(w) : ToLower(w)[k] \notin Letter \cup Digit \cup Special \cup {"."})
        <=> ~Mailable(w)
  BY <1>2 DEF Mailable, Plain
<1> QED BY <1>3 DEF parseMailboxName, BeforePlus

(* What lower case makes of a local part.                                  *)
LEMMA LowerName ==
    ASSUME NEW w \in Seq(Sign), \A k \in 1 .. Len(w) : Lower[w[k]] \in Plain
    PROVE  /\ ToLower(w) \in Seq(Sign) /\ Len(ToLower(w)) = Len(w)
           /\ \A k \in 1 .. Len(w) : ToLower(w)[k] = Lower[w[k]]
<1>1. DOMAIN w = 1 .. Len(w) /\ Len(w) \in Nat OBVIOUS
<1>2. ToLower(w) = [k \in 1 .. Len(w) |-> Lower[w[k]]] BY <1>1 DEF ToLower
<1>3. \A k \in 1 .. Len(w) : Lower[w[k]] \in Sign BY SignSorts
<1>4. ToLower(w) \in [1 .. Len(w) -> Sign] BY <1>2, <1>3
<1> QED BY <1>1, <1>2, <1>4

(* What lower case keeps.                                                  *)
LEMMA LowerKeeps ==
    /\ "+" \in Plain /\ "+" \in Sign /\ "+" # "." /\ Letter \subseteq Plain
    /\ Lower["+"] = "+"
    /\ \A c \in Letter \cup {"+"} : Lower[c] \in Plain
    /\ \A c \in Sign : Lower[Lower[c]] = Lower[c]
<1>1. "+" \in Special BY PolicyAssumption
<1>2. "+" \notin Letter \cup NonAscii BY <1>1, PolicyAssumption
<1>3. Char \cup {".", "\\", "\"", "@"} \subseteq DOMAIN Lower BY PolicyAssumption
<1>4. Special \subseteq Char BY PolicyAssumption
<1>5. Lower["+"] = "+"
  <2>1. "+" \in DOMAIN Lower BY <1>1, <1>3, <1>4
  <2>2. Lower["+"] # "+" => {"+", Lower["+"]} \subseteq Letter \cup NonAscii BY <2>1, PolicyAssumption
  <2> QED BY <1>2, <2>2
<1>6. \A c \in Letter : Lower[c] \in Letter BY PolicyAssumption
<1>7. \A c \in Sign : Lower[Lower[c]] = Lower[c]
  <2>1. \A c \in DOMAIN Lower : Lower[Lower[c]] = Lower[c] BY PolicyAssumption
  <2> QED BY <1>3, <2>1 DEF Sign
<1>8. "+" \in Plain /\ Letter \subseteq Plain BY <1>1 DEF Plain
<1>9. "+" \in Sign BY <1>8, SignSorts
<1> QED BY <1>5, <1>6, <1>7, <1>8, <1>9

(* w, a plus and c.                                                        *)
Longer(w, c) == Append(Append(w, "+"), c)

LEMMA LongerParts ==
    ASSUME NEW w \in Seq(Sign), NEW c \in Letter \cup {"+"}
    PROVE  /\ Longer(w, c) \in Seq(Sign) /\ Len(Longer(w, c)) = Len(w) + 2
           /\ \A k \in 1 .. Len(w) : Longer(w, c)[k] = w[k]
           /\ Longer(w, c)[Len(w) + 1] = "+" /\ Longer(w, c)[Len(w) + 2] = c
           /\ Longer(w, c) = w \o <<"+", c>> /\ c \in Sign /\ c \in Plain /\ c # "."
<1>1. c \in Plain BY LowerKeeps
<1>2. c \in Sign BY <1>1, SignSorts
<1>3. "+" \in Sign BY LowerKeeps
<1>4. c # "."
  <2>1. "." \notin Letter BY SignSorts
  <2> QED BY <2>1
<1> DEFINE v == Append(w, "+")
<1>5. v \in Seq(Sign) /\ Len(v) = Len(w) + 1 /\ v[Len(w) + 1] = "+" BY <1>3
<1>6. \A k \in 1 .. Len(w) : v[k] = w[k] BY <1>3
<1>7. Longer(w, c) = Append(v, c) BY DEF Longer
<1>8. Longer(w, c) = w \o <<"+", c>> BY <1>2, <1>3 DEF Longer
<1> HIDE DEF v
<1>9. Append(v, c) \in Seq(Sign) /\ Len(Append(v, c)) = Len(w) + 2 /\ Append(v, c)[Len(w) + 2] = c BY <1>2, <1>5
<1>10. \A k \in 1 .. Len(w) : Append(v, c)[k] = w[k]
  <2> TAKE k \in 1 .. Len(w)
  <2>1. k \in 1 .. Len(v) BY <1>5
  <2> QED BY <1>2, <1>5, <1>6, <2>1
<1>11. Append(v, c)[Len(w) + 1] = "+"
  <2>1. Len(w) + 1 \in 1 .. Len(v) BY <1>5
  <2> QED BY <1>2, <1>5, <2>1
<1> QED BY <1>1, <1>2, <1>4, <1>7, <1>8, <1>9, <1>10, <1>11

(* An extension does not change the name.                                  *)
LEMMA Extended ==
    ASSUME NEW w \in Seq(Sign), NEW c \in Letter \cup {"+"}, \A k \in 1 .. Len(w) : Lower[w[k]] \in Plain
    PROVE  parseMailboxName(Longer(w, c)) = Named(BeforePlus(ToLower(w)))
<1> DEFINE v == Longer(w, c)
           n == ToLower(w)
           m == ToLower(v)
<1>0. Len(w) \in Nat OBVIOUS
<1>1. v \in Seq(Sign) /\ Len(v) = Len(w) + 2 /\ Len(w) \in Nat BY <1>0, LongerParts
<1>2. \A k \in 1 .. Len(w) : v[k] = w[k] BY LongerParts
<1>3. v[Len(w) + 1] = "+" /\ v[Len(w) + 2] = c BY LongerParts
<1> HIDE DEF v
<1>4. \A k \in 1 .. Len(v) : Lower[v[k]] \in Plain
  <2> TAKE k \in 1 .. Len(v)
  <2>1. k \in 1 .. Len(w) \/ k = Len(w) + 1 \/ k = Len(w) + 2 BY <1>1
  <2>2. Lower["+"] \in Plain /\ Lower[c] \in Plain BY LowerKeeps
  <2> QED BY <1>2, <1>3, <2>1, <2>2
<1>5. v # <<>> BY <1>1
<1>6. Mailable(v) BY <1>4, <1>5 DEF Mailable
<1>7. n \in Seq(Sign) /\ Len(n) = Len(w) /\ \A k \in 1 .. Len(w) : n[k] = Lower[w[k]] BY LowerName
<1>8. m \in Seq(Sign) /\ Len(m) = Len(v) /\ \A k \in 1 .. Len(v) : m[k] = Lower[v[k]] BY <1>1, <1>4, LowerName
<1> HIDE DEF n, m
<1>9. \A k \in 1 .. Len(w) : m[k] = n[k]
  <2> TAKE k \in 1 .. Len(w)
  <2>1. k \in 1 .. Len(v) BY <1>1
  <2> QED BY <1>2, <1>7, <1>8, <2>1
<1>10. m[Len(w) + 1] = "+"
  <2>1. Len(w) + 1 \in 1 .. Len(v) BY <1>1
  <2> QED BY <1>3, <1>8, <2>1, LowerKeeps
<1>11. PICK j : IsCut(n, j) BY <1>7, CutExists
<1>12. j \in 0 .. Len(w) /\ (\A k \in 1 .. j : n[k] # "+") /\ (j = Len(w) \/ n[j + 1] = "+")
  BY <1>7, <1>11 DEF IsCut
<1>13. IsCut(m, j)
  <2>1. j \in 0 .. Len(m) BY <1>1, <1>8, <1>12
  <2>2. \A k \in 1 .. j : k \in 1 .. Len(w) BY <1>1, <1>12
  <2>3. \A k \in 1 .. j : m[k] # "+" BY <1>9, <1>12, <2>2
  <2>4. m[j + 1] = "+"
    <3>1. CASE j = Len(w) BY <1>10, <3>1
    <3>2. CASE j # Len(w)
      <4>1. j + 1 \in 1 .. Len(w) /\ n[j + 1] = "+" BY <1>1, <1>12, <3>2
      <4> QED BY <1>9, <4>1
    <3> QED BY <3>1, <3>2
  <2> QED BY <2>1, <2>3, <2>4 DEF IsCut
<1>14. SubSeq(m, 1, j) = SubSeq(n, 1, j)
  <2>1. j \in 0 .. Len(m) /\ j \in 0 .. Len(n) BY <1>1, <1>7, <1>8, <1>12
  <2>2. \A q \in 1 .. j : m[q] = n[q]
    <3>1. \A q \in 1 .. j : q \in 1 .. Len(w) BY <1>1, <1>12
    <3> QED BY <1>9, <3>1
  <2> QED BY <1>7, <1>8, <2>1, <2>2, SameBeginning
<1>15. BeforePlus(m) = SubSeq(m, 1, j) /\ BeforePlus(n) = SubSeq(n, 1, j) BY <1>7, <1>8, <1>11, <1>13, CutAt
<1>16. parseMailboxName(v) = Named(BeforePlus(m)) BY <1>1, <1>6, BoxOfLocal DEF m
<1>17. parseMailboxName(v) = Named(BeforePlus(n)) BY <1>14, <1>15, <1>16
<1> QED BY <1>17 DEF v, n

(* The mailbox of a local part.                                            *)
BoxFor(naming, w) == IF naming = "domain" /\ w = <<>> THEN Named(<<>>) ELSE parseMailboxName(w)

(* Where it is, with a domain that passes.                                 *)
Extraction(naming, box, d) ==
    IF box.ok = TRUE
    THEN IF naming = "local" THEN box
         ELSE IF naming = "full" THEN Named(At(box.name, d)) ELSE Named(d)
    ELSE Err

LEMMA NamedFields ==
    /\ \A n : Named(n).ok = TRUE /\ Named(n).name = n
    /\ \A m, n : Named(m) = Named(n) => m = n
<1>1. \A n : Named(n).ok = TRUE /\ Named(n).name = n BY DEF Named
<1> QED BY <1>1

LEMMA BoxIsAnswer ==
    ASSUME NEW naming, NEW w \in Seq(Sign)
    PROVE  /\ BoxFor(naming, w).ok = TRUE \/ BoxFor(naming, w).ok = FALSE
           /\ parseMailboxName(w).ok = TRUE \/ parseMailboxName(w).ok = FALSE
<1>1. parseMailboxName(w).ok = TRUE \/ parseMailboxName(w).ok = FALSE
  <2>1. CASE Mailable(w)
    <3>1. parseMailboxName(w) = Named(BeforePlus(ToLower(w))) BY <2>1, BoxOfLocal
    <3> QED BY <3>1, NamedFields
  <2>2. CASE ~Mailable(w)
    <3>1. parseMailboxName(w) = Err BY <2>2, BoxOfLocal
    <3> QED BY <3>1, ErrFails
  <2> QED BY <2>1, <2>2
<1>2. BoxFor(naming, w) = Named(<<>>) \/ BoxFor(naming, w) = parseMailboxName(w) BY DEF BoxFor
<1> QED BY <1>1, <1>2, NamedFields

(* What ExtractMailbox does with an address that has a domain.             *)
LEMMA Extracts ==
    ASSUME NEW naming \in Naming, NEW a, NEW w \in Seq(Sign), NEW d \in Seq(Sign), ValidateDomainPart(d),
           NEW parsed, parsed = parseEmailAddress(a), parsed = [ok |-> TRUE, local |-> w, domain |-> d],
           ~(a # <<>> /\ a[1] = "[" /\ a[Len(a)] = "]")
    PROVE  ExtractMailbox(naming, a) = Extraction(naming, BoxFor(naming, w), d)
<1>1. parsed.local = w /\ parsed.domain = d OBVIOUS
<1>2. parsed.ok = TRUE OBVIOUS
<1>3. d # <<>> BY EmptyNoDomain
<1> DEFINE box == parseMailboxName(w)
<1>4. box.ok = TRUE \/ box.ok = FALSE BY BoxIsAnswer
<1>5. CASE naming = "domain"
  <2> DEFINE own == IF w = <<>> THEN Named(<<>>) ELSE box
  <2>1. ExtractMailbox(naming, a) = extractDomainMailbox(a) BY <1>5 DEF ExtractMailbox
  <2>2. own = BoxFor(naming, w) BY <1>5 DEF BoxFor
  <2>3. extractDomainMailbox(a) = IF parsed.ok /\ own.ok /\ ValidateDomainPart(d) THEN Named(d) ELSE Err
    BY <1>1, <1>3 DEF extractDomainMailbox
  <2>4. BoxFor(naming, w).ok = TRUE \/ BoxFor(naming, w).ok = FALSE BY BoxIsAnswer
  <2> HIDE DEF own
  <2>5. CASE own.ok = TRUE
    <3>1. extractDomainMailbox(a) = Named(d) BY <1>2, <2>3, <2>5
    <3> QED BY <1>5, <2>1, <2>2, <2>5, <3>1 DEF Extraction
  <2>6. CASE own.ok = FALSE
    <3>1. extractDomainMailbox(a) = Err BY <2>3, <2>6
    <3> QED BY <1>5, <2>1, <2>2, <2>6, <3>1 DEF Extraction
  <2> QED BY <2>2, <2>4, <2>5, <2>6
<1>6. CASE naming # "domain"
  <2>1. BoxFor(naming, w) = box BY <1>6 DEF BoxFor
  <2>2. CASE box.ok = FALSE
    <3>1. ExtractMailbox(naming, a) = Err BY <1>1, <1>6, <2>2 DEF ExtractMailbox
    <3> QED BY <2>1, <2>2, <3>1 DEF Extraction
  <2>3. CASE box.ok = TRUE
    <3>1. ~(naming # "domain" /\ (~parsed.ok \/ ~parseMailboxName(parsed.local).ok)) BY <1>1, <1>2, <2>3
    <3>2. CASE naming = "local"
      <4>1. ExtractMailbox(naming, a) = parseMailboxName(parsed.local) BY <1>6, <3>1, <3>2 DEF ExtractMailbox
      <4> QED BY <1>1, <2>1, <2>3, <3>2, <4>1 DEF Extraction
    <3>3. CASE naming = "full"
      <4>1. ExtractMailbox(naming, a) = Named(parseMailboxName(parsed.local).name \o <<"@">> \o parsed.domain)
        BY <1>1, <1>3, <1>6, <3>1, <3>3 DEF ExtractMailbox
      <4> QED BY <1>1, <2>1, <2>3, <3>3, <4>1 DEF Extraction, At
    <3> QED BY <1>6, <3>2, <3>3 DEF Naming
  <2> QED BY <1>4, <2>2, <2>3
<1> QED BY <1>5, <1>6

(* An extension does not change the mailbox.                               *)
LEMMA BoxExtended ==
    ASSUME NEW naming, NEW w \in Seq(Sign), NEW c \in Letter \cup {"+"}, BoxFor(naming, w).ok = TRUE
    PROVE  BoxFor(naming, Longer(w, c)) = BoxFor(naming, w)
<1>1. Longer(w, c) # <<>>
  <2>1. Longer(w, c) \in Seq(Sign) /\ Len(Longer(w, c)) = Len(w) + 2 BY LongerParts
  <2>2. Len(w) \in Nat OBVIOUS
  <2> QED BY <2>1, <2>2
<1>2. BoxFor(naming, Longer(w, c)) = parseMailboxName(Longer(w, c)) BY <1>1 DEF BoxFor
<1>3. CASE naming = "domain" /\ w = <<>>
  <2>1. \A k \in 1 .. Len(w) : Lower[w[k]] \in Plain BY <1>3
  <2>2. parseMailboxName(Longer(w, c)) = Named(BeforePlus(ToLower(w))) BY <2>1, Extended
  <2>3. ToLower(w) = <<>>
    <3>1. ToLower(w) \in Seq(Sign) /\ Len(ToLower(w)) = Len(w) BY <2>1, LowerName
    <3> QED BY <1>3, <3>1
  <2>4. BeforePlus(<<>>) = <<>>
    <3>1. <<>> \in Seq(Sign) /\ Len(<<>>) = 0 BY StartSigns
    <3>2. IndexOf(<<>>, "+") \in 0 .. 0 BY <3>1, FirstOf
    <3>3. ~(IndexOf(<<>>, "+") > 0) BY <3>2
    <3> QED BY <3>3 DEF BeforePlus
  <2>5. BoxFor(naming, w) = Named(<<>>) BY <1>3 DEF BoxFor
  <2> QED BY <1>2, <2>2, <2>3, <2>4, <2>5
<1>4. CASE ~(naming = "domain" /\ w = <<>>)
  <2>1. BoxFor(naming, w) = parseMailboxName(w) BY <1>4 DEF BoxFor
  <2>2. Mailable(w)
    <3> SUFFICES ASSUME ~Mailable(w) PROVE FALSE OBVIOUS
    <3>1. parseMailboxName(w) = Err BY BoxOfLocal
    <3> QED BY <2>1, <3>1, ErrFails
  <2>3. parseMailboxName(w) = Named(BeforePlus(ToLower(w))) BY <2>2, BoxOfLocal
  <2>4. \A k \in 1 .. Len(w) : Lower[w[k]] \in Plain BY <2>2 DEF Mailable
  <2>5. parseMailboxName(Longer(w, c)) = Named(BeforePlus(ToLower(w))) BY <2>4, Extended
  <2> QED BY <1>2, <2>1, <2>3, <2>5
<1> QED BY <1>3, <1>4

(* Where a local part has been read to its end.                            *)
ReadAs(l, p, d) ==
    /\ l \in Seq(Sign) /\ p \in Sign /\ p # "." /\ d \in Seq(Sign)
    /\ text \in Seq(Sign) /\ text # <<>> /\ text[1] \notin {".", "@", "["}
    /\ End(text) = Bare(l, p)
    /\ parseEmailAddress(At(text, d)) = [ok |-> TRUE, local |-> l, domain |-> d]
    /\ ValidateDomainPart(d)

LEMMA TextIsRead ==
    ASSUME text \in Seq(Char), NEW d \in Domains, ParseEmailAddress(At(text, d)).ok = TRUE, text[1] # "@"
    PROVE  \E l, p : ReadAs(l, p, d)
<1> DEFINE a == At(text, d)
           n == Len(text)
           s == End(text)
<1>1. text \in Seq(Sign) /\ d \in Seq(Sign) /\ a \in Seq(Sign) BY Written
<1>2. text # <<>> /\ Parsed(a, a, n + 1) BY WhereItEnds
<1>3. Joined(a, text, d) BY <1>1, AtParts
<1>4. n \in Nat /\ Len(d) \in Nat /\ n # 0 BY <1>1, <1>2
<1> HIDE DEF a
<1>5. Len(a) = n + 1 + Len(d) /\ \A k \in 1 .. n : a[k] = text[k] BY <1>3 DEF Joined
<1>6. SubSeq(a, n + 2, Len(a)) = d BY <1>3 DEF Joined
<1>7. EndsAt(a, n + 1) /\ a[1] # "." /\ parseEmailAddress(a) = Split(a, n + 1) BY <1>2 DEF Parsed
<1>8. ValidateDomainPart(d)
  <2>1. ValidateDomainPart(SubSeq(a, n + 1 + 1, Len(a))) BY <1>2 DEF Parsed
  <2>2. n + 1 + 1 = n + 2 BY <1>4
  <2> QED BY <1>6, <2>1, <2>2
<1>9. (n + 1) - 1 = n /\ n <= Len(a) /\ n <= Len(text) /\ n \in 0 .. Len(a) /\ (n + 1) + 1 = n + 2 BY <1>4, <1>5
<1>10. Scan(a)[n] = s
  <2>1. Scan(a)[n] = Scan(text)[n] BY <1>1, <1>4, <1>5, <1>9, SamePrefix
  <2> QED BY <2>1 DEF End
<1>11. Going(s) /\ MayEnd(s, a[n + 1], n + 1)
  <2>1. Going(Scan(a)[(n + 1) - 1]) /\ MayEnd(Scan(a)[(n + 1) - 1], a[n + 1], n + 1) BY <1>7 DEF EndsAt
  <2> QED BY <1>9, <1>10, <2>1
<1>12. s \in Cursors BY <1>1, <1>9, <1>10, ScanUnfolds
<1>13. Known(s, a, n) BY <1>1, <1>9, <1>10, <1>11, Learns
<1> HIDE DEF s
<1>14. s.ok = TRUE /\ s.at = 0 BY <1>11 DEF Going
<1>15. s.char = FALSE BY <1>11 DEF MayEnd
<1>16. s.str = FALSE BY <1>11 DEF MayEnd
<1>17. s.prev # "." BY <1>11 DEF MayEnd
<1>18. s.local \in Seq(Sign) /\ s.prev \in Sign BY <1>12, CursorParts
<1>19. s = Bare(s.local, s.prev)
  <2>1. s = [ok |-> s.ok, local |-> s.local, prev |-> s.prev, char |-> s.char, str |-> s.str, at |-> s.at]
    BY <1>12, CursorFields
  <2> QED BY <1>14, <1>15, <1>16, <2>1 DEF Bare
<1>20. text[1] \notin {".", "@", "["}
  <2>1. 1 \in 1 .. n /\ a[1] = text[1] BY <1>4, <1>5
  <2>2. text[1] # "["
    <3> SUFFICES ASSUME text[1] = "[" PROVE FALSE OBVIOUS
    <3>1. a[1] # "\"" BY <2>1
    <3>2. Escaped(a, n) BY <1>13, <3>1 DEF Known
    <3>3. a[1] \notin Plain \cup {"\\"} BY <2>1, SignSorts
    <3> QED BY <2>1, <3>2, <3>3 DEF Escaped
  <2> QED BY <1>7, <2>1, <2>2
<1>21. parseEmailAddress(a) = [ok |-> TRUE, local |-> s.local, domain |-> d]
  <2>1. Split(a, n + 1) = [ok |-> TRUE, local |-> Scan(a)[(n + 1) - 1].local,
                           domain |-> SubSeq(a, (n + 1) + 1, Len(a))]
    BY DEF Split
  <2> QED BY <1>6, <1>7, <1>9, <1>10, <2>1
<1>22. ReadAs(s.local, s.prev, d)
  BY <1>1, <1>2, <1>8, <1>17, <1>18, <1>19, <1>20, <1>21 DEF ReadAs, a, s
<1> QED BY <1>22

(* The address with an extension is read as the one without, further on.   *)
LEMMA SubaddressSharesHere == text \in Seq(Char) => SubaddressShares
<1> SUFFICES ASSUME text \in Seq(Char), NEW naming \in Naming, NEW d \in Domains, NEW c \in Letter \cup {"+"},
                    NewRecipient(naming, At(text, d)).ok, ShortEnough(text \o <<"+", c>>, d), text[1] # "@"
             PROVE  NewRecipient(naming, At(text \o <<"+", c>>, d)) = NewRecipient(naming, At(text, d))
  BY DEF SubaddressShares
<1> DEFINE a == At(text, d)
           q == Longer(text, c)
           b == At(q, d)
<1>1. text \in Seq(Sign) /\ d \in Seq(Sign) BY Written
<1>2. q = text \o <<"+", c>> BY <1>1, LongerParts
<1>3. ParseEmailAddress(a).ok = TRUE
  <2> SUFFICES ASSUME ParseEmailAddress(a).ok # TRUE PROVE FALSE OBVIOUS
  <2>1. ParseEmailAddress(a).ok = FALSE BY OkIsBoolean
  <2>2. NewRecipient(naming, a) = Err BY <2>1 DEF NewRecipient
  <2> QED BY <2>2, ErrFails
<1>4. PICK l, p : ReadAs(l, p, d) BY <1>3, TextIsRead
<1>5. /\ l \in Seq(Sign) /\ p \in Sign /\ p # "." /\ d \in Seq(Sign)
      /\ text # <<>> /\ text[1] \notin {".", "@", "["}
      /\ End(text) = Bare(l, p)
  BY <1>4 DEF ReadAs
<1>6. parseEmailAddress(a) = [ok |-> TRUE, local |-> l, domain |-> d] /\ ValidateDomainPart(d)
  BY <1>4 DEF ReadAs
<1>7. "+" \in Plain /\ "+" \in Sign /\ "+" # "." BY LowerKeeps
<1>8. c \in Plain /\ c \in Sign /\ c # "." BY <1>1, LongerParts
<1> DEFINE v == Append(text, "+")
           k == Append(l, "+")
<1>9. k \in Seq(Sign) BY <1>5, <1>7
<1>10. v \in Seq(Sign) /\ Len(v) = Len(text) + 1 /\ End(v) = ScanTurn(End(text), "+", Len(text) + 1)
  BY <1>1, <1>7, OneMore
<1>11. q = Append(v, c) /\ Longer(l, c) = Append(k, c) BY DEF Longer
<1> HIDE DEF v, k
<1>12. Len(text) \in Nat /\ Len(text) + 1 \in Nat \ {0} /\ Len(v) + 1 \in Nat \ {0} BY <1>1, <1>10
<1>13. End(v) = Bare(k, "+")
  <2>1. End(v) = Bare(Append(l, "+"), "+") BY <1>5, <1>7, <1>10, <1>12, PlainTurn
  <2> QED BY <2>1 DEF k
<1>14. q \in Seq(Sign) /\ End(q) = ScanTurn(End(v), c, Len(v) + 1)
  <2>1. Append(v, c) \in Seq(Sign) /\ End(Append(v, c)) = ScanTurn(End(v), c, Len(v) + 1) BY <1>8, <1>10, OneMore
  <2> QED BY <1>11, <2>1
<1>15. End(q) = Bare(Longer(l, c), c)
  <2> HIDE DEF q
  <2>1. End(q) = Bare(Append(k, c), c) BY <1>7, <1>8, <1>9, <1>12, <1>13, <1>14, PlainTurn
  <2> QED BY <1>11, <2>1
<1>16. Longer(l, c) \in Seq(Sign) BY <1>5, LongerParts
<1>17. q # <<>> /\ q[1] = text[1] /\ Len(q) = Len(text) + 2
  <2>1. Len(q) = Len(text) + 2 /\ \A j \in 1 .. Len(text) : q[j] = text[j] BY <1>1, LongerParts
  <2>2. 1 \in 1 .. Len(text) BY <1>1, <1>5
  <2>3. q \in Seq(Sign) BY <1>14
  <2> HIDE DEF q
  <2> QED BY <1>12, <2>1, <2>2, <2>3
<1>18. ShortEnough(q, d) BY <1>2
<1> HIDE DEF q
<1>19. q[1] \notin {".", "@"} BY <1>5, <1>17
<1>20. /\ parseEmailAddress(b) = [ok |-> TRUE, local |-> Longer(l, c), domain |-> d]
       /\ ParseEmailAddress(b) = [ok |-> TRUE, local |-> Longer(l, c), domain |-> d]
  BY <1>1, <1>6, <1>8, <1>14, <1>15, <1>16, <1>17, <1>18, <1>19, AddressTaken
<1>21. a[1] = text[1] /\ b[1] = q[1]
  <2>1. Joined(a, text, d) BY <1>1, AtParts
  <2>2. Joined(b, q, d) BY <1>1, <1>14, AtParts
  <2>3. 1 \in 1 .. Len(text) /\ 1 \in 1 .. Len(q) BY <1>1, <1>5, <1>12, <1>17
  <2> QED BY <2>1, <2>2, <2>3 DEF Joined
<1> HIDE DEF a, b
<1>22. a[1] # "[" /\ b[1] # "[" BY <1>5, <1>17, <1>21
<1>23. ExtractMailbox(naming, a) = Extraction(naming, BoxFor(naming, l), d)
  BY <1>1, <1>5, <1>6, <1>22, Extracts
<1>24. ExtractMailbox(naming, b) = Extraction(naming, BoxFor(naming, Longer(l, c)), d)
  BY <1>1, <1>6, <1>16, <1>20, <1>22, Extracts
<1>25. NewRecipient(naming, a) = ExtractMailbox(naming, a) BY <1>3 DEF NewRecipient
<1>26. NewRecipient(naming, b) = ExtractMailbox(naming, b)
  <2>1. ParseEmailAddress(b).ok = TRUE BY <1>20
  <2> QED BY <2>1 DEF NewRecipient
<1>27. BoxFor(naming, l).ok = TRUE
  <2> SUFFICES ASSUME BoxFor(naming, l).ok # TRUE PROVE FALSE OBVIOUS
  <2>1. ExtractMailbox(naming, a) = Err BY <1>23 DEF Extraction
  <2>2. NewRecipient(naming, a).ok BY DEF a
  <2> QED BY <1>25, <2>1, <2>2, ErrFails
<1>28. BoxFor(naming, Longer(l, c)) = BoxFor(naming, l) BY <1>5, <1>27, BoxExtended
<1>29. NewRecipient(naming, b) = NewRecipient(naming, a) BY <1>23, <1>24, <1>25, <1>26, <1>28
<1> QED BY <1>2, <1>29 DEF a, b

(* A text that is read as it stands.                                       *)
Readable(w) ==
    /\ w \in Seq(Sign) /\ w # <<>>
    /\ \A k \in 1 .. Len(w) : w[k] \in Plain
    /\ w[1] # "."
    /\ \A k \in 1 .. Len(w) - 1 : ~(w[k] = "." /\ w[k + 1] = ".")

(* The loop writes all of it, as a local part without a domain.            *)
LEMMA ReadableIsRead ==
    ASSUME NEW w, Readable(w)
    PROVE  End(w) = Bare(w, w[Len(w)])
<1> DEFINE n == Len(w)
           F(j) == SubSeq(w, 1, j)
           Fine(j) == F(j) \in Seq(Sign) /\ Len(F(j)) = j /\ End(F(j)) = Bare(F(j), Before(w, j))
           T == {j \in 0 .. n : Fine(j)}
<1>1. w \in Seq(Sign) /\ w # <<>> BY DEF Readable
<1>2. n \in Nat /\ n # 0 /\ n \in 0 .. n BY <1>1
<1>3. Fine(0)
  <2>1. F(0) = <<>> BY <1>1, Taken
  <2>2. <<>> \in Seq(Sign) /\ Len(<<>>) = 0 BY StartSigns
  <2>3. End(<<>>) = ScanStart BY <2>2, ScanUnfolds DEF End
  <2>4. Before(w, 0) = "." BY DEF Before
  <2> QED BY <2>1, <2>2, <2>3, <2>4, StartIsBare
<1>4. ASSUME NEW k \in 0 .. n - 1, Fine(k) PROVE Fine(k + 1)
  <2> DEFINE c == w[k + 1]
             l == F(k)
             p == Before(w, k)
  <2>1. k \in Nat /\ k + 1 \in 1 .. n /\ k + 1 \in 0 .. n /\ k + 1 # 0 BY <1>2
  <2>2. c \in Plain BY <2>1 DEF Readable
  <2>3. c \in Sign BY <2>2, SignSorts
  <2>4. k # 0 => k \in 1 .. n - 1 /\ p = w[k] BY <2>1 DEF Before
  <2>5. k = 0 => p = "." BY DEF Before
  <2>6. c = "." => p # "."
    <3>1. k = 0 => c # "." BY DEF Readable
    <3> QED BY <2>4, <3>1 DEF Readable
  <2>7. p \in Sign
    <3>1. k # 0 => k \in 1 .. n BY <2>1
    <3> QED BY <1>1, <2>4, <2>5, <3>1, StartSigns
  <2>8. l \in Seq(Sign) /\ Len(l) = k /\ End(l) = Bare(l, p) BY <1>4
  <2>9. F(k + 1) = Append(l, c) BY <1>1, Taken
  <2>10. Before(w, k + 1) = c BY <2>1 DEF Before
  <2> HIDE DEF c, l, p, F
  <2>11. /\ Append(l, c) \in Seq(Sign) /\ Len(Append(l, c)) = Len(l) + 1
         /\ End(Append(l, c)) = ScanTurn(End(l), c, Len(l) + 1)
    BY <2>3, <2>8, OneMore
  <2>12. Len(l) + 1 \in Nat \ {0} BY <2>1, <2>8
  <2>13. End(Append(l, c)) = Bare(Append(l, c), c) BY <2>2, <2>6, <2>7, <2>8, <2>11, <2>12, PlainTurn
  <2> QED BY <2>8, <2>9, <2>10, <2>11, <2>13
<1> HIDE DEF Fine
<1>5. 0 \in T BY <1>2, <1>3
<1>6. ASSUME NEW k \in T, k \in 0 .. n - 1 PROVE k + 1 \in T
  <2>1. Fine(k) OBVIOUS
  <2>2. Fine(k + 1) BY <1>4, <1>6, <2>1
  <2>3. k + 1 \in 0 .. n BY <1>2, <1>6
  <2> QED BY <2>2, <2>3
<1> HIDE DEF T
<1>7. 0 .. n \subseteq T BY <1>2, <1>5, <1>6, CountUp
<1>8. n \in T BY <1>2, <1>7
<1>9. Fine(n) BY <1>8 DEF T
<1>10. F(n) = w BY <1>1, Taken
<1>11. Before(w, n) = w[n] BY <1>2 DEF Before
<1> QED BY <1>9, <1>10, <1>11 DEF Fine

LEMMA WholeIsTaken ==
    ASSUME NEW w, Readable(w), Len(w) <= MaxAddress
    PROVE  parseEmailAddress(w) = [ok |-> TRUE, local |-> w, domain |-> <<>>]
<1>1. w \in Seq(Sign) /\ w # <<>> /\ w[1] # "." /\ w[1] \in Plain /\ w[Len(w)] \in Plain
  <2>1. w \in Seq(Sign) /\ w # <<>> /\ w[1] # "." BY DEF Readable
  <2>2. 1 \in 1 .. Len(w) /\ Len(w) \in 1 .. Len(w) BY <2>1
  <2> QED BY <2>1, <2>2 DEF Readable
<1>2. w[1] # "@" BY <1>1, SignSorts
<1>3. w[Len(w)] \in Sign BY <1>1, SignSorts
<1> DEFINE s == End(w)
<1>4. s = Bare(w, w[Len(w)]) BY ReadableIsRead
<1>5. IsBare(s, w, w[Len(w)]) BY <1>1, <1>3, <1>4, BareFields
<1>6. s = Scan(w)[Len(w)] BY DEF End
<1> HIDE DEF s
<1>7. Going(s) /\ s.local = w BY <1>5 DEF IsBare
<1>8. s.char = FALSE BY <1>5 DEF IsBare
<1>9. s.str = FALSE BY <1>5 DEF IsBare
<1>10. ScanLocal(w) = [ok |-> TRUE, local |-> s.local, domain |-> <<>>]
  BY <1>1, <1>6, <1>7, <1>8, <1>9, LocalWhole
<1>11. parseEmailAddress(w) = ScanLocal(w)
  <2>1. Len(w) \in Nat /\ MaxAddress \in Nat
    <3>1. MaxAddress \in Nat BY PolicyAssumption
    <3> QED BY <1>1, <3>1
  <2>2. ~(w = <<>> \/ Len(w) > MaxAddress) BY <1>1, <2>1
  <2> QED BY <1>2, <2>2 DEF parseEmailAddress
<1> QED BY <1>7, <1>10, <1>11

(* A mailbox's name: plain, in lower case, without an extension.           *)
IsName(n) ==
    /\ n \in Seq(Sign)
    /\ \A k \in 1 .. Len(n) : n[k] \in Plain /\ n[k] # "+" /\ Lower[n[k]] = n[k]

LEMMA OwnName ==
    ASSUME NEW n, IsName(n), n # <<>>
    PROVE  parseMailboxName(n) = Named(n)
<1>1. n \in Seq(Sign) /\ Len(n) \in Nat BY DEF IsName
<1>2. \A k \in 1 .. Len(n) : n[k] \in Plain /\ n[k] # "+" /\ Lower[n[k]] = n[k] BY DEF IsName
<1>3. \A k \in 1 .. Len(n) : Lower[n[k]] \in Plain BY <1>2
<1>4. Mailable(n) BY <1>3 DEF Mailable
<1> DEFINE m == ToLower(n)
<1>5. m \in Seq(Sign) /\ Len(m) = Len(n) /\ \A k \in 1 .. Len(n) : m[k] = Lower[n[k]] BY <1>1, <1>3, LowerName
<1> HIDE DEF m
<1>6. \A k \in 1 .. Len(n) : m[k] = n[k] BY <1>2, <1>5
<1>7. m = n BY <1>1, <1>5, <1>6, SeqEqual
<1>8. IsCut(n, Len(n)) BY <1>1, <1>2 DEF IsCut
<1>9. BeforePlus(n) = SubSeq(n, 1, Len(n)) BY <1>1, <1>8, CutAt
<1>10. SubSeq(n, 1, Len(n)) = n BY <1>1, Taken
<1>11. parseMailboxName(n) = Named(BeforePlus(m)) BY <1>1, <1>4, BoxOfLocal DEF m
<1> QED BY <1>7, <1>9, <1>10, <1>11

LEMMA NameOfLocal ==
    ASSUME NEW w \in Seq(Sign), Mailable(w), NEW n, n = BeforePlus(ToLower(w))
    PROVE  IsName(n) /\ Len(n) \in Nat /\ Len(n) <= Len(w)
<1>0. Len(w) \in Nat OBVIOUS
<1>1. \A k \in 1 .. Len(w) : Lower[w[k]] \in Plain BY DEF Mailable
<1> DEFINE m == ToLower(w)
<1>2. m \in Seq(Sign) /\ Len(m) = Len(w) /\ \A k \in 1 .. Len(w) : m[k] = Lower[w[k]] BY <1>1, LowerName
<1>3. n = BeforePlus(m) OBVIOUS
<1> HIDE DEF m
<1>4. PICK j : IsCut(m, j) BY <1>2, CutExists
<1>5. n = SubSeq(m, 1, j) BY <1>2, <1>3, <1>4, CutAt
<1>6. j \in 0 .. Len(m) /\ \A k \in 1 .. j : m[k] # "+" BY <1>4 DEF IsCut
<1>7. n \in Seq(Sign) /\ Len(n) = j /\ \A k \in 1 .. j : n[k] = m[k] BY <1>2, <1>5, <1>6, SubParts
<1>8. ASSUME NEW k \in 1 .. Len(n) PROVE n[k] \in Plain /\ n[k] # "+" /\ Lower[n[k]] = n[k]
  <2>1. k \in 1 .. Len(w) /\ k \in 1 .. j BY <1>0, <1>2, <1>6, <1>7
  <2>2. n[k] = Lower[w[k]] /\ n[k] # "+" BY <1>2, <1>6, <1>7, <2>1
  <2>3. w[k] \in Sign BY <2>1
  <2>4. Lower[Lower[w[k]]] = Lower[w[k]] BY <2>3, LowerKeeps
  <2> QED BY <1>1, <2>1, <2>2, <2>4
<1>9. IsName(n) BY <1>7, <1>8 DEF IsName
<1> QED BY <1>0, <1>2, <1>6, <1>7, <1>9

(* What an address that is taken says.                                     *)
Heard(a, w, d) ==
    /\ w \in Seq(Sign) /\ d \in Seq(Sign) /\ ValidateDomainPart(d) /\ d # <<>>
    /\ parseEmailAddress(a) = [ok |-> TRUE, local |-> w, domain |-> d]
    /\ Len(w) <= MaxLocal /\ Len(w) + 1 + Len(d) <= MaxAddress
    /\ a[1] # "["

LEMMA TakenIsHeard ==
    ASSUME NEW a \in Seq(Sign), ParseEmailAddress(a).ok = TRUE
    PROVE  \E w, d : Heard(a, w, d)
<1> DEFINE b == Unrouted(a)
           i == Scan(b)[Len(b)].at
           w == Scan(b)[i - 1].local
           d == SubSeq(b, i + 1, Len(b))
<1>1. Parsed(a, b, i) /\ parseEmailAddress(a).ok = TRUE BY AddressSplits
<1>2. /\ a # <<>> /\ Len(a) <= MaxAddress
      /\ b \in Seq(Sign) /\ Len(b) <= Len(a)
      /\ a[1] # "@" => b = a
  BY <1>1, Routes
<1> HIDE DEF b
<1> HIDE DEF i
<1>3. EndsAt(b, i) /\ parseEmailAddress(a) = Split(b, i) /\ ValidateDomainPart(d) BY <1>1 DEF Parsed
<1>4. /\ w \in Seq(Sign) /\ Len(w) <= i - 1 /\ i - 1 <= MaxLocal
  BY <1>2, <1>3, SplitIsShort
<1>5. i \in 1 .. Len(b) /\ b[i] = "@" /\ Going(Scan(b)[i - 1]) BY <1>3 DEF EndsAt, MayEnd
<1>6. Len(b) \in Nat /\ Len(a) \in Nat /\ MaxAddress \in Nat /\ MaxLocal \in Nat
  <2>1. MaxAddress \in Nat /\ MaxLocal \in Nat BY PolicyAssumption
  <2> QED BY <1>2, <2>1
<1>7. d \in Seq(Sign) /\ Len(d) = Len(b) - i
  <2>1. i + 1 \in Int /\ Len(b) \in Int /\ \A j \in i + 1 .. Len(b) : b[j] \in Sign BY <1>2, <1>5, <1>6
  <2>2. /\ d \in Seq(Sign)
        /\ Len(d) = IF i + 1 <= Len(b) THEN Len(b) - (i + 1) + 1 ELSE 0
    BY <2>1, SubSeqProperties
  <2> QED BY <1>5, <1>6, <2>2
<1>8. d # <<>> BY <1>3, EmptyNoDomain
<1>9. parseEmailAddress(a) = [ok |-> TRUE, local |-> w, domain |-> d] BY <1>3 DEF Split
<1> HIDE DEF w, d
<1>10. Len(w) <= MaxLocal /\ Len(w) + 1 + Len(d) <= MaxAddress
  <2>1. Len(w) \in Nat BY <1>4
  <2> QED BY <1>2, <1>4, <1>5, <1>6, <1>7, <2>1
<1>11. a[1] # "["
  <2> SUFFICES ASSUME a[1] = "[" PROVE FALSE OBVIOUS
  <2>1. b = a BY <1>2
  <2>2. b[1] # "\"" BY <2>1
  <2>3. i - 1 \in 0 .. Len(b) /\ 1 \in 1 .. i - 1
    <3>1. i # 1 BY <1>5, <2>1
    <3> QED BY <1>5, <1>6, <3>1
  <2>4. Known(Scan(b)[i - 1], b, i - 1) BY <1>2, <1>5, <2>3, Learns
  <2>5. Escaped(b, i - 1) BY <2>2, <2>4 DEF Known
  <2>6. b[1] \notin Plain \cup {"\\"} BY <2>1, SignSorts
  <2> QED BY <2>3, <2>5, <2>6 DEF Escaped
<1>12. Heard(a, w, d) BY <1>3, <1>4, <1>7, <1>8, <1>9, <1>10, <1>11 DEF Heard, d
<1> QED BY <1>12

(* m is not awkward to look up.                                            *)
Looked(m) ==
    /\ m # <<>> /\ m[1] # "." /\ m[1] # "@"
    /\ \A k \in 1 .. Len(m) - 1 : ~(m[k] = "." /\ m[k + 1] = ".")
    /\ \A k \in 1 .. Len(m) - 1 : ~(m[k] = "." /\ m[k + 1] = "@")

LEMMA NotAwkward ==
    ASSUME NEW naming, NEW m, ~Awkward(naming, m)
    PROVE  Looked(m) /\ (naming = "domain" => m = ToLower(m))
<1>1. m # <<>> /\ m[1] \notin {".", "@"} /\ ~DoubleDot(m) BY DEF Awkward
<1>2. \A k \in 1 .. Len(m) - 1 : ~(m[k] = "." /\ m[k + 1] = "@") BY DEF Awkward
<1>3. naming = "domain" => m = ToLower(m) BY DEF Awkward
<1>4. \A k \in 1 .. Len(m) - 1 : ~(m[k] = "." /\ m[k + 1] = ".") BY <1>1 DEF DoubleDot
<1>5. Looked(m) BY <1>1, <1>2, <1>4 DEF Looked
<1> QED BY <1>3, <1>5

(* Under local naming: a name that is read as it stands names itself, ...  *)
LEMMA LocalFound ==
    ASSUME NEW m, IsName(m), Looked(m), Len(m) <= MaxAddress
    PROVE  ExtractMailbox("local", m) = Named(m)
<1>1. Readable(m)
  <2>1. m \in Seq(Sign) /\ \A k \in 1 .. Len(m) : m[k] \in Plain BY DEF IsName
  <2> QED BY <2>1 DEF Looked, Readable
<1> DEFINE parsed == parseEmailAddress(m)
<1>2. parsed = [ok |-> TRUE, local |-> m, domain |-> <<>>] BY <1>1, WholeIsTaken
<1> HIDE DEF parsed
<1>3. parsed.local = m BY <1>2
<1>4. parsed.ok = TRUE BY <1>2
<1>5. m # <<>> BY DEF Looked
<1>6. parseMailboxName(m) = Named(m) BY <1>5, OwnName
<1>7. parseMailboxName(m).ok = TRUE BY <1>6, NamedFields
<1>8. ExtractMailbox("local", m) =
        LET box == parseMailboxName(parsed.local)
        IN  IF ~parsed.ok \/ ~box.ok THEN Err ELSE box
  <2> DEFINE box == parseMailboxName(parsed.local)
  <2>1. CASE ~parsed.ok \/ ~box.ok BY <2>1 DEF ExtractMailbox, parsed
  <2>2. CASE ~(~parsed.ok \/ ~box.ok) BY <2>2 DEF ExtractMailbox, parsed
  <2> QED BY <2>1, <2>2
<1> QED BY <1>3, <1>4, <1>6, <1>7, <1>8

(* ... under full naming, with its domain, ...                             *)
LEMMA FullFound ==
    ASSUME NEW n, IsName(n), NEW d \in Seq(Sign), d # <<>>, ValidateDomainPart(d), Looked(At(n, d)),
           Len(n) <= MaxLocal, Len(n) + 1 + Len(d) <= MaxAddress
    PROVE  ExtractMailbox("full", At(n, d)) = Named(At(n, d))
<1> DEFINE m == At(n, d)
<1>1. n \in Seq(Sign) /\ Len(n) \in Nat /\ Len(d) \in Nat BY DEF IsName
<1>2. Joined(m, n, d) BY <1>1, AtParts
<1>3. Looked(m) OBVIOUS
<1>4. ShortEnough(n, d) BY <1>1, <1>2 DEF Joined, ShortEnough
<1> HIDE DEF m
<1>5. Len(m) = Len(n) + 1 + Len(d) /\ m[Len(n) + 1] = "@" /\ \A k \in 1 .. Len(n) : m[k] = n[k]
  BY <1>2 DEF Joined
<1>6. n # <<>>
  <2> SUFFICES ASSUME n = <<>> PROVE FALSE OBVIOUS
  <2>1. Len(n) + 1 = 1 OBVIOUS
  <2>2. m[1] = "@" BY <1>5, <2>1
  <2> QED BY <1>3, <2>2 DEF Looked
<1>7. 1 \in 1 .. Len(n) /\ Len(n) \in 1 .. Len(n) BY <1>1, <1>6
<1>8. m[1] = n[1] BY <1>5, <1>7
<1>9. n[1] # "." BY <1>3, <1>8 DEF Looked
<1>10. \A k \in 1 .. Len(n) - 1 : ~(n[k] = "." /\ n[k + 1] = ".")
  <2> TAKE k \in 1 .. Len(n) - 1
  <2>1. k \in 1 .. Len(n) /\ k + 1 \in 1 .. Len(n) /\ k \in 1 .. Len(m) - 1 BY <1>1, <1>5
  <2>2. ~(m[k] = "." /\ m[k + 1] = ".") BY <1>3, <2>1 DEF Looked
  <2> QED BY <1>5, <2>1, <2>2
<1>11. n[Len(n)] # "."
  <2>1. Len(n) \in 1 .. Len(m) - 1 BY <1>1, <1>5, <1>7
  <2>2. ~(m[Len(n)] = "." /\ m[Len(n) + 1] = "@") BY <1>3, <2>1 DEF Looked
  <2> QED BY <1>5, <1>7, <2>2
<1>12. \A k \in 1 .. Len(n) : n[k] \in Plain BY DEF IsName
<1>13. Readable(n) BY <1>1, <1>6, <1>9, <1>10, <1>12 DEF Readable
<1>14. End(n) = Bare(n, n[Len(n)]) BY <1>13, ReadableIsRead
<1>15. n[1] \in Plain /\ n[Len(n)] \in Plain BY <1>7, <1>12
<1>16. n[Len(n)] \in Sign /\ n[1] # "@" /\ n[1] # "[" BY <1>15, SignSorts
<1>17. n[1] \notin {".", "@"} BY <1>9, <1>16
<1>18. parseEmailAddress(m) = [ok |-> TRUE, local |-> n, domain |-> d]
  BY <1>1, <1>4, <1>6, <1>11, <1>14, <1>16, <1>17, AddressTaken DEF m
<1>19. m[1] # "[" BY <1>8, <1>16
<1>20. "full" \in Naming BY DEF Naming
<1>21. ExtractMailbox("full", m) = Extraction("full", BoxFor("full", n), d)
  BY <1>1, <1>18, <1>19, <1>20, Extracts
<1>22. BoxFor("full", n) = Named(n)
  <2>1. parseMailboxName(n) = Named(n) BY <1>6, OwnName
  <2> QED BY <2>1 DEF BoxFor
<1>23. Named(n).ok = TRUE /\ Named(n).name = n BY NamedFields
<1>24. Extraction("full", Named(n), d) = Named(At(n, d)) BY <1>23 DEF Extraction
<1> QED BY <1>21, <1>22, <1>24 DEF m

(* ... and under domain naming, a domain in lower case.                    *)
LEMMA DomainFound ==
    ASSUME NEW d \in Seq(Sign), ValidateDomainPart(d), Looked(d), d = ToLower(d), Len(d) <= MaxAddress
    PROVE  ExtractMailbox("domain", d) = Named(d)
<1>1. ExtractMailbox("domain", d) = extractDomainMailbox(d) BY DEF ExtractMailbox
<1>2. d # <<>> BY DEF Looked
<1>3. CASE d[1] = "[" /\ d[Len(d)] = "]"
  <2> DEFINE parsed == [ok |-> TRUE, local |-> <<>>, domain |-> d]
             box == Named(<<>>)
  <2>1. parsed.local = <<>> /\ parsed.domain = d OBVIOUS
  <2>2. parsed.ok = TRUE OBVIOUS
  <2>3. box.ok = TRUE BY NamedFields
  <2>4. extractDomainMailbox(d) =
          LET own == IF parsed.local = <<>> THEN Named(<<>>) ELSE parseMailboxName(parsed.local)
              domain == IF parsed.domain = <<>> THEN own.name ELSE parsed.domain
          IN  IF parsed.ok /\ own.ok /\ ValidateDomainPart(domain) THEN Named(domain) ELSE Err
    BY <1>2, <1>3 DEF extractDomainMailbox
  <2> HIDE DEF parsed, box
  <2>5. extractDomainMailbox(d) = IF parsed.ok /\ box.ok /\ ValidateDomainPart(d) THEN Named(d) ELSE Err
    BY <1>2, <2>1, <2>4 DEF box
  <2> QED BY <1>1, <2>2, <2>3, <2>5
<1>4. CASE ~(d[1] = "[" /\ d[Len(d)] = "]")
  <2>1. ~Bracketed(d) BY <1>4 DEF Bracketed
  <2>2. \A k \in 1 .. Len(d) : d[k] \in Word \cup {"-", "."} BY <2>1, DomainOfWords
  <2>3. {"+", "-", "_"} \subseteq Special BY PolicyAssumption
  <2>4. \A c \in Special \cup {"*"} : c \notin Letter \cup Digit \cup NonAscii BY PolicyAssumption
  <2>5. Word \cup {"-", "."} \subseteq Plain BY <2>3 DEF Word, Plain
  <2>6. "+" \notin Word \cup {"-", "."} BY <2>3, <2>4 DEF Word
  <2>7. \A k \in 1 .. Len(d) : d[k] \in Plain /\ d[k] # "+" BY <2>2, <2>5, <2>6
  <2>8. \A k \in 1 .. Len(d) : Lower[d[k]] = d[k]
    <3>1. DOMAIN d = 1 .. Len(d) OBVIOUS
    <3>2. ToLower(d) = [k \in 1 .. Len(d) |-> Lower[d[k]]] BY <3>1 DEF ToLower
    <3>3. \A k \in 1 .. Len(d) : ToLower(d)[k] = Lower[d[k]] BY <3>2
    <3>4. \A k \in 1 .. Len(d) : ToLower(d)[k] = d[k] OBVIOUS
    <3> QED BY <3>3, <3>4
  <2>9. IsName(d) BY <2>7, <2>8 DEF IsName
  <2>10. Readable(d) BY <2>7 DEF Readable, Looked
  <2> DEFINE parsed == parseEmailAddress(d)
             box == parseMailboxName(d)
  <2>11. parsed = [ok |-> TRUE, local |-> d, domain |-> <<>>] BY <2>10, WholeIsTaken
  <2>12. box = Named(d) BY <1>2, <2>9, OwnName
  <2>13. box.ok = TRUE /\ box.name = d BY <2>12, NamedFields
  <2>14. extractDomainMailbox(d) =
          LET own == IF parsed.local = <<>> THEN Named(<<>>) ELSE parseMailboxName(parsed.local)
              domain == IF parsed.domain = <<>> THEN own.name ELSE parsed.domain
          IN  IF parsed.ok /\ own.ok /\ ValidateDomainPart(domain) THEN Named(domain) ELSE Err
    BY <1>4 DEF extractDomainMailbox
  <2> HIDE DEF parsed
  <2>15. parsed.local = d /\ parsed.domain = <<>> BY <2>11
  <2>16. parsed.ok = TRUE BY <2>11
  <2>17. extractDomainMailbox(d) = IF parsed.ok /\ box.ok /\ ValidateDomainPart(box.name) THEN Named(box.name) ELSE Err
    BY <1>2, <2>14, <2>15
  <2> HIDE DEF box
  <2> QED BY <1>1, <2>13, <2>16, <2>17
<1> QED BY <1>3, <1>4

(* Under each naming, the name of a mailbox names it.                      *)
LEMMA FoundUnlessAwkwardHere == text \in Seq(Char) => FoundUnlessAwkward
<1> SUFFICES ASSUME text \in Seq(Char), NEW naming \in Naming, NEW e \in Domains,
                    NewRecipient(naming, At(text, e)).ok, ~Awkward(naming, NewRecipient(naming, At(text, e)).name)
             PROVE  ExtractMailbox(naming, NewRecipient(naming, At(text, e)).name) = NewRecipient(naming, At(text, e))
  BY DEF FoundUnlessAwkward
<1> DEFINE a == At(text, e)
           box == NewRecipient(naming, a)
           m == box.name
<1>1. a \in Seq(Sign) BY Written
<1>2. box.ok /\ ~Awkward(naming, m) OBVIOUS
<1> HIDE DEF a
<1>3. ParseEmailAddress(a).ok = TRUE
  <2> SUFFICES ASSUME ParseEmailAddress(a).ok # TRUE PROVE FALSE OBVIOUS
  <2>1. ParseEmailAddress(a).ok = FALSE BY OkIsBoolean
  <2>2. box = Err BY <2>1 DEF NewRecipient
  <2> QED BY <1>2, <2>2, ErrFails
<1>4. PICK w, d : Heard(a, w, d) BY <1>1, <1>3, TakenIsHeard
<1>5. w \in Seq(Sign) /\ d \in Seq(Sign) /\ ValidateDomainPart(d) /\ d # <<>> /\ a[1] # "[" BY <1>4 DEF Heard
<1>6. Len(w) <= MaxLocal /\ Len(w) + 1 + Len(d) <= MaxAddress BY <1>4 DEF Heard
<1>7. parseEmailAddress(a) = [ok |-> TRUE, local |-> w, domain |-> d] BY <1>4 DEF Heard
<1>8. box = Extraction(naming, BoxFor(naming, w), d)
  <2>1. box = ExtractMailbox(naming, a) BY <1>3 DEF NewRecipient
  <2> QED BY <1>5, <1>7, <2>1, Extracts
<1>9. BoxFor(naming, w).ok = TRUE
  <2> SUFFICES ASSUME BoxFor(naming, w).ok # TRUE PROVE FALSE OBVIOUS
  <2>1. box = Err BY <1>8 DEF Extraction
  <2> QED BY <1>2, <2>1, ErrFails
<1>10. Looked(m) /\ (naming = "domain" => m = ToLower(m)) BY <1>2, NotAwkward
<1>11. Len(w) \in Nat /\ Len(d) \in Nat /\ MaxAddress \in Nat /\ MaxLocal \in Nat
  <2>1. MaxAddress \in Nat /\ MaxLocal \in Nat BY PolicyAssumption
  <2> QED BY <1>5, <2>1
<1> HIDE DEF box
<1>12. CASE naming = "domain"
  <2>1. box = Named(d) BY <1>8, <1>9, <1>12 DEF Extraction
  <2>2. m = d BY <2>1, NamedFields
  <2>3. Len(d) <= MaxAddress BY <1>6, <1>11
  <2>4. ExtractMailbox("domain", d) = Named(d)
    <3>1. Looked(d) /\ d = ToLower(d) BY <1>10, <1>12, <2>2
    <3> QED BY <1>5, <2>3, <3>1, DomainFound
  <2>5. ExtractMailbox(naming, m) = box BY <1>12, <2>1, <2>2, <2>4
  <2> QED BY <2>5 DEF a, box
<1>13. CASE naming # "domain"
  <2> DEFINE n == BeforePlus(ToLower(w))
  <2>1. BoxFor(naming, w) = parseMailboxName(w) BY <1>13 DEF BoxFor
  <2>2. Mailable(w)
    <3> SUFFICES ASSUME ~Mailable(w) PROVE FALSE OBVIOUS
    <3>1. parseMailboxName(w) = Err BY <1>5, BoxOfLocal
    <3> QED BY <1>9, <2>1, <3>1, ErrFails
  <2>3. BoxFor(naming, w) = Named(n) BY <1>5, <2>1, <2>2, BoxOfLocal
  <2>4. IsName(n) /\ Len(n) \in Nat /\ Len(n) <= Len(w) BY <1>5, <2>2, NameOfLocal
  <2> HIDE DEF n
  <2>5. Named(n).ok = TRUE /\ Named(n).name = n BY NamedFields
  <2>6. CASE naming = "local"
    <3>1. box = Named(n) BY <1>8, <2>3, <2>5, <2>6 DEF Extraction
    <3>2. m = n BY <3>1, <2>5
    <3>3. Len(n) <= MaxAddress BY <1>6, <1>11, <2>4
    <3>4. ExtractMailbox("local", n) = Named(n) BY <1>10, <2>4, <3>2, <3>3, LocalFound
    <3>5. ExtractMailbox(naming, m) = box BY <2>6, <3>1, <3>2, <3>4
    <3> QED BY <3>5 DEF a, box
  <2>7. CASE naming = "full"
    <3>1. box = Named(At(n, d)) BY <1>8, <2>3, <2>5, <2>7 DEF Extraction
    <3>2. m = At(n, d) BY <3>1, NamedFields
    <3>3. Len(n) <= MaxLocal /\ Len(n) + 1 + Len(d) <= MaxAddress BY <1>6, <1>11, <2>4
    <3>4. Looked(At(n, d)) BY <1>10, <3>2
    <3>5. ExtractMailbox("full", At(n, d)) = Named(At(n, d)) BY <1>5, <2>4, <3>3, <3>4, FullFound
    <3>6. ExtractMailbox(naming, m) = box BY <2>7, <3>1, <3>2, <3>5
    <3> QED BY <3>6 DEF a, box
  <2> QED BY <1>13, <2>6, <2>7 DEF Naming
<1> QED BY <1>12, <1>13

(* AddressPolicy's MailIsFound, of every address: mail is stored where a   *)
(* lookup finds it, with an extension and without.                         *)
THEOREM MailWillBeFound == TextSpec => []MailIsFound
<1>1. TextInit => text \in Seq(Char) BY DEF TextInit
<1>2. text \in Seq(Char) /\ [TextNext]_text => (text \in Seq(Char))' BY DEF TextNext, Type
<1>3. text \in Seq(Char) => MailIsFound
  BY SubaddressSharesHere, FoundUnlessAwkwardHere DEF MailIsFound
<1> QED BY <1>1, <1>2, <1>3, PTL DEF TextSpec
=============================================================================
