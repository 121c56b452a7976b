---------------------------- MODULE MsgHubProofs ----------------------------
(***************************************************************************)
(* Proofs about MsgHub, for every set of messages and websockets, every    *)
(* length of the ring and every capacity of the channels.                  *)
(***************************************************************************)
EXTENDS MsgHub, SequenceTheorems, WellFoundedInduction, TLAPS

DispatchOp(m) == [do |-> "dispatch", msg |-> m]
AddOp(l) == [do |-> "add", listener |-> l]
RemoveOp(l) == [do |-> "remove", listener |-> l]

(* An operation is its kind and its argument.                              *)
LEMMA OpKinds ==
    ASSUME NEW op \in Op
    PROVE  /\ op.do = "dispatch" => op.msg \in Message /\ op = DispatchOp(op.msg)
           /\ op.do = "delete" => op.msg \in Message
           /\ op.do = "add" => op.listener \in Listener /\ op = AddOp(op.listener)
           /\ op.do = "remove" => op.listener \in Listener /\ op = RemoveOp(op.listener)
BY DEF Op, MessageOp, ListenerOp, DispatchOp, AddOp, RemoveOp

(* Operations of different kinds or arguments are different.               *)
LEMMA OpsDiffer ==
    /\ \A l, k : AddOp(l) # RemoveOp(k)
    /\ \A l, k : AddOp(l) = AddOp(k) => l = k
    /\ \A l, k : RemoveOp(l) = RemoveOp(k) => l = k
    /\ \A m, n : DispatchOp(m) = DispatchOp(n) => m = n
    /\ \A op \in MessageOp : \A l : op # AddOp(l) /\ op # RemoveOp(l)
    /\ \A l, m : DispatchOp(m) # AddOp(l) /\ DispatchOp(m) # RemoveOp(l)
<1>1. \A l, k : AddOp(l) # RemoveOp(k)
  <2> TAKE l, k
  <2>1. AddOp(l).do = "add" /\ RemoveOp(k).do = "remove"
    BY DEF AddOp, RemoveOp
  <2> QED BY <2>1
<1>2. \A l, k : AddOp(l) = AddOp(k) => l = k
  <2> TAKE l, k
  <2> HAVE AddOp(l) = AddOp(k)
  <2>1. AddOp(l).listener = l /\ AddOp(k).listener = k BY DEF AddOp
  <2> QED BY <2>1
<1>3. \A l, k : RemoveOp(l) = RemoveOp(k) => l = k
  <2> TAKE l, k
  <2> HAVE RemoveOp(l) = RemoveOp(k)
  <2>1. RemoveOp(l).listener = l /\ RemoveOp(k).listener = k BY DEF RemoveOp
  <2> QED BY <2>1
<1>4. \A m, n : DispatchOp(m) = DispatchOp(n) => m = n
  <2> TAKE m, n
  <2> HAVE DispatchOp(m) = DispatchOp(n)
  <2>1. DispatchOp(m).msg = m /\ DispatchOp(n).msg = n BY DEF DispatchOp
  <2> QED BY <2>1
<1>5. ASSUME NEW op \in MessageOp, NEW l PROVE op # AddOp(l) /\ op # RemoveOp(l)
  <2>1. op.do \in {"dispatch", "delete"} BY DEF MessageOp
  <2>2. AddOp(l).do = "add" /\ RemoveOp(l).do = "remove" BY DEF AddOp, RemoveOp
  <2> QED BY <2>1, <2>2
<1>6. ASSUME NEW l, NEW m PROVE DispatchOp(m) # AddOp(l) /\ DispatchOp(m) # RemoveOp(l)
  <2>1. DispatchOp(m).do = "dispatch" /\ AddOp(l).do = "add" /\ RemoveOp(l).do = "remove"
    BY DEF DispatchOp, AddOp, RemoveOp
  <2> QED BY <2>1
<1> QED BY <1>1, <1>2, <1>3, <1>4, <1>5, <1>6

-----------------------------------------------------------------------------
(* The hub's channel *)

ChanType == opChan \in Seq(Op) /\ senders \subseteq MessageOp

(* Every step leaves opChan alone, appends to it or takes its head.        *)
ChanStep ==
    \/ UNCHANGED opChan
    \/ \E op \in Op : opChan' = Append(opChan, op)
    \/ opChan # <<>> /\ opChan' = Tail(opChan)

LEMMA ChanProperties ==
    ASSUME NEW c \in Seq(Op), NEW op \in Op
    PROVE  /\ Append(c, op) \in Seq(Op)
           /\ DOMAIN Append(c, op) = 1 .. Len(c) + 1
           /\ DOMAIN c = 1 .. Len(c) /\ Len(c) \in Nat
           /\ \A k \in DOMAIN c : Append(c, op)[k] = c[k]
           /\ Append(c, op)[Len(c) + 1] = op
OBVIOUS

LEMMA TailProperties ==
    ASSUME NEW c \in Seq(Op), c # <<>>
    PROVE  /\ Tail(c) \in Seq(Op)
           /\ DOMAIN Tail(c) = 1 .. Len(c) - 1
           /\ DOMAIN c = 1 .. Len(c) /\ Len(c) \in Nat \ {0}
           /\ \A k \in DOMAIN Tail(c) : Tail(c)[k] = c[k + 1]
           /\ Head(c) = c[1] /\ Head(c) \in Op
OBVIOUS

LEMMA InitChan == Init => ChanType
BY DEF Init, ChanType

LEMMA NextChan == ChanType /\ [Next]_vars => ChanType' /\ ChanStep
<1> SUFFICES ASSUME ChanType, [Next]_vars PROVE ChanType' /\ ChanStep
  OBVIOUS
<1> USE DEF ChanType, srcVars
<1>1. \A c \in Seq(Op) : c # <<>> => Tail(c) \in Seq(Op)
  OBVIOUS
<1>2. ASSUME NEW m \in Message, EmitStored(m) PROVE ChanType' /\ ChanStep
  BY <1>2 DEF EmitStored, ChanStep, MessageOp
<1>3. ASSUME NEW m \in Message, EmitDeleted(m) PROVE ChanType' /\ ChanStep
  BY <1>3 DEF EmitDeleted, ChanStep, MessageOp
<1>4. ASSUME NEW op \in senders, Send(op) PROVE ChanType' /\ ChanStep
  <2>1. op \in Op BY DEF Op
  <2> QED BY <1>4, <2>1 DEF Send, ChanStep
<1>5. ASSUME NEW kind, NextOp(kind), UNCHANGED senders PROVE ChanType' /\ ChanStep
  BY <1>1, <1>5 DEF NextOp, ChanStep
<1>6. CASE RunDispatch \/ RunDelete \/ RunAdd \/ RunRemove
  BY <1>5, <1>6 DEF RunDispatch, RunDelete, RunAdd, RunRemove
<1>7. ASSUME NEW l \in Listener, Connect(l) PROVE ChanType' /\ ChanStep
  <2>1. [do |-> "add", listener |-> l] \in Op BY DEF Op, ListenerOp
  <2> QED BY <1>7, <2>1 DEF Connect, ChanStep
<1>8. ASSUME NEW l \in Listener, NEW s \in Side, Unregister(l, s) PROVE ChanType' /\ ChanStep
  <2>1. [do |-> "remove", listener |-> l] \in Op BY DEF Op, ListenerOp
  <2> QED BY <1>8, <2>1 DEF Unregister, ChanStep
<1>9. CASE UNCHANGED <<opChan, senders>>
  BY <1>9 DEF ChanStep
<1> QED
  BY <1>2, <1>3, <1>4, <1>6, <1>7, <1>8, <1>9
  DEF Next, RunHub, RunSide, RunWriter, vars, SendOnClosed, Relay, RelayPanics, RelayDone, PlayBack,
      PlayBackPanics, AddDone, Cancel, Stop, Break, NoticeBreak, CloseSelect, CloseChannel, ClosePanics,
      Write, WriterSeesClose

-----------------------------------------------------------------------------
(* Channels that are closed are about to be unregistered *)

SideType ==
    /\ side \in [Listener -> [Side -> {"none", "run", "close", "unregister", "closing", "done"}]]
    /\ closed \subseteq Listener

(* The hub knows l, or will.                                               *)
Queued(l) == \E j \in DOMAIN opChan : opChan[j] = AddOp(l)
Registered(l) == l \in listeners \/ adding = l \/ Queued(l)

(* l's removal is queued, behind its addition if that is still queued.     *)
Leaves(l) ==
    \E k \in DOMAIN opChan :
        /\ opChan[k] = RemoveOp(l)
        /\ \A j \in DOMAIN opChan : opChan[j] = AddOp(l) => j < k

(* l's channel is closed, or will be next.                                 *)
Closing(l) == l \in closed \/ \E s \in Side : side[l][s] = "closing"

Unused(l) == \A s \in Side : side[l][s] = "none"

LeaveInv ==
    /\ ChanType
    /\ SideType
    /\ \A l \in Listener : Closing(l) /\ Registered(l) => Leaves(l)
    /\ \A l \in Listener : Unused(l) => l \notin closed

LEMMA AppendKeepsLeaving ==
    ASSUME ChanType, NEW op \in Op, opChan' = Append(opChan, op), NEW l, op # AddOp(l)
    PROVE  /\ Leaves(l) => Leaves(l)'
           /\ Queued(l)' => Queued(l)
           /\ op = RemoveOp(l) => Leaves(l)'
<1>1. /\ DOMAIN opChan' = 1 .. Len(opChan) + 1
      /\ DOMAIN opChan = 1 .. Len(opChan) /\ Len(opChan) \in Nat
      /\ \A k \in DOMAIN opChan : opChan'[k] = opChan[k]
      /\ opChan'[Len(opChan) + 1] = op
  BY ChanProperties DEF ChanType
<1>2. \A j \in DOMAIN opChan' : opChan'[j] = AddOp(l) => j \in DOMAIN opChan /\ opChan[j] = AddOp(l)
  BY <1>1
<1>3. Leaves(l) => Leaves(l)'
  <2>1. SUFFICES ASSUME Leaves(l) PROVE Leaves(l)'
    OBVIOUS
  <2>2. PICK k \in DOMAIN opChan : opChan[k] = RemoveOp(l)
                                   /\ \A j \in DOMAIN opChan : opChan[j] = AddOp(l) => j < k
    BY <2>1 DEF Leaves
  <2>3. k \in DOMAIN opChan' /\ opChan'[k] = RemoveOp(l)
    BY <1>1, <2>2
  <2> QED BY <1>2, <2>2, <2>3 DEF Leaves
<1>4. ASSUME op = RemoveOp(l) PROVE Leaves(l)'
  <2>1. Len(opChan) + 1 \in DOMAIN opChan' /\ opChan'[Len(opChan) + 1] = RemoveOp(l)
    BY <1>1, <1>4
  <2>2. \A j \in DOMAIN opChan' : opChan'[j] = AddOp(l) => j < Len(opChan) + 1
    BY <1>1, <1>2
  <2> QED BY <2>1, <2>2 DEF Leaves
<1> QED BY <1>2, <1>3, <1>4 DEF Queued

LEMMA TailKeepsLeaving ==
    ASSUME ChanType, opChan # <<>>, opChan' = Tail(opChan), NEW l
    PROVE  /\ Queued(l)' => Queued(l)
           /\ Leaves(l) /\ (Queued(l)' \/ Head(opChan) # RemoveOp(l)) => Leaves(l)'
<1>1. /\ DOMAIN opChan' = 1 .. Len(opChan) - 1
      /\ DOMAIN opChan = 1 .. Len(opChan) /\ Len(opChan) \in Nat \ {0}
      /\ \A k \in DOMAIN opChan' : opChan'[k] = opChan[k + 1]
      /\ Head(opChan) = opChan[1]
  BY TailProperties DEF ChanType
<1>2. \A j \in DOMAIN opChan' : j + 1 \in DOMAIN opChan
  BY <1>1
<1>3. ASSUME Leaves(l), Queued(l)' \/ Head(opChan) # RemoveOp(l) PROVE Leaves(l)'
  <2>1. PICK k \in DOMAIN opChan : opChan[k] = RemoveOp(l)
                                   /\ \A j \in DOMAIN opChan : opChan[j] = AddOp(l) => j < k
    BY <1>3 DEF Leaves
  <2>2. k > 1
    <3>1. CASE Queued(l)'
      <4>1. PICK j \in DOMAIN opChan' : opChan'[j] = AddOp(l)
        BY <3>1 DEF Queued
      <4>2. j \in Nat /\ j >= 1 /\ j + 1 \in DOMAIN opChan /\ opChan[j + 1] = AddOp(l)
        BY <1>1, <1>2, <4>1
      <4>3. j + 1 < k
        BY <2>1, <4>2
      <4> QED BY <1>1, <4>2, <4>3
    <3>2. CASE Head(opChan) # RemoveOp(l)
      BY <1>1, <2>1, <3>2
    <3> QED BY <1>3, <3>1, <3>2
  <2>3. k - 1 \in DOMAIN opChan' /\ opChan'[k - 1] = RemoveOp(l)
    BY <1>1, <2>1, <2>2
  <2>4. ASSUME NEW j \in DOMAIN opChan', opChan'[j] = AddOp(l) PROVE j < k - 1
    <3>1. j + 1 < k
      BY <1>1, <1>2, <2>1, <2>4
    <3> QED BY <1>1, <3>1
  <2> QED BY <2>3, <2>4 DEF Leaves
<1>4. Queued(l)' => Queued(l)
  BY <1>1, <1>2 DEF Queued
<1> QED BY <1>3, <1>4

(* What a step must keep to for l: it neither closes nor registers, and    *)
(* leaves a queued removal where it matters.                               *)
Calm(l) ==
    /\ Closing(l)' => Closing(l)
    /\ Registered(l)' => Registered(l)
    /\ Leaves(l) /\ Registered(l)' => Leaves(l)'
    /\ l \in closed' /\ Unused(l)' => l \in closed /\ Unused(l)

LEMMA CalmKeeps ==
    ASSUME LeaveInv, ChanType', SideType', \A l \in Listener : Calm(l)
    PROVE  LeaveInv'
BY DEF LeaveInv, Calm

LEMMA InitLeaveInv == Init => LeaveInv
<1> SUFFICES ASSUME Init PROVE LeaveInv
  OBVIOUS
<1>1. SideType
  BY DEF Init, SideType
<1>2. ASSUME NEW l \in Listener PROVE ~Closing(l)
  BY DEF Init, Closing
<1>3. ASSUME NEW l \in Listener PROVE l \notin closed
  BY DEF Init
<1> QED BY <1>1, <1>2, <1>3, InitChan DEF LeaveInv

(* A step that moves one goroutine of a websocket and touches no channel   *)
(* of the hub: it is calm unless it closes.                                *)
LEMMA MoveKeeps ==
    ASSUME LeaveInv, ChanType', NEW l \in Listener, NEW s \in Side,
           NEW step \in {"run", "close", "unregister", "done"}, MoveTo(l, s, step),
           UNCHANGED <<opChan, listeners, adding>>,
           closed' \subseteq closed \cup {k \in {l} : side[l][s] = "closing"}
    PROVE  LeaveInv'
<1>1. SideType /\ SideType'
  BY DEF LeaveInv, SideType, MoveTo
<1>2. side'[l][s] = step /\ \A k \in Listener, t \in Side : <<k, t>> # <<l, s>> => side'[k][t] = side[k][t]
  BY <1>1 DEF SideType, MoveTo
<1>3. ASSUME NEW k \in Listener PROVE Calm(k)
  <2>1. Closing(k)' => Closing(k)
    BY <1>2 DEF Closing
  <2>2. Registered(k)' = Registered(k) /\ Leaves(k)' = Leaves(k)
    BY DEF Registered, Queued, Leaves
  <2>3. k \in closed' /\ Unused(k)' => k \in closed /\ Unused(k)
    BY <1>2 DEF Unused
  <2> QED BY <2>1, <2>2, <2>3 DEF Calm
<1> QED BY <1>1, <1>3, CalmKeeps

(* A step of the hub or the broker that leaves the websockets alone.       *)
LEMMA HubKeeps ==
    ASSUME LeaveInv, ChanType', UNCHANGED <<side, closed>>,
           \A l \in Listener : Registered(l)' => Registered(l),
           \A l \in Listener : Leaves(l) /\ Registered(l)' => Leaves(l)'
    PROVE  LeaveInv'
BY CalmKeeps DEF LeaveInv, Calm, Closing, Unused, SideType

LEMMA NextLeaveInv == LeaveInv /\ [Next]_vars => LeaveInv'
<1> SUFFICES ASSUME LeaveInv, [Next]_vars PROVE LeaveInv'
  OBVIOUS
<1>1. ChanType /\ ChanType' /\ SideType
  BY NextChan DEF LeaveInv
<1>2. ASSUME UNCHANGED <<side, closed, opChan>>,
             listeners' \subseteq listeners \cup {adding}, adding' \in {adding, None}
      PROVE  LeaveInv'
  <2>1. \A l \in Listener : Registered(l)' => Registered(l)
    BY <1>2, HubAssumption DEF Registered, Queued
  <2>2. \A l \in Listener : Leaves(l)' = Leaves(l)
    BY <1>2 DEF Leaves
  <2> QED BY <1>1, <1>2, <2>1, <2>2, HubKeeps
<1>3. ASSUME NEW op \in senders, Send(op) PROVE LeaveInv'
  <2>1. op \in Op /\ \A l : op # AddOp(l)
    BY <1>1, OpsDiffer DEF ChanType, Op
  <2>2. opChan' = Append(opChan, op) /\ UNCHANGED <<side, closed, listeners, adding>>
    BY <1>3 DEF Send, sockVars, hubVars
  <2>3. \A l : (Leaves(l) => Leaves(l)') /\ (Queued(l)' => Queued(l))
    BY <1>1, <2>1, <2>2, AppendKeepsLeaving
  <2>4. \A l : Registered(l)' => Registered(l)
    BY <2>2, <2>3 DEF Registered
  <2> QED BY <1>1, <2>2, <2>3, <2>4, HubKeeps
<1>4. ASSUME NEW kind, NextOp(kind)
      PROVE  /\ opChan # <<>> /\ opChan' = Tail(opChan) /\ Head(opChan) \in Op /\ Head(opChan).do = kind
             /\ \A l : Queued(l)' => Queued(l)
             /\ \A l : Leaves(l) /\ (Queued(l)' \/ Head(opChan) # RemoveOp(l)) => Leaves(l)'
             /\ adding = None
  <2>1. opChan # <<>> /\ opChan' = Tail(opChan) /\ Head(opChan).do = kind /\ adding = None
    BY <1>4 DEF NextOp, HubIdle
  <2>2. Head(opChan) \in Op
    BY <1>1, <2>1, TailProperties DEF ChanType
  <2> QED BY <1>1, <2>1, <2>2, TailKeepsLeaving
<1>5. \A l : RemoveOp(l).do = "remove"
  BY DEF RemoveOp
<1>6. CASE RunDispatch \/ RunDelete
  <2>1. (NextOp("dispatch") \/ NextOp("delete")) /\ UNCHANGED <<side, closed, listeners, adding>>
    BY <1>6 DEF RunDispatch, RunDelete, sockVars
  <2>2. \A l : Head(opChan) # RemoveOp(l)
    BY <1>4, <1>5, <2>1
  <2>3. \A l : (Leaves(l) => Leaves(l)') /\ (Queued(l)' => Queued(l))
    BY <1>4, <2>1, <2>2
  <2>4. \A l : Registered(l)' => Registered(l)
    BY <2>1, <2>3 DEF Registered
  <2> QED BY <1>1, <2>1, <2>3, <2>4, HubKeeps
<1>7. CASE RunAdd
  <2>1. NextOp("add") /\ adding' = Head(opChan).listener /\ UNCHANGED <<side, closed, listeners>>
    BY <1>7 DEF RunAdd, sockVars
  <2>2. Head(opChan) = AddOp(adding') /\ \A l : Head(opChan) # RemoveOp(l)
    BY <1>4, <1>5, <2>1, OpKinds
  <2>3. \A l : (Leaves(l) => Leaves(l)') /\ (Queued(l)' => Queued(l))
    BY <1>4, <2>1, <2>2
  <2>4. Queued(adding')
    <3>1. 1 \in DOMAIN opChan /\ opChan[1] = Head(opChan)
      BY <1>1, <1>4, <2>1, TailProperties DEF ChanType
    <3> QED BY <2>2, <3>1 DEF Queued
  <2>5. \A l : Registered(l)' => Registered(l)
    BY <2>1, <2>3, <2>4 DEF Registered
  <2> QED BY <1>1, <2>1, <2>3, <2>5, HubKeeps
<1>8. CASE RunRemove
  <2> DEFINE r == Head(opChan).listener
  <2>1. NextOp("remove") /\ listeners' = listeners \ {r} /\ UNCHANGED <<side, closed, adding>>
    BY <1>8 DEF RunRemove, sockVars
  <2>2. Head(opChan) = RemoveOp(r) /\ adding = None
    BY <1>4, <2>1, OpKinds
  <2> HIDE DEF r
  <2>3. ASSUME NEW l \in Listener
        PROVE  (Registered(l)' => Registered(l)) /\ (Leaves(l) /\ Registered(l)' => Leaves(l)')
    <3>1. Registered(l)' => Registered(l)
      BY <1>4, <2>1 DEF Registered
    <3>2. CASE l = r
      <4>1. Registered(l)' => Queued(l)'
        BY <2>1, <2>2, <3>2, HubAssumption DEF Registered
      <4> QED BY <1>4, <2>1, <3>1, <4>1
    <3>3. CASE l # r
      <4>1. Head(opChan) # RemoveOp(l)
        BY <2>2, <3>3, OpsDiffer
      <4> QED BY <1>4, <2>1, <3>1, <4>1
    <3> QED BY <3>2, <3>3
  <2> QED BY <1>1, <2>1, <2>3, HubKeeps
<1>9. ASSUME NEW l \in Listener, Connect(l) PROVE LeaveInv'
  <2>1. /\ side[l] = [s \in Side |-> "none"] /\ side' = [side EXCEPT ![l] = [s \in Side |-> "run"]]
        /\ opChan' = Append(opChan, AddOp(l)) /\ UNCHANGED <<closed, listeners, adding>>
    BY <1>9 DEF Connect, AddOp, hubVars
  <2>2. /\ SideType' /\ \A s \in Side : side'[l][s] = "run"
        /\ \A k \in Listener \ {l} : side'[k] = side[k]
    BY <1>1, <2>1 DEF SideType
  <2>3. l \notin closed /\ ~Closing(l)' /\ ~Unused(l)'
    <3>1. Unused(l)
      BY <2>1 DEF Unused
    <3>2. l \notin closed
      BY <3>1 DEF LeaveInv
    <3>3. "reader" \in Side
      BY DEF Side
    <3> QED BY <2>1, <2>2, <3>2, <3>3 DEF Closing, Unused
  <2>4. AddOp(l) \in Op
    BY DEF Op, ListenerOp, AddOp
  <2>5. ASSUME NEW k \in Listener \ {l} PROVE Calm(k)
    <3>1. AddOp(l) # AddOp(k)
      BY OpsDiffer
    <3>2. (Leaves(k) => Leaves(k)') /\ (Queued(k)' => Queued(k))
      BY <1>1, <2>1, <2>4, <3>1, AppendKeepsLeaving
    <3> QED BY <2>1, <2>2, <3>2 DEF Calm, Closing, Registered, Unused
  <2> QED BY <1>1, <2>2, <2>3, <2>5 DEF LeaveInv, Calm
<1>10. ASSUME NEW l \in Listener, NEW s \in Side, Unregister(l, s) PROVE LeaveInv'
  <2>1. /\ MoveTo(l, s, "closing")
        /\ opChan' = Append(opChan, RemoveOp(l)) /\ UNCHANGED <<closed, listeners, adding>>
    BY <1>10 DEF Unregister, RemoveOp, hubVars
  <2>2. /\ SideType' /\ side'[l][s] = "closing"
        /\ \A k \in Listener \ {l} : side'[k] = side[k]
    BY <1>1, <2>1 DEF SideType, MoveTo
  <2>3. RemoveOp(l) \in Op /\ \A k : RemoveOp(l) # AddOp(k)
    BY OpsDiffer DEF Op, ListenerOp, RemoveOp
  <2>4. Leaves(l)' /\ \A k : (Leaves(k) => Leaves(k)') /\ (Queued(k)' => Queued(k))
    BY <1>1, <2>1, <2>3, AppendKeepsLeaving
  <2>5. ~Unused(l)'
    BY <2>2 DEF Unused
  <2>6. ASSUME NEW k \in Listener \ {l} PROVE Calm(k)
    BY <2>1, <2>2, <2>4 DEF Calm, Closing, Registered, Unused
  <2> QED BY <1>1, <2>2, <2>4, <2>5, <2>6 DEF LeaveInv, Calm
<1>11. ASSUME NEW l \in Listener, NEW s \in Side,
              NoticeBreak(l, s) \/ CloseSelect(l, s) \/ CloseChannel(l, s) \/ ClosePanics(l, s)
       PROVE  LeaveInv'
  <2>1. \E step \in {"run", "close", "unregister", "done"} : MoveTo(l, s, step)
    BY <1>11 DEF NoticeBreak, CloseSelect, CloseChannel, ClosePanics
  <2>2. UNCHANGED <<opChan, listeners, adding>>
    BY <1>11 DEF NoticeBreak, CloseSelect, CloseChannel, ClosePanics, hubVars
  <2>3. closed' \subseteq closed \cup {k \in {l} : side[l][s] = "closing"}
    BY <1>11 DEF NoticeBreak, CloseSelect, CloseChannel, ClosePanics
  <2> QED BY <1>1, <2>1, <2>2, <2>3, MoveKeeps
<1>12. ASSUME NEW l \in Listener, Write(l) \/ WriterSeesClose(l) PROVE LeaveInv'
  <2>1. UNCHANGED <<opChan, listeners, adding, closed>>
    BY <1>12 DEF Write, WriterSeesClose, hubVars
  <2>2. CASE UNCHANGED side
    BY <1>2, <2>1, <2>2
  <2>3. CASE MoveTo(l, "writer", "close")
    <3>1. "writer" \in Side BY DEF Side
    <3> QED BY <1>1, <2>1, <2>3, <3>1, MoveKeeps
  <2> QED BY <1>12, <2>2, <2>3 DEF Write, WriterSeesClose
<1>13. CASE AddDone \/ PlayBack \/ PlayBackPanics \/ RelayDone
  BY <1>2, <1>13 DEF AddDone, PlayBack, PlayBackPanics, RelayDone, sockVars
<1>14. ASSUME NEW l \in Listener, Relay(l) \/ RelayPanics(l) \/ Break(l) PROVE LeaveInv'
  BY <1>2, <1>14 DEF Relay, RelayPanics, Break, sockVars, hubVars
<1>15. ASSUME NEW m \in Message, EmitStored(m) \/ EmitDeleted(m) PROVE LeaveInv'
  BY <1>2, <1>15 DEF EmitStored, EmitDeleted, sockVars, hubVars
<1>16. ASSUME NEW op \in senders, SendOnClosed(op) PROVE LeaveInv'
  BY <1>2, <1>16 DEF SendOnClosed, sockVars, hubVars
<1>17. CASE Cancel \/ Stop \/ UNCHANGED vars
  BY <1>2, <1>17 DEF Cancel, Stop, vars, sockVars, hubVars
<1> QED
  BY <1>3, <1>6, <1>7, <1>8, <1>9, <1>10, <1>11, <1>12, <1>13, <1>14, <1>15, <1>16, <1>17
  DEF Next, RunHub, RunSide, RunWriter

LEMMA LeaveInvariant == Spec => []LeaveInv
<1>1. Init => LeaveInv BY InitLeaveInv
<1>2. LeaveInv /\ [Next]_vars => LeaveInv' BY NextLeaveInv
<1> QED BY <1>1, <1>2, PTL DEF Spec

(* A closed channel of a registered listener has its removal queued, so    *)
(* the hub sends on it only from operations ahead of the removal.          *)
THEOREM ClosedListenersLeave == Spec => []ClosedIsLeaving
<1>1. LeaveInv => ClosedIsLeaving
  <2> SUFFICES ASSUME LeaveInv, NEW l \in closed \cap listeners
               PROVE  QueuedToRemove(l)
    BY DEF ClosedIsLeaving
  <2> l \in Listener
    BY DEF LeaveInv, SideType
  <2> QED BY DEF LeaveInv, Closing, Registered, Leaves, QueuedToRemove, RemoveOp
<1> QED BY <1>1, LeaveInvariant, PTL

-----------------------------------------------------------------------------
(* The history *)

(* Where the dispatch of a message can be: waiting in its goroutine,       *)
(* queued, or done.                                                        *)
Waiting(m) == DispatchOp(m) \in senders
InChan(m) == \E k \in DOMAIN opChan : opChan[k] = DispatchOp(m)
Logged(m) == \E j \in DOMAIN log : log[j] = m

(* It is in one of these places, and once.                                 *)
Once(m) ==
    /\ Waiting(m) \/ InChan(m) \/ Logged(m) => m \in stored
    /\ ~(Waiting(m) /\ InChan(m)) /\ ~(Waiting(m) /\ Logged(m)) /\ ~(InChan(m) /\ Logged(m))
    /\ \A j, k \in DOMAIN opChan : opChan[j] = DispatchOp(m) /\ opChan[k] = DispatchOp(m) => j = k

RingType ==
    /\ log \in Seq(Message)
    /\ history \in [1 .. HistoryLen -> Message \cup {None}]
    /\ \A m \in removed : Logged(m)

HistInv == ChanType /\ RingType /\ HistoryExact /\ \A m \in Message : Once(m)

LEMMA InitHistInv == Init => HistInv
<1> SUFFICES ASSUME Init PROVE HistInv
  OBVIOUS
<1>1. log = <<>> /\ opChan = <<>> /\ senders = {} /\ removed = {} /\ Len(log) = 0
  BY DEF Init
<1>2. RingType
  BY <1>1 DEF Init, RingType
<1>3. HistoryExact
  <2> SUFFICES ASSUME NEW k \in 1 .. HistoryLen
               PROVE  history[k] = None /\ ~(Len(log) - HistoryLen + k >= 1)
    BY DEF HistoryExact
  <2> QED BY <1>1, HubAssumption DEF Init
<1>4. \A m \in Message : Once(m)
  BY <1>1 DEF Once, Waiting, InChan, Logged
<1> QED BY <1>2, <1>3, <1>4, InitChan DEF HistInv

(* A step that leaves the history alone and dispatches nothing anew.       *)
LEMMA OtherKeepsHist ==
    ASSUME HistInv, ChanType', UNCHANGED <<history, log, removed>>, stored \subseteq stored',
           \A m \in Message : Waiting(m)' => Waiting(m),
           \/ UNCHANGED opChan
           \/ \E op \in Op : opChan' = Append(opChan, op) /\ \A m \in Message : op # DispatchOp(m)
           \/ opChan # <<>> /\ opChan' = Tail(opChan)
    PROVE  HistInv'
<1>1. ChanType
  BY DEF HistInv
<1>2. ASSUME NEW m \in Message PROVE Once(m)'
  <2>1. Once(m) /\ Logged(m)' = Logged(m)
    BY DEF HistInv, Logged
  <2>2. CASE UNCHANGED opChan
    BY <2>1, <2>2 DEF Once, InChan
  <2>3. ASSUME NEW op \in Op, opChan' = Append(opChan, op), op # DispatchOp(m) PROVE Once(m)'
    <3>1. \A k \in DOMAIN opChan' :
            opChan'[k] = DispatchOp(m) => k \in DOMAIN opChan /\ opChan[k] = DispatchOp(m)
      BY <1>1, <2>3, ChanProperties DEF ChanType
    <3> QED BY <2>1, <3>1 DEF Once, InChan
  <2>4. CASE opChan # <<>> /\ opChan' = Tail(opChan)
    <3>1. \A k \in DOMAIN opChan' : k \in Nat /\ k + 1 \in DOMAIN opChan /\ opChan'[k] = opChan[k + 1]
      BY <1>1, <2>4, TailProperties DEF ChanType
    <3>2. InChan(m)' => InChan(m)
      BY <3>1 DEF InChan
    <3>3. ASSUME NEW j \in DOMAIN opChan', NEW k \in DOMAIN opChan',
                 opChan'[j] = DispatchOp(m), opChan'[k] = DispatchOp(m)
          PROVE  j = k
      <4>1. j + 1 = k + 1
        BY <2>1, <3>1, <3>3 DEF Once
      <4> QED BY <3>1, <4>1
    <3> QED BY <2>1, <3>2, <3>3 DEF Once
  <2> QED BY <2>2, <2>3, <2>4
<1>3. RingType' /\ HistoryExact'
  BY DEF HistInv, RingType, HistoryExact, Logged
<1> QED BY <1>2, <1>3 DEF HistInv

(* The ring moves on by one slot, which takes the message that is new.     *)
LEMMA DispatchKeepsHist ==
    ASSUME HistInv, ChanType', RunDispatch, HistoryLen # 0
    PROVE  HistInv'
<1>0. PICK m, n : m = Head(opChan).msg /\ n = Len(log)
  OBVIOUS
<1>1. /\ opChan # <<>> /\ opChan' = Tail(opChan) /\ Head(opChan).do = "dispatch"
      /\ history' = Append(Tail(history), m) /\ log' = Append(log, m) /\ UNCHANGED <<removed, senders, stored>>
  BY <1>0 DEF RunDispatch, NextOp, Remember, srcVars
<1>2. ChanType /\ RingType /\ HistoryExact /\ \A x \in Message : Once(x)
  BY DEF HistInv
<1>3. /\ Head(opChan) = opChan[1] /\ opChan[1] \in Op /\ 1 \in DOMAIN opChan
      /\ \A k \in DOMAIN opChan' : k \in Nat \ {0} /\ k + 1 \in DOMAIN opChan /\ opChan'[k] = opChan[k + 1]
  BY <1>1, <1>2, TailProperties DEF ChanType
<1>4. m \in Message /\ opChan[1] = DispatchOp(m)
  BY <1>0, <1>1, <1>3, OpKinds
<1>5. InChan(m) /\ ~Waiting(m) /\ ~Logged(m) /\ m \in stored
  BY <1>2, <1>3, <1>4 DEF Once, InChan
<1>6. ~InChan(m)'
  <2>1. \A k \in DOMAIN opChan : opChan[k] = DispatchOp(m) => k = 1
    BY <1>2, <1>3, <1>4 DEF Once
  <2>2. \A k \in DOMAIN opChan' : k + 1 # 1
    BY <1>3
  <2> QED BY <1>3, <2>1, <2>2 DEF InChan
<1>7. /\ n \in Nat /\ log' \in Seq(Message) /\ Len(log') = n + 1 /\ log'[n + 1] = m
      /\ DOMAIN log = 1 .. n /\ DOMAIN log' = 1 .. n + 1
      /\ \A j \in 1 .. n : log'[j] = log[j]
  BY <1>0, <1>1, <1>2, <1>4 DEF RingType
<1>8. \A x : Logged(x)' <=> Logged(x) \/ x = m
  <2>1. n + 1 \in DOMAIN log' /\ \A j \in DOMAIN log' : j \in DOMAIN log \/ j = n + 1
    BY <1>7
  <2>2. \A j \in DOMAIN log : j \in DOMAIN log' /\ log'[j] = log[j]
    BY <1>7
  <2> QED BY <1>7, <2>1, <2>2 DEF Logged
<1>9. ASSUME NEW x \in Message PROVE Once(x)'
  <2>1. Waiting(x)' = Waiting(x)
    BY <1>1 DEF Waiting
  <2>2. InChan(x)' => InChan(x)
    BY <1>3 DEF InChan
  <2>3. ASSUME NEW j \in DOMAIN opChan', NEW k \in DOMAIN opChan',
               opChan'[j] = DispatchOp(x), opChan'[k] = DispatchOp(x)
        PROVE  j = k
    <3>1. j + 1 = k + 1
      BY <1>2, <1>3, <2>3 DEF Once
    <3> QED BY <1>3, <3>1
  <2>4. CASE x = m
    BY <1>1, <1>5, <1>6, <2>1, <2>3, <2>4 DEF Once
  <2>5. CASE x # m
    BY <1>1, <1>2, <1>8, <2>1, <2>2, <2>3, <2>5 DEF Once
  <2> QED BY <2>4, <2>5
<1>10. /\ HistoryLen \in Nat \ {0}
       /\ history' \in [1 .. HistoryLen -> Message \cup {None}]
       /\ history'[HistoryLen] = m
       /\ \A k \in 1 .. HistoryLen - 1 : history'[k] = history[k + 1]
  <2>1. HistoryLen \in Nat \ {0}
    BY HubAssumption
  <2>2. history \in Seq(Message \cup {None}) /\ Len(history) = HistoryLen
    BY <1>2, <2>1 DEF RingType
  <2>3. /\ Tail(history) \in Seq(Message \cup {None}) /\ Len(Tail(history)) = HistoryLen - 1
        /\ \A k \in 1 .. HistoryLen - 1 : Tail(history)[k] = history[k + 1]
    BY <2>1, <2>2
  <2>4. /\ history' \in Seq(Message \cup {None}) /\ Len(history') = HistoryLen
        /\ history'[HistoryLen] = m
        /\ \A k \in 1 .. HistoryLen - 1 : history'[k] = Tail(history)[k]
    BY <1>1, <1>4, <2>1, <2>3
  <2> QED BY <2>1, <2>3, <2>4
<1>11. RingType'
  BY <1>1, <1>2, <1>7, <1>8, <1>10 DEF RingType
<1>12. HistoryExact'
  <2> SUFFICES ASSUME NEW k \in 1 .. HistoryLen, NEW j, j = Len(log') - HistoryLen + k
               PROVE  history'[k] = IF j >= 1 /\ log'[j] \notin removed THEN log'[j] ELSE None
    BY <1>1 DEF HistoryExact
  <2>1. CASE k = HistoryLen
    <3>1. j = n + 1 /\ j >= 1
      BY <1>7, <1>10, <2>1
    <3>2. m \notin removed
      BY <1>2, <1>5 DEF RingType
    <3> QED BY <1>7, <1>10, <2>1, <3>1, <3>2
  <2>2. CASE k # HistoryLen
    <3>1. k \in 1 .. HistoryLen - 1 /\ k + 1 \in 1 .. HistoryLen
      BY <1>10, <2>2
    <3>2. j = n - HistoryLen + (k + 1) /\ j <= n /\ j \in Int
      BY <1>7, <1>10, <3>1
    <3>3. history[k + 1] = IF j >= 1 /\ log[j] \notin removed THEN log[j] ELSE None
      BY <1>0, <1>2, <3>1, <3>2 DEF HistoryExact
    <3>4. history'[k] = history[k + 1]
      BY <1>10, <3>1
    <3>5. j >= 1 => log'[j] = log[j]
      BY <1>7, <3>2
    <3> QED BY <3>3, <3>4, <3>5
  <2> QED BY <2>1, <2>2
<1> QED BY <1>9, <1>11, <1>12 DEF HistInv

(* Delete clears the message's slot, and no other.                         *)
LEMMA DeleteKeepsHist ==
    ASSUME HistInv, ChanType', RunDelete, HistoryLen # 0
    PROVE  HistInv'
<1>0. PICK m : m = Head(opChan).msg
  OBVIOUS
<1>1. /\ opChan # <<>> /\ opChan' = Tail(opChan) /\ Head(opChan).do = "delete"
      /\ history' = Forget(m) /\ UNCHANGED <<log, senders, stored>>
      /\ removed' = IF \E k \in DOMAIN log : log[k] = m THEN removed \cup {m} ELSE removed
  BY <1>0 DEF RunDelete, NextOp, srcVars
<1>2. ChanType /\ RingType /\ HistoryExact /\ \A x \in Message : Once(x)
  BY DEF HistInv
<1>3. /\ Head(opChan) = opChan[1] /\ opChan[1] \in Op
      /\ \A k \in DOMAIN opChan' : k \in Nat /\ k + 1 \in DOMAIN opChan /\ opChan'[k] = opChan[k + 1]
  BY <1>1, <1>2, TailProperties DEF ChanType
<1>4. m \in Message /\ m # None
  BY <1>0, <1>1, <1>3, OpKinds, HubAssumption
<1>5. ASSUME NEW x \in Message PROVE Once(x)'
  <2>1. Waiting(x)' = Waiting(x) /\ Logged(x)' = Logged(x)
    BY <1>1 DEF Waiting, Logged
  <2>2. InChan(x)' => InChan(x)
    BY <1>3 DEF InChan
  <2>3. ASSUME NEW j \in DOMAIN opChan', NEW k \in DOMAIN opChan',
               opChan'[j] = DispatchOp(x), opChan'[k] = DispatchOp(x)
        PROVE  j = k
    <3>1. j + 1 = k + 1
      BY <1>2, <1>3, <2>3 DEF Once
    <3> QED BY <1>3, <3>1
  <2> QED BY <1>1, <1>2, <2>1, <2>2, <2>3 DEF Once
<1>6. RingType'
  <2>1. history' \in [1 .. HistoryLen -> Message \cup {None}]
    BY <1>1, <1>2 DEF RingType, Forget
  <2>2. \A x \in removed' : Logged(x)
    BY <1>1, <1>2 DEF RingType, Logged
  <2> QED BY <1>1, <1>2, <2>1, <2>2 DEF RingType, Logged
<1>7. HistoryExact'
  <2> SUFFICES ASSUME NEW k \in 1 .. HistoryLen, NEW j, j = Len(log) - HistoryLen + k
               PROVE  history'[k] = IF j >= 1 /\ log[j] \notin removed' THEN log[j] ELSE None
    BY <1>1 DEF HistoryExact
  <2>1. history[k] = IF j >= 1 /\ log[j] \notin removed THEN log[j] ELSE None
    BY <1>2 DEF HistoryExact
  <2>2. history'[k] = IF history[k] = m THEN None ELSE history[k]
    BY <1>1 DEF Forget
  <2>3. CASE j >= 1 /\ log[j] = m
    <3>1. j \in DOMAIN log
      BY <1>2, <2>3, HubAssumption DEF RingType
    <3>2. m \in removed'
      BY <1>1, <2>3, <3>1
    <3> QED BY <1>4, <2>1, <2>2, <2>3, <3>2
  <2>4. CASE ~(j >= 1 /\ log[j] = m)
    <3>1. \A x : x # m => (x \in removed' <=> x \in removed)
      BY <1>1
    <3> QED BY <1>4, <2>1, <2>2, <2>4, <3>1
  <2> QED BY <2>3, <2>4
<1> QED BY <1>5, <1>6, <1>7 DEF HistInv

LEMMA NextHistInv == HistInv /\ [Next]_vars => HistInv'
<1> SUFFICES ASSUME HistInv, [Next]_vars PROVE HistInv'
  OBVIOUS
<1>1. ChanType /\ ChanType' /\ ChanStep
  BY NextChan DEF HistInv
<1>2. \A m : DispatchOp(m).do = "dispatch"
  BY DEF DispatchOp
<1>3. ASSUME NEW m \in Message, EmitStored(m) PROVE HistInv'
  <2>1. /\ stored' = stored \cup {m} /\ m \notin stored /\ senders' = senders \cup {DispatchOp(m)}
        /\ UNCHANGED <<opChan, history, log, removed>>
    BY <1>3 DEF EmitStored, hubVars, DispatchOp
  <2>2. ASSUME NEW x \in Message PROVE Once(x)'
    <3>1. Once(x) /\ InChan(x)' = InChan(x) /\ Logged(x)' = Logged(x)
      BY <2>1 DEF HistInv, InChan, Logged
    <3>2. Waiting(x)' <=> Waiting(x) \/ x = m
      BY <2>1, OpsDiffer DEF Waiting
    <3> QED BY <2>1, <3>1, <3>2 DEF Once
  <2>3. RingType' /\ HistoryExact'
    BY <2>1 DEF HistInv, RingType, HistoryExact, Logged
  <2> QED BY <1>1, <2>2, <2>3 DEF HistInv
<1>4. ASSUME NEW m \in Message, EmitDeleted(m) PROVE HistInv'
  <2>1. \A x : [do |-> "delete", msg |-> m] # DispatchOp(x)
    BY <1>2
  <2>2. \A x \in Message : Waiting(x)' => Waiting(x)
    BY <1>4, <2>1 DEF EmitDeleted, Waiting
  <2> QED BY <1>1, <1>4, <2>2, OtherKeepsHist DEF EmitDeleted, hubVars
<1>5. ASSUME NEW op \in senders, Send(op) PROVE HistInv'
  <2>1. /\ opChan' = Append(opChan, op) /\ senders' = senders \ {op}
        /\ UNCHANGED <<stored, history, log, removed>>
    BY <1>5 DEF Send, hubVars
  <2>2. op \in Op
    BY <1>1 DEF ChanType, Op
  <2>3. CASE \A m \in Message : op # DispatchOp(m)
    <3>1. \A x \in Message : Waiting(x)' => Waiting(x)
      BY <2>1 DEF Waiting
    <3> QED BY <1>1, <2>1, <2>2, <2>3, <3>1, OtherKeepsHist
  <2>4. ASSUME NEW m \in Message, op = DispatchOp(m) PROVE HistInv'
    <3>1. /\ DOMAIN opChan' = 1 .. Len(opChan) + 1 /\ DOMAIN opChan = 1 .. Len(opChan) /\ Len(opChan) \in Nat
          /\ \A k \in DOMAIN opChan : opChan'[k] = opChan[k]
          /\ opChan'[Len(opChan) + 1] = op
      BY <1>1, <2>1, <2>2, ChanProperties DEF ChanType
    <3>2. ASSUME NEW x \in Message PROVE Once(x)'
      <4>1. Once(x) /\ Logged(x)' = Logged(x)
        BY <2>1 DEF HistInv, Logged
      <4>2. CASE x = m
        <5>1. Waiting(x) /\ ~Waiting(x)'
          BY <2>1, <2>4, <4>2 DEF Waiting
        <5>2. ~InChan(x) /\ ~Logged(x) /\ x \in stored
          BY <4>1, <5>1 DEF Once
        <5>3. \A k \in DOMAIN opChan' : opChan'[k] = DispatchOp(x) => k = Len(opChan) + 1
          BY <3>1, <5>2 DEF InChan
        <5> QED BY <2>1, <4>1, <5>1, <5>2, <5>3 DEF Once
      <4>3. CASE x # m
        <5>1. op # DispatchOp(x)
          BY <2>4, <4>3, OpsDiffer
        <5>2. Waiting(x)' = Waiting(x)
          BY <2>1, <5>1 DEF Waiting
        <5>3. \A k \in DOMAIN opChan' :
                opChan'[k] = DispatchOp(x) => k \in DOMAIN opChan /\ opChan[k] = DispatchOp(x)
          BY <3>1, <5>1
        <5> QED BY <2>1, <4>1, <5>2, <5>3 DEF Once, InChan
      <4> QED BY <4>2, <4>3
    <3>3. RingType' /\ HistoryExact'
      BY <2>1 DEF HistInv, RingType, HistoryExact, Logged
    <3> QED BY <1>1, <3>2, <3>3 DEF HistInv
  <2> QED BY <2>3, <2>4
<1>6. ASSUME UNCHANGED <<history, log, removed, senders, stored>>,
             UNCHANGED opChan \/ (opChan # <<>> /\ opChan' = Tail(opChan))
      PROVE  HistInv'
  <2>1. \A x \in Message : Waiting(x)' => Waiting(x)
    BY <1>6 DEF Waiting
  <2> QED BY <1>1, <1>6, <2>1, OtherKeepsHist
<1>7. ASSUME NEW l \in Listener, NEW op \in {AddOp(l), RemoveOp(l)}, opChan' = Append(opChan, op),
             UNCHANGED <<history, log, removed, senders, stored>>
      PROVE  HistInv'
  <2>1. op \in Op
    BY DEF Op, ListenerOp, AddOp, RemoveOp
  <2>2. \A m \in Message : op # DispatchOp(m)
    BY OpsDiffer
  <2>3. \A x \in Message : Waiting(x)' => Waiting(x)
    BY <1>7 DEF Waiting
  <2> QED BY <1>1, <1>7, <2>1, <2>2, <2>3, OtherKeepsHist
<1>8. CASE RunDispatch
  <2>1. CASE HistoryLen = 0
    BY <1>6, <1>8, <2>1 DEF RunDispatch, NextOp, srcVars
  <2>2. CASE HistoryLen # 0
    BY <1>1, <1>8, <2>2, DispatchKeepsHist
  <2> QED BY <2>1, <2>2
<1>9. CASE RunDelete
  <2>1. CASE HistoryLen = 0
    BY <1>6, <1>9, <2>1 DEF RunDelete, NextOp, srcVars
  <2>2. CASE HistoryLen # 0
    BY <1>1, <1>9, <2>2, DeleteKeepsHist
  <2> QED BY <2>1, <2>2
<1>10. CASE RunAdd \/ RunRemove
  BY <1>6, <1>10 DEF RunAdd, RunRemove, NextOp, srcVars
<1>11. ASSUME NEW l \in Listener, Relay(l) \/ RelayPanics(l) \/ Break(l) \/ Write(l) \/ WriterSeesClose(l)
       PROVE  HistInv'
  BY <1>6, <1>11 DEF Relay, RelayPanics, Break, Write, WriterSeesClose, srcVars, hubVars
<1>12. CASE AddDone \/ PlayBack \/ PlayBackPanics \/ RelayDone \/ Cancel \/ Stop \/ UNCHANGED vars
  BY <1>6, <1>12 DEF AddDone, PlayBack, PlayBackPanics, RelayDone, Cancel, Stop, vars, srcVars, hubVars
<1>13. ASSUME NEW l \in Listener, Connect(l) PROVE HistInv'
  BY <1>7, <1>13 DEF Connect, AddOp, srcVars, hubVars
<1>14. ASSUME NEW l \in Listener, NEW s \in Side, Unregister(l, s) PROVE HistInv'
  BY <1>7, <1>14 DEF Unregister, RemoveOp, srcVars, hubVars
<1>15. ASSUME NEW l \in Listener, NEW s \in Side,
              NoticeBreak(l, s) \/ CloseSelect(l, s) \/ CloseChannel(l, s) \/ ClosePanics(l, s)
       PROVE  HistInv'
  BY <1>6, <1>15 DEF NoticeBreak, CloseSelect, CloseChannel, ClosePanics, srcVars, hubVars
<1>16. ASSUME NEW op \in senders, SendOnClosed(op) PROVE HistInv'
  BY <1>6, <1>16 DEF SendOnClosed, srcVars, hubVars
<1> QED
  BY <1>3, <1>4, <1>5, <1>8, <1>9, <1>10, <1>11, <1>12, <1>13, <1>14, <1>15, <1>16
  DEF Next, RunHub, RunSide, RunWriter

LEMMA HistInvariant == Spec => []HistInv
<1>1. Init => HistInv BY InitHistInv
<1>2. HistInv /\ [Next]_vars => HistInv' BY NextHistInv
<1> QED BY <1>1, <1>2, PTL DEF Spec

(* The ring is the last messages dispatched, in order, with holes where    *)
(* they were deleted since, however events, deletions, listeners and their *)
(* breaks interleave.                                                      *)
THEOREM HistoryIsExact == Spec => []HistoryExact
<1>1. HistInv => HistoryExact BY DEF HistInv
<1> QED BY <1>1, HistInvariant, PTL

-----------------------------------------------------------------------------
(* Filters *)

(* Induction over the naturals as a statement about sets: the library's    *)
(* NatInduction takes a predicate, which the provers cannot instantiate.   *)
(* A set of naturals with 0 and every successor holds them all: the least  *)
(* natural outside it could be neither.                                    *)
LEMMA NatSetInduction ==
    ASSUME NEW T, T \subseteq Nat, 0 \in T, \A n \in T : n + 1 \in T
    PROVE  T = Nat
<1> DEFINE R == {ss \in Nat \X Nat : ss[1] < ss[2]}
           U == Nat \ T
<1>1. SUFFICES ASSUME U # {} PROVE FALSE
  OBVIOUS
<1>2. IsWellFoundedOn(R, Nat)
  BY NatLessThanWellFounded DEF OpToRel
<1>3. \A x, y \in Nat : x < y => <<x, y>> \in R
  OBVIOUS
<1> HIDE DEF R
<1>4. PICK x \in U : \A y \in U : ~ (<<y, x>> \in R)
  <2>1. U \subseteq Nat OBVIOUS
  <2> HIDE DEF U
  <2> QED BY <2>1, <1>1, <1>2, WFMin
<1>5. x # 0 /\ x - 1 \in Nat /\ x - 1 < x /\ x - 1 + 1 = x
  OBVIOUS
<1>6. x - 1 \in U
  BY <1>5
<1> QED BY <1>3, <1>4, <1>5, <1>6

(* One pass of the filter.                                                 *)
Pass(s, S, g, k) ==
    IF k = 0 THEN <<>> ELSE IF s[k] \in S THEN Append(g[k - 1], s[k]) ELSE g[k - 1]

(* The recursion of Kept defines a function: what it has after k elements. *)
LEMMA KeptUnfolds ==
    ASSUME NEW A, NEW s \in Seq(A), NEW S
    PROVE  \E f \in [0 .. Len(s) -> Seq(S)] :
             /\ f[0] = <<>>
             /\ \A k \in 1 .. Len(s) : f[k] = IF s[k] \in S THEN Append(f[k - 1], s[k]) ELSE f[k - 1]
             /\ Kept(s, S) = f[Len(s)]
<1> DEFINE n == Len(s)
           T == {k \in Nat : k <= n =>
                    \E f \in [0 .. k -> Seq(S)] : \A i \in 0 .. k : f[i] = Pass(s, S, f, i)}
           kept == CHOOSE f : f = [k \in 0 .. n |-> Pass(s, S, f, k)]
<1>1. n \in Nat
  OBVIOUS
<1>2. \A g, k : k \in 1 .. n /\ g[k-1] \in Seq(S) => Pass(s, S, g, k) \in Seq(S)
  <2> TAKE g, k
  <2> HAVE k \in 1 .. n /\ g[k-1] \in Seq(S)
  <2>1. k # 0
    OBVIOUS
  <2>2. CASE s[k] \in S
    <3>1. Append(g[k-1], s[k]) \in Seq(S)
      BY <2>2, AppendProperties
    <3> QED BY <2>1, <2>2, <3>1 DEF Pass
  <2>3. CASE s[k] \notin S
    BY <2>1, <2>3 DEF Pass
  <2> QED BY <2>2, <2>3
<1>3. \A g : Pass(s, S, g, 0) = <<>>
  BY DEF Pass
<1>4. <<>> \in Seq(S)
  OBVIOUS
<1>5. 0 \in T
  <2>1. [i \in 0 .. 0 |-> <<>>] \in [0 .. 0 -> Seq(S)]
    BY <1>4
  <2>2. \A i \in 0 .. 0 : [j \in 0 .. 0 |-> <<>>][i] = Pass(s, S, [j \in 0 .. 0 |-> <<>>], i)
    <3>1. \A i \in 0 .. 0 : i = 0 OBVIOUS
    <3> HIDE DEF T
    <3> QED BY <3>1, <1>3
  <2>3. \E f \in [0 .. 0 -> Seq(S)] : \A i \in 0 .. 0 : f[i] = Pass(s, S, f, i)
    BY <2>1, <2>2
  <2> QED BY <2>3
<1>6. ASSUME NEW k \in T PROVE k + 1 \in T
  <2>1. k \in Nat /\ k + 1 \in Nat
    OBVIOUS
  <2>2. SUFFICES ASSUME k + 1 <= n
                 PROVE  \E f \in [0 .. k+1 -> Seq(S)] : \A i \in 0 .. k+1 : f[i] = Pass(s, S, f, i)
    BY <2>1
  <2>3. PICK f \in [0 .. k -> Seq(S)] : \A i \in 0 .. k : f[i] = Pass(s, S, f, i)
    <3>1. k <= n BY <1>1, <2>1, <2>2
    <3> HIDE DEF n
    <3> QED BY <3>1
  <2> DEFINE g == [i \in 0 .. k+1 |-> IF i = k + 1 THEN Pass(s, S, f, k + 1) ELSE f[i]]
  <2>4. Pass(s, S, f, k + 1) \in Seq(S)
    <3>1. k + 1 \in 1 .. n /\ f[(k + 1) - 1] \in Seq(S)
      BY <1>1, <2>1, <2>2
    <3> QED BY <1>2, <3>1, Zenon
  <2>5. g \in [0 .. k+1 -> Seq(S)]
    BY <2>1, <2>4
  <2>6. ASSUME NEW i \in 0 .. k+1 PROVE g[i] = Pass(s, S, g, i)
    <3>1. CASE i = 0
      BY <3>1, <2>1, <2>3, <1>3
    <3>2. CASE i # 0
      <4>1. i \in 1 .. n /\ i - 1 \in 0 .. k /\ g[i-1] = f[i-1]
        BY <3>2, <2>1, <2>2, <1>1
      <4>2. Pass(s, S, g, i) = Pass(s, S, f, i)
        <5> HIDE DEF g
        <5> QED BY <4>1 DEF Pass
      <4> QED BY <4>2, <2>1, <2>3
    <3> QED BY <3>1, <3>2
  <2> QED BY <2>5, <2>6
<1>7. \E f \in [0 .. n -> Seq(S)] : \A k \in 0 .. n : f[k] = Pass(s, S, f, k)
  <2>1. T = Nat
    <3> HIDE DEF T
    <3>1. T \subseteq Nat BY DEF T
    <3> QED BY <3>1, <1>5, <1>6, NatSetInduction
  <2>2. n \in T
    BY <2>1, <1>1
  <2> QED BY <1>1, <2>2
<1>8. kept = [k \in 0 .. n |-> Pass(s, S, kept, k)]
  <2>1. PICK f \in [0 .. n -> Seq(S)] : \A k \in 0 .. n : f[k] = Pass(s, S, f, k)
    BY <1>7
  <2>2. f = [k \in 0 .. n |-> Pass(s, S, f, k)]
    BY <2>1
  <2> QED BY <2>2, Zenon
<1>9. Kept(s, S) = kept[n]
  BY DEF Kept, Pass
<1> DEFINE U == {k \in Nat : k <= n => kept[k] \in Seq(S)}
<1> HIDE DEF kept
<1>10. 0 \in U
  BY <1>1, <1>3, <1>4, <1>8
<1>11. ASSUME NEW k \in U PROVE k + 1 \in U
  <2>1. k \in Nat /\ k + 1 \in Nat /\ (k <= n => kept[k] \in Seq(S))
    OBVIOUS
  <2>2. ASSUME k + 1 <= n PROVE kept[k + 1] \in Seq(S)
    <3>1. k + 1 \in 1 .. n /\ k + 1 \in 0 .. n /\ kept[(k + 1) - 1] \in Seq(S)
      BY <1>1, <2>1, <2>2
    <3>2. kept[k + 1] = Pass(s, S, kept, k + 1)
      BY <1>8, <3>1
    <3>3. Pass(s, S, kept, k + 1) \in Seq(S)
      BY <1>2, <3>1, Zenon
    <3> QED BY <3>2, <3>3
  <2> QED BY <2>1, <2>2
<1>12. U = Nat
  <2> HIDE DEF U
  <2>1. U \subseteq Nat BY DEF U
  <2> QED BY <1>10, <1>11, <2>1, NatSetInduction
<1>13. kept \in [0 .. n -> Seq(S)]
  <2>1. \A k \in 0 .. n : k \in U /\ kept[k] \in Seq(S)
    BY <1>1, <1>12
  <2>2. kept = [k \in 0 .. n |-> kept[k]]
    BY <1>8
  <2> QED BY <2>1, <2>2
<1>14. kept[0] = <<>>
  BY <1>1, <1>3, <1>8
<1>15. ASSUME NEW k \in 1 .. n PROVE kept[k] = IF s[k] \in S THEN Append(kept[k - 1], s[k]) ELSE kept[k - 1]
  <2>1. k \in 0 .. n /\ k # 0
    OBVIOUS
  <2>2. kept[k] = Pass(s, S, kept, k)
    BY <1>8, <2>1
  <2> QED BY <2>1, <2>2 DEF Pass
<1> QED BY <1>9, <1>13, <1>14, <1>15

(* Two sequences whose members match, but for a head the first filter      *)
(* drops whole, are filtered to the same.                                  *)
LEMMA KeptSame ==
    ASSUME NEW A, NEW h \in Seq(A), NEW S, NEW B, NEW t \in Seq(B), NEW T, NEW d \in Nat,
           Len(h) = d + Len(t), \A k \in 1 .. d : h[k] \notin S,
           \A k \in 1 .. Len(t) : (h[d + k] \in S <=> t[k] \in T) /\ (t[k] \in T => h[d + k] = t[k])
    PROVE  Kept(h, S) = Kept(t, T)
<1>1. Len(h) \in Nat /\ Len(t) \in Nat
  OBVIOUS
<1>2. PICK f \in [0 .. Len(h) -> Seq(S)] :
        /\ f[0] = <<>>
        /\ \A k \in 1 .. Len(h) : f[k] = IF h[k] \in S THEN Append(f[k - 1], h[k]) ELSE f[k - 1]
        /\ Kept(h, S) = f[Len(h)]
  BY KeptUnfolds
<1>3. PICK g \in [0 .. Len(t) -> Seq(T)] :
        /\ g[0] = <<>>
        /\ \A k \in 1 .. Len(t) : g[k] = IF t[k] \in T THEN Append(g[k - 1], t[k]) ELSE g[k - 1]
        /\ Kept(t, T) = g[Len(t)]
  BY KeptUnfolds
<1> DEFINE U == {k \in Nat : k <= d => f[k] = <<>>}
           V == {k \in Nat : k <= Len(t) => f[d + k] = g[k]}
<1>4. U = Nat
  <2>1. 0 \in U BY <1>2
  <2>2. ASSUME NEW k \in U PROVE k + 1 \in U
    <3>1. k \in Nat OBVIOUS
    <3>2. ASSUME k + 1 <= d PROVE f[k + 1] = <<>>
      <4>1. k + 1 \in 1 .. Len(h) /\ k + 1 \in 1 .. d /\ (k + 1) - 1 = k /\ f[k] = <<>>
        BY <1>1, <3>1, <3>2
      <4>2. f[k + 1] = f[(k + 1) - 1]
        BY <1>2, <4>1
      <4> QED BY <4>1, <4>2
    <3> QED BY <3>1, <3>2
  <2> HIDE DEF U
  <2>3. U \subseteq Nat BY DEF U
  <2> QED BY <2>1, <2>2, <2>3, NatSetInduction
<1>5. f[d] = <<>>
  <2>1. d \in U BY <1>4
  <2> QED BY <2>1
<1>6. V = Nat
  <2>1. 0 \in V BY <1>3, <1>5
  <2>2. ASSUME NEW k \in V PROVE k + 1 \in V
    <3>1. k \in Nat OBVIOUS
    <3>2. ASSUME k + 1 <= Len(t) PROVE f[d + (k + 1)] = g[k + 1]
      <4>1. /\ k + 1 \in 1 .. Len(t) /\ (k + 1) - 1 = k
            /\ d + (k + 1) \in 1 .. Len(h) /\ (d + (k + 1)) - 1 = d + k
            /\ f[d + k] = g[k]
        BY <1>1, <3>1, <3>2
      <4>2. g[k + 1] = IF t[k + 1] \in T THEN Append(g[k], t[k + 1]) ELSE g[k]
        BY <1>3, <4>1
      <4>3. f[d + (k + 1)] = IF h[d + (k + 1)] \in S THEN Append(f[d + k], h[d + (k + 1)]) ELSE f[d + k]
        BY <1>2, <4>1
      <4>4. (h[d + (k + 1)] \in S <=> t[k + 1] \in T) /\ (t[k + 1] \in T => h[d + (k + 1)] = t[k + 1])
        BY <4>1
      <4> QED BY <4>1, <4>2, <4>3, <4>4
    <3> QED BY <3>1, <3>2
  <2> HIDE DEF V
  <2>3. V \subseteq Nat BY DEF V
  <2> QED BY <2>1, <2>2, <2>3, NatSetInduction
<1>7. f[d + Len(t)] = g[Len(t)]
  <2>1. Len(t) \in V BY <1>1, <1>6
  <2> QED BY <1>1, <2>1
<1> QED BY <1>2, <1>3, <1>7

(* The ring holds for a listener what the log says it should.              *)
LEMMA ReplayIsRecent ==
    ASSUME HistInv, NEW l \in Listener
    PROVE  Replay(l) = Recent(l) /\ Replay(l) \in Seq(Message)
<1> DEFINE n == IF Len(log) > HistoryLen THEN Len(log) - HistoryLen ELSE 0
           t == SubSeq(log, n + 1, Len(log))
           d == HistoryLen - Len(t)
           W == Watches[l]
<1>1. /\ HistoryLen \in Nat /\ log \in Seq(Message) /\ Len(log) \in Nat
      /\ history \in [1 .. HistoryLen -> Message \cup {None}]
      /\ W \subseteq Message /\ None \notin W
  BY HubAssumption DEF HistInv, RingType
<1>2. history \in Seq(Message \cup {None}) /\ Len(history) = HistoryLen
  BY <1>1
<1>3. /\ n \in Nat /\ n <= Len(log)
      /\ t \in Seq(Message) /\ Len(t) = Len(log) - n
      /\ \A k \in 1 .. Len(log) - n : t[k] = log[n + k]
  <2>1. n \in Nat /\ n <= Len(log)
    BY <1>1
  <2> HIDE DEF n
  <2> QED BY <1>1, <2>1
<1> HIDE DEF t, W
<1>4. /\ d \in Nat /\ HistoryLen = d + Len(t) /\ Len(t) \in Nat
      /\ Len(log) - HistoryLen + d <= n /\ (d > 0 => Len(log) - HistoryLen + d = 0)
      /\ Len(log) - HistoryLen + d = n
  BY <1>1, <1>3
<1>5. \A k \in 1 .. Len(t) : Len(log) - HistoryLen + (d + k) = n + k
  <2> HIDE DEF n, d
  <2> QED BY <1>1, <1>3, <1>4
<1> HIDE DEF n, d
<1>6. \A k \in 1 .. d : history[k] = None
  <2> SUFFICES ASSUME NEW k \in 1 .. d PROVE history[k] = None
    OBVIOUS
  <2>1. k \in 1 .. HistoryLen /\ ~(Len(log) - HistoryLen + k >= 1)
    BY <1>1, <1>4
  <2> QED BY <2>1 DEF HistInv, HistoryExact
<1>7. ASSUME NEW k \in 1 .. Len(t)
      PROVE  history[d + k] = IF t[k] \notin removed THEN t[k] ELSE None
  <2>1. Len(t) \in Nat /\ d + k \in 1 .. HistoryLen /\ n + k >= 1 /\ t[k] = log[n + k]
    BY <1>1, <1>3, <1>4
  <2>2. \A i \in 1 .. HistoryLen :
          history[i] = IF Len(log) - HistoryLen + i >= 1 /\ log[Len(log) - HistoryLen + i] \notin removed
                       THEN log[Len(log) - HistoryLen + i] ELSE None
    BY DEF HistInv, HistoryExact
  <2>3. Len(log) - HistoryLen + (d + k) = n + k
    BY <1>5
  <2> QED BY <2>1, <2>2, <2>3
<1>8. \A k \in 1 .. d : history[k] \notin W
  BY <1>1, <1>6
<1>9. \A k \in 1 .. Len(t) : /\ history[d + k] \in W <=> t[k] \in W \ removed
                             /\ t[k] \in W \ removed => history[d + k] = t[k]
  BY <1>1, <1>7
<1>10. Kept(history, W) = Kept(t, W \ removed)
  <2>1. Len(history) = d + Len(t)
    BY <1>2, <1>4
  <2>2. t \in Seq(Message) /\ d \in Nat
    BY <1>3, <1>4
  <2> QED BY <1>2, <1>8, <1>9, <2>1, <2>2, KeptSame
<1>11. Kept(history, W) \in Seq(Message)
  <2>1. \E f \in [0 .. Len(history) -> Seq(W)] : Kept(history, W) = f[Len(history)]
    BY <1>2, KeptUnfolds
  <2>2. Kept(history, W) \in Seq(W)
    BY <1>1, <1>2, <2>1
  <2> QED BY <1>1, <2>2, SeqMonotonic
<1> QED BY <1>10, <1>11 DEF Replay, Recent, n, t, W

-----------------------------------------------------------------------------
(* Types *)

(* What is written, queued and pending, when an event moves on.            *)
LEMMA AppendLast ==
    ASSUME NEW g \in Seq(Event), NEW q \in Seq(Event), NEW e \in Event
    PROVE  /\ g \o q \in Seq(Event) /\ g \o q \o <<>> = g \o q
           /\ Append(g \o q, e) = g \o q \o <<e>>
<1> HIDE DEF Event
<1>1. g \o q \in Seq(Event)
  OBVIOUS
<1> QED BY <1>1, AppendIsConcat, ConcatEmptySeq

LEMMA QueuePending ==
    ASSUME NEW g \in Seq(Event), NEW q \in Seq(Event), NEW p \in Seq(Event), NEW e \in Event
    PROVE  g \o Append(q, e) \o p = g \o q \o (<<e>> \o p)
<1> HIDE DEF Event
<1>1. <<e>> \in Seq(Event) /\ g \o q \in Seq(Event)
  OBVIOUS
<1>2. Append(q, e) = q \o <<e>>
  BY AppendIsConcat
<1>3. g \o (q \o <<e>>) = (g \o q) \o <<e>>
  BY <1>1, ConcatAssociative
<1>4. ((g \o q) \o <<e>>) \o p = (g \o q) \o (<<e>> \o p)
  BY <1>1, ConcatAssociative
<1> QED BY <1>2, <1>3, <1>4

LEMMA WriteQueued ==
    ASSUME NEW g \in Seq(Event), NEW q \in Seq(Event), q # <<>>
    PROVE  Append(g, Head(q)) \o Tail(q) = g \o q
<1> HIDE DEF Event
<1>1. Head(q) \in Event /\ Tail(q) \in Seq(Event) /\ q = <<Head(q)>> \o Tail(q)
  BY HeadTailProperties
<1>2. Append(g, Head(q)) = g \o <<Head(q)>> /\ <<Head(q)>> \in Seq(Event)
  BY <1>1, AppendIsConcat
<1>3. (g \o <<Head(q)>>) \o Tail(q) = g \o (<<Head(q)>> \o Tail(q))
  BY <1>1, <1>2, ConcatAssociative
<1> QED BY <1>1, <1>2, <1>3

LEMMA StoredEventsOf ==
    ASSUME NEW s \in Seq(Message)
    PROVE  /\ StoredEvents(s) \in Seq(Event)
           /\ StoredEvents(<<>>) = <<>>
           /\ s # <<>> => /\ [variant |-> "stored", msg |-> Head(s)] \in Event
                          /\ Tail(s) \in Seq(Message)
                          /\ StoredEvents(s) =
                               <<[variant |-> "stored", msg |-> Head(s)]>> \o StoredEvents(Tail(s))
<1> DEFINE E(m) == [variant |-> "stored", msg |-> m]
<1>1. \A m \in Message : E(m) \in Event
  BY DEF Event
<1> HIDE DEF E
<1>2. ASSUME NEW t \in Seq(Message)
      PROVE  /\ StoredEvents(t) \in Seq(Event) /\ Len(StoredEvents(t)) = Len(t)
             /\ \A k \in 1 .. Len(t) : StoredEvents(t)[k] = E(t[k])
  <2>1. StoredEvents(t) = [k \in 1 .. Len(t) |-> E(t[k])]
    BY DEF StoredEvents, E
  <2>2. \A k \in 1 .. Len(t) : E(t[k]) \in Event
    BY <1>1
  <2> QED BY <2>1, <2>2
<1>3. StoredEvents(<<>>) = <<>>
  BY DEF StoredEvents
<1>4. ASSUME s # <<>>
      PROVE  /\ E(Head(s)) \in Event /\ Tail(s) \in Seq(Message)
             /\ StoredEvents(s) = <<E(Head(s))>> \o StoredEvents(Tail(s))
  <2>1. /\ Head(s) \in Message /\ Tail(s) \in Seq(Message) /\ Len(s) \in Nat \ {0}
        /\ Len(Tail(s)) = Len(s) - 1 /\ Head(s) = s[1]
        /\ \A k \in 1 .. Len(s) - 1 : Tail(s)[k] = s[k + 1]
    BY <1>4
  <2>2. E(Head(s)) \in Event
    BY <1>1, <2>1
  <2> DEFINE a == StoredEvents(s)
             b == StoredEvents(Tail(s))
             c == <<E(Head(s))>> \o b
  <2>3. a \in Seq(Event) /\ b \in Seq(Event) /\ Len(a) = Len(s) /\ Len(b) = Len(s) - 1
    BY <1>2, <2>1
  <2>4. /\ c \in Seq(Event) /\ Len(c) = Len(s) /\ c[1] = E(Head(s))
        /\ \A k \in 2 .. Len(s) : c[k] = b[k - 1]
    <3>1. <<E(Head(s))>> \in Seq(Event) /\ Len(<<E(Head(s))>>) = 1 /\ <<E(Head(s))>>[1] = E(Head(s))
      BY <2>2
    <3> HIDE DEF a, b, Event
    <3>2. /\ c \in Seq(Event) /\ Len(c) = 1 + Len(b)
          /\ \A k \in 1 .. 1 + Len(b) : c[k] = IF k <= 1 THEN <<E(Head(s))>>[k] ELSE b[k - 1]
      BY <2>3, <3>1, ConcatProperties
    <3> HIDE DEF c
    <3> QED BY <2>1, <2>3, <3>1, <3>2
  <2>5. \A k \in 2 .. Len(s) : b[k - 1] = E(s[k])
    <3> SUFFICES ASSUME NEW k \in 2 .. Len(s) PROVE b[k - 1] = E(s[k])
      OBVIOUS
    <3>1. k - 1 \in 1 .. Len(Tail(s)) /\ Tail(s)[k - 1] = s[k]
      BY <2>1
    <3> QED BY <1>2, <2>1, <3>1
  <2>6. \A k \in 1 .. Len(s) : a[k] = E(s[k])
    BY <1>2
  <2> HIDE DEF a, b, c
  <2>7. \A k \in 1 .. Len(s) : a[k] = c[k]
    <3> SUFFICES ASSUME NEW k \in 1 .. Len(s) PROVE a[k] = c[k]
      OBVIOUS
    <3>1. CASE k = 1
      BY <2>1, <2>4, <2>6, <3>1
    <3>2. CASE k # 1
      BY <2>1, <2>4, <2>5, <2>6, <3>2
    <3> QED BY <3>1, <3>2
  <2>8. a = c
    BY <2>3, <2>4, <2>7, SeqEqual
  <2> QED BY <2>1, <2>2, <2>8 DEF a, b, c
<1> QED BY <1>2, <1>3, <1>4 DEF E

(* A queue's head and tail, and what is appended, are events.              *)
LEMMA QueueMoves ==
    ASSUME NEW q \in Seq(Event)
    PROVE  /\ Len(q) \in Nat
           /\ \A e \in Event : Append(q, e) \in Seq(Event) /\ Len(Append(q, e)) = Len(q) + 1
           /\ q # <<>> => Head(q) \in Event /\ Tail(q) \in Seq(Event) /\ Len(Tail(q)) = Len(q) - 1
<1> HIDE DEF Event
<1> QED OBVIOUS

(* TypeOK but for what the other invariants say: the channel's operations, *)
(* the ring and the log.                                                   *)
WireType ==
    /\ stored \in SUBSET Message /\ deleted \in SUBSET stored
    /\ Len(opChan) <= OpChanLen
    /\ listeners \in SUBSET Listener
    /\ relay \in Event \cup {None} /\ left \in SUBSET Listener
    /\ playback \in Seq(Message) /\ adding \in Listener \cup {None}
    /\ SideType
    /\ conn \in SUBSET Listener
    /\ queue \in [Listener -> Seq(Event)] /\ \A l \in Listener : Len(queue[l]) <= QueueLen
    /\ got \in [Listener -> Seq(Event)]
    /\ {stopping, stopped, crashed} \subseteq BOOLEAN
    /\ feed \in [Listener -> Seq(Event)]

LEMMA TypesTogether == HistInv /\ WireType => TypeOK
<1> SUFFICES ASSUME HistInv, WireType PROVE TypeOK
  OBVIOUS
<1>1. removed \subseteq Message
  BY DEF HistInv, RingType, Logged
<1>2. /\ senders \in SUBSET MessageOp /\ opChan \in Seq(Op) /\ log \in Seq(Message)
      /\ history \in [1 .. HistoryLen -> Message \cup {None}]
  BY DEF HistInv, ChanType, RingType
<1> HIDE DEF Event, Op, MessageOp
<1> QED BY <1>1, <1>2 DEF WireType, SideType, TypeOK

LEMMA InitWireType == Init => WireType
<1> SUFFICES ASSUME Init PROVE WireType
  OBVIOUS
<1>1. SideType
  BY DEF Init, SideType
<1>2. <<>> \in Seq(Event) /\ <<>> \in Seq(Message) /\ Len(<<>>) = 0
  OBVIOUS
<1>3. OpChanLen >= 0 /\ QueueLen >= 0
  BY HubAssumption
<1> HIDE DEF Event
<1> QED BY <1>1, <1>2, <1>3 DEF Init, WireType

(* What a step that is not the hub's may change.                           *)
LEMMA SideKeepsWires ==
    ASSUME WireType, SideType', UNCHANGED <<listeners, relay, left, playback, adding, feed>>,
           stored' \subseteq Message, deleted' \subseteq stored', Len(opChan') <= OpChanLen,
           conn' \subseteq Listener, {stopping', stopped', crashed'} \subseteq BOOLEAN,
           queue' \in [Listener -> Seq(Event)], \A l \in Listener : Len(queue'[l]) <= Len(queue[l]),
           got' \in [Listener -> Seq(Event)]
    PROVE  WireType'
<1>1. \A l \in Listener : Len(queue'[l]) \in Nat /\ Len(queue[l]) \in Nat
  BY LenProperties DEF WireType
<1>2. \A l \in Listener : Len(queue'[l]) <= QueueLen
  BY <1>1, HubAssumption DEF WireType
<1> QED BY <1>2 DEF WireType

LEMMA HubKeepsWires ==
    ASSUME WireType, UNCHANGED <<stored, deleted, side, closed, conn, got, stopping, stopped, crashed>>,
           Len(opChan') <= OpChanLen, listeners' \subseteq Listener, relay' \in Event \cup {None},
           left' \subseteq Listener, playback' \in Seq(Message), adding' \in Listener \cup {None},
           feed' \in [Listener -> Seq(Event)],
           queue' \in [Listener -> Seq(Event)], \A l \in Listener : Len(queue'[l]) <= QueueLen
    PROVE  WireType'
BY DEF WireType, SideType

(* The tail of the channel is no longer than the channel.                  *)
LEMMA ShorterChannel ==
    ASSUME HistInv, WireType, NEW kind, NextOp(kind)
    PROVE  Len(opChan') <= OpChanLen
<1>1. opChan \in Seq(Op) /\ opChan # <<>> /\ opChan' = Tail(opChan)
  BY DEF NextOp, HistInv, ChanType
<1>2. Len(opChan') = Len(opChan) - 1 /\ Len(opChan) \in Nat
  BY <1>1
<1> QED BY <1>2, HubAssumption DEF WireType

(* What every goroutine of a websocket keeps.                              *)
LEMMA MoveKeepsType ==
    ASSUME WireType, NEW l \in Listener, NEW s \in Side,
           NEW step \in {"close", "unregister", "closing", "done"}, MoveTo(l, s, step),
           closed' \subseteq Listener
    PROVE  SideType'
BY DEF WireType, SideType, MoveTo

(* What the hub's operations make of the feeds and the channels.           *)
LEMMA OweIsFeed ==
    ASSUME WireType, NEW e \in Event, feed' = Owe(e)
    PROVE  feed' \in [Listener -> Seq(Event)]
<1>1. \A l \in Listener : feed[l] \in Seq(Event) /\ Append(feed[l], e) \in Seq(Event)
  BY QueueMoves DEF WireType
<1> QED BY <1>1 DEF Owe

LEMMA SendIsQueue ==
    ASSUME WireType, NEW l \in Listener, NEW e \in Event, Room(l), queue' = [queue EXCEPT ![l] = Append(@, e)]
    PROVE  /\ queue' \in [Listener -> Seq(Event)]
           /\ \A k \in Listener : Len(queue'[k]) <= QueueLen
<1>1. Append(queue[l], e) \in Seq(Event) /\ Len(Append(queue[l], e)) = Len(queue[l]) + 1 /\ Len(queue[l]) \in Nat
  BY QueueMoves DEF WireType
<1>2. Len(Append(queue[l], e)) <= QueueLen
  BY <1>1, HubAssumption DEF Room
<1> HIDE DEF Event
<1> QED BY <1>1, <1>2 DEF WireType

LEMMA ReceiveIsQueue ==
    ASSUME WireType, NEW l \in Listener, queue[l] # <<>>, queue' = [queue EXCEPT ![l] = Tail(@)]
    PROVE  /\ queue' \in [Listener -> Seq(Event)]
           /\ \A k \in Listener : Len(queue'[k]) <= Len(queue[k])
<1>1. Tail(queue[l]) \in Seq(Event) /\ Len(Tail(queue[l])) = Len(queue[l]) - 1
  BY QueueMoves DEF WireType
<1>2. \A k \in Listener : Len(queue[k]) \in Nat
  BY QueueMoves DEF WireType
<1> HIDE DEF Event
<1> QED BY <1>1, <1>2 DEF WireType

LEMMA LongerChannel ==
    ASSUME HistInv, NEW op \in Op, Len(opChan) < OpChanLen, opChan' = Append(opChan, op)
    PROVE  Len(opChan') <= OpChanLen
<1>1. Len(opChan') = Len(opChan) + 1 /\ Len(opChan) \in Nat
  <2> HIDE DEF Op
  <2> QED BY DEF HistInv, ChanType
<1> QED BY <1>1, HubAssumption

LEMMA NextWireType == HistInv /\ WireType /\ [Next]_vars => WireType'
<1> SUFFICES ASSUME HistInv, WireType, [Next]_vars PROVE WireType'
  OBVIOUS
<1> HIDE DEF Event, Op, MessageOp
<1>0. \A l \in Listener : AddOp(l) \in Op /\ RemoveOp(l) \in Op
  BY DEF Op, ListenerOp, AddOp, RemoveOp
<1>1. /\ queue \in [Listener -> Seq(Event)] /\ got \in [Listener -> Seq(Event)]
      /\ \A l \in Listener : Len(queue[l]) <= Len(queue[l])
      /\ {stopping, stopped, crashed} \subseteq BOOLEAN /\ Len(opChan) <= OpChanLen /\ SideType
      /\ stored \subseteq Message /\ deleted \subseteq stored /\ conn \subseteq Listener
      /\ feed \in [Listener -> Seq(Event)] /\ \A l \in Listener : Len(queue[l]) <= QueueLen
  <2>1. \A l \in Listener : Len(queue[l]) \in Nat
    BY QueueMoves DEF WireType
  <2> QED BY <2>1 DEF WireType
<1>2. ASSUME UNCHANGED <<conn, sockVars, hubVars>>,
             stored' \subseteq Message, deleted' \subseteq stored', Len(opChan') <= OpChanLen,
             {stopping', stopped', crashed'} \subseteq BOOLEAN
      PROVE  WireType'
  <2>1. UNCHANGED <<side, closed, queue, got, listeners, relay, left, playback, adding, feed>>
    BY <1>2 DEF sockVars, hubVars
  <2>2. SideType'
    BY <1>1, <2>1 DEF SideType
  <2> QED BY <1>1, <1>2, <2>1, <2>2, SideKeepsWires
<1>3. ASSUME NEW m \in Message, EmitStored(m) \/ EmitDeleted(m) PROVE WireType'
  <2>1. stored' \subseteq Message /\ deleted' \subseteq stored'
    BY <1>1, <1>3 DEF EmitStored, EmitDeleted
  <2> QED BY <1>1, <1>2, <1>3, <2>1 DEF EmitStored, EmitDeleted, sockVars
<1>4. ASSUME NEW op \in senders, Send(op) PROVE WireType'
  <2>1. op \in Op
    BY DEF HistInv, ChanType, Op
  <2>2. Len(opChan') <= OpChanLen
    BY <1>4, <2>1, LongerChannel DEF Send
  <2> QED BY <1>1, <1>2, <1>4, <2>2 DEF Send, sockVars
<1>5. ASSUME NEW op \in senders, SendOnClosed(op) PROVE WireType'
  BY <1>1, <1>2, <1>5 DEF SendOnClosed, sockVars, srcVars
<1>6. CASE Cancel \/ Stop
  BY <1>1, <1>2, <1>6 DEF Cancel, Stop, sockVars, srcVars
<1>7. CASE UNCHANGED vars
  BY <1>1, <1>2, <1>7 DEF vars, sockVars, hubVars
<1>8. ASSUME NEW kind, NextOp(kind)
      PROVE  Len(opChan') <= OpChanLen /\ Head(opChan) \in Op /\ Head(opChan).do = kind
  <2>1. Len(opChan') <= OpChanLen
    BY <1>8, ShorterChannel
  <2> QED BY <1>8, <2>1, TailProperties DEF NextOp, HistInv, ChanType
<1>9. ASSUME UNCHANGED <<srcVars, sockVars, stopping, stopped, crashed>>
      PROVE  UNCHANGED <<stored, deleted, side, closed, conn, got, queue, stopping, stopped, crashed>>
  BY <1>9 DEF srcVars, sockVars
<1>10. CASE RunDispatch \/ RunDelete
  <2>1. PICK kind \in {"dispatch", "delete"} : NextOp(kind)
    BY <1>10 DEF RunDispatch, RunDelete
  <2>2. Head(opChan).msg \in Message
    BY <1>8, <2>1, OpKinds
  <2>3. \A v \in {"stored", "deleted"} : [variant |-> v, msg |-> Head(opChan).msg] \in Event
    BY <2>2 DEF Event
  <2>4. CASE HistoryLen = 0
    <3>1. UNCHANGED <<srcVars, sockVars, stopping, stopped, crashed, listeners, relay, left, playback, adding, feed>>
      <4>1. adding = adding' /\ playback = playback'
        BY <1>10 DEF RunDispatch, RunDelete
      <4> QED BY <1>10, <2>4, <4>1 DEF RunDispatch, RunDelete
    <3> QED BY <1>1, <1>8, <1>9, <2>1, <3>1, HubKeepsWires DEF WireType
  <2>5. CASE HistoryLen # 0
    <3>1. /\ UNCHANGED <<srcVars, sockVars, stopping, stopped, crashed, listeners, playback, adding>>
          /\ left' = listeners
          /\ \E e \in Event : relay' = e /\ feed' = Owe(e)
      BY <1>10, <2>3, <2>5 DEF RunDispatch, RunDelete
    <3>2. feed' \in [Listener -> Seq(Event)] /\ relay' \in Event
      BY <3>1, OweIsFeed
    <3> QED BY <1>1, <1>8, <1>9, <2>1, <3>1, <3>2, HubKeepsWires DEF WireType
  <2> QED BY <2>4, <2>5
<1>11. CASE RunAdd
  <2> DEFINE l == Head(opChan).listener
  <2>1. /\ NextOp("add") /\ adding' = l /\ playback' = Replay(l)
        /\ feed' = [feed EXCEPT ![l] = StoredEvents(Recent(l))]
        /\ UNCHANGED <<srcVars, sockVars, stopping, stopped, crashed, listeners, relay, left>>
    BY <1>11 DEF RunAdd
  <2>2. l \in Listener
    BY <1>8, <2>1, OpKinds
  <2> HIDE DEF l
  <2>3. Replay(l) = Recent(l) /\ Replay(l) \in Seq(Message) /\ StoredEvents(Recent(l)) \in Seq(Event)
    <3>1. Replay(l) = Recent(l) /\ Replay(l) \in Seq(Message)
      BY <2>2, ReplayIsRecent
    <3> QED BY <3>1, StoredEventsOf
  <2>4. feed' \in [Listener -> Seq(Event)]
    BY <1>1, <2>1, <2>3
  <2> QED BY <1>1, <1>8, <1>9, <2>1, <2>2, <2>3, <2>4, HubKeepsWires DEF WireType
<1>12. CASE RunRemove
  <2>1. /\ NextOp("remove") /\ listeners' \subseteq listeners
        /\ UNCHANGED <<srcVars, sockVars, stopping, stopped, crashed, relay, left, playback, adding, feed>>
    BY <1>12 DEF RunRemove
  <2> QED BY <1>1, <1>8, <1>9, <2>1, HubKeepsWires DEF WireType
<1>13. ASSUME NEW l \in Listener, Relay(l) PROVE WireType'
  <2>1. /\ UNCHANGED <<stored, deleted, side, closed, conn, got, stopping, stopped, crashed, opChan,
                       listeners, relay, playback, adding, feed>>
        /\ left' \subseteq left /\ relay \in Event
        /\ queue' = queue \/ (Room(l) /\ queue' = [queue EXCEPT ![l] = Append(@, relay)])
    BY <1>13 DEF Relay, srcVars, WireType
  <2>2. queue' \in [Listener -> Seq(Event)] /\ \A k \in Listener : Len(queue'[k]) <= QueueLen
    BY <1>1, <2>1, SendIsQueue
  <2> QED BY <1>1, <2>1, <2>2, HubKeepsWires DEF WireType
<1>14. CASE PlayBack
  <2> DEFINE e == [variant |-> "stored", msg |-> Head(playback)]
  <2>1. /\ UNCHANGED <<stored, deleted, side, closed, conn, got, stopping, stopped, crashed, opChan,
                       listeners, relay, left, adding, feed>>
        /\ adding # None /\ Room(adding) /\ playback # <<>> /\ playback' = Tail(playback)
        /\ queue' = [queue EXCEPT ![adding] = Append(@, e)]
    BY <1>14 DEF PlayBack, srcVars
  <2>2. adding \in Listener /\ e \in Event /\ Tail(playback) \in Seq(Message)
    BY <2>1, StoredEventsOf DEF WireType
  <2> HIDE DEF e
  <2>3. queue' \in [Listener -> Seq(Event)] /\ \A k \in Listener : Len(queue'[k]) <= QueueLen
    BY <2>1, <2>2, SendIsQueue
  <2> QED BY <1>1, <2>1, <2>2, <2>3, HubKeepsWires DEF WireType
<1>15. ASSUME RelayDone \/ PlayBackPanics \/ AddDone \/ \E l \in Listener : RelayPanics(l)
       PROVE  WireType'
  <2>1. /\ UNCHANGED <<srcVars, sockVars, stopping, stopped, crashed, opChan, feed>>
        /\ listeners' \subseteq Listener /\ relay' \in {relay, None} /\ left' \in {left, {}}
        /\ playback' \in {playback, <<>>} /\ adding' \in {adding, None}
    <3>1. CASE AddDone
      BY <3>1 DEF AddDone, WireType
    <3>2. CASE RelayDone \/ PlayBackPanics \/ \E l \in Listener : RelayPanics(l)
      BY <3>2 DEF RelayDone, PlayBackPanics, RelayPanics, WireType
    <3> QED BY <1>15, <3>1, <3>2
  <2>2. playback' \in Seq(Message)
    <3>1. <<>> \in Seq(Message) OBVIOUS
    <3> QED BY <2>1, <3>1 DEF WireType
  <2> QED BY <1>1, <1>9, <2>1, <2>2, HubKeepsWires DEF WireType
<1>16. ASSUME UNCHANGED <<hubVars, srcVars, stopping, stopped>>, crashed' \in BOOLEAN,
              Len(opChan') <= OpChanLen, conn' \subseteq Listener, SideType',
              queue' \in [Listener -> Seq(Event)], \A l \in Listener : Len(queue'[l]) <= Len(queue[l]),
              got' \in [Listener -> Seq(Event)]
       PROVE  WireType'
  BY <1>1, <1>16, SideKeepsWires DEF hubVars, srcVars
<1>17. ASSUME NEW l \in Listener, Connect(l) PROVE WireType'
  <2>1. /\ Len(opChan) < OpChanLen /\ opChan' = Append(opChan, AddOp(l)) /\ conn' = conn \cup {l}
        /\ side' = [side EXCEPT ![l] = [s \in Side |-> "run"]]
        /\ UNCHANGED <<srcVars, stopping, stopped, hubVars, queue, closed, got, crashed>>
    BY <1>17 DEF Connect, AddOp
  <2>2. SideType'
    BY <1>1, <2>1 DEF SideType
  <2>3. Len(opChan') <= OpChanLen
    BY <1>0, <2>1, LongerChannel
  <2> QED BY <1>1, <1>16, <2>1, <2>2, <2>3
<1>18. ASSUME NEW l \in Listener, Break(l) PROVE WireType'
  <2>1. SideType' BY <1>1, <1>18 DEF Break, SideType
  <2> QED BY <1>1, <1>16, <1>18, <2>1 DEF Break
<1>19. ASSUME NEW l \in Listener, NEW s \in Side,
              NoticeBreak(l, s) \/ CloseSelect(l, s) \/ CloseChannel(l, s) \/ Unregister(l, s)
       PROVE  WireType'
  <2>1. /\ \E step \in {"close", "unregister", "closing", "done"} : MoveTo(l, s, step)
        /\ closed' \subseteq closed \cup {l}
        /\ UNCHANGED <<hubVars, srcVars, stopping, stopped, crashed, got, conn>>
        /\ UNCHANGED queue \/ (queue[l] # <<>> /\ queue' = [queue EXCEPT ![l] = Tail(@)])
        /\ UNCHANGED opChan \/ (Len(opChan) < OpChanLen /\ opChan' = Append(opChan, RemoveOp(l)))
    BY <1>19 DEF NoticeBreak, CloseSelect, CloseChannel, Unregister, RemoveOp
  <2>2. SideType'
    <3>1. closed' \subseteq Listener BY <1>1, <2>1 DEF SideType
    <3> QED BY <2>1, <3>1, MoveKeepsType
  <2>3. queue' \in [Listener -> Seq(Event)] /\ \A k \in Listener : Len(queue'[k]) <= Len(queue[k])
    BY <1>1, <2>1, ReceiveIsQueue
  <2>4. Len(opChan') <= OpChanLen
    BY <1>0, <1>1, <2>1, LongerChannel
  <2> QED BY <1>1, <1>16, <2>1, <2>2, <2>3, <2>4
<1>20. ASSUME NEW l \in Listener, NEW s \in Side, ClosePanics(l, s) PROVE WireType'
  <2>1. /\ MoveTo(l, s, "done") /\ crashed' = (s = "writer")
        /\ UNCHANGED <<hubVars, srcVars, stopping, stopped, closed, opChan, got, conn, queue>>
    BY <1>20 DEF ClosePanics
  <2>2. SideType'
    <3>1. closed' \subseteq Listener BY <1>1, <2>1 DEF SideType
    <3> QED BY <2>1, <3>1, MoveKeepsType
  <2>3. crashed' \in BOOLEAN
    <3>1. CASE s = "writer" BY <2>1, <3>1
    <3>2. CASE s # "writer" BY <2>1, <3>2
    <3> QED BY <3>1, <3>2
  <2> QED BY <1>1, <1>16, <2>1, <2>2, <2>3
<1>21. ASSUME NEW l \in Listener, Write(l) PROVE WireType'
  <2>1. /\ queue[l] # <<>> /\ queue' = [queue EXCEPT ![l] = Tail(@)]
        /\ UNCHANGED <<hubVars, srcVars, stopping, stopped, crashed, closed, opChan, conn>>
        /\ UNCHANGED side \/ MoveTo(l, "writer", "close")
        /\ UNCHANGED got \/ got' = [got EXCEPT ![l] = Append(@, Head(queue[l]))]
    BY <1>21 DEF Write
  <2>2. SideType'
    <3>1. closed' \subseteq Listener /\ "writer" \in Side BY <1>1, <2>1 DEF SideType, Side
    <3>2. CASE UNCHANGED side BY <1>1, <2>1, <3>2 DEF SideType
    <3>3. CASE MoveTo(l, "writer", "close") BY <3>1, <3>3, MoveKeepsType
    <3> QED BY <2>1, <3>2, <3>3
  <2>3. got' \in [Listener -> Seq(Event)]
    <3>1. Append(got[l], Head(queue[l])) \in Seq(Event)
      BY <1>1, <2>1, QueueMoves
    <3> QED BY <1>1, <2>1, <3>1
  <2>4. queue' \in [Listener -> Seq(Event)] /\ \A k \in Listener : Len(queue'[k]) <= Len(queue[k])
    BY <2>1, ReceiveIsQueue
  <2> QED BY <1>1, <1>16, <2>1, <2>2, <2>3, <2>4
<1>22. ASSUME NEW l \in Listener, WriterSeesClose(l) PROVE WireType'
  <2>1. SideType'
    <3>1. closed' \subseteq Listener /\ "writer" \in Side /\ MoveTo(l, "writer", "close")
      BY <1>1, <1>22 DEF WriterSeesClose, SideType, Side
    <3> QED BY <3>1, MoveKeepsType
  <2> QED BY <1>1, <1>16, <1>22, <2>1 DEF WriterSeesClose
<1> QED
  BY <1>3, <1>4, <1>5, <1>6, <1>7, <1>10, <1>11, <1>12, <1>13, <1>14, <1>15, <1>17, <1>18, <1>19, <1>20, <1>21,
     <1>22
  DEF Next, RunHub, RunSide, RunWriter

-----------------------------------------------------------------------------
(* Websockets are fed in order *)

(* What the hub still has to send to l in the operation it is at.          *)
Pending(l) ==
    IF adding = l THEN StoredEvents(playback)
    ELSE IF relay # None /\ l \in left /\ Wants(l, relay) THEN <<relay>> ELSE <<>>

(* Nothing was sent to l, and nothing is owed to it.                       *)
Unheard(l) == got[l] = <<>> /\ queue[l] = <<>> /\ feed[l] = <<>> /\ l \notin listeners /\ adding # l

(* A goroutine of l is in Close, or through with it.                       *)
Leaving(l) == \E s \in Side : side[l][s] \notin {"none", "run"}

AddedOnce(l) == \A j, k \in DOMAIN opChan : opChan[j] = AddOp(l) /\ opChan[k] = AddOp(l) => j = k

RemoveQueued(l) == \E k \in DOMAIN opChan : opChan[k] = RemoveOp(l)

Fed(l) == feed[l] = got[l] \o queue[l] \o Pending(l)

(* What holds of each websocket: it is registered at most once, is new to  *)
(* the hub until then, and is not removed before it closes; while no       *)
(* channel has been closed, what it was sent and what is pending for it is *)
(* what it is owed.                                                        *)
SocketInv(l) ==
    /\ AddedOnce(l)
    /\ Unused(l) => ~Queued(l)
    /\ Unused(l) \/ Queued(l) => Unheard(l)
    /\ RemoveQueued(l) => Leaving(l)
    /\ closed = {} /\ Healthy(l) => Registered(l) /\ Fed(l)

(* The hub is at one operation, and relays only to registered listeners.   *)
OneOperation ==
    /\ relay = None \/ adding = None
    /\ relay # None => left \subseteq listeners

FeedInv == OneOperation /\ \A l \in Listener : SocketInv(l)

LEMMA InitFeedInv == Init => FeedInv
<1> SUFFICES ASSUME Init PROVE FeedInv
  OBVIOUS
<1>1. OneOperation
  BY DEF Init, OneOperation
<1>2. ASSUME NEW l \in Listener PROVE SocketInv(l)
  <2>1. opChan = <<>> /\ side[l] = [s \in Side |-> "none"] /\ listeners = {} /\ adding # l
        /\ got[l] = <<>> /\ queue[l] = <<>> /\ feed[l] = <<>>
    BY HubAssumption DEF Init
  <2>2. ~Queued(l) /\ ~RemoveQueued(l) /\ AddedOnce(l)
    BY <2>1 DEF Queued, RemoveQueued, AddedOnce
  <2>3. Unheard(l)
    BY <2>1 DEF Unheard
  <2>4. ~Healthy(l)
    BY <2>1 DEF Healthy, Side
  <2> QED BY <2>2, <2>3, <2>4 DEF SocketInv
<1> QED BY <1>1, <1>2 DEF FeedInv

(* What the steps on the hub's channel do to what is queued for l.         *)
LEMMA AppendQueues ==
    ASSUME ChanType, NEW op \in Op, opChan' = Append(opChan, op), NEW l, op # AddOp(l)
    PROVE  /\ Queued(l)' <=> Queued(l)
           /\ AddedOnce(l) => AddedOnce(l)'
           /\ RemoveQueued(l)' => RemoveQueued(l) \/ op = RemoveOp(l)
<1>1. /\ DOMAIN opChan' = 1 .. Len(opChan) + 1
      /\ DOMAIN opChan = 1 .. Len(opChan) /\ Len(opChan) \in Nat
      /\ \A k \in DOMAIN opChan : opChan'[k] = opChan[k]
      /\ opChan'[Len(opChan) + 1] = op
  BY ChanProperties DEF ChanType
<1>2. /\ \A k \in DOMAIN opChan : k \in DOMAIN opChan' /\ opChan'[k] = opChan[k]
      /\ \A k \in DOMAIN opChan' : k \in DOMAIN opChan \/ opChan'[k] = op
  BY <1>1
<1>3. Queued(l)' <=> Queued(l)
  BY <1>2 DEF Queued
<1>4. AddedOnce(l) => AddedOnce(l)'
  BY <1>2 DEF AddedOnce
<1>5. RemoveQueued(l)' => RemoveQueued(l) \/ op = RemoveOp(l)
  BY <1>2 DEF RemoveQueued
<1> QED BY <1>3, <1>4, <1>5

LEMMA FirstAddition ==
    ASSUME ChanType, NEW l \in Listener, opChan' = Append(opChan, AddOp(l)), ~Queued(l)
    PROVE  /\ Queued(l)' /\ AddedOnce(l)'
           /\ RemoveQueued(l)' => RemoveQueued(l)
<1>0. AddOp(l) \in Op
  BY DEF Op, ListenerOp, AddOp
<1>1. /\ DOMAIN opChan' = 1 .. Len(opChan) + 1
      /\ DOMAIN opChan = 1 .. Len(opChan) /\ Len(opChan) \in Nat
      /\ \A k \in DOMAIN opChan : opChan'[k] = opChan[k]
      /\ opChan'[Len(opChan) + 1] = AddOp(l)
  BY <1>0, ChanProperties DEF ChanType
<1>2. /\ Len(opChan) + 1 \in DOMAIN opChan'
      /\ \A k \in DOMAIN opChan' : (k \in DOMAIN opChan /\ opChan'[k] = opChan[k]) \/ k = Len(opChan) + 1
  BY <1>1
<1>3. Queued(l)'
  BY <1>1, <1>2 DEF Queued
<1>4. AddedOnce(l)'
  BY <1>2 DEF AddedOnce, Queued
<1>5. RemoveQueued(l)' => RemoveQueued(l)
  BY <1>1, <1>2, OpsDiffer DEF RemoveQueued
<1> QED BY <1>3, <1>4, <1>5

LEMMA TailQueues ==
    ASSUME ChanType, opChan # <<>>, opChan' = Tail(opChan), NEW l, AddedOnce(l)
    PROVE  /\ AddedOnce(l)'
           /\ Queued(l)' <=> Queued(l) /\ Head(opChan) # AddOp(l)
           /\ RemoveQueued(l)' => RemoveQueued(l)
           /\ Head(opChan) = AddOp(l) => Queued(l)
           /\ Head(opChan) = RemoveOp(l) => RemoveQueued(l)
<1>1. /\ DOMAIN opChan' = 1 .. Len(opChan) - 1
      /\ DOMAIN opChan = 1 .. Len(opChan) /\ Len(opChan) \in Nat \ {0}
      /\ \A k \in DOMAIN opChan' : opChan'[k] = opChan[k + 1]
      /\ Head(opChan) = opChan[1]
  BY TailProperties DEF ChanType
<1>2. /\ 1 \in DOMAIN opChan
      /\ \A k \in DOMAIN opChan' : k \in Nat /\ k + 1 \in DOMAIN opChan /\ k + 1 # 1
      /\ \A k \in DOMAIN opChan : k \in Nat /\ (k = 1 \/ (k - 1 \in DOMAIN opChan' /\ opChan'[k - 1] = opChan[k]))
  <2>1. \A k \in DOMAIN opChan : k = 1 \/ k - 1 \in DOMAIN opChan'
    BY <1>1
  <2> QED BY <1>1, <2>1
<1>3. ASSUME NEW j \in DOMAIN opChan', NEW k \in DOMAIN opChan', opChan'[j] = AddOp(l), opChan'[k] = AddOp(l)
      PROVE  j = k
  <2>1. j + 1 = k + 1
    BY <1>1, <1>2, <1>3 DEF AddedOnce
  <2> QED BY <1>2, <2>1
<1>4. Queued(l)' => Queued(l) /\ Head(opChan) # AddOp(l)
  <2> SUFFICES ASSUME Queued(l)' PROVE Queued(l) /\ Head(opChan) # AddOp(l)
    OBVIOUS
  <2>1. PICK k \in DOMAIN opChan' : opChan'[k] = AddOp(l)
    BY DEF Queued
  <2>2. k + 1 \in DOMAIN opChan /\ opChan[k + 1] = AddOp(l) /\ k + 1 # 1
    BY <1>1, <1>2, <2>1
  <2> QED BY <1>1, <1>2, <2>2 DEF Queued, AddedOnce
<1>5. Queued(l) /\ Head(opChan) # AddOp(l) => Queued(l)'
  BY <1>1, <1>2 DEF Queued
<1>6. RemoveQueued(l)' => RemoveQueued(l)
  BY <1>1, <1>2 DEF RemoveQueued
<1>7. /\ Head(opChan) = AddOp(l) => Queued(l)
      /\ Head(opChan) = RemoveOp(l) => RemoveQueued(l)
  BY <1>1, <1>2 DEF Queued, RemoveQueued
<1> QED BY <1>3, <1>4, <1>5, <1>6, <1>7 DEF AddedOnce

(* What a step must keep to for l.                                         *)
LEMMA SocketKept ==
    ASSUME NEW l \in Listener, SocketInv(l), AddedOnce(l)',
           Unused(l)' => Unused(l), Queued(l)' => Queued(l),
           Unheard(l) /\ (Unused(l) \/ Queued(l)) => Unheard(l)',
           RemoveQueued(l)' => RemoveQueued(l) \/ Leaving(l)', Leaving(l) => Leaving(l)',
           closed' = {} /\ Healthy(l)' => closed = {} /\ Healthy(l),
           closed = {} /\ closed' = {} /\ Healthy(l) /\ Registered(l) /\ Fed(l) => Registered(l)' /\ Fed(l)'
    PROVE  SocketInv(l)'
BY DEF SocketInv

(* A step outside the hub: what is queued for the hub may grow by a        *)
(* removal or a broker's operation, events may be written to a websocket,  *)
(* and its goroutines may move towards their end.                          *)
LEMMA SocketMoves ==
    ASSUME FeedInv, ChanType,
           UNCHANGED <<listeners, relay, left, playback, adding, feed>>, closed \subseteq closed',
           UNCHANGED opChan \/ \E op \in Op : /\ opChan' = Append(opChan, op)
                                              /\ \A k \in Listener : op # AddOp(k)
                                              /\ \A k \in Listener : op = RemoveOp(k) => Leaving(k)',
           \A k \in Listener : Unheard(k) => queue'[k] = queue[k] /\ got'[k] = got[k],
           \A k \in Listener : Leaving(k) => Leaving(k)',
           \A k \in Listener :
               \/ side'[k] = side[k] /\ (Healthy(k) => got'[k] \o queue'[k] = got[k] \o queue[k])
               \/ Leaving(k)' /\ ~Unused(k)
    PROVE  FeedInv'
<1>1. OneOperation'
  BY DEF FeedInv, OneOperation
<1>2. ASSUME NEW k \in Listener PROVE SocketInv(k)'
  <2>1. SocketInv(k) /\ Pending(k)' = Pending(k)
    BY DEF FeedInv, Pending, Wants, StoredEvents
  <2>2. /\ AddedOnce(k)' /\ (Queued(k)' <=> Queued(k))
        /\ RemoveQueued(k)' => RemoveQueued(k) \/ Leaving(k)'
    <3>1. CASE UNCHANGED opChan
      BY <2>1, <3>1 DEF SocketInv, AddedOnce, Queued, RemoveQueued
    <3>2. ASSUME NEW op \in Op, opChan' = Append(opChan, op), op # AddOp(k), op = RemoveOp(k) => Leaving(k)'
          PROVE  /\ AddedOnce(k)' /\ (Queued(k)' <=> Queued(k))
                 /\ RemoveQueued(k)' => RemoveQueued(k) \/ Leaving(k)'
      BY <2>1, <3>2, AppendQueues DEF SocketInv
    <3> QED BY <3>1, <3>2
  <2>3. (Registered(k) => Registered(k)') /\ (Unheard(k) => Unheard(k)') /\ (closed' = {} => closed = {})
    BY <2>2 DEF Registered, Unheard
  <2>4. CASE side'[k] = side[k] /\ (Healthy(k) => got'[k] \o queue'[k] = got[k] \o queue[k])
    <3>1. (Unused(k)' => Unused(k)) /\ (Healthy(k)' => Healthy(k))
      BY <2>4 DEF Unused, Healthy
    <3>2. Healthy(k) /\ Fed(k) => Fed(k)'
      BY <2>1, <2>4 DEF Fed
    <3> QED BY <2>1, <2>2, <2>3, <3>1, <3>2, SocketKept
  <2>5. CASE Leaving(k)' /\ ~Unused(k)
    <3>1. ~Unused(k)' /\ ~Healthy(k)'
      BY <2>5 DEF Unused, Leaving, Healthy
    <3> QED BY <2>1, <2>2, <2>3, <2>5, <3>1 DEF SocketInv
  <2> QED BY <2>4, <2>5
<1> QED BY <1>1, <1>2 DEF FeedInv

(* A step of the hub: the goroutines of the websockets stay where they are *)
(* and nothing is closed.                                                  *)
LEMMA HubMoves ==
    ASSUME FeedInv, ChanType, OneOperation',
           UNCHANGED <<side, closed, got>>,
           UNCHANGED opChan \/ (opChan # <<>> /\ opChan' = Tail(opChan)),
           \A l \in Listener : Unheard(l) /\ (Unused(l) \/ Queued(l)) /\ (Unused(l) \/ Queued(l)') => Unheard(l)',
           \A l \in Listener :
               closed = {} /\ Healthy(l) /\ Registered(l) /\ Fed(l) => Registered(l)' /\ Fed(l)'
    PROVE  FeedInv'
<1>1. ASSUME NEW l \in Listener PROVE SocketInv(l)'
  <2>1. SocketInv(l)
    BY DEF FeedInv
  <2>2. AddedOnce(l)' /\ (Queued(l)' => Queued(l)) /\ (RemoveQueued(l)' => RemoveQueued(l))
    <3>1. CASE UNCHANGED opChan
      BY <2>1, <3>1 DEF SocketInv, AddedOnce, Queued, RemoveQueued
    <3>2. CASE opChan # <<>> /\ opChan' = Tail(opChan)
      BY <2>1, <3>2, TailQueues DEF SocketInv
    <3> QED BY <3>1, <3>2
  <2>3. /\ Unused(l)' <=> Unused(l)
        /\ Leaving(l)' <=> Leaving(l)
        /\ Healthy(l)' <=> Healthy(l)
    BY DEF Unused, Leaving, Healthy
  <2> QED BY <2>1, <2>2, <2>3 DEF SocketInv
<1> QED BY <1>1 DEF FeedInv

(* An operation that reaches the listeners: what it owes is pending.       *)
LEMMA RelayStarts ==
    ASSUME FeedInv, WireType, ChanType, NEW e \in Event, relay' = e, left' = listeners, feed' = Owe(e),
           UNCHANGED <<side, closed, got, queue, listeners, playback, adding>>,
           NEW kind \in {"dispatch", "delete"}, NextOp(kind)
    PROVE  FeedInv'
<1>1. relay = None /\ adding = None /\ opChan # <<>> /\ opChan' = Tail(opChan) /\ e # None
  BY HubAssumption DEF NextOp, HubIdle
<1>2. OneOperation'
  BY <1>1 DEF OneOperation
<1>3. ASSUME NEW l \in Listener, Unheard(l) PROVE Unheard(l)'
  BY <1>3 DEF Unheard, Owe
<1>4. ASSUME NEW l \in Listener, Registered(l), Fed(l) PROVE Registered(l)' /\ Fed(l)'
  <2>1. AddedOnce(l) /\ Head(opChan) # AddOp(l)
    <3>1. AddOp(l).do = "add" BY DEF AddOp
    <3> QED BY <3>1 DEF NextOp, FeedInv, SocketInv
  <2>2. Registered(l)'
    BY <1>1, <1>4, <2>1, TailQueues DEF Registered
  <2>3. Pending(l) = <<>> /\ Pending(l)' = IF l \in listeners /\ Wants(l, e) THEN <<e>> ELSE <<>>
    BY <1>1, HubAssumption DEF Pending, Wants
  <2>4. feed'[l] = IF l \in listeners /\ Wants(l, e) THEN Append(feed[l], e) ELSE feed[l]
    BY DEF Owe
  <2>5. got[l] \in Seq(Event) /\ queue[l] \in Seq(Event)
    BY DEF WireType
  <2>6. feed[l] = got[l] \o queue[l]
    BY <1>4, <2>3, <2>5, ConcatEmptySeq, ConcatProperties DEF Fed
  <2>7. /\ Append(got[l] \o queue[l], e) = got[l] \o queue[l] \o <<e>>
        /\ got[l] \o queue[l] \o <<>> = got[l] \o queue[l]
    BY <2>5, AppendLast
  <2>8. feed'[l] = got[l] \o queue[l] \o Pending(l)'
    BY <2>3, <2>4, <2>6, <2>7
  <2> QED BY <2>2, <2>8 DEF Fed
<1> QED BY <1>1, <1>2, <1>3, <1>4, HubMoves

(* Relay: what was pending for l is in its channel.                        *)
LEMMA RelayKeepsFed ==
    ASSUME FeedInv, WireType, ChanType, NEW l \in Listener, Relay(l)
    PROVE  FeedInv'
<1>1. /\ relay # None /\ l \in left /\ left' = left \ {l}
      /\ UNCHANGED <<side, closed, got, opChan, listeners, relay, playback, adding, feed>>
      /\ IF Wants(l, relay) THEN queue' = [queue EXCEPT ![l] = Append(@, relay)] ELSE UNCHANGED queue
  BY DEF Relay
<1>2. relay \in Event /\ l \in listeners /\ adding = None /\ \A k \in Listener : k # None
  BY <1>1, HubAssumption DEF WireType, FeedInv, OneOperation
<1>3. OneOperation'
  BY <1>1 DEF FeedInv, OneOperation
<1>4. ASSUME NEW k \in Listener
      PROVE  (Unheard(k) => Unheard(k)') /\ (Registered(k) => Registered(k)') /\ (Fed(k) => Fed(k)')
  <2>1. Registered(k)' <=> Registered(k)
    BY <1>1 DEF Registered, Queued
  <2>2. CASE k # l
    <3>1. queue'[k] = queue[k]
      BY <1>1, <2>2 DEF WireType
    <3>2. Pending(k)' = Pending(k)
      BY <1>1, <2>2 DEF Pending, Wants, StoredEvents
    <3> QED BY <1>1, <2>1, <3>1, <3>2 DEF Unheard, Fed
  <2>3. CASE k = l
    <3>1. ~Unheard(l)
      BY <1>2 DEF Unheard
    <3>2. Pending(l)' = <<>> /\ Pending(l) = IF Wants(l, relay) THEN <<relay>> ELSE <<>>
      BY <1>1, <1>2 DEF Pending
    <3>3. got[l] \in Seq(Event) /\ queue[l] \in Seq(Event) /\ <<>> \in Seq(Event)
      BY DEF WireType
    <3>4. CASE ~Wants(l, relay)
      BY <1>1, <2>1, <2>3, <3>1, <3>2, <3>4 DEF Fed
    <3>5. CASE Wants(l, relay)
      <4>1. queue'[l] = Append(queue[l], relay)
        BY <1>1, <3>5 DEF WireType
      <4>2. /\ got[l] \o Append(queue[l], relay) \o <<>> = got[l] \o queue[l] \o (<<relay>> \o <<>>)
            /\ <<relay>> \o <<>> = <<relay>>
        <5>1. got[l] \o Append(queue[l], relay) \o <<>> = got[l] \o queue[l] \o (<<relay>> \o <<>>)
          BY <1>2, <3>3, QueuePending
        <5>2. <<relay>> \o <<>> = <<relay>>
          BY <1>2
        <5> QED BY <5>1, <5>2
      <4> QED BY <1>1, <2>1, <2>3, <3>1, <3>2, <3>5, <4>1, <4>2 DEF Fed
    <3> QED BY <3>4, <3>5
  <2> QED BY <2>2, <2>3
<1> QED BY <1>1, <1>3, <1>4, HubMoves

(* AddListener begins: l was new to the hub, and its playback is what the  *)
(* history owes it.                                                        *)
LEMMA AddKeepsFed ==
    ASSUME FeedInv, WireType, HistInv, RunAdd
    PROVE  FeedInv'
<1>0. PICK l : l = Head(opChan).listener
  OBVIOUS
<1>1. /\ NextOp("add") /\ adding' = l /\ playback' = Replay(l)
      /\ feed' = [feed EXCEPT ![l] = StoredEvents(Recent(l))]
      /\ UNCHANGED <<side, closed, got, queue, listeners, relay, left>>
  BY <1>0 DEF RunAdd, sockVars
<1>2. opChan # <<>> /\ opChan' = Tail(opChan) /\ relay = None /\ adding = None /\ Head(opChan).do = "add" /\ ChanType
  BY <1>1 DEF NextOp, HubIdle, HistInv
<1>3. l \in Listener /\ Head(opChan) = AddOp(l)
  BY <1>0, <1>2, TailProperties, OpKinds DEF ChanType
<1>4. Replay(l) = Recent(l) /\ Replay(l) \in Seq(Message)
  BY <1>3, ReplayIsRecent
<1>5. OneOperation'
  BY <1>1, <1>2 DEF OneOperation
<1>6. ASSUME NEW k \in Listener
      PROVE  /\ AddedOnce(k)
             /\ Queued(k)' <=> Queued(k) /\ k # l
             /\ k = l => Queued(k)
  <2>1. AddedOnce(k)
    BY DEF FeedInv, SocketInv
  <2>2. AddOp(l) = AddOp(k) => k = l
    BY OpsDiffer
  <2> QED BY <1>2, <1>3, <2>1, <2>2, TailQueues
<1>7. Unheard(l) /\ ~Unused(l) /\ ~Queued(l)'
  BY <1>3, <1>6 DEF FeedInv, SocketInv
<1>8. ASSUME NEW k \in Listener, Unheard(k), Unused(k) \/ Queued(k), Unused(k) \/ Queued(k)'
      PROVE  Unheard(k)'
  <2>1. k # l
    BY <1>7, <1>8
  <2> QED BY <1>1, <1>3, <1>8, <2>1 DEF Unheard, WireType
<1>9. ASSUME NEW k \in Listener, Registered(k), Fed(k) PROVE Registered(k)' /\ Fed(k)'
  <2>1. Registered(k)'
    BY <1>1, <1>2, <1>3, <1>6, <1>9, HubAssumption DEF Registered
  <2>2. CASE k # l
    <3>1. Pending(k)' = <<>> /\ Pending(k) = <<>>
      BY <1>1, <1>2, <2>2, HubAssumption DEF Pending
    <3>2. feed'[k] = feed[k]
      BY <1>1, <2>2 DEF WireType
    <3> QED BY <1>1, <1>9, <2>1, <3>1, <3>2 DEF Fed
  <2>3. CASE k = l
    <3>1. Pending(l)' = StoredEvents(Recent(l))
      BY <1>1, <1>4 DEF Pending, StoredEvents
    <3>2. feed'[l] = StoredEvents(Recent(l))
      BY <1>1, <1>3 DEF WireType
    <3>3. got[l] = <<>> /\ queue[l] = <<>>
      BY <1>7 DEF Unheard
    <3>4. <<>> \o <<>> \o StoredEvents(Recent(l)) = StoredEvents(Recent(l))
      <4>1. StoredEvents(Recent(l)) \in Seq(Event)
        BY <1>4, StoredEventsOf
      <4>2. <<>> \o <<>> = <<>>
        OBVIOUS
      <4> QED BY <4>1, <4>2, ConcatEmptySeq
    <3> QED BY <1>1, <2>1, <2>3, <3>1, <3>2, <3>3, <3>4 DEF Fed
  <2> QED BY <2>2, <2>3
<1> QED BY <1>1, <1>2, <1>5, <1>8, <1>9, HubMoves

LEMMA PlayBackKeepsFed ==
    ASSUME FeedInv, WireType, ChanType, PlayBack
    PROVE  FeedInv'
<1>0. PICK l, e : l = adding /\ e = [variant |-> "stored", msg |-> Head(playback)]
  OBVIOUS
<1>1. /\ adding = l /\ l # None /\ playback # <<>> /\ playback' = Tail(playback)
      /\ queue' = [queue EXCEPT ![l] = Append(@, e)]
      /\ UNCHANGED <<side, closed, got, opChan, listeners, relay, left, adding, feed>>
  BY <1>0 DEF PlayBack
<1>2. l \in Listener /\ relay = None
  BY <1>1 DEF WireType, FeedInv, OneOperation
<1>3. /\ e \in Event /\ StoredEvents(playback) = <<e>> \o StoredEvents(Tail(playback))
      /\ StoredEvents(Tail(playback)) \in Seq(Event)
  <2>1. playback \in Seq(Message)
    BY DEF WireType
  <2>2. Tail(playback) \in Seq(Message)
    BY <1>1, <2>1
  <2> QED BY <1>0, <1>1, <2>1, <2>2, StoredEventsOf
<1>4. OneOperation'
  BY <1>1 DEF FeedInv, OneOperation
<1>5. ASSUME NEW k \in Listener
      PROVE  (Unheard(k) => Unheard(k)') /\ (Registered(k) => Registered(k)') /\ (Fed(k) => Fed(k)')
  <2>1. Registered(k)' <=> Registered(k)
    BY <1>1 DEF Registered, Queued
  <2>2. CASE k # l
    <3>1. queue'[k] = queue[k]
      BY <1>1, <2>2 DEF WireType
    <3>2. Pending(k)' = Pending(k)
      BY <1>1, <1>2, <2>2 DEF Pending
    <3> QED BY <1>1, <2>1, <3>1, <3>2 DEF Unheard, Fed
  <2>3. CASE k = l
    <3>1. ~Unheard(l)
      BY <1>1 DEF Unheard
    <3>2. Pending(l) = <<e>> \o StoredEvents(Tail(playback)) /\ Pending(l)' = StoredEvents(Tail(playback))
      BY <1>1, <1>3 DEF Pending, StoredEvents
    <3>3. got[l] \in Seq(Event) /\ queue[l] \in Seq(Event)
      BY <1>2 DEF WireType
    <3>4. queue'[l] = Append(queue[l], e)
      BY <1>1, <1>2 DEF WireType
    <3>5. ASSUME NEW r \in Seq(Event)
          PROVE  got[l] \o Append(queue[l], e) \o r = got[l] \o queue[l] \o (<<e>> \o r)
      <4>1. e \in Event BY <1>3
      <4> QED BY <3>3, <4>1, QueuePending
    <3>6. got[l] \o Append(queue[l], e) \o Pending(l)' = got[l] \o queue[l] \o Pending(l)
      BY <1>3, <3>2, <3>5
    <3> QED BY <1>1, <2>1, <2>3, <3>1, <3>2, <3>4, <3>6 DEF Fed
  <2> QED BY <2>2, <2>3
<1> QED BY <1>1, <1>4, <1>5, HubMoves

LEMMA NextFeedInv == FeedInv /\ WireType /\ HistInv /\ [Next]_vars => FeedInv'
<1> SUFFICES ASSUME FeedInv, WireType, HistInv, [Next]_vars PROVE FeedInv'
  OBVIOUS
<1> HIDE DEF Event, Op, MessageOp
<1>1. /\ ChanType /\ SideType
      /\ \A l \in Listener : got[l] \in Seq(Event) /\ queue[l] \in Seq(Event) /\ l # None
  BY HubAssumption DEF HistInv, WireType
<1>2. ASSUME UNCHANGED <<side, queue, got, listeners, relay, left, playback, adding, feed>>,
             closed \subseteq closed',
             UNCHANGED opChan \/ \E op \in MessageOp : opChan' = Append(opChan, op)
      PROVE  FeedInv'
  <2>1. \A op \in MessageOp : op \in Op /\ \A l : op # AddOp(l) /\ op # RemoveOp(l)
    BY OpsDiffer DEF Op
  <2>2. \A l \in Listener : (Leaving(l) => Leaving(l)')
    BY <1>2 DEF Leaving
  <2> QED BY <1>1, <1>2, <2>1, <2>2, SocketMoves
<1>3. ASSUME NEW op \in senders, Send(op) PROVE FeedInv'
  <2>1. op \in MessageOp BY <1>1 DEF ChanType
  <2> QED BY <1>2, <1>3, <2>1 DEF Send, hubVars, sockVars
<1>4. CASE Cancel \/ Stop \/ UNCHANGED vars \/ \E m \in Message : EmitStored(m) \/ EmitDeleted(m)
  BY <1>2, <1>4 DEF Cancel, Stop, vars, EmitStored, EmitDeleted, hubVars, sockVars
<1>5. ASSUME NEW op \in senders, SendOnClosed(op) PROVE FeedInv'
  BY <1>2, <1>5 DEF SendOnClosed, hubVars, sockVars
<1>6. ASSUME NEW l \in Listener, Break(l) PROVE FeedInv'
  BY <1>2, <1>6 DEF Break, hubVars
<1>7. ASSUME NEW l \in Listener, NEW s \in Side, NEW step \in {"close", "unregister", "closing", "done"},
             MoveTo(l, s, step), side[l][s] # "none", UNCHANGED hubVars, closed \subseteq closed',
             UNCHANGED opChan \/ opChan' = Append(opChan, RemoveOp(l)),
             \A k \in Listener \ {l} : queue'[k] = queue[k] /\ got'[k] = got[k],
             Unheard(l) => queue'[l] = queue[l] /\ got'[l] = got[l]
      PROVE  FeedInv'
  <2>1. side'[l][s] = step /\ \A k \in Listener \ {l} : side'[k] = side[k]
    BY <1>1, <1>7 DEF SideType, MoveTo
  <2>2. Leaving(l)' /\ ~Unused(l)
    BY <1>7, <2>1 DEF Leaving, Unused
  <2>3. RemoveOp(l) \in Op /\ \A k \in Listener : RemoveOp(l) # AddOp(k) /\ (RemoveOp(l) = RemoveOp(k) => k = l)
    <3>1. RemoveOp(l) \in Op BY DEF Op, ListenerOp, RemoveOp
    <3> QED BY <3>1, OpsDiffer
  <2>4. /\ UNCHANGED <<listeners, relay, left, playback, adding, feed>>
        /\ UNCHANGED opChan \/ \E op \in Op : /\ opChan' = Append(opChan, op)
                                              /\ \A k \in Listener : op # AddOp(k)
                                              /\ \A k \in Listener : op = RemoveOp(k) => Leaving(k)'
    BY <1>7, <2>2, <2>3 DEF hubVars
  <2>5. \A k \in Listener : Leaving(k) => Leaving(k)'
    BY <2>1, <2>2 DEF Leaving
  <2>6. \A k \in Listener : Unheard(k) => queue'[k] = queue[k] /\ got'[k] = got[k]
    BY <1>7
  <2>7. \A k \in Listener :
           \/ side'[k] = side[k] /\ (Healthy(k) => got'[k] \o queue'[k] = got[k] \o queue[k])
           \/ Leaving(k)' /\ ~Unused(k)
    BY <1>7, <2>1, <2>2
  <2> QED BY <1>1, <1>7, <2>4, <2>5, <2>6, <2>7, SocketMoves
<1>8. ASSUME NEW l \in Listener, NEW s \in Side,
             NoticeBreak(l, s) \/ CloseSelect(l, s) \/ CloseChannel(l, s) \/ Unregister(l, s) \/ ClosePanics(l, s)
      PROVE  FeedInv'
  <2>1. /\ \E step \in {"close", "unregister", "closing", "done"} : MoveTo(l, s, step)
        /\ side[l][s] # "none" /\ UNCHANGED <<hubVars, got>> /\ closed \subseteq closed'
        /\ UNCHANGED queue \/ (queue[l] # <<>> /\ queue' = [queue EXCEPT ![l] = Tail(@)])
        /\ UNCHANGED opChan \/ opChan' = Append(opChan, RemoveOp(l))
    BY <1>8 DEF NoticeBreak, CloseSelect, CloseChannel, Unregister, ClosePanics, RemoveOp
  <2>2. \A k \in Listener \ {l} : queue'[k] = queue[k]
    BY <2>1 DEF WireType
  <2>3. Unheard(l) => queue'[l] = queue[l]
    BY <2>1 DEF Unheard
  <2> QED BY <1>7, <2>1, <2>2, <2>3
<1>9. ASSUME NEW l \in Listener, WriterSeesClose(l) PROVE FeedInv'
  <2>1. "writer" \in Side BY DEF Side
  <2> QED BY <1>7, <1>9, <2>1 DEF WriterSeesClose
<1>10. ASSUME NEW l \in Listener, Write(l) PROVE FeedInv'
  <2>1. /\ queue[l] # <<>> /\ queue' = [queue EXCEPT ![l] = Tail(@)]
        /\ side[l]["writer"] = "run" /\ "writer" \in Side
        /\ UNCHANGED <<hubVars, closed, opChan>>
    BY <1>10 DEF Write, Side
  <2>2. ~Unheard(l) /\ queue'[l] = Tail(queue[l]) /\ \A k \in Listener \ {l} : queue'[k] = queue[k]
    BY <2>1 DEF Unheard, WireType
  <2>3. CASE UNCHANGED got /\ MoveTo(l, "writer", "close")
    BY <1>7, <2>1, <2>2, <2>3
  <2>4. CASE UNCHANGED side /\ got' = [got EXCEPT ![l] = Append(@, Head(queue[l]))]
    <3>1. got'[l] = Append(got[l], Head(queue[l])) /\ \A k \in Listener \ {l} : got'[k] = got[k]
      BY <2>4 DEF WireType
    <3>2. Append(got[l], Head(queue[l])) \o Tail(queue[l]) = got[l] \o queue[l]
      BY <1>1, <2>1, WriteQueued
    <3>3. \A k \in Listener : /\ Unheard(k) => queue'[k] = queue[k] /\ got'[k] = got[k]
                              /\ got'[k] \o queue'[k] = got[k] \o queue[k] /\ side'[k] = side[k]
      BY <2>2, <2>4, <3>1, <3>2
    <3>4. \A k \in Listener : Leaving(k) => Leaving(k)'
      BY <2>4 DEF Leaving
    <3> QED BY <1>1, <2>1, <3>3, <3>4, SocketMoves DEF hubVars
  <2> QED BY <1>10, <2>3, <2>4 DEF Write
<1>11. ASSUME NEW l \in Listener, Connect(l) PROVE FeedInv'
  <2>1. /\ opChan' = Append(opChan, AddOp(l)) /\ side' = [side EXCEPT ![l] = [s \in Side |-> "run"]]
        /\ side[l] = [s \in Side |-> "none"]
        /\ UNCHANGED <<listeners, relay, left, playback, adding, feed, queue, closed, got>>
    BY <1>11 DEF Connect, AddOp, hubVars
  <2>2. Unused(l) /\ ~Queued(l) /\ Unheard(l) /\ ~Leaving(l) /\ ~RemoveQueued(l)
    BY <2>1 DEF Unused, Leaving, FeedInv, SocketInv
  <2>3. OneOperation'
    BY <2>1 DEF FeedInv, OneOperation
  <2>4. SocketInv(l)'
    <3>1. AddedOnce(l)' /\ Queued(l)' /\ ~RemoveQueued(l)'
      BY <1>1, <2>1, <2>2, FirstAddition
    <3>2. side'[l] = [s \in Side |-> "run"]
      BY <1>1, <2>1 DEF SideType
    <3>3. ~Unused(l)' /\ Registered(l)'
      <4>1. "writer" \in Side BY DEF Side
      <4> QED BY <3>1, <3>2, <4>1 DEF Unused, Registered
    <3>4. Unheard(l)'
      BY <2>1, <2>2 DEF Unheard
    <3>5. Fed(l)'
      <4>1. Pending(l) = <<>>
        BY <2>2 DEF Unheard, Pending, FeedInv, OneOperation
      <4>2. Pending(l)' = Pending(l)
        BY <2>1 DEF Pending, Wants, StoredEvents
      <4>3. <<>> \o <<>> \o <<>> = <<>>
        OBVIOUS
      <4> QED BY <3>4, <4>1, <4>2, <4>3 DEF Unheard, Fed
    <3> QED BY <3>1, <3>3, <3>4, <3>5 DEF SocketInv
  <2>5. ASSUME NEW k \in Listener, k # l PROVE SocketInv(k)'
    <3>1. SocketInv(k) /\ side'[k] = side[k]
      BY <1>1, <2>1, <2>5 DEF FeedInv, SideType
    <3>2. AddOp(l) \in Op /\ AddOp(l) # AddOp(k) /\ AddOp(l) # RemoveOp(k)
      <4>1. AddOp(l) \in Op BY DEF Op, ListenerOp, AddOp
      <4> QED BY <2>5, <4>1, OpsDiffer
    <3>3. AddedOnce(k)' /\ (Queued(k)' <=> Queued(k)) /\ (RemoveQueued(k)' => RemoveQueued(k))
      BY <1>1, <2>1, <3>1, <3>2, AppendQueues DEF SocketInv
    <3>4. /\ Unused(k)' <=> Unused(k)
          /\ Healthy(k)' <=> Healthy(k)
          /\ Leaving(k)' <=> Leaving(k)
      BY <3>1 DEF Unused, Healthy, Leaving
    <3>5. (Unheard(k) => Unheard(k)') /\ (Registered(k) => Registered(k)') /\ (Fed(k) => Fed(k)')
      <4>1. Pending(k)' = Pending(k)
        BY <2>1 DEF Pending, Wants, StoredEvents
      <4> QED BY <2>1, <3>3, <4>1 DEF Unheard, Registered, Fed
    <3> QED BY <2>1, <3>1, <3>3, <3>4, <3>5, SocketKept
  <2> QED BY <2>3, <2>4, <2>5 DEF FeedInv
<1>12. CASE RunDispatch \/ RunDelete
  <2>1. PICK kind \in {"dispatch", "delete"} : NextOp(kind)
    BY <1>12 DEF RunDispatch, RunDelete
  <2>2. opChan # <<>> /\ opChan' = Tail(opChan) /\ Head(opChan) \in Op /\ Head(opChan).do = kind
    BY <1>1, <2>1, TailProperties DEF NextOp, ChanType
  <2>3. \A v \in {"stored", "deleted"} : [variant |-> v, msg |-> Head(opChan).msg] \in Event
    <3>1. Head(opChan).msg \in Message BY <2>2, OpKinds
    <3> QED BY <3>1 DEF Event
  <2>4. UNCHANGED <<side, closed, got, queue, listeners, playback, adding>>
    BY <1>12 DEF RunDispatch, RunDelete, sockVars
  <2>5. CASE HistoryLen # 0
    <3>1. \E e \in Event : relay' = e /\ left' = listeners /\ feed' = Owe(e)
      BY <1>12, <2>3, <2>5 DEF RunDispatch, RunDelete
    <3> QED BY <1>1, <2>1, <2>4, <3>1, RelayStarts
  <2>6. CASE HistoryLen = 0
    <3>1. UNCHANGED <<relay, left, feed>>
      BY <1>12, <2>6 DEF RunDispatch, RunDelete
    <3>2. OneOperation'
      BY <2>4, <3>1 DEF FeedInv, OneOperation
    <3>3. ASSUME NEW l \in Listener
          PROVE  (Unheard(l) => Unheard(l)') /\ (Registered(l) => Registered(l)') /\ (Fed(l) => Fed(l)')
      <4>1. Head(opChan) # AddOp(l) /\ AddedOnce(l)
        <5>1. AddOp(l).do = "add" BY DEF AddOp
        <5> QED BY <2>2, <5>1 DEF FeedInv, SocketInv
      <4>2. Queued(l)' <=> Queued(l)
        BY <1>1, <2>2, <4>1, TailQueues
      <4>3. Pending(l)' = Pending(l)
        BY <2>4, <3>1 DEF Pending, Wants, StoredEvents
      <4> QED BY <2>4, <3>1, <4>2, <4>3 DEF Unheard, Registered, Fed
    <3> QED BY <1>1, <2>2, <2>4, <3>2, <3>3, HubMoves
  <2> QED BY <2>5, <2>6
<1>13. CASE RunRemove
  <2> DEFINE r == Head(opChan).listener
  <2>1. /\ NextOp("remove") /\ listeners' = listeners \ {r}
        /\ UNCHANGED <<side, closed, got, queue, relay, left, playback, adding, feed>>
    BY <1>13 DEF RunRemove, sockVars
  <2>2. opChan # <<>> /\ opChan' = Tail(opChan) /\ relay = None /\ Head(opChan) = RemoveOp(r)
    BY <1>1, <2>1, TailProperties, OpKinds DEF NextOp, HubIdle, ChanType
  <2> HIDE DEF r
  <2>3. OneOperation'
    BY <2>1, <2>2 DEF OneOperation
  <2>4. ASSUME NEW l \in Listener
        PROVE  (Unheard(l) => Unheard(l)') /\ (Healthy(l) /\ Registered(l) /\ Fed(l) => Registered(l)' /\ Fed(l)')
    <3>1. AddedOnce(l) /\ (RemoveQueued(l) => Leaving(l))
      BY DEF FeedInv, SocketInv
    <3>2. (Queued(l)' <=> Queued(l)) /\ (Head(opChan) = RemoveOp(l) => RemoveQueued(l))
      BY <1>1, <2>2, <3>1, TailQueues, OpsDiffer
    <3>3. Healthy(l) => l # r
      BY <2>2, <3>1, <3>2 DEF Healthy, Leaving
    <3>4. Pending(l)' = Pending(l)
      BY <2>1 DEF Pending, Wants, StoredEvents
    <3> QED BY <2>1, <3>2, <3>3, <3>4 DEF Unheard, Registered, Fed
  <2> QED BY <1>1, <2>1, <2>2, <2>3, <2>4, HubMoves
<1>14. CASE RelayDone
  <2>1. relay # None /\ left = {} /\ relay' = None
        /\ UNCHANGED <<side, closed, got, queue, opChan, listeners, left, playback, adding, feed>>
    BY <1>14 DEF RelayDone, sockVars
  <2>2. adding = None /\ OneOperation'
    BY <2>1 DEF FeedInv, OneOperation
  <2>3. ASSUME NEW l \in Listener
        PROVE  (Unheard(l) => Unheard(l)') /\ (Registered(l) => Registered(l)') /\ (Fed(l) => Fed(l)')
    <3>1. Pending(l)' = <<>> /\ Pending(l) = <<>>
      BY <1>1, <2>1, <2>2 DEF Pending
    <3> QED BY <2>1, <3>1 DEF Unheard, Registered, Queued, Fed
  <2> QED BY <1>1, <2>1, <2>2, <2>3, HubMoves
<1>15. CASE AddDone
  <2>1. /\ adding # None /\ playback = <<>> /\ listeners' = listeners \cup {adding} /\ adding' = None
        /\ UNCHANGED <<side, closed, got, queue, opChan, relay, left, playback, feed>>
    BY <1>15 DEF AddDone, sockVars
  <2>2. relay = None /\ OneOperation'
    BY <2>1 DEF FeedInv, OneOperation
  <2>3. ASSUME NEW l \in Listener
        PROVE  (Unheard(l) => Unheard(l)') /\ (Registered(l) => Registered(l)') /\ (Fed(l) => Fed(l)')
    <3>1. Pending(l)' = <<>> /\ Pending(l) = <<>>
      <4>1. StoredEvents(<<>>) = <<>> BY DEF StoredEvents
      <4> QED BY <1>1, <2>1, <2>2, <4>1 DEF Pending
    <3> QED BY <1>1, <2>1, <3>1 DEF Unheard, Registered, Queued, Fed
  <2> QED BY <1>1, <2>1, <2>2, <2>3, HubMoves
<1>16. CASE PlayBackPanics \/ \E l \in Listener : RelayPanics(l)
  <2>1. /\ closed # {} /\ UNCHANGED <<side, closed, got, queue, opChan, listeners, feed>>
        /\ relay' \in {relay, None} /\ left' \in {left, {}} /\ adding' \in {adding, None}
        /\ relay' # None => left' = left
    BY <1>16 DEF PlayBackPanics, RelayPanics, sockVars
  <2>2. OneOperation'
    BY <2>1 DEF FeedInv, OneOperation
  <2>3. \A l \in Listener : Unheard(l) => Unheard(l)'
    BY <1>1, <2>1 DEF Unheard
  <2> QED BY <1>1, <2>1, <2>2, <2>3, HubMoves
<1>17. ASSUME NEW l \in Listener, Relay(l) PROVE FeedInv'
  BY <1>1, <1>17, RelayKeepsFed
<1>18. CASE RunAdd
  BY <1>18, AddKeepsFed
<1>19. CASE PlayBack
  BY <1>1, <1>19, PlayBackKeepsFed
<1> QED
  BY <1>3, <1>4, <1>5, <1>6, <1>8, <1>9, <1>10, <1>11, <1>12, <1>13, <1>14, <1>15, <1>16, <1>17, <1>18, <1>19
  DEF Next, RunHub, RunSide, RunWriter

LEMMA FeedInvariant == Spec => [](HistInv /\ WireType /\ FeedInv)
<1>1. Init => HistInv /\ WireType /\ FeedInv
  BY InitHistInv, InitWireType, InitFeedInv
<1>2. HistInv /\ WireType /\ FeedInv /\ [Next]_vars => (HistInv /\ WireType /\ FeedInv)'
  BY NextHistInv, NextWireType, NextFeedInv
<1> QED BY <1>1, <1>2, PTL DEF Spec

(* What was written and is queued begins the feed; once the hub is idle    *)
(* nothing is pending.                                                     *)
LEMMA FedIsOrdered ==
    ASSUME WireType, FeedInv, closed = {}
    PROVE  FedInOrder
<1> SUFFICES ASSUME NEW l \in Listener, Healthy(l)
             PROVE  /\ IsPrefixOf(got[l] \o queue[l], feed[l])
                    /\ HubIdle /\ ~QueuedToAdd(l) => l \in listeners /\ got[l] \o queue[l] = feed[l]
  BY DEF FedInOrder
<1> HIDE DEF Event
<1>1. Registered(l) /\ Fed(l) /\ l # None
  BY HubAssumption DEF FeedInv, SocketInv
<1>2. got[l] \in Seq(Event) /\ queue[l] \in Seq(Event) /\ Pending(l) \in Seq(Event)
  <2>1. StoredEvents(playback) \in Seq(Event)
    BY StoredEventsOf DEF WireType
  <2>2. relay # None => <<relay>> \in Seq(Event)
    BY DEF WireType
  <2>3. <<>> \in Seq(Event)
    OBVIOUS
  <2> QED BY <2>1, <2>2, <2>3 DEF WireType, Pending
<1>3. IsPrefixOf(got[l] \o queue[l], feed[l])
  <2>1. ASSUME NEW a \in Seq(Event), NEW p \in Seq(Event) PROVE IsPrefixOf(a, a \o p)
    <3>1. /\ Len(a) \in Nat /\ Len(p) \in Nat /\ DOMAIN a = 1 .. Len(a) /\ Len(a \o p) = Len(a) + Len(p)
          /\ \A k \in 1 .. Len(a) + Len(p) : (a \o p)[k] = IF k <= Len(a) THEN a[k] ELSE p[k - Len(a)]
      BY ConcatProperties, LenProperties
    <3> QED BY <3>1 DEF IsPrefixOf
  <2>2. got[l] \o queue[l] \in Seq(Event)
    BY <1>2, AppendLast, ConcatProperties
  <2> QED BY <1>1, <1>2, <2>1, <2>2 DEF Fed
<1>4. ASSUME HubIdle, ~QueuedToAdd(l) PROVE l \in listeners /\ got[l] \o queue[l] = feed[l]
  <2>1. ~Queued(l)
    BY <1>4 DEF QueuedToAdd, Queued, AddOp
  <2>2. adding # l /\ Pending(l) = <<>>
    BY <1>1, <1>4 DEF HubIdle, Pending
  <2>3. got[l] \o queue[l] \o <<>> = got[l] \o queue[l]
    BY <1>2, ConcatProperties, ConcatEmptySeq
  <2> QED BY <1>1, <2>1, <2>2, <2>3 DEF Registered, Fed
<1> QED BY <1>3, <1>4

(* Channels keep to their capacity and everything to its type, whatever    *)
(* breaks; and as long as no listener's channel has been closed, every     *)
(* websocket whose goroutines run has been sent its playback and then the  *)
(* events it wants, in the hub's order, each once.                         *)
THEOREM FedUntilClosed == Spec => [](TypeOK /\ (closed = {} => FedInOrder))
<1>1. HistInv /\ WireType /\ FeedInv => TypeOK /\ (closed = {} => FedInOrder)
  BY TypesTogether, FedIsOrdered
<1> QED BY <1>1, FeedInvariant, PTL

(* Where no connection breaks, no goroutine of a websocket ends.           *)
Unbroken ==
    /\ \A l \in Listener : \A s \in Side : side[l][s] \in {"none", "run"}
    /\ \A l \in Listener : \A s \in Side : side[l][s] = "run" => l \in conn
    /\ closed = {}

LEMMA UnbrokenInvariant ==
    ASSUME ~CanBreak
    PROVE  Spec => []Unbroken
<1>1. Init => Unbroken
  <2> SUFFICES ASSUME Init PROVE Unbroken
    OBVIOUS
  <2>1. \A l \in Listener, s \in Side : side[l][s] = "none"
    BY DEF Init
  <2> QED BY <2>1 DEF Init, Unbroken
<1>2. SideType /\ Unbroken /\ [Next]_vars => Unbroken'
  <2> SUFFICES ASSUME SideType, Unbroken, [Next]_vars PROVE Unbroken'
    OBVIOUS
  <2>1. CASE UNCHANGED <<side, closed, conn>>
    BY <2>1 DEF Unbroken
  <2>2. ASSUME NEW l \in Listener, Connect(l) PROVE Unbroken'
    <3>1. /\ side' = [side EXCEPT ![l] = [s \in Side |-> "run"]] /\ conn' = conn \cup {l} /\ closed' = closed
      BY <2>2 DEF Connect
    <3>2. ASSUME NEW k \in Listener, NEW t \in Side
          PROVE  side'[k][t] \in {"none", "run"} /\ (side'[k][t] = "run" => k \in conn')
      <4>1. CASE k = l
        BY <3>1, <4>1 DEF SideType
      <4>2. CASE k # l
        BY <3>1, <4>2 DEF SideType, Unbroken
      <4> QED BY <4>1, <4>2
    <3> QED BY <3>1, <3>2 DEF Unbroken
  <2>3. ASSUME NEW l \in Listener PROVE ~Break(l) /\ ~WriterSeesClose(l)
    BY DEF Break, WriterSeesClose, Unbroken
  <2>4. ASSUME NEW l \in Listener, NEW s \in Side PROVE ~RunSide(l, s)
    BY DEF RunSide, NoticeBreak, CloseSelect, Unregister, CloseChannel, ClosePanics, Unbroken
  <2>5. ASSUME NEW l \in Listener, Write(l) PROVE UNCHANGED <<side, closed, conn>>
    <3>1. l \in conn
      BY <2>5 DEF Write, Unbroken, Side
    <3> QED BY <2>5, <3>1 DEF Write
  <2> QED
    BY <2>1, <2>2, <2>3, <2>4, <2>5
    DEF Next, RunHub, RunWriter, vars, sockVars, EmitStored, EmitDeleted, Send, SendOnClosed, RunDispatch, RunDelete,
        RunAdd, RunRemove, Relay, RelayPanics, RelayDone, PlayBack, PlayBackPanics, AddDone, Cancel, Stop
<1>3. HistInv /\ WireType /\ FeedInv => SideType
  BY DEF WireType
<1> QED BY <1>1, <1>2, <1>3, FeedInvariant, PTL DEF Spec

(* FeedsSound wherever connections stay up: each websocket receives the    *)
(* history and then the new events, in order and without loss, for any     *)
(* number of websockets and any capacity of the channels.                  *)
THEOREM FeedsAreSound == ~CanBreak => (Spec => []FeedsSound)
<1> SUFFICES ASSUME ~CanBreak PROVE Spec => []FeedsSound
  OBVIOUS
<1>1. Unbroken => closed = {}
  BY DEF Unbroken
<1>2. TypeOK /\ FedInOrder => FeedsSound
  BY DEF FeedsSound
<1> QED BY <1>1, <1>2, FedUntilClosed, UnbrokenInvariant, PTL
=============================================================================
