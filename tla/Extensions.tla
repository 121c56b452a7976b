----------------------------- MODULE Extensions -----------------------------
(***************************************************************************)
(* The extension points of pkg/extension and the Lua host behind them.     *)
(* Before-events ask the listeners of EventBroker in order, on the         *)
(* goroutine of an SMTP session, until one answers; after-events start a   *)
(* goroutine for each listener of AsyncEventBroker.  The Lua listener      *)
(* takes a Lua state from statePool, calls the script's function in it and *)
(* puts it back.  A listener is its name; "lua" is luahost.Host.           *)
(***************************************************************************)
EXTENDS Naturals, FiniteSets, Sequences, SequencesExt

CONSTANTS
    Emitter,       \* SMTP sessions
    AfterEvent,    \* events of stored and deleted messages
    Names,         \* listeners in Go
    Changing,      \* brokers whose listeners come and go
    Channel,       \* channels given to createChannel
    MaxStates      \* bound: Lua states at a time

ASSUME ExtAssumption ==
    /\ "lua" \notin Names /\ IsFiniteSet(Names)
    /\ Changing \subseteq {"before", "after"}
    /\ MaxStates \in Nat \ {0} /\ Emitter \cap AfterEvent = {}

State == 1 .. MaxStates
None == 0
Listener == Names \cup {"lua"}
Caller == Emitter \cup AfterEvent
Answers == {"allow", "deny"}
Nil == "nil"

VARIABLES
    before, after,   \* names of the listeners, in order
    at,              \* of each emitter: the listener it asks, 0 outside Emit
    heard,           \* what the listeners asked have answered
    result,          \* the answer of Emit
    pending,         \* after-calls whose goroutine has not begun
    running,         \* after-calls in progress
    emitted,         \* after-events so far
    pool,            \* free Lua states
    held,            \* the Lua state each caller uses
    alive,           \* Lua states made, not closed by createChannel and not dropped
    broken,          \* those in which the script has overwritten inbucket
    channels, knows, \* channels made, and those each state has
    peak             \* the most states that were ever in use together

brokerVars == <<before, after>>
emitVars == <<at, heard, result>>
afterVars == <<pending, running, emitted>>
poolVars == <<pool, held, alive, broken, channels, knows, peak>>
vars == <<brokerVars, emitVars, afterVars, poolVars>>

Held == {s \in State : \E c \in Caller : held[c] = s}

Init ==
    /\ before \in {<<"lua">> \o n : n \in SetToSeqs(Names)}
    /\ after = before
    /\ at = [e \in Emitter |-> 0]
    /\ heard = [e \in Emitter |-> <<>>]
    /\ result = [e \in Emitter |-> Nil]
    /\ pending = {} /\ running = {} /\ emitted = {}
    /\ pool = <<1>> /\ alive = {1}      \* NewFromReader tries one and puts it back
    /\ held = [c \in Caller |-> None]
    /\ broken = {} /\ channels = {} /\ knows = [s \in State |-> {}]
    /\ peak = 1

-----------------------------------------------------------------------------
(* The brokers' lists.  Emit of a before-event holds the lock for reading  *)
(* until it returns, that of an after-event only while it starts           *)
(* goroutines.                                                             *)

Unlocked == \A e \in Emitter : at[e] = 0

(* lockedRemoveListener: the first entry of that name is cut out.          *)
Cut(list, i) == SubSeq(list, 1, i - 1) \o SubSeq(list, i + 1, Len(list))
First(list, n) == CHOOSE i \in DOMAIN list : list[i] = n /\ \A j \in 1 .. i - 1 : list[j] # n
Without(list, n) == IF n \in ToSet(list) THEN Cut(list, First(list, n)) ELSE list

(* Mutant: the listener of that name is not replaced.                      *)
AddListener_Twice(n) ==
    /\ \/ "before" \in Changing /\ Unlocked /\ before' = Append(before, n) /\ UNCHANGED after
       \/ "after" \in Changing /\ after' = Append(after, n) /\ UNCHANGED before
    /\ UNCHANGED <<emitVars, afterVars, poolVars>>

AddListener(n) ==
    /\ \/ "before" \in Changing /\ Unlocked /\ before' = Append(Without(before, n), n) /\ UNCHANGED after
       \/ "after" \in Changing /\ after' = Append(Without(after, n), n) /\ UNCHANGED before
    /\ UNCHANGED <<emitVars, afterVars, poolVars>>

RemoveListener(n) ==
    /\ \/ "before" \in Changing /\ Unlocked /\ before' = Without(before, n) /\ UNCHANGED after
       \/ "after" \in Changing /\ after' = Without(after, n) /\ UNCHANGED before
    /\ UNCHANGED <<emitVars, afterVars, poolVars>>

-----------------------------------------------------------------------------
(* The pool *)

Use(c, s, p) ==
    /\ held' = [held EXCEPT ![c] = s]
    /\ pool' = p
    /\ LET now == Cardinality({x \in Caller : held'[x] # None})
       IN peak' = IF now > peak THEN now ELSE peak

Unused == CHOOSE s \in State \ (alive \cup Held) : TRUE

(* States that are closed or dropped are of no more interest.              *)
Drop(gone) ==
    /\ alive' = alive \ gone
    /\ broken' = broken \ gone
    /\ knows' = [s \in State |-> IF s \in gone THEN {} ELSE knows[s]]

(* Mutant: a new state for every call.                                     *)
GetState_New(c) ==
    /\ State \ (alive \cup Held) # {}
    /\ alive' = alive \cup {Unused}
    /\ knows' = [knows EXCEPT ![Unused] = channels]
    /\ Use(c, Unused, pool)

(* Mutant: the state taken stays in the pool.                              *)
GetState_Shared(c) ==
    \/ /\ pool # <<>> /\ Last(pool) \notin broken
       /\ Use(c, Last(pool), pool)
       /\ UNCHANGED <<alive, knows>>
    \/ /\ pool = <<>> /\ State \ (alive \cup Held) # {}
       /\ alive' = alive \cup {Unused}
       /\ knows' = [knows EXCEPT ![Unused] = channels]
       /\ Use(c, Unused, pool)

(* getState: the state put back last, or a new one, which has every        *)
(* channel there is.                                                       *)
GetState(c) ==
    \/ /\ pool # <<>> /\ Last(pool) \notin broken
       /\ Use(c, Last(pool), Front(pool))
       /\ UNCHANGED <<alive, knows>>
    \/ /\ pool = <<>> /\ State \ (alive \cup Held) # {}
       /\ alive' = alive \cup {Unused}
       /\ knows' = [knows EXCEPT ![Unused] = channels]
       /\ Use(c, Unused, pool)

(* A state without its inbucket object is not put back; a new one whose    *)
(* script fails is dropped at once.                                        *)
StateFails ==
    /\ \/ pool # <<>> /\ Last(pool) \in broken /\ pool' = Front(pool) /\ Drop({Last(pool)})
       \/ pool = <<>> /\ UNCHANGED <<pool, alive, broken, knows>>
    /\ UNCHANGED <<held, channels, peak>>

(* putState, at the end of the call, in which the script may have          *)
(* overwritten its globals.                                                *)
PutState(c) ==
    /\ pool' = IF held[c] \notin alive THEN pool ELSE Append(pool, held[c])
    /\ held' = [held EXCEPT ![c] = None]
    /\ broken' \in {broken, broken \cup {held[c]}}
    /\ UNCHANGED <<alive, channels, knows, peak>>

(* Mutant: the states in the pool are closed and left there.               *)
CreateChannel_Uncleared(n) ==
    /\ n \notin channels
    /\ channels' = channels \cup {n}
    /\ Drop(ToSet(pool))
    /\ UNCHANGED <<brokerVars, emitVars, afterVars, pool, held, peak>>

(* Mutant: the states in the pool stay there.                              *)
CreateChannel_Unflushed(n) ==
    /\ n \notin channels
    /\ channels' = channels \cup {n}
    /\ UNCHANGED <<brokerVars, emitVars, afterVars, pool, held, alive, broken, knows, peak>>

CreateChannel(n) ==
    /\ n \notin channels
    /\ channels' = channels \cup {n}
    /\ Drop(ToSet(pool))
    /\ pool' = <<>>
    /\ UNCHANGED <<brokerVars, emitVars, afterVars, held, peak>>

-----------------------------------------------------------------------------
(* Before-events *)

Emit(e) ==
    /\ at[e] = 0
    /\ at' = [at EXCEPT ![e] = 1]
    /\ heard' = [heard EXCEPT ![e] = <<>>]
    /\ result' = [result EXCEPT ![e] = Nil]
    /\ UNCHANGED <<brokerVars, afterVars, poolVars>>

Asks(e, n) == at[e] \in 1 .. Len(before) /\ before[at[e]] = n /\ held[e] = None

(* Mutant: the listeners after an answer are asked as well.                *)
Hear_AskAll(e, r) ==
    /\ heard' = [heard EXCEPT ![e] = Append(@, [name |-> before[at[e]], answer |-> r])]
    /\ result' = [result EXCEPT ![e] = r]
    /\ at' = [at EXCEPT ![e] = @ + 1]
    /\ UNCHANGED <<brokerVars, afterVars>>

(* Mutant: a listener without an answer is asked again.                    *)
Hear_Again(e, r) ==
    /\ UNCHANGED heard
    /\ result' = [result EXCEPT ![e] = r]
    /\ at' = [at EXCEPT ![e] = IF r = Nil THEN @ ELSE 0]
    /\ UNCHANGED <<brokerVars, afterVars>>

(* The listener whose turn it is answers r: the first answer ends Emit.    *)
Hear(e, r) ==
    /\ heard' = [heard EXCEPT ![e] = Append(@, [name |-> before[at[e]], answer |-> r])]
    /\ result' = [result EXCEPT ![e] = r]
    /\ at' = [at EXCEPT ![e] = IF r = Nil THEN @ + 1 ELSE 0]
    /\ UNCHANGED <<brokerVars, afterVars>>

GoAnswers(e) ==
    /\ \E n \in Names : Asks(e, n)
    /\ \E r \in Answers \cup {Nil} : Hear(e, r)
    /\ UNCHANGED poolVars

LuaBegins(e) ==
    /\ Asks(e, "lua")
    /\ GetState(e)
    /\ UNCHANGED <<brokerVars, emitVars, afterVars, broken, channels>>

LuaUnavailable(e) ==
    /\ Asks(e, "lua")
    /\ StateFails
    /\ Hear(e, Nil)

(* nil: the function's answer, or its failure.                             *)
LuaAnswers(e) ==
    /\ held[e] # None
    /\ \E r \in Answers \cup {Nil} : Hear(e, r)
    /\ PutState(e)

NobodyAnswers(e) ==
    /\ at[e] > Len(before)
    /\ at' = [at EXCEPT ![e] = 0]
    /\ UNCHANGED <<brokerVars, heard, result, afterVars, poolVars>>

-----------------------------------------------------------------------------
(* After-events *)

EmitAfter(v) ==
    /\ v \notin emitted
    /\ emitted' = emitted \cup {v}
    /\ pending' = pending \cup {<<v, n>> : n \in ToSet(after)}
    /\ UNCHANGED <<brokerVars, emitVars, running, poolVars>>

(* Mutant: a listener that was removed is not called any more.             *)
Call_IfListed(v, n) ==
    /\ <<v, n>> \in pending /\ n \in ToSet(after)
    /\ pending' = pending \ {<<v, n>>}
    /\ UNCHANGED <<brokerVars, emitVars, emitted>>

Call(v, n) ==
    /\ <<v, n>> \in pending
    /\ pending' = pending \ {<<v, n>>}
    /\ UNCHANGED <<brokerVars, emitVars, emitted>>

GoCall(v, n) ==
    /\ n \in Names
    /\ Call(v, n)
    /\ running' = running \cup {<<v, n>>}
    /\ UNCHANGED poolVars

GoReturns(v, n) ==
    /\ n \in Names /\ <<v, n>> \in running
    /\ running' = running \ {<<v, n>>}
    /\ UNCHANGED <<brokerVars, emitVars, pending, emitted, poolVars>>

LuaCall(v) ==
    /\ Call(v, "lua")
    /\ \/ /\ GetState(v)
          /\ running' = running \cup {<<v, "lua">>}
          /\ UNCHANGED <<broken, channels>>
       \/ StateFails /\ UNCHANGED running

LuaReturns(v) ==
    /\ <<v, "lua">> \in running
    /\ PutState(v)
    /\ running' = running \ {<<v, "lua">>}
    /\ UNCHANGED <<brokerVars, emitVars, pending, emitted>>

-----------------------------------------------------------------------------
EmitStep(e) == GoAnswers(e) \/ LuaBegins(e) \/ LuaUnavailable(e) \/ LuaAnswers(e) \/ NobodyAnswers(e)
AfterStep(v, n) == GoCall(v, n) \/ GoReturns(v, n) \/ (n = "lua" /\ (LuaCall(v) \/ LuaReturns(v)))

Next ==
    \/ \E n \in Listener : AddListener(n) \/ RemoveListener(n)
    \/ \E n \in Channel : CreateChannel(n)
    \/ \E e \in Emitter : Emit(e) \/ EmitStep(e)
    \/ \E v \in AfterEvent : EmitAfter(v) \/ \E n \in Listener : AfterStep(v, n)

Spec == Init /\ [][Next]_vars

(* Goroutines run, and functions return.                                   *)
FairSpec ==
    /\ Spec
    /\ \A e \in Emitter : WF_vars(EmitStep(e))
    /\ \A v \in AfterEvent, n \in Listener : WF_vars(AfterStep(v, n))

-----------------------------------------------------------------------------
BrokerTypeOK ==
    /\ ToSet(before) \cup ToSet(after) \subseteq Listener
    /\ at \in [Emitter -> 0 .. Len(before) + 1]
    /\ result \in [Emitter -> Answers \cup {Nil}]
    /\ pending \cup running \subseteq emitted \X Listener /\ emitted \subseteq AfterEvent

PoolTypeOK ==
    /\ held \in [Caller -> State \cup {None}]
    /\ ToSet(pool) \cup broken \subseteq alive /\ alive \subseteq State
    /\ knows \in [State -> SUBSET channels] /\ channels \subseteq Channel
    /\ peak \in Nat \ {0}

(* A Lua state is not made for goroutines: two callers never share one,    *)
(* nobody uses one that is in the pool or closed, and the pool holds none  *)
(* twice.                                                                  *)
StateExclusive ==
    /\ \A c, d \in Caller : held[c] = held[d] /\ held[c] # None => c = d
    /\ Held \subseteq alive \ ToSet(pool)
    /\ ToSet(pool) \subseteq alive /\ IsInjective(pool)

(* States are used again: those alive are never more than were once in use *)
(* together.                                                               *)
PoolBounded == Cardinality(alive) <= peak

(* The pool: no state has two users, none is used after its end, none is   *)
(* lost.                                                                   *)
PoolSound == PoolTypeOK /\ StateExclusive /\ PoolBounded

(* "The first listener in the list to respond with a non-nil value will    *)
(* determine the response, and the remaining listeners will not be         *)
(* called": what was asked is the list up to the one whose answer is the   *)
(* result, and the list does not change meanwhile.                         *)
FirstAnswerWins ==
    \A e \in Emitter :
        /\ \A i \in DOMAIN heard[e] : heard[e][i].answer # Nil <=> (i = Len(heard[e]) /\ result[e] # Nil)
        /\ at[e] # 0 => /\ Len(heard[e]) = at[e] - 1
                        /\ \A i \in DOMAIN heard[e] : heard[e][i].name = before[i]

(* "registers the named listener, replacing one with a duplicate name if   *)
(* present": no listener is in a list, and so asked or called, twice.      *)
RegisteredOnce == IsInjective(before) /\ IsInjective(after)

(* The brokers: an event gets its answer from the lists as they are.       *)
BrokersSound == BrokerTypeOK /\ FirstAnswerWins /\ RegisteredOnce

(* The warning at createChannel: the states that do not know a channel are *)
(* those that were in use when it was made, and no state made later.       *)
OnlyOldStatesMiss == [][\A s \in alive' :
    IF s \in alive THEN channels' # channels => s \in Held ELSE knows'[s] = channels']_vars

(* Every Emit returns, and every listener of an after-event is called,     *)
(* also when it is removed before its goroutine runs.                      *)
EmitReturns == \A e \in Emitter : at[e] > 0 ~> at[e] = 0
AllAreCalled == \A v \in AfterEvent : v \in emitted ~> \A n \in Listener : <<v, n>> \notin pending \cup running

(* No event waits for ever, before or after.                               *)
EventsReach == EmitReturns /\ AllAreCalled
=============================================================================
