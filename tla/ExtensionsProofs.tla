-------------------------- MODULE ExtensionsProofs --------------------------
(***************************************************************************)
(* Proofs about the pool of Lua states and the brokers of Extensions, for  *)
(* any callers, listeners and channels and any number of states.           *)
(***************************************************************************)
EXTENDS Extensions, FiniteSetTheorems, SequenceTheorems, TLAPS

-----------------------------------------------------------------------------
(* Sequences without repetition *)

LEMMA FrontOfPool ==
    ASSUME NEW S, NEW p \in Seq(S), p # <<>>, IsInjective(p)
    PROVE  /\ Front(p) \in Seq(S) /\ IsInjective(Front(p))
           /\ Last(p) \in ToSet(p)
           /\ ToSet(Front(p)) = ToSet(p) \ {Last(p)}
<1> DEFINE n == Len(p)
<1>1. n \in Nat \ {0} /\ DOMAIN p = 1 .. n /\ Last(p) = p[n]
  BY DEF Last
<1>2. /\ Front(p) \in Seq(S) /\ DOMAIN Front(p) = 1 .. n - 1
      /\ \A i \in 1 .. n - 1 : Front(p)[i] = p[i]
  BY <1>1 DEF Front
<1>3. \A i, j \in 1 .. n : p[i] = p[j] => i = j
  BY <1>1 DEF IsInjective
<1>4. IsInjective(Front(p))
  BY <1>1, <1>2, <1>3 DEF IsInjective
<1>5. ToSet(p) = {p[i] : i \in 1 .. n} /\ ToSet(Front(p)) = {p[i] : i \in 1 .. n - 1}
  BY <1>1, <1>2 DEF ToSet
<1>6. \A i \in 1 .. n : i \in 1 .. n - 1 <=> p[i] # p[n]
  BY <1>1, <1>3
<1>7. \A i \in 1 .. n - 1 : i \in 1 .. n
  BY <1>1
<1>8. ToSet(Front(p)) = ToSet(p) \ {Last(p)}
  BY <1>1, <1>5, <1>6, <1>7
<1>9. n \in 1 .. n
  BY <1>1
<1> QED
  BY <1>1, <1>2, <1>4, <1>5, <1>8, <1>9

LEMMA AppendToPool ==
    ASSUME NEW S, NEW p \in Seq(S), IsInjective(p), NEW s \in S, s \notin ToSet(p)
    PROVE  /\ Append(p, s) \in Seq(S) /\ IsInjective(Append(p, s))
           /\ ToSet(Append(p, s)) = ToSet(p) \cup {s}
<1> DEFINE n == Len(p)
           q == Append(p, s)
<1>1. /\ n \in Nat /\ DOMAIN p = 1 .. n
      /\ q \in Seq(S) /\ DOMAIN q = 1 .. n + 1 /\ q[n + 1] = s
      /\ \A i \in 1 .. n : q[i] = p[i]
  OBVIOUS
<1>2. \A i \in 1 .. n : p[i] # s
  BY <1>1 DEF ToSet
<1>3. \A i, j \in 1 .. n : p[i] = p[j] => i = j
  BY <1>1 DEF IsInjective
<1>4. \A i \in 1 .. n + 1 : i \in 1 .. n \/ i = n + 1
  BY <1>1
<1>5. ToSet(p) = {p[i] : i \in 1 .. n} /\ ToSet(q) = {q[i] : i \in 1 .. n + 1}
  BY <1>1 DEF ToSet
<1> HIDE DEF q, n
<1>6. \A i, j \in 1 .. n + 1 : q[i] = q[j] => i = j
  BY <1>1, <1>2, <1>3, <1>4
<1>7. IsInjective(q)
  BY <1>1, <1>6 DEF IsInjective
<1>8. n + 1 \in 1 .. n + 1 /\ \A i \in 1 .. n : i \in 1 .. n + 1
  BY <1>1
<1>9. ToSet(q) = ToSet(p) \cup {s}
  <2>1. \A x \in ToSet(q) : x \in ToSet(p) \cup {s}
    BY <1>1, <1>4, <1>5
  <2>2. \A x \in ToSet(p) \cup {s} : x \in ToSet(q)
    BY <1>1, <1>5, <1>8
  <2> QED
    BY <2>1, <2>2
<1> QED
  BY <1>1, <1>7, <1>9 DEF q

-----------------------------------------------------------------------------
(* The states in use *)

NoSharing(h) == \A c, d \in Caller : h[c] = h[d] /\ h[c] # None => c = d
InUse(h) == {s \in State : \E c \in Caller : h[c] = s}
Users(h) == {c \in Caller : h[c] # None}

(* When no state has two users, there are finitely many users and a user   *)
(* for every state in use.                                                 *)
LEMMA UsersCounted ==
    ASSUME NEW h \in [Caller -> State \cup {None}], NoSharing(h)
    PROVE  Cardinality(Users(h)) \in Nat /\ Cardinality(InUse(h)) <= Cardinality(Users(h))
<1> DEFINE f == [c \in Users(h) |-> h[c]]
<1>1. IsFiniteSet(State)
  BY ExtAssumption, FS_Interval DEF State
<1>2. IsFiniteSet(InUse(h))
  BY <1>1, FS_Subset DEF InUse
<1>3. f \in [Users(h) -> InUse(h)]
  BY DEF Users, InUse
<1>4. None \notin State
  BY DEF None, State
<1>5. f \in Injection(Users(h), InUse(h))
  BY <1>3 DEF Injection, IsInjective, NoSharing, Users
<1>6. f \in Surjection(Users(h), InUse(h))
  <2>1. \A s \in InUse(h) : \E c \in Users(h) : f[c] = s
    BY <1>4 DEF InUse, Users
  <2> QED
    BY <1>3, <2>1 DEF Surjection
<1>7. IsFiniteSet(Users(h))
  BY <1>2, <1>5, FS_Injection
<1> QED
  BY <1>6, <1>7, FS_Surjection, FS_CardinalityType

-----------------------------------------------------------------------------
(* The invariant.  A state is in use, or in the pool, or gone; a Lua call  *)
(* of an after-event holds a state from its beginning to its end.          *)

PoolInv ==
    /\ held \in [Caller -> State \cup {None}] /\ NoSharing(held)
    /\ pool \in Seq(State) /\ IsInjective(pool)
    /\ ToSet(pool) \cap InUse(held) = {}
    /\ alive = ToSet(pool) \cup InUse(held)
    /\ broken \subseteq alive
    /\ channels \subseteq Channel /\ knows \in [State -> SUBSET channels]
    /\ peak \in Nat \ {0} /\ Cardinality(alive) <= peak

CallsInv ==
    \A v \in AfterEvent :
        /\ <<v, "lua">> \in pending => v \in emitted /\ held[v] = None
        /\ v \notin emitted => held[v] = None
        /\ <<v, "lua">> \in running => held[v] # None

IInv == PoolInv /\ CallsInv

LEMMA PoolFacts ==
    ASSUME PoolInv
    PROVE  /\ ToSet(pool) \subseteq State /\ alive \subseteq State /\ IsFiniteSet(alive)
           /\ Cardinality(alive) \in Nat /\ Held = InUse(held) /\ None \notin State
<1>1. ToSet(pool) \subseteq State
  BY DEF PoolInv, ToSet
<1>2. alive \subseteq State
  BY <1>1 DEF PoolInv, InUse
<1>3. IsFiniteSet(alive)
  <2>1. IsFiniteSet(State)
    BY ExtAssumption, FS_Interval DEF State
  <2> QED
    BY <1>2, <2>1, FS_Subset
<1> QED
  BY <1>1, <1>2, <1>3, FS_CardinalityType DEF Held, InUse, None, State

(* Fewer states are still bounded.                                         *)
LEMMA FewerAlive == ASSUME PoolInv, NEW a \in SUBSET alive PROVE Cardinality(a) <= peak
<1>1. Cardinality(a) <= Cardinality(alive) /\ Cardinality(a) \in Nat
  BY PoolFacts, FS_Subset, FS_CardinalityType
<1> QED
  BY <1>1, PoolFacts DEF PoolInv

LEMMA InitIInv == Init => IInv
<1> SUFFICES ASSUME Init PROVE IInv
  OBVIOUS
<1>1. 1 \in State /\ None \notin State
  BY ExtAssumption DEF State, None
<1>2. held \in [Caller -> State \cup {None}] /\ NoSharing(held) /\ InUse(held) = {}
  BY <1>1 DEF Init, NoSharing, InUse
<1>3. pool \in Seq(State) /\ IsInjective(pool) /\ ToSet(pool) = {1}
  BY <1>1 DEF Init, IsInjective, ToSet
<1>4. alive = {1} /\ Cardinality(alive) = 1 /\ peak = 1
  BY FS_Singleton DEF Init
<1>5. knows \in [State -> SUBSET channels] /\ channels \subseteq Channel /\ broken \subseteq alive
  BY DEF Init
<1>6. CallsInv
  BY DEF Init, CallsInv, Caller
<1> QED
  BY <1>2, <1>3, <1>4, <1>5, <1>6 DEF IInv, PoolInv

-----------------------------------------------------------------------------
(* What the pool's operations do to it *)

(* A caller without a state is given s: nobody else has it.                *)
LEMMA UseAdds ==
    ASSUME PoolInv, NEW c \in Caller, held[c] = None, NEW s \in State, s \notin InUse(held),
           held' = [held EXCEPT ![c] = s]
    PROVE  /\ held' \in [Caller -> State \cup {None}] /\ NoSharing(held')
           /\ InUse(held') = InUse(held) \cup {s}
<1>1. held \in [Caller -> State \cup {None}] /\ None \notin State
  BY PoolFacts DEF PoolInv
<1>2. held' \in [Caller -> State \cup {None}] /\ held'[c] = s /\ \A d \in Caller \ {c} : held'[d] = held[d]
  BY <1>1
<1>3. \A d \in Caller : held[d] # s
  BY DEF InUse
<1>4. NoSharing(held')
  BY <1>2, <1>3 DEF NoSharing, PoolInv
<1>5. \A x \in State : (\E d \in Caller : held'[d] = x) <=> x = s \/ \E d \in Caller : held[d] = x
  BY <1>1, <1>2
<1> QED
  BY <1>2, <1>4, <1>5 DEF InUse

LEMMA GetKeepsPool ==
    ASSUME PoolInv, NEW c \in Caller, held[c] = None, GetState(c), UNCHANGED <<broken, channels>>
    PROVE  /\ PoolInv'
           /\ held'[c] # None /\ \A d \in Caller \ {c} : held'[d] = held[d]
<1>0. PoolInv /\ None \notin State /\ Held = InUse(held)
  BY PoolFacts
<1>1. ASSUME NEW s \in State, s \notin InUse(held), NEW p, Use(c, s, p)
      PROVE  /\ held' \in [Caller -> State \cup {None}] /\ NoSharing(held')
             /\ InUse(held') = InUse(held) \cup {s} /\ pool' = p
             /\ held'[c] # None /\ \A d \in Caller \ {c} : held'[d] = held[d]
             /\ peak' \in Nat /\ peak' >= peak /\ Cardinality(InUse(held')) <= peak'
  <2>1. held' = [held EXCEPT ![c] = s] /\ pool' = p
    BY <1>1 DEF Use
  <2>2. /\ held' \in [Caller -> State \cup {None}] /\ NoSharing(held')
        /\ InUse(held') = InUse(held) \cup {s}
    BY <1>1, <2>1, UseAdds
  <2>3. held'[c] # None /\ \A d \in Caller \ {c} : held'[d] = held[d]
    BY <1>0, <2>1 DEF PoolInv
  <2>4. Cardinality(Users(held')) \in Nat /\ Cardinality(InUse(held')) <= Cardinality(Users(held'))
    BY <2>2, UsersCounted
  <2>5. peak' = IF Cardinality(Users(held')) > peak THEN Cardinality(Users(held')) ELSE peak
    BY <1>1 DEF Use, Users
  <2>6. InUse(held') \subseteq State /\ IsFiniteSet(State)
    BY ExtAssumption, FS_Interval DEF State, InUse
  <2>7. Cardinality(InUse(held')) \in Nat
    BY <2>6, FS_Subset, FS_CardinalityType
  <2> QED
    <3>1. peak \in Nat
      BY DEF PoolInv
    <3>2. peak' \in Nat /\ peak' >= peak /\ peak' >= Cardinality(Users(held'))
      BY <2>4, <2>5, <3>1
    <3>3. Cardinality(InUse(held')) <= peak'
      BY <2>4, <2>7, <3>2
    <3> QED
      BY <2>1, <2>2, <2>3, <3>2, <3>3
<1>2. ASSUME pool # <<>>, Use(c, Last(pool), Front(pool)), UNCHANGED <<alive, knows>>
      PROVE  PoolInv' /\ held'[c] # None /\ \A d \in Caller \ {c} : held'[d] = held[d]
  <2>1. /\ Front(pool) \in Seq(State) /\ IsInjective(Front(pool))
        /\ Last(pool) \in ToSet(pool) /\ ToSet(Front(pool)) = ToSet(pool) \ {Last(pool)}
    BY <1>2, FrontOfPool DEF PoolInv
  <2>2. Last(pool) \in State /\ Last(pool) \notin InUse(held)
    BY <2>1, PoolFacts DEF PoolInv
  <2>3. /\ held' \in [Caller -> State \cup {None}] /\ NoSharing(held')
        /\ InUse(held') = InUse(held) \cup {Last(pool)} /\ pool' = Front(pool)
        /\ held'[c] # None /\ \A d \in Caller \ {c} : held'[d] = held[d]
        /\ peak' \in Nat /\ peak' >= peak
    BY <1>1, <1>2, <2>2
  <2>4. ToSet(pool') \cap InUse(held') = {} /\ alive' = ToSet(pool') \cup InUse(held')
    BY <1>2, <2>1, <2>3 DEF PoolInv
  <2>5. peak' \in Nat \ {0} /\ Cardinality(alive') <= peak'
    BY <1>2, <2>3, PoolFacts DEF PoolInv
  <2> QED
    BY <1>2, <2>1, <2>3, <2>4, <2>5 DEF PoolInv
<1>3. ASSUME pool = <<>>, State \ (alive \cup Held) # {}, Use(c, Unused, pool),
             alive' = alive \cup {Unused}, knows' = [knows EXCEPT ![Unused] = channels]
      PROVE  PoolInv' /\ held'[c] # None /\ \A d \in Caller \ {c} : held'[d] = held[d]
  <2>1. Unused \in State /\ Unused \notin alive /\ Unused \notin InUse(held)
    BY <1>0, <1>3 DEF Unused
  <2>2. /\ held' \in [Caller -> State \cup {None}] /\ NoSharing(held')
        /\ InUse(held') = InUse(held) \cup {Unused} /\ pool' = pool
        /\ held'[c] # None /\ \A d \in Caller \ {c} : held'[d] = held[d]
        /\ peak' \in Nat /\ peak' >= peak /\ Cardinality(InUse(held')) <= peak'
    BY <1>1, <1>3, <2>1
  <2>3. ToSet(pool) = {}
    BY <1>3 DEF ToSet
  <2>4. alive' = InUse(held')
    BY <1>3, <2>2, <2>3 DEF PoolInv
  <2>5. peak' \in Nat \ {0}
    BY <2>2 DEF PoolInv
  <2>6. knows' \in [State -> SUBSET channels'] /\ channels' \subseteq Channel /\ broken' \subseteq alive'
    BY <1>3, <2>1 DEF PoolInv
  <2> QED
    BY <2>2, <2>3, <2>4, <2>5, <2>6 DEF PoolInv
<1> QED
  BY <1>2, <1>3 DEF GetState

(* Dropping states of the pool, which nobody uses.                         *)
LEMMA DropKeepsPool ==
    ASSUME PoolInv, NEW gone \in SUBSET ToSet(pool), Drop(gone), UNCHANGED <<held, peak>>,
           channels \subseteq channels', channels' \subseteq Channel,
           pool' \in Seq(State), IsInjective(pool'), ToSet(pool') = ToSet(pool) \ gone
    PROVE  PoolInv'
<1>1. alive' \subseteq alive /\ alive' = ToSet(pool') \cup InUse(held') /\ broken' \subseteq alive'
  BY DEF PoolInv, Drop
<1>2. ToSet(pool') \cap InUse(held') = {}
  BY DEF PoolInv
<1>3. knows' \in [State -> SUBSET channels']
  BY DEF PoolInv, Drop
<1>4. peak' \in Nat \ {0} /\ Cardinality(alive') <= peak'
  BY <1>1, FewerAlive DEF PoolInv
<1> QED
  BY <1>1, <1>2, <1>3, <1>4 DEF PoolInv

LEMMA FailKeepsPool == ASSUME PoolInv, StateFails PROVE PoolInv' /\ held' = held
<1>1. ASSUME pool # <<>>, pool' = Front(pool), Drop({Last(pool)}), UNCHANGED <<held, channels, peak>>
      PROVE  PoolInv'
  <2>1. /\ Front(pool) \in Seq(State) /\ IsInjective(Front(pool))
        /\ Last(pool) \in ToSet(pool) /\ ToSet(Front(pool)) = ToSet(pool) \ {Last(pool)}
    BY <1>1, FrontOfPool DEF PoolInv
  <2>2. channels' \subseteq Channel
    BY <1>1 DEF PoolInv
  <2> QED
    BY <1>1, <2>1, <2>2, DropKeepsPool
<1>2. ASSUME UNCHANGED poolVars PROVE PoolInv'
  BY <1>2 DEF poolVars, PoolInv
<1> QED
  BY <1>1, <1>2 DEF StateFails, poolVars

LEMMA PutKeepsPool ==
    ASSUME PoolInv, NEW c \in Caller, held[c] # None, PutState(c)
    PROVE  PoolInv' /\ held'[c] = None /\ \A d \in Caller \ {c} : held'[d] = held[d]
<1> DEFINE s == held[c]
<1>1. /\ held' = [held EXCEPT ![c] = None] /\ UNCHANGED <<alive, channels, knows, peak>>
      /\ broken' \in {broken, broken \cup {s}}
  BY DEF PutState
<1>2. held' \in [Caller -> State \cup {None}] /\ held'[c] = None /\ \A d \in Caller \ {c} : held'[d] = held[d]
  BY <1>1 DEF PoolInv
<1>3. s \in State /\ s \in InUse(held) /\ s \in alive /\ s \notin ToSet(pool)
  BY DEF PoolInv, InUse
<1>4. \A d \in Caller \ {c} : held[d] # s
  BY DEF PoolInv, NoSharing
<1>5. NoSharing(held')
  BY <1>2 DEF NoSharing, PoolInv
<1>6. InUse(held') = InUse(held) \ {s}
  <2>1. \A x \in State : (\E d \in Caller : held'[d] = x) <=> x # s /\ \E d \in Caller : held[d] = x
    BY <1>2, <1>3, <1>4, PoolFacts
  <2> QED
    BY <2>1 DEF InUse
<1>7. pool' = Append(pool, s)
  BY <1>3 DEF PutState
<1>8. pool' \in Seq(State) /\ IsInjective(pool') /\ ToSet(pool') = ToSet(pool) \cup {s}
  BY <1>3, <1>7, AppendToPool DEF PoolInv
<1>9. ToSet(pool') \cap InUse(held') = {} /\ alive' = ToSet(pool') \cup InUse(held')
  BY <1>1, <1>3, <1>6, <1>8 DEF PoolInv
<1>10. broken' \subseteq alive'
  BY <1>1, <1>3 DEF PoolInv
<1> QED
  BY <1>1, <1>2, <1>5, <1>8, <1>9, <1>10 DEF PoolInv

LEMMA ChannelKeepsPool == ASSUME PoolInv, NEW n \in Channel, CreateChannel(n) PROVE PoolInv'
<1>1. channels \subseteq channels' /\ channels' \subseteq Channel
  BY DEF CreateChannel, PoolInv
<1>2. pool' \in Seq(State) /\ IsInjective(pool') /\ ToSet(pool') = ToSet(pool) \ ToSet(pool)
  BY DEF CreateChannel, IsInjective, ToSet
<1> QED
  BY <1>1, <1>2, DropKeepsPool DEF CreateChannel

-----------------------------------------------------------------------------
(* The steps *)

(* A step that leaves the pool and the calls alone, or only ends calls.    *)
LEMMA OthersKeep ==
    ASSUME IInv, UNCHANGED poolVars, emitted \subseteq emitted',
           \A v \in AfterEvent : <<v, "lua">> \in pending' =>
               <<v, "lua">> \in pending \/ v \in emitted' \ emitted,
           \A v \in AfterEvent : <<v, "lua">> \in running' => <<v, "lua">> \in running
    PROVE  IInv'
BY DEF IInv, PoolInv, CallsInv, poolVars

(* A step of a session leaves the states of the after-events alone.        *)
LEMMA SessionKeepsCalls ==
    ASSUME IInv, NEW e \in Emitter, UNCHANGED afterVars, \A d \in Caller \ {e} : held'[d] = held[d]
    PROVE  CallsInv'
<1>1. \A v \in AfterEvent : held'[v] = held[v]
  BY ExtAssumption DEF Caller
<1>2. pending' = pending /\ running' = running /\ emitted' = emitted
  BY DEF afterVars
<1>3. CallsInv
  BY DEF IInv
<1>4. ASSUME NEW v \in AfterEvent
      PROVE  /\ <<v, "lua">> \in pending => v \in emitted /\ held'[v] = None
             /\ v \notin emitted => held'[v] = None
             /\ <<v, "lua">> \in running => held'[v] # None
  <2>1. held'[v] = held[v]
    BY <1>1
  <2> QED
    BY <1>3, <2>1 DEF CallsInv
<1> QED
  BY <1>2, <1>4 DEF CallsInv

LEMMA LuaEmitKeeps ==
    ASSUME IInv, NEW e \in Emitter, LuaBegins(e) \/ LuaUnavailable(e) \/ LuaAnswers(e)
    PROVE  IInv'
<1>0. PoolInv /\ e \in Caller
  BY DEF IInv, Caller
<1>1. CASE LuaBegins(e)
  BY <1>0, <1>1, GetKeepsPool, SessionKeepsCalls DEF LuaBegins, Asks, IInv
<1>2. CASE LuaUnavailable(e)
  BY <1>0, <1>2, FailKeepsPool, SessionKeepsCalls DEF LuaUnavailable, Hear, IInv
<1>3. CASE LuaAnswers(e)
  BY <1>0, <1>3, PutKeepsPool, SessionKeepsCalls DEF LuaAnswers, Hear, IInv
<1> QED
  BY <1>1, <1>2, <1>3

LEMMA LuaCallKeeps ==
    ASSUME IInv, NEW v \in AfterEvent, LuaCall(v) \/ LuaReturns(v)
    PROVE  IInv'
<1>0. PoolInv /\ v \in Caller /\ AfterEvent \subseteq Caller
  BY DEF IInv, Caller
<1>1. ASSUME Call(v, "lua"), GetState(v), running' = running \cup {<<v, "lua">>}, UNCHANGED <<broken, channels>>
      PROVE  IInv'
  <2>1. <<v, "lua">> \in pending /\ pending' = pending \ {<<v, "lua">>} /\ emitted' = emitted
    BY <1>1 DEF Call
  <2>2. held[v] = None /\ v \in emitted
    BY <2>1 DEF IInv, CallsInv
  <2>3. PoolInv' /\ held'[v] # None /\ \A d \in Caller \ {v} : held'[d] = held[d]
    BY <1>0, <1>1, <2>2, GetKeepsPool
  <2>4. CallsInv'
    BY <1>0, <1>1, <2>1, <2>2, <2>3 DEF IInv, CallsInv
  <2> QED
    BY <2>3, <2>4 DEF IInv
<1>2. ASSUME Call(v, "lua"), StateFails, UNCHANGED running PROVE IInv'
  <2>1. PoolInv' /\ held' = held
    BY <1>0, <1>2, FailKeepsPool
  <2> QED
    BY <1>2, <2>1 DEF IInv, CallsInv, Call
<1>3. ASSUME LuaReturns(v) PROVE IInv'
  <2>1. held[v] # None /\ PutState(v) /\ running' = running \ {<<v, "lua">>} /\ UNCHANGED <<pending, emitted>>
    BY <1>3 DEF LuaReturns, IInv, CallsInv
  <2>2. PoolInv' /\ held'[v] = None /\ \A d \in Caller \ {v} : held'[d] = held[d]
    BY <1>0, <2>1, PutKeepsPool
  <2>3. CallsInv'
    BY <1>0, <2>1, <2>2 DEF IInv, CallsInv
  <2> QED
    BY <2>2, <2>3 DEF IInv
<1> QED
  BY <1>1, <1>2, <1>3 DEF LuaCall

LEMMA NextKeeps == ASSUME IInv, [Next]_vars PROVE IInv'
<1>0. "lua" \notin Names
  BY ExtAssumption
<1>1. ASSUME NEW n \in Listener, AddListener(n) \/ RemoveListener(n) PROVE IInv'
  <2>1. UNCHANGED <<afterVars, poolVars>>
    BY <1>1 DEF AddListener, RemoveListener
  <2> QED
    BY <2>1, OthersKeep DEF afterVars
<1>2. ASSUME NEW n \in Channel, CreateChannel(n) PROVE IInv'
  BY <1>2, ChannelKeepsPool DEF IInv, CallsInv, CreateChannel, afterVars
<1>3. ASSUME NEW e \in Emitter, Emit(e) \/ GoAnswers(e) \/ NobodyAnswers(e) PROVE IInv'
  <2>1. UNCHANGED <<afterVars, poolVars>>
    BY <1>3 DEF Emit, GoAnswers, Hear, NobodyAnswers
  <2> QED
    BY <2>1, OthersKeep DEF afterVars
<1>4. ASSUME NEW v \in AfterEvent, EmitAfter(v) PROVE IInv'
  <2>1. /\ UNCHANGED <<running, poolVars>> /\ v \notin emitted /\ emitted' = emitted \cup {v}
        /\ pending' = pending \cup {<<v, n>> : n \in ToSet(after)}
    BY <1>4 DEF EmitAfter
  <2>2. \A w \in AfterEvent : <<w, "lua">> \in pending' => <<w, "lua">> \in pending \/ w = v
    BY <2>1
  <2> QED
    BY <2>1, <2>2, OthersKeep
<1>5. ASSUME NEW v \in AfterEvent, NEW n \in Listener, GoCall(v, n) PROVE IInv'
  <2>1. n # "lua" /\ <<v, n>> \in pending /\ pending' = pending \ {<<v, n>>}
        /\ running' = running \cup {<<v, n>>} /\ emitted' = emitted /\ UNCHANGED poolVars
    BY <1>0, <1>5 DEF GoCall, Call
  <2>2. \A w \in AfterEvent : <<w, "lua">> \in running' => <<w, "lua">> \in running
    BY <2>1
  <2>3. \A w \in AfterEvent : <<w, "lua">> \in pending' => <<w, "lua">> \in pending
    BY <2>1
  <2> QED
    BY <2>1, <2>2, <2>3, OthersKeep
<1>6. ASSUME NEW v \in AfterEvent, NEW n \in Listener, GoReturns(v, n) PROVE IInv'
  BY <1>6, OthersKeep DEF GoReturns
<1>7. CASE UNCHANGED vars
  BY <1>7, OthersKeep DEF vars, afterVars
<1> QED
  BY <1>1, <1>2, <1>3, <1>4, <1>5, <1>6, <1>7, LuaEmitKeeps, LuaCallKeeps
  DEF Next, EmitStep, AfterStep

LEMMA PoolHolds == Spec => []IInv
BY InitIInv, NextKeeps, PTL DEF Spec

-----------------------------------------------------------------------------
(* The brokers *)

(* A list without its i-th entry.                                          *)
LEMMA CutOut ==
    ASSUME NEW S, NEW s \in Seq(S), NEW i \in 1 .. Len(s)
    PROVE  /\ Cut(s, i) \in Seq(S) /\ Len(Cut(s, i)) = Len(s) - 1
           /\ \A j \in 1 .. Len(s) - 1 : Cut(s, i)[j] = IF j < i THEN s[j] ELSE s[j + 1]
<1> DEFINE a == SubSeq(s, 1, i - 1)
           b == SubSeq(s, i + 1, Len(s))
<1>1. Len(s) \in Nat /\ i \in Nat /\ 1 <= i /\ i <= Len(s)
  OBVIOUS
<1>2. a \in Seq(S) /\ Len(a) = i - 1 /\ \A j \in 1 .. i - 1 : a[j] = s[j]
  BY <1>1
<1>3. b \in Seq(S) /\ Len(b) = Len(s) - i /\ \A j \in 1 .. Len(s) - i : b[j] = s[i + j]
  BY <1>1
<1> HIDE DEF a, b
<1>4. /\ a \o b \in Seq(S) /\ Len(a \o b) = Len(a) + Len(b)
      /\ \A j \in 1 .. Len(a) + Len(b) : (a \o b)[j] = IF j <= Len(a) THEN a[j] ELSE b[j - Len(a)]
  BY <1>2, <1>3, ConcatProperties
<1>5. Len(a \o b) = Len(s) - 1
  BY <1>1, <1>2, <1>3, <1>4
<1>6. ASSUME NEW j \in 1 .. Len(s) - 1 PROVE (a \o b)[j] = IF j < i THEN s[j] ELSE s[j + 1]
  <2>1. j \in Nat /\ j \in 1 .. Len(a) + Len(b)
    BY <1>1, <1>2, <1>3
  <2>2. CASE j < i
    BY <1>1, <1>2, <1>4, <2>1, <2>2
  <2>3. CASE ~(j < i)
    <3>1. (a \o b)[j] = b[j - (i - 1)]
      BY <1>1, <1>2, <1>4, <2>1, <2>3
    <3>2. j - (i - 1) \in 1 .. Len(s) - i /\ i + (j - (i - 1)) = j + 1
      BY <1>1, <2>1, <2>3
    <3> QED
      BY <1>3, <2>3, <3>1, <3>2
  <2> QED
    BY <2>2, <2>3
<1> QED
  BY <1>4, <1>5, <1>6 DEF Cut, a, b

(* A removed name is no longer in the list.                                *)
LEMMA WithoutOne ==
    ASSUME NEW S, NEW list \in Seq(S), IsInjective(list), NEW n
    PROVE  /\ Without(list, n) \in Seq(S) /\ IsInjective(Without(list, n))
           /\ n \notin ToSet(Without(list, n))
<1>1. CASE n \notin ToSet(list)
  BY <1>1 DEF Without
<1>2. CASE n \in ToSet(list)
  <2> DEFINE i == First(list, n)
             t == Cut(list, i)
  <2>1. DOMAIN list = 1 .. Len(list) /\ Len(list) \in Nat
    OBVIOUS
  <2>2. \A j, k \in 1 .. Len(list) : list[j] = list[k] => j = k
    BY <2>1 DEF IsInjective
  <2>3. PICK spot \in 1 .. Len(list) : list[spot] = n
    BY <1>2, <2>1 DEF ToSet
  <2>4. \A j \in 1 .. spot - 1 : list[j] # n
    <3> SUFFICES ASSUME NEW j \in 1 .. spot - 1 PROVE list[j] # n
      OBVIOUS
    <3>1. j \in 1 .. Len(list) /\ j # spot
      BY <2>1
    <3> QED
      BY <2>2, <2>3, <3>1
  <2>5. i \in 1 .. Len(list) /\ list[i] = n
    BY <2>1, <2>3, <2>4 DEF First
  <2> HIDE DEF i
  <2>6. /\ t \in Seq(S) /\ Len(t) = Len(list) - 1 /\ DOMAIN t = 1 .. Len(list) - 1
        /\ \A j \in 1 .. Len(list) - 1 : t[j] = IF j < i THEN list[j] ELSE list[j + 1]
    <3>1. /\ t \in Seq(S) /\ Len(t) = Len(list) - 1
          /\ \A j \in 1 .. Len(list) - 1 : t[j] = IF j < i THEN list[j] ELSE list[j + 1]
      BY <2>5, CutOut
    <3> HIDE DEF t
    <3> QED BY <3>1
  <2> HIDE DEF t
  <2> DEFINE from(j) == IF j < i THEN j ELSE j + 1
  <2>7. \A j \in 1 .. Len(list) - 1 : from(j) \in 1 .. Len(list) /\ t[j] = list[from(j)] /\ from(j) # i
    BY <2>1, <2>5, <2>6
  <2>8. \A j, k \in 1 .. Len(list) - 1 : from(j) = from(k) => j = k
    BY <2>1, <2>5
  <2> HIDE DEF from
  <2>9. IsInjective(t)
    BY <2>2, <2>6, <2>7, <2>8 DEF IsInjective
  <2>10. n \notin ToSet(t)
    BY <2>2, <2>5, <2>6, <2>7 DEF ToSet
  <2>11. Without(list, n) = t
    BY <1>2 DEF Without, t, i
  <2> QED
    BY <2>6, <2>9, <2>10, <2>11
<1> QED
  BY <1>1, <1>2

(* What a listener has been asked, and by what: the one that holds a Lua   *)
(* state is the one whose turn it is.                                      *)
Heard == [name : Listener, answer : Answers \cup {Nil}]

ListsInv ==
    /\ before \in Seq(Listener) /\ IsInjective(before)
    /\ after \in Seq(Listener) /\ IsInjective(after)

EmitTypes ==
    /\ at \in [Emitter -> Nat] /\ heard \in [Emitter -> Seq(Heard)]
    /\ result \in [Emitter -> Answers \cup {Nil}]

EmitInv(e) ==
    /\ at[e] <= Len(before) + 1
    /\ held[e] # None => at[e] \in 1 .. Len(before)
    /\ at[e] # 0 => result[e] = Nil /\ Len(heard[e]) = at[e] - 1
    /\ \A i \in 1 .. Len(heard[e]) :
          /\ heard[e][i].answer # Nil <=> (i = Len(heard[e]) /\ result[e] # Nil)
          /\ at[e] # 0 => heard[e][i].name = before[i]

AfterInv ==
    /\ pending \subseteq emitted \X Listener /\ running \subseteq emitted \X Listener
    /\ emitted \subseteq AfterEvent

BrokerInv == ListsInv /\ EmitTypes /\ (\A e \in Emitter : EmitInv(e)) /\ AfterInv

LEMMA InitBrokerInv == Init => BrokerInv
<1> SUFFICES ASSUME Init PROVE BrokerInv
  OBVIOUS
<1>1. PICK n \in SetToSeqs(Names) : before = <<"lua">> \o n /\ after = before
  BY DEF Init
<1>2. Cardinality(Names) \in Nat
  BY ExtAssumption, FS_CardinalityType
<1>3. /\ n \in [1 .. Cardinality(Names) -> Names]
      /\ \A i, j \in 1 .. Cardinality(Names) : i # j => n[i] # n[j]
  BY DEF SetToSeqs
<1>4. n \in Seq(Names) /\ Len(n) \in Nat /\ DOMAIN n = 1 .. Len(n)
  <2>1. n \in Seq(Names)
    BY <1>2, <1>3
  <2> QED
    BY <2>1
<1>5. n \in Seq(Listener) /\ \A i \in 1 .. Len(n) : n[i] # "lua"
  <2>1. Names \subseteq Listener
    BY DEF Listener
  <2> QED
    BY <1>4, <2>1, ExtAssumption
<1>6. before \in Seq(Listener) /\ Len(before) = Len(n) + 1 /\ before[1] = "lua"
      /\ \A i \in 2 .. Len(n) + 1 : before[i] = n[i - 1]
  <2>1. <<"lua">> \in Seq(Listener) /\ Len(<<"lua">>) = 1
    BY DEF Listener
  <2>2. /\ before \in Seq(Listener) /\ Len(before) = 1 + Len(n)
        /\ \A i \in 1 .. 1 + Len(n) : before[i] = IF i <= 1 THEN <<"lua">>[i] ELSE n[i - 1]
    BY <1>1, <1>5, <2>1, ConcatProperties
  <2> QED
    BY <1>4, <2>2
<1>7. \A i, j \in 1 .. Len(n) : n[i] = n[j] => i = j
  BY <1>3, <1>4
<1>8. IsInjective(before)
  <2>1. DOMAIN before = 1 .. Len(n) + 1
    BY <1>6
  <2>2. ASSUME NEW i \in 1 .. Len(n) + 1, NEW j \in 1 .. Len(n) + 1, before[i] = before[j] PROVE i = j
    <3>1. CASE i = 1 \/ j = 1
      BY <1>4, <1>5, <1>6, <2>2, <3>1
    <3>2. CASE i # 1 /\ j # 1
      <4>1. i \in 2 .. Len(n) + 1 /\ j \in 2 .. Len(n) + 1 /\ i - 1 \in 1 .. Len(n) /\ j - 1 \in 1 .. Len(n)
        BY <1>4, <3>2
      <4>2. i - 1 = j - 1
        BY <1>6, <1>7, <2>2, <4>1
      <4> QED
        BY <4>1, <4>2
    <3> QED
      BY <3>1, <3>2
  <2> QED
    BY <2>1, <2>2 DEF IsInjective
<1>9. EmitTypes
  BY DEF Init, EmitTypes
<1>10. ASSUME NEW e \in Emitter PROVE EmitInv(e)
  <2>1. at[e] = 0 /\ heard[e] = <<>> /\ held[e] = None
    BY DEF Init, Caller
  <2> QED
    BY <1>6, <2>1 DEF EmitInv
<1>11. AfterInv
  BY DEF Init, AfterInv
<1> QED
  BY <1>1, <1>6, <1>8, <1>9, <1>10, <1>11 DEF BrokerInv, ListsInv

(* AddListener and RemoveListener at one list.                             *)
LEMMA ListChanges ==
    ASSUME NEW list \in Seq(Listener), IsInjective(list), NEW n \in Listener
    PROVE  /\ Without(list, n) \in Seq(Listener) /\ IsInjective(Without(list, n))
           /\ Append(Without(list, n), n) \in Seq(Listener)
           /\ IsInjective(Append(Without(list, n), n))
<1>1. /\ Without(list, n) \in Seq(Listener) /\ IsInjective(Without(list, n))
      /\ n \notin ToSet(Without(list, n))
  BY WithoutOne
<1> QED
  BY <1>1, AppendToPool

(* While no listener is asked the list of the before-event may change.     *)
LEMMA ListenersKeepBrokers ==
    ASSUME BrokerInv, NEW n \in Listener, AddListener(n) \/ RemoveListener(n)
    PROVE  BrokerInv'
<1>1. UNCHANGED <<at, heard, result, held, pending, running, emitted>>
  BY DEF AddListener, RemoveListener, emitVars, afterVars, poolVars
<1>2. ListsInv'
  BY ListChanges DEF BrokerInv, ListsInv, AddListener, RemoveListener
<1>3. before' = before \/ Unlocked
  BY DEF AddListener, RemoveListener
<1>4. ASSUME NEW e \in Emitter PROVE EmitInv(e)'
  <2>1. CASE before' = before
    BY <1>1, <2>1 DEF BrokerInv, EmitInv
  <2>2. CASE Unlocked
    <3>1. at[e] = 0
      BY <2>2 DEF Unlocked
    <3>2. Len(before') \in Nat
      BY <1>2 DEF ListsInv
    <3> QED
      BY <1>1, <3>1, <3>2 DEF BrokerInv, EmitInv
  <2> QED
    BY <1>3, <2>1, <2>2
<1> QED
  BY <1>1, <1>2, <1>4 DEF BrokerInv, EmitTypes, AfterInv

(* The other sessions at the broker are as they were.                      *)
LEMMA OneEmits ==
    ASSUME BrokerInv, NEW e \in Emitter, UNCHANGED <<brokerVars, afterVars>>, EmitTypes',
           EmitInv(e)',
           \A d \in Emitter \ {e} : /\ at'[d] = at[d] /\ heard'[d] = heard[d]
                                    /\ result'[d] = result[d] /\ held'[d] = held[d]
    PROVE  BrokerInv'
<1>1. ASSUME NEW d \in Emitter \ {e} PROVE EmitInv(d)'
  <2>1. EmitInv(d) /\ before' = before
    BY DEF BrokerInv, brokerVars
  <2> QED
    BY <2>1 DEF EmitInv
<1>2. ListsInv' /\ AfterInv'
  BY DEF BrokerInv, ListsInv, AfterInv, brokerVars, afterVars
<1> QED
  BY <1>1, <1>2 DEF BrokerInv

(* The listener whose turn it is has answered, and holds no Lua state.     *)
LEMMA HearKeepsBrokers ==
    ASSUME BrokerInv, NEW e \in Emitter, at[e] \in 1 .. Len(before), NEW r \in Answers \cup {Nil},
           Hear(e, r), held'[e] = None, \A d \in Emitter \ {e} : held'[d] = held[d]
    PROVE  BrokerInv'
<1> DEFINE h == [name |-> before[at[e]], answer |-> r]
           k == Len(heard[e])
<1>1. /\ before \in Seq(Listener) /\ before' = before
      /\ at \in [Emitter -> Nat] /\ heard \in [Emitter -> Seq(Heard)]
      /\ result \in [Emitter -> Answers \cup {Nil}]
  BY DEF BrokerInv, ListsInv, EmitTypes, Hear, brokerVars
<1>2. /\ at' = [at EXCEPT ![e] = IF r = Nil THEN @ + 1 ELSE 0]
      /\ heard' = [heard EXCEPT ![e] = Append(@, h)]
      /\ result' = [result EXCEPT ![e] = r]
  BY DEF Hear
<1>3. EmitInv(e)
  BY DEF BrokerInv
<1>4. h \in Heard /\ h.name = before[at[e]] /\ h.answer = r
  BY <1>1 DEF Heard
<1>5. at[e] # 0 /\ result[e] = Nil /\ k = at[e] - 1 /\ k \in Nat
  BY <1>1, <1>3 DEF EmitInv
<1> HIDE DEF h
<1>6. /\ heard'[e] = Append(heard[e], h) /\ Len(heard'[e]) = k + 1
      /\ heard'[e][k + 1] = h /\ \A i \in 1 .. k : heard'[e][i] = heard[e][i]
  <2>1. heard[e] \in Seq(Heard) /\ heard'[e] = Append(heard[e], h)
    BY <1>1, <1>2
  <2> QED
    BY <1>4, <2>1
<1>7. EmitTypes'
  <2>1. Append(heard[e], h) \in Seq(Heard)
    BY <1>1, <1>4
  <2> QED
    BY <1>1, <1>2, <2>1 DEF EmitTypes
<1>8. at'[e] = (IF r = Nil THEN at[e] + 1 ELSE 0) /\ result'[e] = r
  BY <1>1, <1>2
<1>9. EmitInv(e)'
  <2>1. at'[e] <= Len(before') + 1 /\ held'[e] = None
    BY <1>1, <1>8
  <2>2. at'[e] # 0 => result'[e] = Nil /\ Len(heard'[e]) = at'[e] - 1
    BY <1>1, <1>5, <1>6, <1>8
  <2>3. ASSUME NEW i \in 1 .. Len(heard'[e])
        PROVE  /\ heard'[e][i].answer # Nil <=> (i = Len(heard'[e]) /\ result'[e] # Nil)
               /\ at'[e] # 0 => heard'[e][i].name = before'[i]
    <3>1. CASE i = k + 1
      BY <1>1, <1>4, <1>5, <1>6, <1>8, <3>1
    <3>2. CASE i # k + 1
      <4>1. i \in 1 .. k /\ heard'[e][i] = heard[e][i]
        BY <1>5, <1>6, <3>2
      <4> QED
        BY <1>1, <1>3, <1>5, <1>6, <3>2, <4>1 DEF EmitInv
    <3> QED
      BY <3>1, <3>2
  <2> QED
    BY <2>1, <2>2, <2>3 DEF EmitInv
<1>10. \A d \in Emitter \ {e} : at'[d] = at[d] /\ heard'[d] = heard[d] /\ result'[d] = result[d]
  BY <1>1, <1>2
<1>11. UNCHANGED <<brokerVars, afterVars>>
  BY DEF Hear
<1> QED
  BY <1>7, <1>9, <1>10, <1>11, OneEmits

(* What a Lua call does to the states that the callers hold.               *)
LEMMA HoldsChange ==
    ASSUME held \in [Caller -> State \cup {None}], NEW c \in Caller
    PROVE  /\ GetState(c) => \A d \in Caller \ {c} : held'[d] = held[d]
           /\ PutState(c) => held'[c] = None /\ \A d \in Caller \ {c} : held'[d] = held[d]
           /\ StateFails => held' = held
BY DEF GetState, Use, PutState, StateFails, poolVars

LEMMA SessionKeepsBrokers ==
    ASSUME BrokerInv, PoolInv, NEW e \in Emitter, Emit(e) \/ EmitStep(e)
    PROVE  BrokerInv'
<1>0. /\ e \in Caller /\ Emitter \subseteq Caller /\ held \in [Caller -> State \cup {None}]
      /\ EmitInv(e) /\ EmitTypes
  BY DEF Caller, PoolInv, BrokerInv
<1>1. ASSUME Emit(e) PROVE BrokerInv'
  <2>1. /\ at[e] = 0 /\ UNCHANGED <<brokerVars, afterVars, held>>
        /\ at' = [at EXCEPT ![e] = 1] /\ heard' = [heard EXCEPT ![e] = <<>>]
        /\ result' = [result EXCEPT ![e] = Nil]
    BY <1>1 DEF Emit, poolVars
  <2>2. EmitTypes'
    BY <1>0, <2>1 DEF EmitTypes
  <2>3. EmitInv(e)'
    <3>1. at'[e] = 1 /\ heard'[e] = <<>> /\ result'[e] = Nil
      BY <1>0, <2>1 DEF EmitTypes
    <3>2. held'[e] = None
      BY <1>0, <2>1 DEF EmitInv
    <3>3. Len(before') \in Nat
      BY <2>1 DEF BrokerInv, ListsInv, brokerVars
    <3> QED
      BY <3>1, <3>2, <3>3 DEF EmitInv
  <2>4. \A d \in Emitter \ {e} : at'[d] = at[d] /\ heard'[d] = heard[d] /\ result'[d] = result[d]
    BY <1>0, <2>1 DEF EmitTypes
  <2> QED
    BY <2>1, <2>2, <2>3, <2>4, OneEmits
<1>2. ASSUME GoAnswers(e) PROVE BrokerInv'
  <2>1. at[e] \in 1 .. Len(before) /\ held[e] = None /\ held' = held
    BY <1>2 DEF GoAnswers, Asks, poolVars
  <2> QED
    BY <1>2, <2>1, HearKeepsBrokers DEF GoAnswers
<1>3. ASSUME LuaBegins(e) PROVE BrokerInv'
  <2>1. UNCHANGED <<brokerVars, emitVars, afterVars>> /\ at[e] \in 1 .. Len(before)
    BY <1>3 DEF LuaBegins, Asks
  <2>2. \A d \in Emitter \ {e} : held'[d] = held[d]
    BY <1>0, <1>3, HoldsChange DEF LuaBegins
  <2>3. EmitInv(e)' /\ EmitTypes'
    BY <1>0, <2>1 DEF EmitInv, EmitTypes, brokerVars, emitVars
  <2> QED
    BY <2>1, <2>2, <2>3, OneEmits DEF emitVars
<1>4. ASSUME LuaUnavailable(e) PROVE BrokerInv'
  <2>1. at[e] \in 1 .. Len(before) /\ held[e] = None /\ Hear(e, Nil) /\ held' = held
    BY <1>0, <1>4, HoldsChange DEF LuaUnavailable, Asks
  <2> QED
    BY <2>1, HearKeepsBrokers
<1>5. ASSUME LuaAnswers(e) PROVE BrokerInv'
  <2>1. at[e] \in 1 .. Len(before)
    BY <1>0, <1>5 DEF LuaAnswers, EmitInv
  <2>2. held'[e] = None /\ \A d \in Emitter \ {e} : held'[d] = held[d]
    BY <1>0, <1>5, HoldsChange DEF LuaAnswers
  <2> QED
    BY <1>5, <2>1, <2>2, HearKeepsBrokers DEF LuaAnswers
<1>6. ASSUME NobodyAnswers(e) PROVE BrokerInv'
  <2>1. /\ at[e] > Len(before) /\ UNCHANGED <<brokerVars, afterVars, heard, result, held>>
        /\ at' = [at EXCEPT ![e] = 0]
    BY <1>6 DEF NobodyAnswers, poolVars
  <2>2. EmitTypes' /\ at'[e] = 0 /\ \A d \in Emitter \ {e} : at'[d] = at[d]
    BY <1>0, <2>1 DEF EmitTypes
  <2>3. Len(before) \in Nat /\ before' = before /\ at[e] \in Nat
    BY <1>0, <2>1 DEF BrokerInv, ListsInv, brokerVars, EmitTypes
  <2>4. EmitInv(e)'
    BY <1>0, <2>1, <2>2, <2>3 DEF EmitInv
  <2> QED
    BY <2>1, <2>2, <2>4, OneEmits
<1> QED
  BY <1>1, <1>2, <1>3, <1>4, <1>5, <1>6 DEF EmitStep

(* A step that touches no session.                                         *)
LEMMA AfterKeepsBrokers ==
    ASSUME BrokerInv, UNCHANGED <<brokerVars, emitVars>>, \A e \in Emitter : held'[e] = held[e],
           AfterInv'
    PROVE  BrokerInv'
<1>1. before' = before /\ after' = after /\ at' = at /\ heard' = heard /\ result' = result
  BY DEF brokerVars, emitVars
<1>2. ASSUME NEW e \in Emitter PROVE EmitInv(e)'
  BY <1>1 DEF BrokerInv, EmitInv
<1> QED
  BY <1>1, <1>2 DEF BrokerInv, ListsInv, EmitTypes

LEMMA EventKeepsBrokers ==
    ASSUME BrokerInv, PoolInv, NEW v \in AfterEvent,
           EmitAfter(v) \/ \E n \in Listener : AfterStep(v, n)
    PROVE  BrokerInv'
<1>0. /\ v \in Caller /\ Emitter \subseteq Caller \ {v} /\ held \in [Caller -> State \cup {None}]
      /\ AfterInv /\ "lua" \in Listener /\ Names \subseteq Listener
  BY ExtAssumption DEF Caller, PoolInv, BrokerInv, Listener
<1>1. UNCHANGED <<brokerVars, emitVars>>
  BY DEF EmitAfter, AfterStep, GoCall, GoReturns, LuaCall, LuaReturns, Call
<1>2. \A e \in Emitter : held'[e] = held[e]
  <2>1. held' = held \/ GetState(v) \/ PutState(v) \/ StateFails
    BY DEF EmitAfter, AfterStep, GoCall, GoReturns, LuaCall, LuaReturns, poolVars
  <2> QED
    BY <1>0, <2>1, HoldsChange
<1>3. AfterInv'
  <2>1. CASE EmitAfter(v)
    <3>1. ToSet(after) \subseteq Listener
      BY DEF BrokerInv, ListsInv, ToSet
    <3>2. /\ emitted' = emitted \cup {v} /\ running' = running
          /\ pending' = pending \cup {<<v, n>> : n \in ToSet(after)}
      BY <2>1 DEF EmitAfter
    <3> QED
      BY <1>0, <3>1, <3>2 DEF AfterInv
  <2>2. ASSUME NEW n \in Listener, AfterStep(v, n)
        PROVE  /\ emitted' = emitted /\ pending' \subseteq pending
               /\ running' \subseteq running \cup pending
    BY <2>2 DEF AfterStep, GoCall, GoReturns, LuaCall, LuaReturns, Call
  <2> QED
    BY <1>0, <2>1, <2>2 DEF AfterInv
<1> QED
  BY <1>1, <1>2, <1>3, AfterKeepsBrokers

LEMMA NextKeepsBrokers == ASSUME BrokerInv, IInv, [Next]_vars PROVE BrokerInv'
<1>1. PoolInv
  BY DEF IInv
<1>2. ASSUME NEW n \in Channel, CreateChannel(n) PROVE BrokerInv'
  <2>1. UNCHANGED <<brokerVars, emitVars, afterVars, held>>
    BY <1>2 DEF CreateChannel
  <2>2. AfterInv'
    BY <2>1 DEF BrokerInv, AfterInv, afterVars
  <2> QED
    BY <2>1, <2>2, AfterKeepsBrokers
<1>3. CASE UNCHANGED vars
  <2>1. UNCHANGED <<brokerVars, emitVars, afterVars, held>>
    BY <1>3 DEF vars, poolVars
  <2>2. AfterInv'
    BY <2>1 DEF BrokerInv, AfterInv, afterVars
  <2> QED
    BY <2>1, <2>2, AfterKeepsBrokers
<1> QED
  BY <1>1, <1>2, <1>3, ListenersKeepBrokers, SessionKeepsBrokers, EventKeepsBrokers DEF Next

-----------------------------------------------------------------------------
(* The theorems *)

(* No Lua state has two users or is used after its end, and there are      *)
(* never more of them than were once in use together, whatever the         *)
(* script's channels and failures do to the pool.                          *)
THEOREM PoolIsSound == Spec => []PoolSound
<1>1. IInv => PoolSound
  <2> SUFFICES ASSUME PoolInv PROVE PoolSound
    BY DEF IInv
  <2>1. Held = InUse(held) /\ alive \subseteq State
    BY PoolFacts
  <2> QED
    BY <2>1 DEF PoolInv, PoolSound, PoolTypeOK, StateExclusive, NoSharing, PoolBounded
<1> QED
  BY <1>1, PoolHolds, PTL

(* A channel is unknown only to states that were in use when it was made.  *)
THEOREM OnlyStatesInUseMiss == Spec => OnlyOldStatesMiss
<1> DEFINE Fresh == \A s \in alive' :
               IF s \in alive THEN channels' # channels => s \in Held ELSE knows'[s] = channels'
<1>1. IInv /\ [Next]_vars => [Fresh]_vars
  <2> SUFFICES ASSUME PoolInv, Next PROVE Fresh
    BY DEF IInv
  <2>1. ASSUME NEW n \in Channel, CreateChannel(n) PROVE Fresh
    BY <2>1, PoolFacts DEF CreateChannel, Drop, PoolInv
  <2>2. ASSUME alive' \subseteq alive, channels' = channels PROVE Fresh
    BY <2>2
  <2>3. ASSUME NEW c \in Caller, GetState(c), channels' = channels PROVE Fresh
    <3>1. CASE alive' = alive
      BY <2>2, <2>3, <3>1
    <3>2. ASSUME State \ (alive \cup Held) # {}, alive' = alive \cup {Unused},
                 knows' = [knows EXCEPT ![Unused] = channels]
          PROVE  Fresh
      <4>1. Unused \in State
        BY <3>2 DEF Unused
      <4> QED
        BY <2>3, <3>2, <4>1 DEF PoolInv
    <3> QED
      BY <2>3, <3>1, <3>2 DEF GetState
  <2>4. ASSUME StateFails PROVE Fresh
    BY <2>2, <2>4 DEF StateFails, Drop
  <2>5. ASSUME NEW c \in Caller, PutState(c) PROVE Fresh
    BY <2>2, <2>5 DEF PutState
  <2>6. ASSUME UNCHANGED poolVars PROVE Fresh
    BY <2>2, <2>6 DEF poolVars
  <2>7. ASSUME NEW e \in Emitter, Emit(e) \/ EmitStep(e) PROVE Fresh
    <3>1. e \in Caller
      BY DEF Caller
    <3> HIDE DEF Fresh
    <3> QED
      BY <2>3, <2>4, <2>5, <2>6, <2>7, <3>1
      DEF Emit, EmitStep, GoAnswers, LuaBegins, LuaUnavailable, LuaAnswers, NobodyAnswers
  <2>8. ASSUME NEW v \in AfterEvent, EmitAfter(v) \/ \E n \in Listener : AfterStep(v, n) PROVE Fresh
    <3>1. v \in Caller
      BY DEF Caller
    <3> HIDE DEF Fresh
    <3> QED
      BY <2>3, <2>4, <2>5, <2>6, <2>8, <3>1
      DEF EmitAfter, AfterStep, GoCall, GoReturns, LuaCall, LuaReturns
  <2>9. ASSUME NEW n \in Listener, AddListener(n) \/ RemoveListener(n) PROVE Fresh
    BY <2>6, <2>9 DEF AddListener, RemoveListener
  <2> HIDE DEF Fresh
  <2> QED
    BY <2>1, <2>7, <2>8, <2>9 DEF Next
<1> QED
  BY <1>1, PoolHolds, PTL DEF Spec, OnlyOldStatesMiss

(* The first listener with an answer decides, those after it are not       *)
(* asked, the list stays as it is meanwhile, and no listener is in it      *)
(* twice.                                                                  *)
THEOREM BrokersAreSound == Spec => []BrokersSound
<1>1. BrokerInv => BrokersSound
  <2> SUFFICES ASSUME BrokerInv PROVE BrokersSound
    OBVIOUS
  <2>1. ToSet(before) \cup ToSet(after) \subseteq Listener
    BY DEF BrokerInv, ListsInv, ToSet
  <2>2. at \in [Emitter -> 0 .. Len(before) + 1]
    <3>1. \A e \in Emitter : at[e] \in Nat /\ at[e] <= Len(before) + 1
      BY DEF BrokerInv, EmitTypes, EmitInv
    <3>2. Len(before) \in Nat
      BY DEF BrokerInv, ListsInv
    <3> QED
      BY <3>1, <3>2 DEF BrokerInv, EmitTypes
  <2>3. BrokerTypeOK
    BY <2>1, <2>2 DEF BrokerTypeOK, BrokerInv, EmitTypes, AfterInv
  <2>4. ASSUME NEW e \in Emitter
        PROVE  DOMAIN heard[e] = 1 .. Len(heard[e])
    BY DEF BrokerInv, EmitTypes
  <2>5. FirstAnswerWins
    BY <2>4 DEF FirstAnswerWins, BrokerInv, EmitInv
  <2> QED
    BY <2>3, <2>5 DEF BrokersSound, RegisteredOnce, BrokerInv, ListsInv
<1> QED
  BY <1>1, InitBrokerInv, NextKeepsBrokers, PoolHolds, PTL DEF Spec
=============================================================================
