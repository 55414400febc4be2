----------------------------- MODULE NetworkPool -----------------------------
(***************************************************************************)
(* src/internal/engine/network.go: the pool of shared http.Transports.     *)
(* Downloads and probes acquire the transport of a configuration and       *)
(* release it once (a defer); the last release arms a timer of ten         *)
(* seconds that evicts the transport.  Every operation holds p.mu, but a   *)
(* timer that has gone off waits for p.mu like any goroutine, and Stop     *)
(* comes too late for it: this is what timerGen is for.                    *)
(***************************************************************************)
EXTENDS Integers, FiniteSets

CONSTANTS Users,       \* goroutines that download or probe
          Keys,        \* poolKeys
          Transports,  \* the http.Transports createNewTransport may make, each with its lease
          NoTransport, \* nil
          MaxGen       \* bound: a lease whose timerGen has reached it is not acquired again

ASSUME NetworkPoolAssumption ==
  /\ IsFiniteSet(Users)
  /\ NoTransport \notin Transports
  /\ MaxGen \in Nat

VARIABLES
  configMap,     \* p.configMap: the lease of a key, by its transport
  transportMap,  \* the keys of p.transportMap
  made,          \* transports created so far
  key, refs, timerGen,   \* the fields of a lease
  idleTimer,     \* lease.idleTimer: the generation of the timer it holds, 0 for nil
  pending,       \* timers that have not gone off
  fired,         \* timers that have gone off and wait for p.mu
  held           \* the transport each user has acquired

maps == <<configMap, transportMap, made, key>>
timers == <<timerGen, idleTimer, pending, fired>>
vars == <<maps, refs, timers, held>>

-----------------------------------------------------------------------------
Init ==
  /\ configMap = [k \in Keys |-> NoTransport]
  /\ transportMap = {}
  /\ made = {}
  /\ key \in [Transports -> Keys]
  /\ refs = [t \in Transports |-> 0]
  /\ timerGen = [t \in Transports |-> 0]
  /\ idleTimer = [t \in Transports |-> 0]
  /\ pending = {}
  /\ fired = {}
  /\ held = [u \in Users |-> NoTransport]

(* AcquireTransport of a key with no lease: a new one.  key was chosen by  *)
(* Init, which saves states.                                               *)
AcquireNew(u, k, t) ==
  /\ held[u] = NoTransport
  /\ configMap[k] = NoTransport
  /\ t \notin made /\ key[t] = k
  /\ configMap' = [configMap EXCEPT ![k] = t]
  /\ transportMap' = transportMap \cup {t}
  /\ made' = made \cup {t}
  /\ refs' = [refs EXCEPT ![t] = 1]
  /\ held' = [held EXCEPT ![u] = t]
  /\ UNCHANGED <<key, timers>>

\* Mutant: the new user is not counted.
AcquireUncounted(u, k) ==
  LET t == configMap[k] IN
  /\ held[u] = NoTransport
  /\ t # NoTransport
  /\ timerGen[t] < MaxGen
  /\ pending' = pending \ {<<t, idleTimer[t]>>}
  /\ timerGen' = [timerGen EXCEPT ![t] = IF idleTimer[t] # 0 THEN @ + 1 ELSE @]
  /\ idleTimer' = [idleTimer EXCEPT ![t] = 0]
  /\ held' = [held EXCEPT ![u] = t]
  /\ UNCHANGED <<maps, refs, fired>>

(* AcquireTransport of a key with a lease: stop its timer, if it has one,  *)
(* and make the timer's generation stale in case Stop came too late.       *)
AcquireShared(u, k) ==
  LET t == configMap[k] IN
  /\ held[u] = NoTransport
  /\ t # NoTransport
  /\ timerGen[t] < MaxGen
  /\ pending' = pending \ {<<t, idleTimer[t]>>}
  /\ timerGen' = [timerGen EXCEPT ![t] = IF idleTimer[t] # 0 THEN @ + 1 ELSE @]
  /\ idleTimer' = [idleTimer EXCEPT ![t] = 0]
  /\ refs' = [refs EXCEPT ![t] = @ + 1]
  /\ held' = [held EXCEPT ![u] = t]
  /\ UNCHANGED <<maps, fired>>

(* ReleaseTransport.  Its return for a transport that is not in            *)
(* transportMap (lines 90-94) is not an action: a holder's transport is    *)
(* always there, which TransportCache states.                              *)
Release(u) ==
  LET t == held[u] IN
  /\ t \in transportMap
  /\ refs[t] > 1
  /\ refs' = [refs EXCEPT ![t] = @ - 1]
  /\ held' = [held EXCEPT ![u] = NoTransport]
  /\ UNCHANGED <<maps, timers>>

\* Mutant: the last release leaves the old generation on the new timer's lease.
ReleaseLastSameGen(u) ==
  LET t == held[u] IN
  /\ t \in transportMap
  /\ refs[t] <= 1
  /\ refs' = [refs EXCEPT ![t] = 0]
  /\ idleTimer' = [idleTimer EXCEPT ![t] = timerGen[t] + 1]
  /\ pending' = pending \cup {<<t, timerGen[t] + 1>>}
  /\ held' = [held EXCEPT ![u] = NoTransport]
  /\ UNCHANGED <<maps, timerGen, fired>>

(* The last release (refs is not let below 0) arms a timer of the next     *)
(* generation.                                                             *)
ReleaseLast(u) ==
  LET t == held[u] IN
  /\ t \in transportMap
  /\ refs[t] <= 1
  /\ refs' = [refs EXCEPT ![t] = 0]
  /\ timerGen' = [timerGen EXCEPT ![t] = @ + 1]
  /\ idleTimer' = [idleTimer EXCEPT ![t] = timerGen[t] + 1]
  /\ pending' = pending \cup {<<t, timerGen[t] + 1>>}
  /\ held' = [held EXCEPT ![u] = NoTransport]
  /\ UNCHANGED <<maps, fired>>

(* Ten seconds have passed: the callback runs and waits for p.mu.          *)
Expire(t, g) ==
  /\ <<t, g>> \in pending
  /\ pending' = pending \ {<<t, g>>}
  /\ fired' = fired \cup {<<t, g>>}
  /\ UNCHANGED <<maps, refs, timerGen, idleTimer, held>>

(* What the callback asks before it evicts.                                *)
IsIdle(t, g) == refs[t] = 0 /\ timerGen[t] = g

Evict(t, g) ==
  /\ <<t, g>> \in fired
  /\ IsIdle(t, g)
  /\ fired' = fired \ {<<t, g>>}
  /\ configMap' = [configMap EXCEPT ![key[t]] = NoTransport]
  /\ transportMap' = transportMap \ {t}
  /\ UNCHANGED <<made, key, refs, timerGen, idleTimer, pending, held>>

TooLate(t, g) ==
  /\ <<t, g>> \in fired
  /\ ~IsIdle(t, g)
  /\ fired' = fired \ {<<t, g>>}
  /\ UNCHANGED <<maps, refs, timerGen, idleTimer, pending, held>>

Timer(t, g) == Expire(t, g) \/ Evict(t, g) \/ TooLate(t, g)

Next ==
  \/ \E u \in Users, k \in Keys : AcquireShared(u, k) \/ \E t \in Transports : AcquireNew(u, k, t)
  \/ \E u \in Users : Release(u) \/ ReleaseLast(u)
  \/ \E e \in pending \cup fired : Timer(e[1], e[2])

(* The runtime runs the callbacks of timers; nobody holds p.mu for ever.   *)
Fairness == \A t \in Transports : WF_vars(\E g \in 1 .. MaxGen + 1 : Timer(t, g))

Spec == Init /\ [][Next]_vars
LiveSpec == Spec /\ Fairness

-----------------------------------------------------------------------------
TypeOK ==
  /\ configMap \in [Keys -> Transports \cup {NoTransport}]
  /\ transportMap \in SUBSET Transports
  /\ made \in SUBSET Transports
  /\ key \in [Transports -> Keys]
  /\ refs \in [Transports -> Nat]
  /\ timerGen \in [Transports -> Nat]
  /\ idleTimer \in [Transports -> Nat]
  /\ pending \in SUBSET (Transports \X (Nat \ {0}))
  /\ fired \in SUBSET (Transports \X (Nat \ {0}))
  /\ held \in [Users -> Transports \cup {NoTransport}]

Holders(t) == {u \in Users : held[u] = t}

(* refs of a managed transport is the number of goroutines that hold it:   *)
(* neither an eviction nor a stale timer makes a release hit another lease *)
(* or go uncounted (network.go:90-99).                                     *)
RefsExact == \A t \in transportMap : refs[t] = Cardinality(Holders(t))

(* An idle transport in the maps has a timer of its current generation     *)
(* that has not been served, so that it is not kept for ever; Stop and     *)
(* timerGen never invalidate the last one (network.go:70-74, 102-115).     *)
IdleIsTimed ==
  \A t \in transportMap : refs[t] = 0 => <<t, timerGen[t]>> \in pending \cup fired

(* The two maps agree: a key leads to a transport when and only when the   *)
(* transport is managed and its lease has that key, so an eviction never   *)
(* removes the entry of a newer lease (network.go:110-111).                *)
MapsAgree ==
  \A k \in Keys, t \in Transports :
    configMap[k] = t <=> t \in transportMap /\ key[t] = k

(* An idle transport is acquired again or evicted in the end.              *)
IdleGoes ==
  \A t \in Transports :
    (t \in transportMap /\ refs[t] = 0) ~> (t \notin transportMap \/ refs[t] > 0)

Cache == INSTANCE TransportCache WITH cache <- configMap

(* The pool does what TransportCache promises: one transport for those     *)
(* that use a configuration together, never dropped under a user.          *)
ImplementsTransportCache == Cache!TCSpec
=============================================================================
