---------------------------- MODULE TransportCache ----------------------------
(***************************************************************************)
(* What src/internal/engine/network.go promises to a download or a probe:  *)
(* those that work with one configuration at the same time share one       *)
(* transport, and a transport somebody holds is not dropped.  NetworkPool  *)
(* does it with reference counts and idle timers.                          *)
(***************************************************************************)
CONSTANTS Users,       \* goroutines that download or probe
          Keys,        \* configurations: proxy, DNS server, connection limit
          Transports,  \* the http.Transports that may be created
          NoTransport  \* nil

VARIABLES cache,  \* the transport shared under each key
          held    \* the transport each user holds

cacheVars == <<cache, held>>

TCInit ==
  /\ cache = [k \in Keys |-> NoTransport]
  /\ held = [u \in Users |-> NoTransport]

Share(u, k) ==
  /\ held[u] = NoTransport
  /\ cache[k] # NoTransport
  /\ held' = [held EXCEPT ![u] = cache[k]]
  /\ UNCHANGED cache

(* A fresh transport: neither shared under another key nor still held.     *)
Create(u, k, t) ==
  /\ held[u] = NoTransport
  /\ cache[k] = NoTransport
  /\ \A l \in Keys : cache[l] # t
  /\ \A v \in Users : held[v] # t
  /\ cache' = [cache EXCEPT ![k] = t]
  /\ held' = [held EXCEPT ![u] = t]

GiveBack(u) ==
  /\ held[u] # NoTransport
  /\ held' = [held EXCEPT ![u] = NoTransport]
  /\ UNCHANGED cache

Drop(k) ==
  /\ cache[k] # NoTransport
  /\ \A u \in Users : held[u] # cache[k]
  /\ cache' = [cache EXCEPT ![k] = NoTransport]
  /\ UNCHANGED held

TCNext ==
  \/ \E u \in Users, k \in Keys : Share(u, k) \/ \E t \in Transports : Create(u, k, t)
  \/ \E u \in Users : GiveBack(u)
  \/ \E k \in Keys : Drop(k)

TCSpec == TCInit /\ [][TCNext]_cacheVars
=============================================================================
