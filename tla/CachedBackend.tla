--------------------------- MODULE CachedBackend ---------------------------
(***************************************************************************)
(* CachedBackend (cached_backend.py) around an IBMBackend, as the daemon's *)
(* main() stacks them: get_topology() and get_calibration() are answered   *)
(* from a cache for a time to live each, everything else is delegated.     *)
(* Time is a clock that only moves forward (time.monotonic()).             *)
(***************************************************************************)
EXTENDS IBMBackend

CONSTANTS
    Ttl,        \* Ttl[x]: the time to live of x in the cache
    MaxFetch,   \* bound: how long a live read takes at most
    MaxTime     \* bound: the clock stops here

Cacheable == {"topology", "calibration"}

ASSUME TimeAssumption ==
    /\ Ttl \in [Cacheable -> Nat \ {0}]
    /\ MaxFetch \in Nat
    /\ MaxTime \in Nat

VARIABLES
    now,           \* time.monotonic()
    cache,         \* _topology_cache and _calibration_cache
    served,        \* the last answer to get_topology() or get_calibration()
    disconnected   \* history: when disconnect() was last called

cacheVars == <<now, cache, served, disconnected>>
cachedVars == <<backendVars, cacheVars>>

\* A cache entry: whose data, when the provider was asked for it, and when it
\* was stored.
NoEntry == [device |-> NoDevice, asOf |-> 0, cachedAt |-> 0]

Entry == [device : Device, asOf : 0..MaxTime, cachedAt : 0..MaxTime]

\* What was served: which kind, its entry, and when.
Served == [what : Cacheable, entry : Entry, at : 0..MaxTime]

NothingServed == [what |-> "nothing", entry |-> NoEntry, at |-> 0]

CachedTypeOK ==
    /\ now \in 0..MaxTime
    /\ cache \in [Cacheable -> Entry \cup {NoEntry}]
    /\ served \in Served \cup {NothingServed}
    /\ disconnected \in 0..MaxTime

CachedInit ==
    /\ BackendInit
    /\ now = 0
    /\ cache = [x \in Cacheable |-> NoEntry]
    /\ served = NothingServed
    /\ disconnected = 0

-----------------------------------------------------------------------------
\* Wrong on purpose: an entry is served up to and including its expiry.
Fresh_Inclusive(x) == cache[x] # NoEntry /\ now - cache[x].cachedAt <= Ttl[x]

\* The cache holds x and its time to live has not run out.
Fresh(x) == cache[x] # NoEntry /\ now - cache[x].cachedAt < Ttl[x]

\* Wrong on purpose: an answer from the cache renews the entry.
ServeCached_Renews(x) ==
    /\ Fresh(x)
    /\ served' = [what |-> x, entry |-> cache[x], at |-> now]
    /\ cache' = [cache EXCEPT ![x].cachedAt = now]
    /\ UNCHANGED <<backendVars, now, disconnected>>

ServeCached(x) ==
    /\ Fresh(x)
    /\ served' = [what |-> x, entry |-> cache[x], at |-> now]
    /\ UNCHANGED <<backendVars, now, cache, disconnected>>

\* The wrapped backend is asked, which takes time, and the value is stored with
\* the time at which it arrived.
Fetch(x, d) ==
    /\ ~Fresh(x)
    /\ ReadLive(d)
    /\ \E took \in 0..MaxFetch :
          /\ now + took <= MaxTime
          /\ now' = now + took
          /\ cache' = [cache EXCEPT
                 ![x] = [device |-> d, asOf |-> now, cachedAt |-> now']]
          /\ served' = [what |-> x, entry |-> cache'[x], at |-> now']
    /\ UNCHANGED disconnected

\* Wrong on purpose: what a failed read left behind is cached.
FetchFails_Caches(x) ==
    /\ ~Fresh(x)
    /\ AutoConnectFails("read") \/ \E d \in Device : ReadFails(d)
    /\ cache' = [cache EXCEPT ![x] = [device |-> NoDevice, asOf |-> now, cachedAt |-> now]]
    /\ UNCHANGED <<now, served, disconnected>>

\* The wrapped backend raises, connected or not: the cache keeps what it has.
FetchFails(x) ==
    /\ ~Fresh(x)
    /\ AutoConnectFails("read") \/ \E d \in Device : ReadFails(d)
    /\ UNCHANGED cacheVars

\* Wrong on purpose: the cached data survives.
DisconnectAndForget_KeepsCache ==
    /\ Disconnect
    /\ disconnected' = now
    /\ UNCHANGED <<now, cache, served>>

\* disconnect() drops the session and both entries.
DisconnectAndForget ==
    /\ Disconnect
    /\ cache' = [x \in Cacheable |-> NoEntry]
    /\ disconnected' = now
    /\ UNCHANGED <<now, served>>

Tick ==
    /\ now < MaxTime
    /\ now' = now + 1
    /\ UNCHANGED <<backendVars, cache, served, disconnected>>

CachedNext ==
    \/ \E x \in Cacheable :
          ServeCached(x) \/ FetchFails(x) \/ \E d \in Device : Fetch(x, d)
    \/ DisconnectAndForget
    \/ Delegated /\ UNCHANGED cacheVars
    \/ (\E d \in Device : ReadLive(d) \/ ReadFails(d)) /\ UNCHANGED cacheVars
    \/ Provider /\ UNCHANGED cacheVars
    \/ Tick

CachedSpec == CachedInit /\ [][CachedNext]_cachedVars

-----------------------------------------------------------------------------
(* Properties.                                                              *)

\* Topology and calibration are never served older than their time to live and
\* the time the live read took, however often they are served from the cache.
AgeBounded ==
    served.what \in Cacheable =>
        served.at - served.entry.asOf < Ttl[served.what] + MaxFetch

\* Nothing read before a disconnect() is served after it.
DisconnectForgets ==
    [][served' # served => served'.entry.asOf >= disconnected]_cachedVars

\* cached_backend.py:79-81: a fresh connect(), possibly to a different device,
\* must never serve stale data cached under the previous connection: what is
\* served with a session in place is that session's device.
ServesSessionDevice ==
    [][(served' # served /\ session' # NoDevice)
          => served'.entry.device = session']_cachedVars

=============================================================================
