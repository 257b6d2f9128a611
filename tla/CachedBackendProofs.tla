------------------------- MODULE CachedBackendProofs -------------------------
(***************************************************************************)
(* The cache in front of the Backend, for any devices, times to live and   *)
(* read times: what it serves is never too old, of a time before the last  *)
(* disconnect(), or of a device left too long ago.                         *)
(***************************************************************************)
EXTENDS CacheSwitch, IBMBackendProofs

-----------------------------------------------------------------------------
(* The wrapped Backend.                                                     *)

\* A step of the cache is a step of the wrapped Backend, or none.
LEMMA StepBehindCache == ASSUME [CachedNext]_cachedVars PROVE [BackendNext]_backendVars
<1>1. CASE UNCHANGED cachedVars
  BY <1>1 DEF cachedVars
<1>2. ASSUME NEW x \in Cacheable, ServeCached(x) PROVE [BackendNext]_backendVars
  BY <1>2 DEF ServeCached
<1>3. ASSUME NEW x \in Cacheable, FetchFails(x) PROVE [BackendNext]_backendVars
  <2>1. CASE AutoConnectFails("read")
    BY <2>1 DEF BackendNext, Delegated, Ops
  <2>2. QED
    BY <1>3, <2>1 DEF FetchFails, BackendNext
<1>4. ASSUME NEW x \in Cacheable, NEW d \in Device, Fetch(x, d) PROVE [BackendNext]_backendVars
  BY <1>4 DEF Fetch, BackendNext
<1>5. CASE DisconnectAndForget
  BY <1>5 DEF DisconnectAndForget, BackendNext
<1>6. CASE Tick
  BY <1>6 DEF Tick
<1>7. QED
  BY <1>1, <1>2, <1>3, <1>4, <1>5, <1>6 DEF CachedNext, BackendNext

\* So it behaves as a Backend that is used by itself.
LEMMA WrappedIsBackend == CachedSpec => BackendSpec
<1>1. CachedInit => BackendInit
  BY DEF CachedInit
<1>2. [CachedNext]_cachedVars => [BackendNext]_backendVars
  BY StepBehindCache
<1>3. QED
  BY <1>1, <1>2, PTL DEF CachedSpec, BackendSpec

\* What is proved of the Backend holds behind the cache.
THEOREM BackendTypeBehindCache == CachedSpec => []BackendTypeOK
  BY WrappedIsBackend, BackendTypeCorrect, PTL

\* Sessions are kept behind the cache too.
THEOREM SessionKeptBehindCache == CachedSpec => SessionIsKept
  BY WrappedIsBackend, SessionKept

-----------------------------------------------------------------------------
(* The cache.                                                               *)

\* An entry is from the time since the last disconnect(), and was no longer on its
\* way than a live read takes.
InTime(e) ==
    /\ e.asOf <= e.cachedAt
    /\ e.cachedAt <= e.asOf + MaxFetch
    /\ e.cachedAt <= now

EntriesInTime ==
    \A x \in Cacheable : cache[x] # NoEntry => InTime(cache[x]) /\ cache[x].asOf >= disconnected

ServedInTime ==
    served.what \in Cacheable =>
        /\ InTime(served.entry)
        /\ served.entry.cachedAt <= served.at
        /\ served.at - served.entry.cachedAt < Ttl[served.what]

CacheInv == CachedTypeOK /\ disconnected <= now /\ EntriesInTime /\ ServedInTime

\* An entry is not mistaken for none.
LEMMA EntryTyped ==
    ASSUME NEW e \in Entry
    PROVE  /\ e # NoEntry /\ e.device \in Device
           /\ e.asOf \in 0..MaxTime /\ e.cachedAt \in 0..MaxTime
  BY NameAssumption DEF Entry, NoEntry

\* Nothing is cached at first.
LEMMA CacheInit == CachedInit => CacheInv
  BY TimeAssumption DEF CachedInit, CacheInv, CachedTypeOK, EntriesInTime, ServedInTime,
     NothingServed, Cacheable, NoEntry

\* A cached answer changes nothing but what was served last.
LEMMA ServeStep ==
    ASSUME CacheInv, NEW x \in Cacheable, ServeCached(x)
    PROVE  CacheInv'
<1>1. cache[x] \in Entry /\ now \in 0..MaxTime
  BY DEF CacheInv, CachedTypeOK, ServeCached, Fresh
<1>2. /\ UNCHANGED <<now, cache, disconnected>>
      /\ served' = [what |-> x, entry |-> cache[x], at |-> now]
      /\ cache[x] # NoEntry /\ now - cache[x].cachedAt < Ttl[x]
  BY DEF ServeCached, Fresh
<1>3. CachedTypeOK'
  BY <1>1, <1>2 DEF CacheInv, CachedTypeOK, Served
<1>4. EntriesInTime'
  BY <1>2 DEF CacheInv, EntriesInTime, InTime
<1>5. ServedInTime'
  BY <1>2 DEF CacheInv, EntriesInTime, ServedInTime, InTime
<1>6. QED
  BY <1>2, <1>3, <1>4, <1>5 DEF CacheInv

\* A live read stores what it got.
LEMMA FetchStep ==
    ASSUME CacheInv, NEW x \in Cacheable, NEW d \in Device, Fetch(x, d)
    PROVE  CacheInv'
<1> DEFINE e == [device |-> d, asOf |-> now, cachedAt |-> now']
<1>1. PICK took \in 0..MaxFetch : now + took <= MaxTime /\ now' = now + took
  BY DEF Fetch
<1>2. /\ cache' = [cache EXCEPT ![x] = e]
      /\ served' = [what |-> x, entry |-> cache'[x], at |-> now']
      /\ disconnected' = disconnected
  BY DEF Fetch
<1>3. now \in 0..MaxTime /\ now' \in 0..MaxTime /\ now <= now' /\ now' <= now + MaxFetch
  BY <1>1, TimeAssumption DEF CacheInv, CachedTypeOK
<1>4. e \in Entry /\ cache'[x] = e
  BY <1>2, <1>3 DEF Entry, CacheInv, CachedTypeOK
<1>5. CachedTypeOK'
  BY <1>2, <1>3, <1>4 DEF CacheInv, CachedTypeOK, Served
<1>6. disconnected' <= now'
  BY <1>2, <1>3 DEF CacheInv, CachedTypeOK
<1>7. /\ e.asOf <= e.cachedAt /\ e.cachedAt <= e.asOf + MaxFetch
      /\ e.cachedAt <= now' /\ e.asOf >= disconnected'
  BY <1>2, <1>3 DEF CacheInv
<1>8. EntriesInTime'
  <2>1. ASSUME NEW y \in Cacheable, cache'[y] # NoEntry
        PROVE  InTime(cache[y])' /\ cache'[y].asOf >= disconnected'
    <3>1. CASE y = x
      BY <3>1, <1>4, <1>7 DEF InTime
    <3>2. CASE y # x
      <4>1. cache'[y] = cache[y] /\ cache[y] \in Entry
        BY <1>2, <2>1, <3>2 DEF CacheInv, CachedTypeOK
      <4>2. InTime(cache[y]) /\ cache[y].asOf >= disconnected
        BY <2>1, <4>1 DEF CacheInv, EntriesInTime
      <4>3. QED
        BY <1>2, <1>3, <4>1, <4>2, EntryTyped DEF InTime
    <3>3. QED
      BY <3>1, <3>2
  <2>2. QED
    BY <2>1 DEF EntriesInTime
<1>9. ServedInTime'
  BY <1>2, <1>3, <1>4, <1>7, TimeAssumption DEF ServedInTime, InTime
<1>10. QED
  BY <1>5, <1>6, <1>8, <1>9 DEF CacheInv

\* disconnect() leaves nothing, and the clock only makes entries older.
LEMMA ForgetStep == ASSUME CacheInv, DisconnectAndForget PROVE CacheInv'
<1>1. /\ \A x \in Cacheable : cache'[x] = NoEntry
      /\ cache' \in [Cacheable -> Entry \cup {NoEntry}]
      /\ UNCHANGED <<now, served>> /\ disconnected' = now
  BY DEF DisconnectAndForget
<1>2. QED
  BY <1>1 DEF CacheInv, CachedTypeOK, EntriesInTime, ServedInTime, InTime

LEMMA TickStep == ASSUME CacheInv, Tick PROVE CacheInv'
<1>1. now \in 0..MaxTime /\ now' = now + 1 /\ now' \in 0..MaxTime
  BY TimeAssumption DEF Tick, CacheInv, CachedTypeOK
<1>2. UNCHANGED <<cache, served, disconnected>>
  BY DEF Tick
<1>3. CachedTypeOK' /\ disconnected' <= now'
  BY <1>1, <1>2 DEF CacheInv, CachedTypeOK
<1>4. EntriesInTime'
  <2>1. ASSUME NEW x \in Cacheable, cache[x] # NoEntry
        PROVE  InTime(cache[x])' /\ cache[x].asOf >= disconnected
    <3>1. cache[x] \in Entry
      BY <2>1 DEF CacheInv, CachedTypeOK
    <3>2. QED
      BY <1>1, <1>2, <2>1, <3>1, EntryTyped DEF CacheInv, EntriesInTime, InTime
  <2>2. QED
    BY <1>2, <2>1 DEF EntriesInTime
<1>5. ServedInTime'
  <2>1. CASE served.what \in Cacheable
    <3>1. served.entry \in Entry
      BY <2>1 DEF CacheInv, CachedTypeOK, Served, NothingServed, Cacheable
    <3>2. QED
      BY <1>1, <1>2, <2>1, <3>1, EntryTyped DEF CacheInv, ServedInTime, InTime
  <2>2. QED
    BY <1>2, <2>1 DEF ServedInTime
<1>6. QED
  BY <1>3, <1>4, <1>5 DEF CacheInv

LEMMA CacheStep == CacheInv /\ [CachedNext]_cachedVars => CacheInv'
<1> SUFFICES ASSUME CacheInv, [CachedNext]_cachedVars PROVE CacheInv'
  OBVIOUS
<1>1. CASE UNCHANGED cacheVars
  BY <1>1 DEF cacheVars, CacheInv, CachedTypeOK, EntriesInTime, ServedInTime, InTime
<1>2. ASSUME NEW x \in Cacheable, FetchFails(x) PROVE CacheInv'
  BY <1>1, <1>2 DEF FetchFails
<1>3. QED
  BY <1>1, <1>2, ServeStep, FetchStep, ForgetStep, TickStep DEF CachedNext, cachedVars

LEMMA CacheInvariant == CachedSpec => []CacheInv
  BY CacheInit, CacheStep, PTL DEF CachedSpec

-----------------------------------------------------------------------------
(* Theorems.                                                                *)

\* Both entries and what is served keep their shape: no entry without a device is
\* stored or served.
THEOREM CachedTypeCorrect == CachedSpec => []CachedTypeOK
<1>1. CacheInv => CachedTypeOK
  BY DEF CacheInv
<1>2. QED
  BY <1>1, CacheInvariant, PTL

\* For any times to live and any duration of a live read, nothing is served that
\* is older than the two together (cached_backend.py:88-102).
THEOREM NothingTooOld == CachedSpec => []AgeBounded
<1>1. CacheInv => AgeBounded
  <2>1. ASSUME CacheInv, served.what \in Cacheable
        PROVE  served.at - served.entry.asOf < Ttl[served.what] + MaxFetch
    <3>1. served.entry \in Entry /\ served.at \in 0..MaxTime
      BY <2>1 DEF CacheInv, CachedTypeOK, Served, NothingServed, Cacheable
    <3>2. Ttl[served.what] \in Nat /\ MaxFetch \in Nat /\ MaxTime \in Nat
      BY <2>1, TimeAssumption
    <3>3. QED
      BY <2>1, <3>1, <3>2, EntryTyped DEF CacheInv, ServedInTime, InTime
  <2>2. QED
    BY <2>1 DEF AgeBounded
<1>2. QED
  BY <1>1, CacheInvariant, PTL

\* What is served for the first time after a disconnect() was read after it
\* (cached_backend.py:78-84).
THEOREM NothingFromBefore == CachedSpec => DisconnectForgets
<1>1. CacheInv /\ [CachedNext]_cachedVars
         => [served' # served => served'.entry.asOf >= disconnected]_cachedVars
  <2>1. ASSUME CacheInv, CachedNext, served' # served
        PROVE  served'.entry.asOf >= disconnected
    <3>1. ASSUME NEW x \in Cacheable, ServeCached(x) PROVE served'.entry.asOf >= disconnected
      BY <2>1, <3>1 DEF ServeCached, Fresh, CacheInv, EntriesInTime
    <3>2. ASSUME NEW x \in Cacheable, NEW d \in Device, Fetch(x, d)
          PROVE  served'.entry.asOf >= disconnected
      BY <2>1, <3>2 DEF Fetch, CacheInv, CachedTypeOK
    <3>3. QED
      BY <2>1, <3>1, <3>2 DEF CachedNext, FetchFails, DisconnectAndForget, Tick, cacheVars
  <2>2. QED
    BY <2>1 DEF cachedVars
<1>2. QED
  BY <1>1, CacheInvariant, PTL DEF CachedSpec, DisconnectForgets

-----------------------------------------------------------------------------
(* Devices the session has left.                                            *)

\* Only the session's device has entries younger than the session's end there.
LeftBehind ==
    /\ left \in [Device -> Nat]
    /\ \A x \in Cacheable :
          (cache[x] # NoEntry /\ cache[x].device # session)
              => cache[x].cachedAt <= left[cache[x].device]

SwitchInv == CacheInv /\ LeftBehind

\* The history changes nothing: all that is proved of CachedSpec holds.
LEMMA SwitchIsCached == SwitchSpec => CachedSpec
<1>1. SwitchInit => CachedInit
  BY DEF SwitchInit
<1>2. [SwitchNext]_switchVars => [CachedNext]_cachedVars
  BY DEF SwitchNext, switchVars
<1>3. QED
  BY <1>1, <1>2, PTL DEF SwitchSpec, CachedSpec

LEMMA SwitchStarts == SwitchInit => SwitchInv
  BY CacheInit DEF SwitchInit, SwitchInv, LeftBehind, CachedInit, BackendInit

\* The entries after a step: old ones, or one of the session's device.
LEMMA EntriesAfter ==
    ASSUME CacheInv, [CachedNext]_cachedVars, NEW x \in Cacheable, cache'[x] # NoEntry
    PROVE  \/ cache'[x] = cache[x]
           \/ cache'[x].device = session'
<1>1. CASE UNCHANGED cache
  BY <1>1
<1>2. CASE DisconnectAndForget
  BY <1>2 DEF DisconnectAndForget
<1>3. ASSUME NEW y \in Cacheable, NEW d \in Device, Fetch(y, d)
      PROVE  cache'[x] = cache[x] \/ cache'[x].device = session'
  <2>1. session' = d
    BY <1>3 DEF Fetch, ReadLive, EnsureConnected
  <2>2. cache' = [cache EXCEPT ![y] = [device |-> d, asOf |-> now, cachedAt |-> now']]
    BY <1>3 DEF Fetch
  <2>3. QED
    BY <2>1, <2>2 DEF CacheInv, CachedTypeOK
<1>4. QED
  BY <1>1, <1>2, <1>3 DEF CachedNext, cachedVars, cacheVars, ServeCached, FetchFails, Tick

LEMMA SwitchStep == SwitchInv /\ [SwitchNext]_switchVars => SwitchInv'
<1> SUFFICES ASSUME SwitchInv, [SwitchNext]_switchVars PROVE SwitchInv'
  OBVIOUS
<1>1. [CachedNext]_cachedVars
  BY DEF SwitchNext, switchVars
<1>2. CacheInv /\ CacheInv'
  BY <1>1, CacheStep DEF SwitchInv
<1>3. now \in Nat
  BY <1>2, TimeAssumption DEF CacheInv, CachedTypeOK
<1>4. \/ /\ session \in Device /\ session' # session
         /\ left' = [left EXCEPT ![session] = now]
      \/ ~(session \in Device /\ session' # session) /\ left' = left
  BY DEF SwitchNext, switchVars, cachedVars, backendVars
<1>5. left' \in [Device -> Nat]
  BY <1>3, <1>4 DEF SwitchInv, LeftBehind
<1>6. ASSUME NEW x \in Cacheable, cache'[x] # NoEntry, cache'[x].device # session'
      PROVE  cache'[x].cachedAt <= left'[cache'[x].device]
  <2>1. cache'[x] = cache[x]
    BY <1>1, <1>2, <1>6, EntriesAfter
  <2>2. cache[x] \in Entry /\ cache[x].cachedAt <= now
    BY <1>2, <1>6, <2>1 DEF CacheInv, CachedTypeOK, EntriesInTime, InTime
  <2>3. cache[x].device \in Device /\ cache[x].cachedAt \in 0..MaxTime
    BY <2>2, EntryTyped
  <2>4. CASE cache[x].device = session
    BY <1>4, <1>6, <2>1, <2>2, <2>3, <2>4 DEF SwitchInv, LeftBehind
  <2>5. CASE cache[x].device # session
    <3>1. cache[x].cachedAt <= left[cache[x].device]
      BY <1>6, <2>1, <2>5 DEF SwitchInv, LeftBehind
    <3>2. QED
      BY <1>4, <2>1, <2>3, <2>5, <3>1 DEF SwitchInv, LeftBehind
  <2>6. QED
    BY <2>4, <2>5
<1>7. QED
  BY <1>2, <1>5, <1>6 DEF SwitchInv, LeftBehind

\* For any times to live and any duration of a live read, a device's data is served
\* for less than a time to live after the session has left it
\* (cached_backend.py:75-102).
THEOREM OldDevicesFade == SwitchSpec => OldDeviceFades
<1>1. SwitchInv /\ [SwitchNext]_switchVars =>
         [(served' # served /\ session' # served'.entry.device)
             => served'.at < left'[served'.entry.device] + Ttl[served'.what]]_switchVars
  <2> SUFFICES ASSUME SwitchInv, SwitchNext, served' # served,
                      session' # served'.entry.device
               PROVE  served'.at < left'[served'.entry.device] + Ttl[served'.what]
    OBVIOUS
  <2>1. ASSUME NEW x \in Cacheable, ServeCached(x)
        PROVE  served'.at < left'[served'.entry.device] + Ttl[served'.what]
    <3>1. /\ cache[x] \in Entry /\ cache[x] # NoEntry /\ now \in 0..MaxTime
          /\ now - cache[x].cachedAt < Ttl[x] /\ Ttl[x] \in Nat
      BY <2>1, TimeAssumption DEF ServeCached, Fresh, SwitchInv, CacheInv, CachedTypeOK
    <3>2. served' = [what |-> x, entry |-> cache[x], at |-> now] /\ session' = session
      BY <2>1 DEF ServeCached, backendVars
    <3>3. left' = left
      BY <3>2 DEF SwitchNext
    <3>4. cache[x].cachedAt <= left[cache[x].device] /\ left[cache[x].device] \in Nat
      BY <3>1, <3>2, EntryTyped DEF SwitchInv, LeftBehind
    <3>5. QED
      BY <3>1, <3>2, <3>3, <3>4, EntryTyped, TimeAssumption
  <2>2. ASSUME NEW x \in Cacheable, NEW d \in Device, Fetch(x, d) PROVE FALSE
    <3>1. session' = d /\ served'.entry = cache'[x] /\ cache'[x].device = d
      BY <2>2 DEF Fetch, ReadLive, EnsureConnected, SwitchInv, CacheInv, CachedTypeOK
    <3>2. QED
      BY <3>1
  <2>3. QED
    BY <2>1, <2>2 DEF SwitchNext, CachedNext, FetchFails, DisconnectAndForget, Tick, cacheVars
<1>2. QED
  BY <1>1, SwitchStarts, SwitchStep, PTL DEF SwitchSpec, OldDeviceFades

==============================================================================
