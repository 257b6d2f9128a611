----------------------------- MODULE CacheSwitch -----------------------------
(***************************************************************************)
(* What the callers of CachedBackend get after the session has left a      *)
(* device: connect() is delegated and keeps both entries                   *)
(* (cached_backend.py:75-76), and only their times to live end them.  A    *)
(* history variable tells when the session left.                           *)
(***************************************************************************)
EXTENDS CachedBackend

VARIABLE left   \* history: left[d]: when the session was last on d

switchVars == <<cachedVars, left>>

SwitchInit == CachedInit /\ left = [d \in Device |-> 0]

SwitchNext ==
    /\ CachedNext
    /\ left' = IF session \in Device /\ session' # session
               THEN [left EXCEPT ![session] = now] ELSE left

SwitchSpec == SwitchInit /\ [][SwitchNext]_switchVars

-----------------------------------------------------------------------------
(* Property.                                                                *)

\* A device's data is served for less than a time to live after the session has
\* left the device, whether it was moved or lost: answers from the cache do not
\* renew an entry, and nothing that happens in between, a failed read or connect()
\* included, stores the old data under a new time (cached_backend.py:75-102).
OldDeviceFades ==
    [][(served' # served /\ session' # served'.entry.device)
          => served'.at < left'[served'.entry.device] + Ttl[served'.what]]_switchVars

=============================================================================
