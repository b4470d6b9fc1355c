------------------------------- MODULE Entries -------------------------------
(* The life of one key in two layers: TTL policies (TtlResolver), stored     *)
(* envelopes (StoredValue), stale windows, sliding TTL, refresh-ahead,       *)
(* negative entries, soft expiry and background refreshes. One get, set or   *)
(* expire at a time; a background refresh runs beside them. Layers are       *)
(* counted from the fastest; each drops an entry when its own TTL is over.   *)
EXTENDS StoredValue

CONSTANTS MaxTime,       \* the bound on the clock
          MaxSets,       \* the bound on the number of stored values
          WriteOptions,  \* [ttl, swr, sie, adaptive, jitter]: the write options in use
          DefaultTtl,    \* DefaultTtl[l]: the layer's default TTL
          NegativeTtl, HotAfter, Step, MaxTtl,
          RefreshAhead   \* the threshold in use; 0 is none

Layers == {1, 2}

VARIABLES now,
          store,      \* store[l]: the entry in layer l, for the layers that hold one
          hits,       \* the hits of the access profile, up to 2 * HotAfter
          sets,       \* how many values were stored
          sliding,    \* whether gets slide the TTL
          refresh,    \* the background refresh in flight
          served,     \* history: the kind of value the last get returned
          wasted      \* history: a refresh ahead took the entry it was to replace

vars == <<now, store, hits, sets, sliding, refresh, served, wasted>>

NoRefresh == [ahead |-> FALSE, of |-> 0]

Init ==
    /\ now = 1 /\ store = << >> /\ hits = 0 /\ sets = 0
    /\ sliding \in BOOLEAN
    /\ refresh = NoRefresh
    /\ served = "undefined" /\ wasted = FALSE

(* TTLs --------------------------------------------------------------------*)

(* applyAdaptiveTtl, with its step and its cap.                              *)
Adaptive(ttl, o) ==
    IF ttl = Null \/ ~o.adaptive \/ hits < HotAfter THEN ttl
    ELSE Min({MaxTtl, ttl + Step * (hits \div HotAfter)})

(* applyJitter: any value in the range, at least one.                        *)
Jittered(ttl, o) ==
    IF ttl = Null THEN {Null}
    ELSE {Max({1, ttl + d - o.jitter}) : d \in 0..2 * o.jitter}

(* resolveLayerMs: what the call says, else what the layer has.              *)
ResolveLayerMs(l, override) == IF override # Null THEN override ELSE DefaultTtl[l]

(* resolveFreshTtl: the call's TTL, else the layer's; negative entries have  *)
(* their own.                                                                *)
FreshTtls(l, kind, o) ==
    LET base == IF kind = "empty" THEN NegativeTtl ELSE ResolveLayerMs(l, o.ttl)
    IN  Jittered(Adaptive(base, o), o)

(* Layer.set: no TTL means that the layer keeps the entry.                   *)
Put(e, ttl) == [entry |-> e, until |-> IF ttl = Null THEN Null ELSE now + ttl]

(* buildLayerSetEntry for one layer: the layer's TTL spans the windows.      *)
LayerEntries(l, kind, o) ==
    LET Of(ttl) == Create(kind, sets + 1, ttl, [swr |-> o.swr, sie |-> o.sie], now)
        LayerTtl(e, ttl) == IF RemainingStored(e, now) = Null THEN ttl ELSE RemainingStored(e, now)
    IN  {Put(Of(ttl), LayerTtl(Of(ttl), ttl)) : ttl \in FreshTtls(l, kind, o)}

(* storeEntry: every layer draws its own jitter.                             *)
Store(kind, o) ==
    /\ sets < MaxSets
    /\ sets' = sets + 1
    /\ store' \in {<<a, b>> : a \in LayerEntries(1, kind, o), b \in LayerEntries(2, kind, o)}

(* Reads -------------------------------------------------------------------*)

(* What the layer still returns: the TTL it was given is not over.           *)
Kept(m) == {l \in DOMAIN m : m[l].until = Null \/ m[l].until > now}
StateIn(m, l) == State(m[l].entry, now)

(* The layers that hold a value that mode accepts.                           *)
Accepted(mode) ==
    {l \in Kept(store) : \/ StateIn(store, l) = "fresh"
                         \/ mode = "allow-stale" /\ StateIn(store, l) # "expired"}

Hit(mode) == Min(Accepted(mode))

(* The entry with the TTL it has left, or the layer's default.               *)
Refill(l, e) == Put(e, ResolveLayerMs(l, RemainingStored(e, now)))

Set1(m, ls, Entry(_)) == [l \in DOMAIN m \cup ls |-> IF l \in ls THEN Entry(l) ELSE m[l]]

(* readFromLayers: entries that expired are deleted on the way, and a hit    *)
(* fills the faster layers (backfill).                                       *)
AfterRead(mode) ==
    LET seen == IF Accepted(mode) = {} THEN Layers ELSE 1..Hit(mode)
        kept == {l \in DOMAIN store : l \in seen => l \in Kept(store) /\ StateIn(store, l) # "expired"}
        left == [l \in kept |-> store[l]]
    IN  IF Accepted(mode) = {} THEN left
        ELSE Set1(left, {l \in Layers : l < Hit(mode)},
                  LAMBDA l : Refill(l, store[Hit(mode)].entry))

(* Sliding whatever the state of the hit.                                    *)
SlideAnyHit(m, l) ==
    IF sliding
    THEN Set1(m, 1..l, LAMBDA i : Refill(i, Refreshed(m[l].entry, now)))
    ELSE m

(* applyFreshReadPolicies: a fresh hit slides the TTL of its layer and the   *)
(* faster ones.                                                              *)
Slide(m, l) ==
    IF sliding /\ StateIn(m, l) = "fresh" /\ IsEnvelope(m[l].entry, now)
    THEN Set1(m, 1..l, LAMBDA i : Refill(i, Refreshed(m[l].entry, now)))
    ELSE m

(* planFreshReadPolicies: the fresh period ends within the threshold.        *)
RefreshDue(e) == RemainingFresh(e, now) \in 1..RefreshAhead

(* scheduleBackgroundRefresh, unless one is in flight.                       *)
Schedule(ahead, e) ==
    refresh' = IF refresh = NoRefresh THEN [ahead |-> ahead, of |-> e.id] ELSE refresh

Serve(e) == served' = Unwrapped(e, now)

(* get without a fetch: a hit that is fresh or stale while it is             *)
(* revalidated, or any hit when there is no fetcher.                         *)
GetHit(fetcher) ==
    /\ Accepted("allow-stale") # {}
    /\ LET l == Hit("allow-stale")
           e == store[l].entry
           state == State(e, now)
       IN  /\ state = "stale-if-error" => ~fetcher
           /\ store' = Slide(AfterRead("allow-stale"), l)
           /\ IF fetcher /\ state = "stale-while-revalidate" THEN Schedule(FALSE, e)
              ELSE IF fetcher /\ state = "fresh" /\ RefreshDue(e)
              THEN Schedule(TRUE, e)
              ELSE UNCHANGED refresh
           /\ Serve(e)
    /\ hits' = Min({hits + 1, 2 * HotAfter})
    /\ UNCHANGED <<now, sets, sliding, wasted>>

(* fetchAndPopulate: the fetched value is stored, or not (shouldCache), or   *)
(* there is none and an empty entry is stored or nothing.                    *)
FetchAndPopulate(o) ==
    \/ Store("value", o) \/ Store("empty", o)
    \/ UNCHANGED <<store, sets>>

(* get with a fetcher and nothing usable but a value for the case of error:  *)
(* a fresh value in another layer, the fetcher's result, or if it fails the  *)
(* stale one.                                                                *)
GetStale(o) ==
    /\ Accepted("allow-stale") # {}
    /\ LET e == store[Hit("allow-stale")].entry
       IN  /\ State(e, now) = "stale-if-error"
           /\ IF Accepted("fresh-only") # {}
              THEN /\ store' = AfterRead("fresh-only") /\ UNCHANGED sets
                   /\ Serve(store[Hit("fresh-only")].entry)
              ELSE \/ FetchAndPopulate(o) /\ served' = "undefined"
                   \/ /\ store' = AfterRead("allow-stale") /\ UNCHANGED sets
                      /\ Serve(e)
    /\ hits' = Min({hits + 1, 2 * HotAfter})
    /\ UNCHANGED <<now, sliding, refresh, wasted>>

(* A miss, with or without a fetcher.                                        *)
GetMiss(o) ==
    /\ Accepted("allow-stale") = {}
    /\ \/ FetchAndPopulate(o)
       \/ store' = AfterRead("allow-stale") /\ UNCHANGED sets
    /\ served' = "undefined"
    /\ UNCHANGED <<now, hits, sliding, refresh, wasted>>

(* The background refresh ends: a value that is fresh by now is taken, else  *)
(* the fetcher runs, and may fail.                                           *)
RefreshEnds(o) ==
    /\ refresh # NoRefresh
    /\ refresh' = NoRefresh
    /\ IF Accepted("fresh-only") # {}
       THEN /\ store' = AfterRead("fresh-only") /\ UNCHANGED sets
            /\ wasted' = (wasted \/ (refresh.ahead
                                      /\ store[Hit("fresh-only")].entry.id = refresh.of))
       ELSE FetchAndPopulate(o) /\ UNCHANGED wasted
    /\ UNCHANGED <<now, hits, sliding, served>>

(* Writes ------------------------------------------------------------------*)

Set(o) ==
    /\ Store("value", o)
    /\ UNCHANGED <<now, hits, sliding, refresh, served, wasted>>

(* expireKeysInLayers: read each layer, end the fresh period and write back; *)
(* a key that no layer held loses its profile.                               *)
Expire ==
    /\ store' = [l \in Kept(store) |->
                   LET e == store[l].entry
                   IN  IF IsEnvelope(e, now) THEN Refill(l, Expired(e, now)) ELSE store[l]]
    /\ hits' = IF Kept(store) = {} THEN 0 ELSE hits
    /\ UNCHANGED <<now, sets, sliding, refresh, served, wasted>>

(* delete: layers and profile.                                               *)
Delete ==
    /\ store' = << >> /\ hits' = 0
    /\ UNCHANGED <<now, sets, sliding, refresh, served, wasted>>

(* A layer evicts the entry.                                                 *)
Evict(l) ==
    /\ l \in DOMAIN store
    /\ store' = [i \in DOMAIN store \ {l} |-> store[i]]
    /\ UNCHANGED <<now, hits, sets, sliding, refresh, served, wasted>>

Tick ==
    /\ now < MaxTime /\ now' = now + 1
    /\ UNCHANGED <<store, hits, sets, sliding, refresh, served, wasted>>

Next ==
    \/ \E fetcher \in BOOLEAN : GetHit(fetcher)
    \/ \E o \in WriteOptions : GetStale(o) \/ GetMiss(o) \/ RefreshEnds(o) \/ Set(o)
    \/ Expire \/ Delete \/ Tick
    \/ \E l \in Layers : Evict(l)

Spec == Init /\ [][Next]_vars

----------------------------------------------------------------------------
(* A layer never drops an entry by its TTL while a window of the envelope is *)
(* open: the TTL handed to the layer on a set, a backfill, a slide or an     *)
(* expire spans the last deadline (remainingStoredTtlMs).                    *)
LayersSpanWindows ==
    \A l \in DOMAIN store : Deadlines(store[l].entry) # {} =>
        store[l].until >= Max(Deadlines(store[l].entry))

AnyFresh(m) == \E l \in Kept(m) : StateIn(m, l) = "fresh"

(* Once no layer holds a fresh copy, and after expire none does, only a      *)
(* newly stored value is fresh: no read, slide or backfill revives a stale   *)
(* or expired one (applyFreshReadPolicies, expireStoredEnvelope).            *)
FreshnessNotRegained ==
    [][now' = now /\ sets' = sets /\ (~AnyFresh(store) \/ Expire) => ~AnyFresh(store')]_vars

(* A read returns the value that was stored and never the envelope around it *)
(* (MemoryLayer.ts:78: "Reads and unwraps a fresh value from memory").       *)
ReadsUnwrap == served # "envelope"

(* A background refresh that was started because the TTL fell below the      *)
(* threshold calls the fetcher (types.ts:85: "Refresh in the background when *)
(* the remaining TTL is at or below this threshold").                        *)
RefreshAheadFetches == ~wasted
=============================================================================
