----------------------------- MODULE StoredValue -----------------------------
(* StoredValue.ts: the envelope a value is stored in, its deadlines and what *)
(* may still be done with it. Null stands for null and undefined; times and  *)
(* durations are natural numbers and a duration of zero counts as none.      *)
EXTENDS Naturals, FiniteSets, FiniteSetsExt

CONSTANT TenYears   \* the largest duration an envelope may name

Null == 0

(* createStoredValueEnvelope. id names the value.                            *)
Create(kind, id, ttl, windows, now) ==
    [kind |-> kind, id |-> id, ttl |-> ttl, swr |-> windows.swr, sie |-> windows.sie,
     freshUntil |-> IF ttl = Null THEN Null ELSE now + ttl,
     staleUntil |-> IF ttl = Null \/ windows.swr = Null THEN Null ELSE now + ttl + windows.swr,
     errorUntil |-> IF ttl = Null \/ windows.sie = Null THEN Null ELSE now + ttl + windows.sie]

Deadlines(e) == {e.freshUntil, e.staleUntil, e.errorUntil} \ {Null}

(* isStoredValueEnvelope.                                                    *)
IsEnvelope(e, now) ==
    /\ \A d \in Deadlines(e) : d <= now + TenYears
    /\ e.freshUntil = Null => e.staleUntil = Null /\ e.errorUntil = Null
    /\ \A d \in Deadlines(e) : e.freshUntil <= d
    /\ \A d \in {e.ttl, e.swr, e.sie} : d <= TenYears
    /\ e.ttl = Null => e.swr = Null /\ e.sie = Null

(* resolveStoredValue: what is no envelope counts as a fresh value.          *)
State(e, now) ==
    IF ~IsEnvelope(e, now) \/ e.freshUntil = Null \/ e.freshUntil > now THEN "fresh"
    ELSE IF e.staleUntil > now THEN "stale-while-revalidate"
    ELSE IF e.errorUntil > now THEN "stale-if-error"
    ELSE "expired"

(* unwrapStoredValue.                                                        *)
Unwrapped(e, now) == IF IsEnvelope(e, now) THEN e.kind ELSE "envelope"

(* The time until the value is no longer fresh.                              *)
RemainingStoredFresh(e, now) ==
    IF ~IsEnvelope(e, now) \/ e.freshUntil = Null THEN Null
    ELSE IF e.freshUntil > now THEN e.freshUntil - now ELSE 1

(* remainingStoredTtlMs: the time until the last deadline, at least one.     *)
RemainingStored(e, now) ==
    IF ~IsEnvelope(e, now) \/ Deadlines(e) = {} THEN Null
    ELSE IF Max(Deadlines(e)) > now THEN Max(Deadlines(e)) - now ELSE 1

(* remainingFreshTtlMs.                                                      *)
RemainingFresh(e, now) ==
    IF ~IsEnvelope(e, now) \/ e.freshUntil <= now THEN 0 ELSE e.freshUntil - now

(* refreshStoredEnvelope.                                                    *)
Refreshed(e, now) ==
    IF IsEnvelope(e, now)
    THEN Create(e.kind, e.id, e.ttl, [swr |-> e.swr, sie |-> e.sie], now)
    ELSE e

(* expireStoredEnvelope: the fresh period ends now, the windows stay.        *)
Expired(e, now) ==
    IF IsEnvelope(e, now)
    THEN [e EXCEPT !.freshUntil = Min({now} \cup ({e.staleUntil, e.errorUntil} \ {Null}))]
    ELSE e
=============================================================================
