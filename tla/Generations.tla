----------------------------- MODULE Generations -----------------------------
(* Generations: keys carry the prefix of the generation they were written    *)
(* under. A bump changes the prefix and, with generationCleanup on,          *)
(* schedules a cleanup of the generation it leaves; cleanups run one after   *)
(* the other beside the calls.                                               *)
(* A snapshot drops the prefix of the current generation and an import adds  *)
(* the one that is current then. A qualified key is the sequence of its      *)
(* prefixes and the key itself; the layers count as one map.                 *)
EXTENDS Naturals, FiniteSets, Sequences

CONSTANTS Keys, Gens,
          None,        \* undefined
          BatchSize,   \* of generationCleanup
          MaxMatches,  \* of generationCleanup
          MaxSets,     \* the bound on the number of sets
          MaxBumps     \* the bound on the number of bumps

VARIABLES current,   \* currentGeneration
          entries,   \* the stored values by qualified key: [home, late]
          calls,     \* sets that have fixed their key and not yet written
          sets, bumps,  \* how many there were
          chain,     \* the cleanups that were scheduled and have not started
          running,   \* the cleanup that runs
          snapshot,  \* the keys and values of the one snapshot, once taken
          dirty      \* history: generations with a cleanup that failed

vars == <<current, entries, calls, sets, bumps, chain, running, snapshot, dirty>>

Idle == [gen |-> None, todo |-> {}, seen |-> 0, batch |-> {}]

Init ==
    /\ current \in Gens \cup {None}
    /\ entries = << >> /\ calls = {} /\ sets = 0 /\ bumps = 0
    /\ chain = << >> /\ running = Idle
    /\ snapshot = None /\ dirty = {}

(* qualifyGenerationKey.                                                     *)
Qualify(key) == IF current = None THEN key ELSE <<current>> \o key

(* A key that starts with the prefix of a generation.                        *)
StartsWith(key, g) == Len(key) > 1 /\ Head(key) = g

(* stripGenerationPrefix.                                                    *)
Strip(key) == IF current # None /\ StartsWith(key, current) THEN Tail(key) ELSE key

Stored(m, key, e) == [q \in DOMAIN m \cup {key} |-> IF q = key THEN e ELSE m[q]]
Without(m, K) == [q \in DOMAIN m \ K |-> m[q]]

(* Calls -------------------------------------------------------------------*)

(* set fixes the qualified key first.                                        *)
BeginSet(k) ==
    /\ sets < MaxSets /\ sets' = sets + 1
    /\ calls' = calls \cup {Qualify(<<k>>)}
    /\ UNCHANGED <<current, entries, bumps, chain, running, snapshot, dirty>>

(* The generation a set wrote under, which its key shows.                    *)
Home(key) == IF Len(key) = 1 THEN None ELSE Head(key)

(* A cleanup of the generation that has begun may miss what is written now.  *)
Write(key) ==
    /\ key \in calls /\ calls' = calls \ {key}
    /\ entries' = Stored(entries, key,
                         [home |-> Home(key),
                          late |-> running.gen = Home(key) \/ current # Home(key)])
    /\ UNCHANGED <<current, sets, bumps, chain, running, snapshot, dirty>>

(* The new generation is the one to clean.                                   *)
CleanupNext(previous, next) ==
    IF previous = None \/ previous = next THEN None ELSE next

(* resolveGenerationCleanupTarget.                                           *)
CleanupTarget(previous, next) ==
    IF previous = None \/ previous = next THEN None ELSE previous

(* scheduleGenerationCleanup: behind the cleanups scheduled before.          *)
Schedule(g) == chain' = Append(chain, g)

(* bumpGeneration, to any generation.                                        *)
Bump(next) ==
    /\ bumps < MaxBumps /\ bumps' = bumps + 1
    /\ current' = next
    /\ LET g == CleanupTarget(current, next)
       IN  IF g = None THEN UNCHANGED chain ELSE Schedule(g)
    /\ UNCHANGED <<entries, calls, sets, running, snapshot, dirty>>

(* Cleanups ----------------------------------------------------------------*)

(* cleanupGeneration: the keys with the prefix are visited one by one.       *)
StartCleanup ==
    /\ running = Idle /\ chain # << >>
    /\ chain' = Tail(chain)
    /\ running' = [gen |-> Head(chain), seen |-> 0, batch |-> {},
                   todo |-> {q \in DOMAIN entries : StartsWith(q, Head(chain))}]
    /\ UNCHANGED <<current, entries, calls, sets, bumps, snapshot, dirty>>

Flush == running.batch # {} /\ (Cardinality(running.batch) = BatchSize \/ running.todo = {})

Visit(key) ==
    /\ key \in running.todo /\ ~Flush
    /\ running.seen < MaxMatches
    /\ running' = [running EXCEPT !.todo = @ \ {key}, !.seen = @ + 1, !.batch = @ \cup {key}]
    /\ UNCHANGED <<current, entries, calls, sets, bumps, chain, snapshot, dirty>>

(* flushBatch: deleteKeys fences the sets of these keys that are under way.  *)
FlushBatch ==
    /\ Flush
    /\ entries' = Without(entries, running.batch)
    /\ calls' = calls \ running.batch
    /\ running' = [running EXCEPT !.batch = {}]
    /\ UNCHANGED <<current, sets, bumps, chain, snapshot, dirty>>

(* More matches than maxMatches, or a failure of a layer or of the publish:  *)
(* the cleanup ends with a warning.                                          *)
CleanupFails ==
    /\ running # Idle /\ (running.todo # {} \/ Flush)
    /\ dirty' = dirty \cup {running.gen}
    /\ running' = Idle
    /\ UNCHANGED <<current, entries, calls, sets, bumps, chain, snapshot>>

CleanupEnds ==
    /\ running # Idle /\ running.todo = {} /\ ~Flush
    /\ running' = Idle
    /\ UNCHANGED <<current, entries, calls, sets, bumps, chain, snapshot, dirty>>

(* Snapshots ---------------------------------------------------------------*)

(* exportState: one entry for a stripped key, of the first layer that has it.*)
(* Whether the value was readable under its key is history.                  *)
Export ==
    /\ snapshot = None /\ DOMAIN entries # {}
    /\ LET items == {[key |-> Strip(q), home |-> entries[q].home,
                      readable |-> current = entries[q].home] : q \in DOMAIN entries}
       IN  snapshot' \in {S \in SUBSET items :
                            /\ {i.key : i \in S} = {i.key : i \in items}
                            /\ \A i, j \in S : i.key = j.key => i = j}
    /\ UNCHANGED <<current, entries, calls, sets, bumps, chain, running, dirty>>

(* importState.                                                              *)
Import ==
    /\ snapshot \notin {None, {}} /\ snapshot' = {}
    /\ LET Item(q) == CHOOSE i \in snapshot : Qualify(i.key) = q
           new == {Qualify(i.key) : i \in snapshot}
       IN  entries' = [q \in DOMAIN entries \cup new |->
                         IF q \in new
                         THEN [home |-> IF Item(q).readable THEN current ELSE Item(q).home,
                               late |-> running.gen = current]
                         ELSE entries[q]]
    /\ UNCHANGED <<current, calls, sets, bumps, chain, running, dirty>>

Next ==
    \/ \E k \in Keys : BeginSet(k)
    \/ \E key \in calls : Write(key)
    \/ \E g \in Gens : Bump(g)
    \/ StartCleanup \/ FlushBatch \/ CleanupFails \/ CleanupEnds
    \/ \E key \in running.todo : Visit(key)
    \/ Export \/ Import

Spec == Init /\ [][Next]_vars

----------------------------------------------------------------------------
(* When every cleanup is over, nothing is left of a generation whose         *)
(* cleanups all succeeded, except what was written while its cleanup ran or  *)
(* after it was left (scheduleGenerationCleanup keeps the cleanups that wait).*)
CleanedGenerationsAreGone ==
    chain = << >> /\ running = Idle =>
        \A q \in DOMAIN entries :
            \/ Len(q) = 1
            \/ Head(q) \in dirty \cup {current}
            \/ entries[q].late

(* A value that is read under a key of a generation was set or imported      *)
(* under that generation, or imported from a snapshot that was taken while   *)
(* it could be read: a snapshot does not bring back what a bump from one     *)
(* generation to the next has hidden (stripGenerationPrefix takes off the    *)
(* current prefix only). It does bring back what a stack without a generation*)
(* wrote before its first bump: those keys have no prefix, the export takes  *)
(* them for current ones and the import gives them the current prefix.       *)
OldEntriesStayHidden ==
    \A q \in DOMAIN entries : Len(q) = 2 => entries[q].home \in {Head(q), None}

(* A bump hides the entries of the generation it leaves for good, if it had  *)
(* one: no cleanup leaves some behind unnoticed and no snapshot brings one   *)
(* back (scheduleGenerationCleanup, stripGenerationPrefix).                  *)
GenerationsStayApart == CleanedGenerationsAreGone /\ OldEntriesStayHidden
=============================================================================
