----------------------------- MODULE MCStoredData -----------------------------
(* The components that keep data, or say where it is, for TLC: one run       *)
(* checks each of them alone, part says which. The state of the others stays *)
(* as it was initially. Only safety is checked, and the two actors of a part *)
(* (instances, Redis clients, persisting calls) are interchangeable.         *)
EXTENDS FetchTasks, TLC

CONSTANTS
    Instance, MaxCalls,
    Clients, TagKeys, Tags, None,
    StoreKeys, MaxSize, MaxTime, MaxCount,
    TenYears, EntriesMaxTime, MaxEntrySets, WriteOptions, DefaultTtl, NegativeTtl, HotAfter, Step,
    MaxTtl, RefreshAhead,
    Gens, BatchSize, MaxMatches, MaxSets, MaxBumps,
    Calls, Parts,
    MaxWrites, MaxCommands, Serializers,
    MaxFiles, MaxWriteQueueDepth

\* The old snapshot file is none of the calls'.
ASSUME CallsAssumption == 0 \notin Calls
ASSUME PartsAssumption == Parts \in Nat
ASSUME TagDataAssumption == IsFiniteSet(TagKeys) /\ IsFiniteSet(Tags)
ASSUME MaxFilesAssumption == MaxFiles \in Nat \ {0}
\* A generation is a number: undefined is none.
ASSUME GensAssumption == None \notin Gens
\* TTLs and windows are not negative, and hotAfter is positive (CacheStackValidation).
ASSUME DurationsAssumption ==
    /\ WriteOptions \subseteq
         [ttl : Nat, swr : Nat, sie : Nat, adaptive : BOOLEAN, jitter : Nat]
    /\ DefaultTtl \in [{1, 2} -> Nat]
    /\ {NegativeTtl, Step, MaxTtl, TenYears} \subseteq Nat /\ HotAfter \in Nat \ {0}

VARIABLES
    part,
    remote, local, status, call, inbox, calls, returned, overtaken,          \* instances
    tagSets, todo, damaged, owed, search,                                    \* tags
    policy, memory, time, recent,                                            \* memory
    now, store, hits, sets, sliding, refresh, served, wasted,       \* entries
    current, entries, setting, stored, bumps, chain, running, snapshot, dirty, \* generations
    inodes, target, temps, persist, restore, done,                           \* file
    value, conn, writer, redisReader, redisWrites, answered,                 \* redis
    files, queue, writing, work, left, writes, latest, reader                   \* disk

instanceVars == <<remote, local, status, call, inbox, calls, returned, overtaken>>
tagVars == <<tagSets, todo, damaged, owed, search>>
memoryVars == <<policy, memory, time, recent>>
entryVars == <<now, store, hits, sets, sliding, refresh, served, wasted>>
generationVars ==
    <<current, entries, setting, stored, bumps, chain, running, snapshot, dirty>>
fileVars == <<inodes, target, temps, persist, restore, done>>
redisVars == <<value, conn, writer, redisReader, redisWrites, answered>>
diskVars == <<files, queue, writing, work, left, writes, latest, reader>>

Inst == INSTANCE Instances WITH settled <- returned
RTags == INSTANCE RedisTagIndex WITH Keys <- TagKeys, sets <- tagSets
Memory == INSTANCE MemoryLayer WITH Keys <- StoreKeys, entries <- memory, now <- time
Entry == INSTANCE Entries WITH MaxTime <- EntriesMaxTime, MaxSets <- MaxEntrySets
Gen == INSTANCE Generations WITH calls <- setting, sets <- stored
File == INSTANCE SnapshotFile
Redis == INSTANCE RedisLayer WITH reader <- redisReader, writes <- redisWrites, latest <- answered
Disk == INSTANCE DiskLayer WITH stage <- writing

Some(S) == CHOOSE x \in S : TRUE

MCInit ==
    /\ part \in {"instances", "tags", "memory", "entries", "generations", "file", "redis",
                 "disk", "tasks"}
    /\ Inst!Init /\ RTags!Init /\ Memory!Init /\ Entry!Init /\ Gen!Init /\ File!Init
    /\ Redis!Init /\ Disk!Init /\ FetchInit
    /\ part # "tags" => owed = {}
    /\ part # "memory" => policy = "lru"
    /\ part # "entries" => sliding
    /\ part # "generations" => current = Some(Gens)
    /\ part # "redis" => value.format = "json" /\ value.ttl
    /\ part # "tasks" => keyOf = [c \in Callers |-> Some(Keys)]

MCNext ==
    \/ /\ part = "instances" /\ Inst!Next
       /\ UNCHANGED <<part, tagVars, memoryVars, entryVars, generationVars, fileVars,
                      redisVars, diskVars, fetchVars>>
    \/ /\ part = "tags" /\ RTags!Next
       /\ UNCHANGED <<part, instanceVars, memoryVars, entryVars, generationVars, fileVars,
                      redisVars, diskVars, fetchVars>>
    \/ /\ part = "memory" /\ Memory!Next
       /\ UNCHANGED <<part, instanceVars, tagVars, entryVars, generationVars, fileVars,
                      redisVars, diskVars, fetchVars>>
    \/ /\ part = "entries" /\ Entry!Next
       /\ UNCHANGED <<part, instanceVars, tagVars, memoryVars, generationVars, fileVars,
                      redisVars, diskVars, fetchVars>>
    \/ /\ part = "generations" /\ Gen!Next
       /\ UNCHANGED <<part, instanceVars, tagVars, memoryVars, entryVars, fileVars,
                      redisVars, diskVars, fetchVars>>
    \/ /\ part = "file" /\ File!Next
       /\ UNCHANGED <<part, instanceVars, tagVars, memoryVars, entryVars, generationVars,
                      redisVars, diskVars, fetchVars>>
    \/ /\ part = "redis" /\ Redis!Next
       /\ UNCHANGED <<part, instanceVars, tagVars, memoryVars, entryVars, generationVars,
                      fileVars, diskVars, fetchVars>>
    \/ /\ part = "disk" /\ Disk!Next
       /\ UNCHANGED <<part, instanceVars, tagVars, memoryVars, entryVars, generationVars,
                      fileVars, redisVars, fetchVars>>
    \/ /\ part = "tasks" /\ FetchNext
       /\ UNCHANGED <<part, instanceVars, tagVars, memoryVars, entryVars, generationVars,
                      fileVars, redisVars, diskVars>>

MCSpec ==
    MCInit /\ [][MCNext]_<<part, instanceVars, tagVars, memoryVars, entryVars, generationVars,
                           fileVars, redisVars, diskVars, fetchVars>>

\* Instance, Clients and Calls stand for the same two values.
Symmetry == Permutations(Instance)

\* The options of writes: without a default, with windows, and with an adaptive
\* TTL, jitter and a window.
Opt(ttl, swr, sie, adaptive, jitter) ==
    [ttl |-> ttl, swr |-> swr, sie |-> sie, adaptive |-> adaptive, jitter |-> jitter]
Options == {Opt(0, 0, 0, TRUE, 0), Opt(1, 1, 2, TRUE, 0), Opt(1, 0, 1, FALSE, 1)}
Defaults == <<1, 0>>
Formats == <<"json", "msgpack">>

----------------------------------------------------------------------------
(* The properties of the parts, each stated in its module; those of the      *)
(* tasks, and of the guard inside them, come with FetchTasks.                *)
NoOvertakenValueAtRest == Inst!NoOvertakenValueAtRest
TagsFindTheirKeys == RTags!TagsFindTheirKeys
SearchFindsKnownKeys == RTags!SearchFindsKnownKeys
LiveEntriesStay == Memory!LiveEntriesStay
LayersSpanWindows == Entry!LayersSpanWindows
FreshnessNotRegained == Entry!FreshnessNotRegained
GenerationsStayApart == Gen!GenerationsStayApart
RestoresReadWholeSnapshots == File!RestoresReadWholeSnapshots
AnsweredWritesAreLast == Redis!AnsweredWritesAreLast
NoOldReads == Disk!NoOldReads
SetsBoundFiles == Disk!SetsBoundFiles
=============================================================================
