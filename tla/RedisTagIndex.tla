---------------------------- MODULE RedisTagIndex ----------------------------
(* RedisTagIndex: the tag index several processes share in Redis. A call     *)
(* reads what it needs and sends a pipeline; the commands of pipelines of    *)
(* different processes interleave. The known-key sets of all shards count as *)
(* one, "known": a key is always in the shard of its hash. "legacy" is the   *)
(* known-key set of versions before the shards.                              *)
EXTENDS Naturals, Sequences
Seqs == INSTANCE SequencesExt

CONSTANTS Clients, Keys, Tags, None

VARIABLES sets,     \* the Redis sets: <<name, member>> for every member
          todo,     \* todo[c]: the commands of client c that have yet to run
          damaged,  \* history: keys whose tags a call cut that was not alone
          owed,     \* history: the keys that the calls so far make known
          search    \* a search for known keys: what it looks for and has found

vars == <<sets, todo, damaged, owed, search>>

NoSearch == [pc |-> "none", key |-> None, names |-> << >>, found |-> FALSE, owed |-> FALSE]

Legacy == <<"legacy", None>>
Shards == <<"known", None>>
TagsOf(k) == <<"tags", k>>   \* keyTagsKey
KeysOf(t) == <<"keys", t>>   \* tagKeysKey

Init ==
    /\ \E old \in SUBSET Keys : sets = {<<Legacy, k>> : k \in old} /\ owed = old
    /\ todo = [c \in Clients |-> << >>]
    /\ damaged = {} /\ search = NoSearch

SMembers(name) == {e[2] : e \in {x \in sets : x[1] = name}}

SAdd(name, M) == [op |-> "sadd", name |-> name, members |-> M]
SRem(name, m) == [op |-> "srem", name |-> name, members |-> {m}]
Del(N) == [op |-> "del", names |-> N]
ClearDel(N) == [op |-> "clear", names |-> N]

Applied(c) ==
    CASE c.op = "sadd" -> sets \cup {<<c.name, m>> : m \in c.members}
      [] c.op = "srem" -> sets \ {<<c.name, m>> : m \in c.members}
      [] OTHER -> {e \in sets : e[1] \notin c.names}

Known(s, k) == <<Shards, k>> \in s \/ <<Legacy, k>> \in s

(* The calls ---------------------------------------------------------------*)

(* One command for each element, in any order.                               *)
ForEach(S, Cmd(_)) == LET q == Seqs!SetToSeq(S) IN [i \in DOMAIN q |-> Cmd(q[i])]

(* The tags read before are removed at the end.                              *)
TrackRemovesLast(k, existing, T) ==
    <<SAdd(Shards, {k}), Del({TagsOf(k)})>>
        \o (IF T = {} THEN << >> ELSE <<SAdd(TagsOf(k), T)>>)
        \o ForEach(T, LAMBDA t : SAdd(KeysOf(t), {k}))
        \o ForEach(existing, LAMBDA t : SRem(KeysOf(t), k))

(* track: the pipeline after the tags the key has were read.                 *)
TrackCommands(k, existing, T) ==
    <<SAdd(Shards, {k})>>
        \o ForEach(existing, LAMBDA t : SRem(KeysOf(t), k))
        \o <<Del({TagsOf(k)})>>
        \o (IF T = {} THEN << >> ELSE <<SAdd(TagsOf(k), T)>>)
        \o ForEach(T, LAMBDA t : SAdd(KeysOf(t), {k}))

(* remove.                                                                   *)
RemoveCommands(k, existing) ==
    <<SRem(Shards, k), SRem(Legacy, k), Del({TagsOf(k)})>>
        \o ForEach(existing, LAMBDA t : SRem(KeysOf(t), k))

(* migrateLegacyKnownKeys, with shards: copy what was scanned, then delete   *)
(* the legacy set if there was any.                                          *)
MigrateCommands ==
    ForEach(SMembers(Legacy), LAMBDA k : SAdd(Shards, {k}))
        \o (IF SMembers(Legacy) = {} THEN << >> ELSE <<Del({Legacy})>>)

(* clear: delete the keys of the index that were scanned.                    *)
ClearCommands == <<ClearDel({e[1] : e \in sets})>>

Call(c, commands) ==
    /\ todo[c] = << >>
    /\ todo' = [todo EXCEPT ![c] = commands]
    /\ UNCHANGED <<sets, damaged, owed, search>>

Touch(c, k) == Call(c, <<SAdd(Shards, {k})>>)
Track(c, k, T) == Call(c, TrackCommands(k, SMembers(TagsOf(k)), T))
Remove(c, k) == Call(c, RemoveCommands(k, SMembers(TagsOf(k))))
Migrate(c) == Call(c, MigrateCommands)
Clear(c) == sets # {} /\ Call(c, ClearCommands)

Changes(cmd, k) ==
    IF cmd.op \in {"sadd", "srem"} THEN k \in cmd.members \/ cmd.name = TagsOf(k)
                                   ELSE TagsOf(k) \in cmd.names

(* The keys that the pipelines of the clients D have yet to change.          *)
InFlight(D) ==
    {k \in Keys : \E d \in D : \E i \in DOMAIN todo[d] : Changes(todo[d][i], k)}

(* The keys whose tags a remove has deleted, but not yet the key from these. *)
HalfRemoved(D) ==
    {k \in Keys : \E d \in D :
        /\ \E i \in DOMAIN todo[d] : todo[d][i].op = "srem" /\ k \in todo[d][i].members
        /\ ~\E i \in DOMAIN todo[d] : todo[d][i] = Del({TagsOf(k)})}

(* The server runs the next command of a client.                             *)
Run(c) ==
    /\ todo[c] # << >>
    /\ LET cmd == Head(todo[c])
       IN  /\ sets' = Applied(cmd)
           /\ damaged' = IF cmd.op = "clear"
                         THEN damaged \cup InFlight(Clients \ {c}) \cup {k \in Keys : SMembers(TagsOf(k)) # {}}
                         ELSE damaged \cup {k \in HalfRemoved(Clients \ {c}) : Changes(cmd, k)}
           /\ owed' = CASE cmd.op = "sadd" /\ cmd.name = Shards -> owed \cup cmd.members
                        [] cmd.op = "srem" /\ cmd.name = Shards -> owed \ cmd.members
                        [] cmd.op = "clear" -> {k \in owed : Known(sets', k)}
                        [] OTHER -> owed
           /\ search' = [search EXCEPT !.owed = @ /\ search.key \in owed']
    /\ todo' = [todo EXCEPT ![c] = Tail(@)]

(* A client dies: the rest of its pipeline is lost.                          *)
Lost(c) ==
    /\ todo[c] # << >>
    /\ todo' = [todo EXCEPT ![c] = << >>]
    /\ damaged' = damaged \cup InFlight({c})
    /\ UNCHANGED <<sets, owed, search>>

(* Searches ----------------------------------------------------------------*)

(* The legacy set, when there is one, after the shards.                      *)
LegacyLast == IF SMembers(Legacy) = {} THEN <<Shards>> ELSE <<Shards, Legacy>>

(* knownKeysKeysForRead: the legacy set, when there is one, then the shards. *)
KnownKeysForRead ==
    IF SMembers(Legacy) = {} THEN <<Shards>> ELSE <<Legacy, Shards>>

(* keysForPrefix, forEachKeyForPrefix, matchPattern or                       *)
(* forEachKeyMatchingPattern, looked at for one key that matches.            *)
StartSearch(k) ==
    /\ search.pc = "none"
    /\ search' = [pc |-> "scanning", key |-> k, names |-> KnownKeysForRead,
                  found |-> FALSE, owed |-> k \in owed]
    /\ UNCHANGED <<sets, todo, damaged, owed>>

Scan ==
    /\ search.pc = "scanning" /\ search.names # << >>
    /\ search' = [search EXCEPT !.names = Tail(@),
                                !.found = @ \/ search.key \in SMembers(Head(search.names))]
    /\ UNCHANGED <<sets, todo, damaged, owed>>

EndSearch ==
    /\ search.pc = "scanning" /\ search.names = << >>
    /\ search' = NoSearch
    /\ UNCHANGED <<sets, todo, damaged, owed>>

Next ==
    \/ \E c \in Clients :
         \/ Migrate(c) \/ Clear(c) \/ Run(c) \/ Lost(c)
         \/ \E k \in Keys : Touch(c, k) \/ Remove(c, k) \/ \E T \in SUBSET Tags : Track(c, k, T)
    \/ Scan \/ EndSearch \/ \E k \in Keys : StartSearch(k)

Spec == Init /\ [][Next]_vars

----------------------------------------------------------------------------
(* When no pipeline is running, the set of every tag that a key carries      *)
(* lists the key, however calls for the same key interleaved: invalidating   *)
(* the tag finds it (track removes before it adds). What breaks this is a    *)
(* pipeline that was lost half way, and a clear or a remove half way of      *)
(* which another call for the key runs.                                      *)
TagsFindTheirKeys ==
    (\A c \in Clients : todo[c] = << >>) =>
        \A k \in Keys \ damaged : \A t \in SMembers(TagsOf(k)) : k \in SMembers(KeysOf(t))

(* A search finds every key that was known from its start to its end, also   *)
(* while the legacy set is migrated (knownKeysKeysForRead reads the legacy   *)
(* set first, migrateLegacyKnownKeys deletes it last).                       *)
SearchFindsKnownKeys ==
    search.pc = "scanning" /\ search.names = << >> /\ search.owed => search.found
=============================================================================
