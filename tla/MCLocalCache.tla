---------------------------- MODULE MCLocalCache ----------------------------
(* Two keys of which one is a prefix of the other; one may be known at a     *)
(* time, and layer 1 holds one entry.                                        *)
EXTENDS LocalCache

CONSTANTS t, u

MCKeys == {<<"a">>, <<"a", "b">>}
MCTagChoices == {{t}, {t, u}}
MCPrefixes == {<<"a", "b">>}
MCPatterns == {<<"a", "?">>, <<"*">>}

(* A search by pattern takes the known keys below the pattern's literal      *)
(* prefix and runs the two-pointer loop of matchesPattern on them, which     *)
(* retries only the last star (TagIndex.matchPattern). Together they accept  *)
(* exactly what the pattern denotes: for every pattern and value of at most  *)
(* four characters, compared once, in the initial state.                     *)
MatchesIsDenotes ==
    index = EmptyIndex /\ layer = [l \in Layers |-> <<>>] /\ ~skipped /\ shadowed = {} =>
        \A pattern \in BoundedSeq({"a", "b", "*", "?"}, 4), value \in BoundedSeq({"a", "b"}, 4) :
            (IsPrefix(LiteralPrefix(pattern), value) /\ Matches(pattern, value))
                = Denotes(pattern, value)
=============================================================================
