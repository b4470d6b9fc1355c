--------------------------- MODULE PatternMatcher ---------------------------
(* The glob matcher of invalidation/PatternMatcher.ts and the literal prefix *)
(* that narrows a search (TagIndex.ts). A key or a pattern is a sequence of  *)
(* characters; "*" stands for any run of characters and "?" for one.         *)
EXTENDS Naturals, Sequences

(* The two-pointer loop: p and v are patternIndex and valueIndex (from 1),   *)
(* star is the last star seen (0: none) and back the value index it matched  *)
(* up to.                                                                    *)
RECURSIVE MatchLinear(_, _, _, _, _, _)
MatchLinear(pattern, value, p, v, star, back) ==
    IF v > Len(value)
    THEN \A i \in p..Len(pattern) : pattern[i] = "*"
    ELSE IF p <= Len(pattern) /\ pattern[p] = "*"
    THEN MatchLinear(pattern, value, p + 1, v, p, v)
    ELSE IF p <= Len(pattern) /\ pattern[p] \in {"?", value[v]}
    THEN MatchLinear(pattern, value, p + 1, v + 1, star, back)
    ELSE star # 0 /\ MatchLinear(pattern, value, star + 1, back + 1, star, back + 1)

(* MatchLinear, forgetting to advance the position the star has swallowed    *)
(* beyond the first retry.                                                   *)
RECURSIVE MatchOnce(_, _, _, _, _, _)
MatchOnce(pattern, value, p, v, star, back) ==
    IF v > Len(value)
    THEN \A i \in p..Len(pattern) : pattern[i] = "*"
    ELSE IF p <= Len(pattern) /\ pattern[p] = "*"
    THEN MatchOnce(pattern, value, p + 1, v, p, v)
    ELSE IF p <= Len(pattern) /\ pattern[p] \in {"?", value[v]}
    THEN MatchOnce(pattern, value, p + 1, v + 1, star, back)
    ELSE star # 0 /\ MatchOnce(pattern, value, star + 1, v + 1, star, back)

MatchesWithoutBacktracking(pattern, value) == MatchOnce(pattern, value, 1, 1, 0, 1)

Matches(pattern, value) ==
    MatchLinear(pattern, value, 1, 1, 0, 1)

(* The characters of the pattern before its first wildcard.                  *)
LiteralPrefix(pattern) ==
    LET Wild == {i \in DOMAIN pattern : pattern[i] \in {"*", "?"}}
    IN  IF Wild = {} THEN pattern
        ELSE SubSeq(pattern, 1, (CHOOSE i \in Wild : \A j \in Wild : i <= j) - 1)

(* What a pattern means, without an algorithm: the reference Matches is      *)
(* compared with.                                                            *)
RECURSIVE Denotes(_, _)
Denotes(pattern, value) ==
    IF pattern = <<>> THEN value = <<>>
    ELSE \/ /\ Head(pattern) = "*"
            /\ \/ Denotes(Tail(pattern), value)
               \/ value # <<>> /\ Denotes(pattern, Tail(value))
         \/ /\ Head(pattern) # "*"
            /\ value # <<>>
            /\ Head(pattern) \in {"?", Head(value)}
            /\ Denotes(Tail(pattern), Tail(value))
=============================================================================
