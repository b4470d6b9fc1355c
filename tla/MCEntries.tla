------------------------------ MODULE MCEntries -------------------------------
(* Entries for TLC, with the options that the two disagreements need.        *)
EXTENDS Entries

Opt(ttl, swr, sie) ==
    [ttl |-> ttl, swr |-> swr, sie |-> sie, adaptive |-> FALSE, jitter |-> 0]

\* A stale-while-revalidate window, with a TTL and without one.
Options == {Opt(1, 1, 0), Opt(Null, 1, 0)}

\* The layers' default TTLs: one each, and none at all.
Defaults == <<1, 2>>
NoDefaults == <<0, 0>>
=============================================================================
