---------------------------- MODULE MCDeadlines ----------------------------
(* The options that TLC gives Deadlines: lives and refreshes about the     *)
(* precision of a float and the ends of a word, with each jitter; all      *)
(* short lives; budgets, with counts of shards; and some New() refuses.    *)
EXTENDS Deadlines, TLC

Plain == [ttl |-> 0, negativeTTL |-> 0, refreshAfter |-> 0, jitter |-> 0,
          granularity |-> 0, shards |-> 0, budget |-> 0]

MCOptions ==
    {[Plain EXCEPT !.ttl = t, !.refreshAfter = r, !.jitter = j] :
        t \in {0, 2, 10, 31, 33, 63, 65, 700, 1365, 2046, 2047},
        r \in {-1, 0, 1, 7, 30, 32, 62, 64, 341, 699, 2045, 2046},
        j \in {-1, 0, 1, 33, 50, 100, 101}}
    \cup UNION {{[Plain EXCEPT !.ttl = t, !.refreshAfter = r, !.jitter = j] :
        r \in {1, t \div 2, t - 1}, j \in {37, 100}} : t \in 1..32}
    \cup {[Plain EXCEPT !.shards = n, !.budget = b] :
        n \in {-1, 0, 1, 2, 3, 4, 5, 16, 17, 1024, 1025}, b \in {-1, 0, 1, 2, 16, 100, 2030, 2046, 2047}}
    \cup {[Plain EXCEPT !.ttl = t, !.negativeTTL = n, !.granularity = g] :
        t \in {0, 10, 99}, n \in {-1, 0, 5, 20}, g \in {-1, 0, 1, 2, 205}}

MCDurations == {-2048, -5, 0, 1, 2, 31, 32, 33, 48, 63, 64, 65, 100, 127, 1000, 1400, 2000, 2047}

=============================================================================
