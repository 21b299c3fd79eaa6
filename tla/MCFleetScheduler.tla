-------------------------- MODULE MCFleetScheduler --------------------------
(* Values of the constants of FleetScheduler for TLC.                      *)
EXTENDS FleetScheduler, TLC

CONSTANTS s1, s2, h1, h2, p1, p2, g1, g2, r1, r2

OneServer == {s1}
TwoServers == {s1, s2}
OneHost == {h1}
TwoHosts == {h1, h2}
OneLambda == {p1}
TwoLambdas == {p1, p2}
OneGame == {g1}
TwoGames == {g1, g2}
OneRelease == {r1}
TwoReleases == {r1, r2}

OneDim == {"memory"}
\* Two releases with different content hashes; one with none.
MCWorkload == [r \in Releases |-> IF r = r1 THEN "w" ELSE None]
\* A host holds one g2, or two g1.
MCCapacity == [r \in Releases |-> [d \in Dims |-> 2]]
MCNeed == [g \in Games |-> [d \in Dims |-> IF g = g1 THEN 1 ELSE 2]]

Symmetry == Permutations(Lambdas) \cup Permutations(Hosts) \cup Permutations(Servers)
=============================================================================
