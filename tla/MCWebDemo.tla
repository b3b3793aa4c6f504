------------------------------ MODULE MCWebDemo ------------------------------
(* Two browsers; runs with no ratings given, with one, with all and with    *)
(* one too many, for an unchanged, an absent and an updated manifest.       *)
EXTENDS WebDemo

CONSTANTS c1, c2, m0, m1

MCClients == {c1, c2}
MCManifests == {m0, m1}

Asked(ratings, manifest, inBounds, provable) ==
    [path |-> "run", ratings |-> ratings, manifest |-> manifest,
     inBounds |-> inBounds, provable |-> provable]

MCRuns ==
    {Asked(0, Absent, TRUE, TRUE), Asked(1, m0, TRUE, FALSE),
     Asked(1, Absent, TRUE, TRUE), Asked(3, m1, TRUE, TRUE),
     Asked(3, m1, TRUE, FALSE), Asked(4, m0, TRUE, TRUE),
     Asked(2, m1, FALSE, TRUE)}
=============================================================================
