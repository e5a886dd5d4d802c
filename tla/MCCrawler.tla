------------------------------ MODULE MCCrawler ------------------------------
(* Instances of Crawler for TLC. *)
EXTENDS Crawler, TLC

CONSTANTS a, b, p1, p2, p3

OneRegion == <<a>>

\* p1 plays alone, with an outsider, alone again (a valid sample once the first two are
\* stored), and with p2.
Solo == <<{p1}, {p1, p3}, {p1}, {p1, p2}>>
\* p1 plays twice in a row, the second time with p2.
Grinder == <<{p1}, {p2}, {p1}, {p1, p2}>>
AllHere == [g \in 1 .. 6 |-> a]
SameHost == a :> a
Ids == [g \in 1 .. 6 |-> g]

Leagues == a :> <<{p1}, {p2}>>
Bands == a :> <<<<{p2}>>>>
=============================================================================
