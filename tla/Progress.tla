------------------------------- MODULE Progress -------------------------------
(***************************************************************************)
(* The sample accounting of store_match (crates/server/src/storage.rs):    *)
(* the player timelines and, for every stored match, how many earlier      *)
(* games of each participant are stored.  Matches arrive in any order; a   *)
(* match also counts for the later games already stored.  A match is       *)
(* numbered by its start time.                                             *)
(***************************************************************************)
EXTENDS Integers, FiniteSets

CONSTANTS
  PlayersOf,        \* PlayersOf[g]: the participants of g
  PlatformOf,       \* PlatformOf[g]
  HISTORY_REQUIRED

\* timeline[p]: T_PLAYER_TL, the stored games of p; progress: T_PROGRESS, a count per
\* participant (at most HISTORY_REQUIRED) and the mark of a valid sample.
Timeline(progress, p) == {g \in DOMAIN progress : p \in PlayersOf[g]}

Capped(n) == IF n > HISTORY_REQUIRED THEN HISTORY_REQUIRED ELSE n

Full(counts) == \A p \in DOMAIN counts : counts[p] >= HISTORY_REQUIRED

\* The stored games of p after g, up to h, on g's platform.
Between(progress, p, g, h) ==
  {k \in Timeline(progress, p) : g < k /\ k <= h /\ PlatformOf[k] = PlatformOf[g]}

\* Faulty variant: the walk over later games stops at the first one.
CreditOnlyNext(progress, g, h, p) ==
  /\ p \in PlayersOf[g]
  /\ h \in Between(progress, p, g, h)
  /\ \A k \in Between(progress, p, g, h) : k = h /\ progress[k].counts[p] < HISTORY_REQUIRED

\* The retroactive walk of p's later games counts g for h: it stops at the first game
\* that is at the cap.
Credit(progress, g, h, p) ==
  /\ p \in PlayersOf[g]
  /\ h \in Between(progress, p, g, h)
  /\ \A k \in Between(progress, p, g, h) : progress[k].counts[p] < HISTORY_REQUIRED

\* What store_match makes of the tables; a match stored before changes nothing.
WithMatch(progress, g) ==
  LET Earlier(p) == {k \in Timeline(progress, p) : k < g}
      first == [p \in PlayersOf[g] |-> Capped(Cardinality(Earlier(p)))]
      Later(h) == [p \in DOMAIN progress[h].counts |->
                     progress[h].counts[p] + IF Credit(progress, g, h, p) THEN 1 ELSE 0]
      Row(counts, valid) == [counts |-> counts, valid |-> valid \/ Full(counts)]
  IN  IF g \in DOMAIN progress THEN progress
      ELSE [h \in DOMAIN progress \cup {g} |->
              IF h = g THEN Row(first, FALSE) ELSE Row(Later(h), progress[h].valid)]

\* Matches that become valid samples between two states of the table.
NewlyValid(before, after) ==
  {g \in DOMAIN after : after[g].valid /\ (g \in DOMAIN before => ~before[g].valid)}

-----------------------------------------------------------------------------
\* What the counts mean: the earlier games of the participant that are stored, up to
\* the requirement, and a valid sample is a match that has them for everyone.
Exact(progress) ==
  \A g \in DOMAIN progress :
    /\ \A p \in PlayersOf[g] : progress[g].counts[p] =
         Capped(Cardinality({h \in DOMAIN progress : h < g /\ p \in PlayersOf[h]}))
    /\ progress[g].valid <=> Full(progress[g].counts)
=============================================================================
