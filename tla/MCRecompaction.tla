--------------------------- MODULE MCRecompaction ---------------------------
(* Constants for model checking Recompaction. *)
EXTENDS Recompaction

CONSTANTS g1, g2

\* Two records that differ in all that the columnar transform is sensitive to:
\* ids and starts that fall as well as rise, lists of unlike lengths, empty ones
\* among them, and timelines whose frames narrow and widen.  A game stored twice
\* puts one of them next to itself.
TwoRecords ==
  g1 :> [queue |-> 420, game_id |-> 7, plat |-> <<1, 2>>, start |-> 50,
         parts |-> <<[player |-> 1, runes |-> <<5, 6>>, stats |-> <<-1>>],
                     [player |-> 2, runes |-> <<>>, stats |-> <<3, 0, 4>>]>>,
         timeline |-> <<[frames |-> <<[minute |-> 0, gold |-> <<500, 400>>],
                                      [minute |-> 1, gold |-> <<300>>],
                                      [minute |-> 2, gold |-> <<310, 700>>]>>,
                         kills |-> <<[t |-> 9, killer |-> 1], [t |-> 4, killer |-> 0]>>]>>,
         bans |-> <<10, 11>>]
  @@ g2 :> [queue |-> 0, game_id |-> 3, plat |-> <<>>, start |-> 60,
            parts |-> <<[player |-> 2, runes |-> <<8>>, stats |-> <<>>]>>,
            timeline |-> <<>>,
            bans |-> <<>>]
=============================================================================
