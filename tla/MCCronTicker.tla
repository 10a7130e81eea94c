---------------------------- MODULE MCCronTicker ----------------------------
(* Instances of CronTicker for TLC.                                          *)
EXTENDS CronTicker, TLC

CONSTANTS h1, h2

\* The second hotel's turn comes a unit after the first one's.
Stagger == (h1 :> 0 @@ h2 :> 1)

\* Two occurrences, one later than the other hotel's turn for the first.
Twice == (2 :> 3 @@ 3 :> 0)
=============================================================================
