----------------------------- MODULE MCGreenhouse -----------------------------
(* The control loop with the source's own constants, and readings on both    *)
(* sides of every comparison it makes.                                       *)
EXTENDS Greenhouse

\* With the targets 500 and 800: just below 800 and within the margin of 500,
\* far above both, and an emergency.  A failed request reads 0.
MCLevels == {790, 1200, 2100}

\* For the liveness properties: one below the target and one above its margin.
LiveLevels == {790, 1200}
===============================================================================
