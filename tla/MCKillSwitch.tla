---------------------------- MODULE MCKillSwitch ----------------------------
(* Model-checking instances of KillSwitch.                                 *)
EXTENDS KillSwitch

\* One direction, one contract per order.
MCLong == {1}

\* A short position that fills in two parts.
MCShort == {-2}

\* One contract in and out again.
MCRound == {-1, 1}

MCLevels == {-2, 0}
=============================================================================
