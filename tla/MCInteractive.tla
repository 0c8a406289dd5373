---------------------------- MODULE MCInteractive ----------------------------
(***************************************************************************)
(* A clock of which two ticks make a second, so that times are rounded; a  *)
(* stopped simulation and two rates.                                       *)
(***************************************************************************)
EXTENDS InteractiveSimulation

StopAndTwoRates == {0, 1, 3}
ShortAndLong == {0, 1, 3}
AtOnceOrLater == {0, 3}
==============================================================================
