--------------------------- MODULE MCCarbonBridge ---------------------------
(* Values of CarbonBridge's constants for TLC.                             *)
EXTENDS CarbonBridge, TLC

CONSTANTS p, m1, m2, e1, e2, w

\* Three batches at most: with the messages an emitter's owner publishes himself
\* enough for each of the two calls to overtake the other's counter and to be
\* overtaken.
MCReadings ==
  {[meter |-> m1, kwh |-> 1, ts |-> 3], [meter |-> m1, kwh |-> 1, ts |-> 6],
   [meter |-> m2, kwh |-> 1, ts |-> 3]}

MCKycRecords == {[status |-> 1, jurisdiction |-> 1, expiry |-> 9]}

\* No definition tells one emitter from another.
EmitterSymmetry == Permutations({e1, e2})
=============================================================================
