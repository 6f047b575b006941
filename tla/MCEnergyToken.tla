--------------------------- MODULE MCEnergyToken ---------------------------
(* Values of EnergyToken's constants for TLC.                              *)
EXTENDS EnergyToken, TLC

CONSTANTS p, c, m1, m2

\* Two epochs, and readings on and around the edges of their windows: with
\* Tol = 1 the reading at 2 fits the epoch at 3 only, the one at 4 fits the
\* epoch at 3 only, the one at 5 the epoch at 6 only.  With MaxU64 = 5 the supply
\* holds two of the small readings, or the large one alone.
MCReadings ==
  {[meter |-> m1, kwh |-> 1, ts |-> 2], [meter |-> m1, kwh |-> 1, ts |-> 4],
   [meter |-> m1, kwh |-> 2, ts |-> 5], [meter |-> m2, kwh |-> 1, ts |-> 3]}

\* Cleared through both epochs, or suspended.
MCKycRecords ==
  {[status |-> 1, jurisdiction |-> 1, expiry |-> 9],
   [status |-> 2, jurisdiction |-> 1, expiry |-> 9]}

\* No definition tells one wallet from another.
WalletSymmetry == Permutations(Addrs)
=============================================================================
