--------------------------- MODULE MCSCLOrkClock ---------------------------
(* SCLOrkClock for TLC: the clients are interchangeable.                   *)
EXTENDS SCLOrkClock, TLC

Symmetry == Permutations(Clients)
=============================================================================
