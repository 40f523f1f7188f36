------------------------- MODULE MCMessageManagers -------------------------
(***************************************************************************)
(* Small instances of MessageManagers for TLC: two requests, of which the  *)
(* second is of typed data, and two windows.                               *)
(***************************************************************************)
EXTENDS MessageManagers, TLC

CONSTANTS m1, m2

MCMayBe == [m \in Msgs |-> IF m = m1 THEN Kinds ELSE {"typed"}]
=============================================================================
