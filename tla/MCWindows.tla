------------------------------ MODULE MCWindows ------------------------------
(***************************************************************************)
(* A popup, a tab that may be loaded again while its last page ends, two   *)
(* notification windows and two requests.                                  *)
(***************************************************************************)
EXTENDS Windows

CONSTANTS l1, l2, t1

MCTabOf == [l \in {l1, l2} |-> t1]
=============================================================================
