--------------------------- MODULE MCPermissions ---------------------------
(***************************************************************************)
(* Small instances of Permissions for TLC: two pages of one site, one of   *)
(* which may ask the user, and in one of the runs the page of another.     *)
(***************************************************************************)
EXTENDS Permissions, TLC

CONSTANTS o1, o2, p1, p2, p3, c1, a1, a2, n1

MCOriginOf == [p \in Pages |-> IF p = p3 THEN o2 ELSE o1]
MCPageOf == [c \in Calls |-> p1]

AccountSymmetry == Permutations(Accounts)
=============================================================================
