---------------------------- MODULE MCAuditChain ----------------------------
(***************************************************************************)
(* A small instance of AuditChain for TLC: event Other belongs to a second *)
(* tenant, the rest to the first.                                          *)
(***************************************************************************)
EXTENDS AuditChain, TLC

CONSTANTS a, b, Other

MCTenantOf == [e \in Events |-> IF e = Other THEN b ELSE a]
MCSymmetry == Permutations(Workers)
=============================================================================
