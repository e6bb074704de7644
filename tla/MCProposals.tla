----------------------------- MODULE MCProposals -----------------------------
(***************************************************************************)
(* Proposals for TLC: every log up to the bounds, and clients that are     *)
(* interchangeable.                                                        *)
(***************************************************************************)
EXTENDS Proposals, TLC

MCLogs == UNION {[1 .. k -> 1 .. MaxTerm] : k \in 0 .. MaxLog}

Symmetry == Permutations(Client)
=============================================================================
