------------------------------ MODULE MCStatements ------------------------------
(* Two requests: any can be prepared, executed and unprepared, or used once.     *)
(* They are interchangeable, and only invariants are checked.                    *)
EXTENDS Statements, TLC

CONSTANTS r1, r2

MCRequests == {r1, r2}
MCSymmetry == Permutations(MCRequests)
=================================================================================
