----------------------- MODULE MCTransactionalStorage -----------------------
(* A small overlay: two references, an object the base may already have, a *)
(* new one, and one of a type no store accepts.                            *)
EXTENDS TransactionalStorage, TLC

CONSTANTS a, b, x, y, z, i

Symmetry == Permutations({a, b})
=============================================================================
