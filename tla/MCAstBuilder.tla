----------------------------- MODULE MCAstBuilder -----------------------------
(* Three names in three scopes: a name can be used again in a scope that     *)
(* follows, and lie in an inner, the same or an outer scope of a reference.  *)
(* Names are only compared with each other, so they are symmetric.           *)
EXTENDS AstBuilder, TLC

CONSTANTS x, y, z
MCNames == {x, y, z}
MCMaxDepth == 3
MCMaxDecls == 3
MCMaxStatements == 5
Symmetry == Permutations(MCNames)
=============================================================================
