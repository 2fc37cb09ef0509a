----------------------------- MODULE MCMoveCheck -----------------------------
(* The move check on three variables, one of each kind: two scopes, visits of *)
(* expressions nested two deep, and two arguments a call, so that a value can *)
(* be given away twice by the arguments of one call and by those of a call    *)
(* inside another.                                                            *)
EXTENDS MoveCheck

MCVars == {"f", "x", "r"}
MCKind == [v \in MCVars |-> CASE v = "f" -> "owned" [] v = "x" -> "copied" [] v = "r" -> "ref"]
MCMaxScopes == 2
MCMaxFrames == 2
MCMaxArgs == 2
=============================================================================
