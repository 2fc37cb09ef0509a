----------------------------- MODULE MCTypeCheck -----------------------------
(* A builtin type, a struct, a struct with a reference to it, and a type     *)
(* derived from the struct.                                                  *)
EXTENDS TypeCheck

MCValues == {"u8"}
MCPlains == {"Foo"}
MCHolders == {"Box"}
MCWeak == {}
MCStrong == {"Own"}
MCAliasOf == [t \in MCStrong |-> "Foo"]
MCMember == [Foo |-> "u8", Box |-> "Foo"]
MCMaxVars == 2
MCResults == {Written("Foo", FALSE, TRUE), Written("Foo", TRUE, TRUE), Written("Box", FALSE, FALSE),
              QT("void", FALSE, FALSE, FALSE)}

\* Bound: what follows the first error is not explored.
UntilRejected == ~rejected
==============================================================================
