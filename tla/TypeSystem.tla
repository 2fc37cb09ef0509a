------------------------------ MODULE TypeSystem ------------------------------
(***************************************************************************)
(* The types of YAL and what converts to what (types/*.cpp).  A struct is  *)
(* plain, with one member n that is a value, or holds one reference r to a *)
(* plain struct.  Aliases are of builtin types and structs; aliases of     *)
(* aliases are left out.                                                   *)
(***************************************************************************)
EXTENDS Naturals

CONSTANTS
  Values,     \* the builtin types the program uses
  Plains,     \* structs with a member n
  Holders,    \* structs with a member r
  Weak,       \* aliases of another type
  Strong,     \* types derived from another type
  AliasOf,    \* the type they are made from
  Member      \* the type of the member of each struct

Builtins == {"bool", "i8", "i16", "i32", "i64", "u8", "u16", "u32", "u64", "f32", "f64"}
Structs == Plains \cup Holders
Aliases == Weak \cup Strong
Named == Values \cup Structs \cup Aliases       \* the types the program names
Types == Builtins \cup Structs \cup Aliases

\* What stands for the type of an expression that has none.  The code has the
\* null pointer for both: after an error, and of a function without result.
NoTypes == {"invalid", "void"}

ASSUME TypeSystemAssumption ==
  /\ Values \subseteq Builtins
  /\ Plains \cap Holders = {} /\ Weak \cap Strong = {}
  /\ Structs \cap Aliases = {} /\ (Structs \cup Aliases) \cap (Builtins \cup NoTypes) = {}
  /\ AliasOf \in [Aliases -> Values \cup Structs]
  /\ Member \in [Structs -> Values \cup Plains]
  /\ \A t \in Plains : Member[t] \in Values
  /\ \A t \in Holders : Member[t] \in Plains

\* Type::resolve.
Resolve(type) == IF type \in Aliases THEN AliasOf[type] ELSE type

\* Only TypeBuiltin sets m_trivialCopy; an alias of a builtin type does not.
IsTriviallyCopiable(type) == type \in Builtins

IsSigned(type) == type \in {"i8", "i16", "i32", "i64", "f32", "f64"}
IsUnsigned(type) == type \in {"u8", "u16", "u32", "u64"}

\* The conversions that need not be asked for go to the right.
Chains == {<<"i8", "i16", "i32", "i64">>, <<"u8", "u16", "u32", "u64">>, <<"f32", "f64">>}

BuiltinToAuto(from, to) ==
  /\ {from, to} \subseteq Builtins
  /\ \/ from = to
     \/ \E chain \in Chains : \E i, j \in DOMAIN chain : i < j /\ chain[i] = from /\ chain[j] = to

\* Type::isCastableToAuto: the target is resolved, the source only if weak.
IsCastableToAuto(from, to) ==
  \/ from = to
  \/ from \in Builtins /\ BuiltinToAuto(from, Resolve(to))
  \/ from \in Weak /\ \/ AliasOf[from] = Resolve(to)
                      \/ BuiltinToAuto(AliasOf[from], Resolve(to))

\* Type::isCastableToRequest.
IsCastableToRequest(from, to) ==
  \/ from = to
  \/ from \in Builtins /\ Resolve(to) \in Builtins
  \/ from \in Weak /\ \/ AliasOf[from] = Resolve(to)
                      \/ {AliasOf[from], Resolve(to)} \subseteq Builtins
  \/ from \in Strong /\ AliasOf[from] = Resolve(to)

-----------------------------------------------------------------------------
(* Qualified types (QualType), without the bits for pointers, which nothing  *)
(* sets, and for the replacement of members, which the move pass reads.      *)
QualTypes == [type : Types \cup NoTypes, mutable : BOOLEAN, reference : BOOLEAN, lvalue : BOOLEAN]

QT(type, mutable, reference, lvalue) ==
  [type |-> type, mutable |-> mutable, reference |-> reference, lvalue |-> lvalue]

IsValid(qt) == qt.type \notin NoTypes

\* What MakeQualifier makes of a written type: only setReference sets the
\* l-value bit.
Written(type, mutable, reference) == QT(type, mutable, reference, reference)

\* An r-value made by an operator, a literal or the initialiser of a struct.
Fresh(type) == QT(type, TRUE, FALSE, FALSE)

\* isValidTypeConversion.  (Faulty variants: the mutability of references is
\* not compared; whether it is a reference is not.)
KeepsImmutable(from, to) ==
  from.mutable \/ ~to.mutable \/ (IsTriviallyCopiable(from.type) /\ IsTriviallyCopiable(to.type))

ConvertsIfValues(from, to) ==
  /\ IsCastableToAuto(from.type, to.type)
  /\ KeepsImmutable(from, to) \/ from.reference
  /\ from.reference = to.reference

ConvertsToAnything(from, to) ==
  KeepsImmutable(from, to) /\ from.reference = to.reference

Converts(from, to) ==
  /\ IsCastableToAuto(from.type, to.type)
  /\ KeepsImmutable(from, to)
  /\ from.reference = to.reference

\* isValidCastConversion.
Casts(from, to) ==
  /\ IsCastableToRequest(from.type, to.type)
  /\ KeepsImmutable(from, to)
  /\ IsTriviallyCopiable(to.type) => ~to.reference
  /\ ~IsTriviallyCopiable(to.type) => from.reference /\ to.reference

-----------------------------------------------------------------------------
(* Operators.  Nobody looks at whether their operands are references.        *)
Bitwise == {"&", "|", "^"}
Comparisons == {"==", "!=", "<", "<=", ">", ">="}
Connectives == {"and", "or"}

OperandFits(op, type) ==
  CASE op = "~" -> IsUnsigned(type)
    [] op = "-" -> IsSigned(type)
    [] op = "!" -> type = "bool"

\* Apart from the conversion of the right one to the type of the left one.
OperandsFit(op, left, right) ==
  CASE op \in Connectives -> left = "bool" /\ right = "bool"
    [] op \in Bitwise -> IsUnsigned(left) /\ IsUnsigned(right)
    [] OTHER -> left \in Builtins

ResultOf(op, left) == IF op \in Comparisons \cup Connectives THEN "bool" ELSE left
=============================================================================
