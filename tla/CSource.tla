------------------------------- MODULE CSource -------------------------------
(***************************************************************************)
(* What the C backend writes: the statements of a function                 *)
(* (AstVisitorCSource), declarations (CTypeGen), and the conversions       *)
(* between the integer types (CTypeBuilitin).  A text is a sequence of     *)
(* pieces; " " stands for the spaces that keep pieces apart which would be *)
(* read as one.  Types and functions have the names of the YAL program.    *)
(***************************************************************************)
EXTENDS AstExpressions, TLC

VARIABLE output     \* the text of each statement, once it is written

vars == <<ast, output>>

-----------------------------------------------------------------------------
(* Declarations. *)

GenQualType(qt) ==
  (IF qt.mutable THEN <<>> ELSE <<"const">>)
    \o <<qt.type>> \o (IF qt.reference THEN <<"*">> ELSE <<>>)

GenQualTypeFnParam(qt) == GenQualType(qt)

\* A returned value is a copy, so it is not constant.
GenQualTypeReturn(qt) ==
  (IF ~qt.mutable /\ qt.reference THEN <<"const">> ELSE <<>>)
    \o <<qt.type>> \o (IF qt.reference THEN <<"*">> ELSE <<>>)

GenDeclFunction(f) ==
  [result |-> IF IsValid(f.result) THEN GenQualTypeReturn(f.result) ELSE <<"void">>,
   params |-> [i \in DOMAIN f.params |-> GenQualTypeFnParam(f.params[i])]]

GenDeclStruct(type) == [name |-> MemberName(type), type |-> GenQualType(MemberType(type))]

GenTypedef(alias) == AliasOf[alias]

\* What a module's header declares.
Header ==
  [functions |-> [f \in DOMAIN Functions |-> GenDeclFunction(Functions[f])],
   structs |-> [type \in Structs |-> GenDeclStruct(type)],
   typedefs |-> [alias \in Aliases |-> GenTypedef(alias)]]

-----------------------------------------------------------------------------
(* Conversions between builtin types that are calls of functions.            *)
Narrow == {"i8", "u8", "i16", "u16", "i32", "u32"}

\* kBuilitinConverionTable.
ConversionTable ==
  [from \in Builtins |->
     CASE from \in {"i8", "u8"} -> {"i8", "u8"} \ {from}
       [] from \in {"i16", "u16"} -> {"i8", "u8", "i16", "u16"} \ {from}
       [] from \in {"i32", "u32"} -> Narrow \ {from}
       [] from = "i64" -> Narrow \cup {"u64"}
       [] OTHER -> {}]

GenBuiltinCall(from, to) == from \o "_as_" \o to

Largest(type) == 2 ^ (Bits[type] - IF IsSigned(type) THEN 1 ELSE 0) - 1
Lowest(type) == IF IsSigned(type) THEN -(2 ^ (Bits[type] - 1)) ELSE 0

AtMost(in, to) == IF in > Largest(to) THEN Largest(to) ELSE in

\* (Faulty variant: the largest value is not looked at.)
ConvertSignedToUnsignedUnbounded(from, to, in) == (IF in < 0 THEN 0 ELSE in) % 2 ^ Bits[to]
ConvertSignedToUnsigned(from, to, in) ==
  IF in < 0 THEN 0
  ELSE IF Bits[to] >= Bits[from] THEN in ELSE AtMost(in, to)

ConvertUnsignedToSigned(to, in) == AtMost(in, to)
ConvertUnsignedToUnsigned(to, in) == AtMost(in, to)
ConvertSignedToSigned(to, in) == IF in < Lowest(to) THEN Lowest(to) ELSE AtMost(in, to)

\* GenConversionSource: what the function for a conversion returns.
GenConversionSource(from, to, in) ==
  CASE IsSigned(from) /\ ~IsSigned(to) -> ConvertSignedToUnsigned(from, to, in)
    [] ~IsSigned(from) /\ IsSigned(to) -> ConvertUnsignedToSigned(to, in)
    [] ~IsSigned(from) /\ ~IsSigned(to) -> ConvertUnsignedToUnsigned(to, in)
    [] IsSigned(from) /\ IsSigned(to) -> ConvertSignedToSigned(to, in)

\* A cast of C between integers, where yal_bool is an unsigned one of 8 bits.
CCast(to, in) ==
  LET bits == Bits[IF to = "bool" THEN "u8" ELSE to]
      word == in % 2 ^ bits
  IN  IF IsSigned(to) /\ word >= 2 ^ (bits - 1) THEN word - 2 ^ bits ELSE word

CastValue(from, to, in) ==
  IF to \in ConversionTable[from] THEN GenConversionSource(from, to, in) ELSE CCast(to, in)

-----------------------------------------------------------------------------
(* Expressions, given the texts of their parts. *)

Separated(texts) ==
  IF texts = <<>> THEN <<>> ELSE FoldLeft(LAMBDA all, text : all \o <<",">> \o text, Head(texts), Tail(texts))

WriteUnaryOperator(node, texts) == <<node.text>> \o texts[1]

GenBinaryOperator(op) == CASE op = "and" -> "&&" [] op = "or" -> "||" [] OTHER -> op

\* The right operand is converted to the type of the left one.
WriteBinaryOperator(node, texts) ==
  texts[1] \o <<" ", GenBinaryOperator(node.text), " ">>
    \o (IF node.parts[1].qt.type = node.parts[2].qt.type THEN <<>>
        ELSE <<"(">> \o GenQualType(node.parts[1].qt) \o <<")">>)
    \o texts[2]

WriteIntegerLiteral(node) ==
  IF node.value < 0 THEN <<"-", ToString(-node.value)>> ELSE <<ToString(node.value)>>

WriteBoolLiteral(node) == IF node.value = 1 THEN <<"YAL_TRUE">> ELSE <<"YAL_FALSE">>

\* (Faulty variant: a member of what a reference refers to is written as one of
\* a struct.)
WriteStructVarRefOfValue(node, texts) == texts[1] \o <<".", node.text>>
WriteStructVarRef(node, texts) ==
  texts[1] \o <<IF node.parts[1].qt.reference THEN "->" ELSE ".", node.text>>

WriteFnCall(node, texts) == <<node.text, "(">> \o Separated(texts) \o <<")">>

\* A method is given the address of a receiver that is not a reference.
WriteTypeFnCall(node, texts) ==
  LET receiver == IF node.parts[1].qt.reference THEN texts[1] ELSE <<"&", "(">> \o texts[1] \o <<")">>
  IN  WriteFnCall(node, <<receiver>> \o Tail(texts))

\* (Faulty variant: a cast has no parentheses around it.)
WriteCastWithoutParentheses(node, texts) ==
  LET from == node.parts[1].qt.type
      to == node.qt.type
  IN  IF {from, to} \subseteq Builtins /\ to \in ConversionTable[from]
      THEN <<GenBuiltinCall(from, to), "(">> \o texts[1] \o <<")">>
      ELSE <<"(">> \o GenQualType(node.qt) \o <<")">> \o texts[1]

WriteCast(node, texts) ==
  LET from == node.parts[1].qt.type
      to == node.qt.type
  IN  IF {from, to} \subseteq Builtins /\ to \in ConversionTable[from]
      THEN <<GenBuiltinCall(from, to), "(">> \o texts[1] \o <<")">>
      ELSE <<"(", "(">> \o GenQualType(node.qt) \o <<")">> \o texts[1] \o <<")">>

WriteStructInit(node, texts) ==
  LET name == MemberName(node.text)
  IN  <<"(", node.text, ")", "{">>
        \o Separated([i \in DOMAIN texts |-> <<".", name, "=">> \o texts[i]]) \o <<"}">>

WriteDeclVar(node, texts) == GenQualType(node.qt) \o <<node.text, "=">> \o texts[1]
WriteReturn(texts) == <<"return">> \o texts[1]
WriteAssign(texts) == texts[1] \o <<"=">> \o texts[2]

RECURSIVE Write(_)
Write(node) ==
  LET texts == [i \in DOMAIN node.parts |-> Write(node.parts[i])]
  IN  CASE node.what = "var" -> <<node.text>>
        [] node.what = "bool" -> WriteBoolLiteral(node)
        [] node.what = "integer" -> WriteIntegerLiteral(node)
        [] node.what = "unary" -> WriteUnaryOperator(node, texts)
        [] node.what = "binary" -> WriteBinaryOperator(node, texts)
        [] node.what = "member" -> WriteStructVarRef(node, texts)
        [] node.what = "cast" -> WriteCast(node, texts)
        [] node.what = "call" -> WriteFnCall(node, texts)
        [] node.what = "method" -> WriteTypeFnCall(node, texts)
        [] node.what = "init" -> WriteStructInit(node, texts)
        [] node.what = "decl" -> WriteDeclVar(node, texts)
        [] node.what = "return" -> WriteReturn(texts)
        [] node.what = "assign" -> WriteAssign(texts)
        [] node.what = "begin" -> <<"{">>
        [] node.what = "end" -> <<"}">>

-----------------------------------------------------------------------------
\* The backend runs if all passes succeeded.
Generate ==
  /\ Completes(0) /\ body # <<>> /\ Len(scopes) = 1
  /\ output = <<>>
  /\ output' = [i \in DOMAIN body |-> Write(body[i])]
  /\ UNCHANGED ast

Init == AstInit /\ output = <<>>

Build == output = <<>> /\ AstNext /\ UNCHANGED output

Next == Build \/ Generate

Spec == Init /\ [][Next]_vars
=============================================================================
