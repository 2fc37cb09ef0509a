------------------------------ MODULE SyntaxTree ------------------------------
(***************************************************************************)
(* The nodes of the syntax tree (parser/st*.h).  A token is a node without *)
(* parts; `at` is the first and the last token a node stands for, what its *)
(* SourceInfo says in lines and columns.                                   *)
(***************************************************************************)
EXTENDS Integers, Sequences

Node(type, what, parts, at) == [type |-> type, what |-> what, parts |-> parts, at |-> at]

NoSource == <<0, 0>>

\* nullptr.
Null == Node("nullptr", "", <<>>, NoSource)

TokenAt(token, place) == Node("Token", token, <<>>, <<place, place>>)

\* CreateSourceInfo, for tokens and for nodes.
CreateSourceInfo(start, end) == <<start.at[1], end.at[2]>>

-----------------------------------------------------------------------------
(* Names and types. *)

STIdentifier(token) ==
  Node("STIdentifier", IF token.what = "IdentifierMulti" THEN "complex" ELSE "simple",
       <<>>, token.at)

\* The builtin types, in the order of the grammar.
BuiltinTypes ==
  <<"Bool", "Int8", "UInt8", "Int16", "UInt16", "Int32", "UInt32", "Int64", "UInt64",
    "Float32", "Float64">>

STType(type, token) == Node("STType", type, <<>>, token.at)

CustomType(identifier) == Node("STType", "Custom", <<identifier>>, identifier.at)

\* The source of a qualified type is that of its type; the qualifier is not
\* in it.
STQualType(type, qualifier) == Node("STQualType", qualifier, <<type>>, type.at)

-----------------------------------------------------------------------------
(* Declarations. *)

STDeclImport(chunks, at) == Node("STDeclImport", "", chunks, at)

STDeclAlias(name, type, strong, at) ==
  Node("STDeclAlias", IF strong THEN "strong" ELSE "", <<name, type>>, at)

STStructMember(name, type) ==
  Node("STStructMember", "", <<name, type>>, CreateSourceInfo(name, type))

STDeclStruct(name, members, at) == Node("STDeclStruct", "", <<name>> \o members, at)

\* A parameter self has no type.
STDeclParam(name, type, at) == Node("STDeclParam", "", <<name, type>>, at)

SelfParam(self, qualifier) == STDeclParam(self, STQualType(Null, qualifier), self.at)

STDeclFunction(name, returnType, params, body, at) ==
  Node("STDeclFunction", "",
       <<name, returnType, Node("params", "", params, NoSource), Node("body", "", body, NoSource)>>,
       at)

STDeclTypeFunctions(type, functions, at) ==
  Node("STDeclTypeFunctions", "", <<type>> \o functions, at)

STDeclVar(start, name, type, init, immutable) ==
  Node("STDeclVar", IF immutable THEN "immutable" ELSE "", <<name, type, init>>,
       CreateSourceInfo(start, init))

-----------------------------------------------------------------------------
(* Statements. *)

STStmtAssign(left, right) ==
  Node("STStmtAssign", "", <<left, right>>, CreateSourceInfo(left, right))

STStmtDecl(decl) == Node("STStmtDecl", "", <<decl>>, decl.at)

STStmtExpression(expression) == Node("STStmtExpression", "", <<expression>>, expression.at)

STStmtReturn(expression, at) == Node("STStmtReturn", "", <<expression>>, at)

STStmtListScoped(statements, at) == Node("STStmtListScoped", "", statements, at)

-----------------------------------------------------------------------------
(* Expressions. *)

\* In the order of the grammar.
BinaryOperators ==
  <<"And", "Or", "Plus", "Minus", "Mult", "Div", "Mod", "Eq", "Ne", "Le", "Lt", "Ge", "Gt">>

UnaryOperators == <<"Not", "BitNot", "Negate", "Reference", "Derefence">>

\* The rule of the division sets no source.
STExprBinaryOperator(operator, left, right) ==
  Node("STExprBinaryOperator", operator, <<left, right>>,
       IF operator = "Div" THEN NoSource ELSE CreateSourceInfo(left, right))

STExprUnaryOperator(token, operator, operand) ==
  Node("STExprUnaryOperator", operator, <<operand>>, CreateSourceInfo(token, operand))

STExprVarRef(identifier) == Node("STExprVarRef", "", <<identifier>>, identifier.at)

STExprStructVarRef(expression, identifier) ==
  Node("STExprStructVarRef", "", <<expression, identifier>>, CreateSourceInfo(expression, identifier))

STExprCast(expression, type) ==
  Node("STExprCast", "", <<expression, type>>, CreateSourceInfo(expression, type))

\* `on` is the expression before the dot.
STExprFnCall(name, on, arguments, at) ==
  Node("STExprFnCall", IF on = <<>> THEN "RegularOrStatic" ELSE "Instance",
       <<name>> \o on \o arguments, at)

STStructMemberInit(name, expression) ==
  Node("STStructMemberInit", "", <<name, expression>>, CreateSourceInfo(name, expression))

STExprStructInit(type, members, end) ==
  Node("STExprStructInit", "", <<type>> \o members, CreateSourceInfo(type, end))

\* A decimal literal is created with the type of an integer literal.
STExprLiteral(token) ==
  Node(IF token.what \in {"True", "False"} THEN "STExprBoolLiteral" ELSE "STExprIntegerLiteral",
       token.what, <<>>, token.at)
=============================================================================
