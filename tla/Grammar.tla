-------------------------------- MODULE Grammar -------------------------------
(***************************************************************************)
(* What stparserimpl.lemon says a text is: its rules and its table of      *)
(* precedences, without tables, stack or shared lists.  A text is read     *)
(* from its front, deciding by the next tokens, and the result is the node *)
(* and the place behind it, or the first token no text of the grammar goes *)
(* on with.                                                                *)
(***************************************************************************)
EXTENDS SyntaxTree

Parsed(node, next) == [ok |-> TRUE, node |-> node, next |-> next]
Fail(place) == [ok |-> FALSE, node |-> Null, next |-> place]

TokenOf(text, i) == IF i \in DOMAIN text THEN text[i] ELSE "none"

BuiltinTokens == {"Type" \o BuiltinTypes[k] : k \in DOMAIN BuiltinTypes}
Names == {"Identifier", "IdentifierMulti"}
Literals ==
  {"IntegerLiteral", "IntegerLiteralI8", "IntegerLiteralI16", "IntegerLiteralI32",
   "IntegerLiteralI64", "IntegerLiteralU8", "IntegerLiteralU16", "IntegerLiteralU32",
   "IntegerLiteralU64", "DecimalLiteral", "DecimalLiteral32", "DecimalLiteral64",
   "True", "False"}

\* Operators before an operand and between operands.
Prefix == [Not |-> "Not", Minus |-> "Negate", Reference |-> "Reference", Mult |-> "Derefence"]

Infix ==
  [Or |-> "Or", And |-> "And", CompareEq |-> "Eq", CompareNe |-> "Ne", CompareGt |-> "Gt",
   CompareLt |-> "Lt", CompareGe |-> "Ge", CompareLe |-> "Le", Plus |-> "Plus",
   Minus |-> "Minus", Mult |-> "Mult", Div |-> "Div", Mod |-> "Mod"]

\* How tight they bind.
Casts == 1
Compares == 4
Level(operator) ==
  CASE operator = "Or" -> 2
    [] operator = "And" -> 3
    [] operator \in {"Eq", "Ne", "Gt", "Lt", "Ge", "Le"} -> Compares
    [] operator \in {"Plus", "Minus"} -> 5
    [] operator \in {"Mult", "Div", "Mod"} -> 6

-----------------------------------------------------------------------------
(* The rules, by the symbol to be read and the next two tokens. *)

Decl(token) ==
  CASE token = "Function" -> <<"Function", "simple", "params", "optional type", "scope">>
    [] token = "Impl" -> <<"Impl", "type", "BeginScope", "functions", "EndScope">>
    [] token = "Type" -> <<"Type", "simple", "type decl">>
    [] token = "Import" -> <<"Import", "identifier", "chunks", "SemiColon">>
    [] OTHER -> <<"a declaration">>

TypeDecl(token) ==
  CASE token \in {"Alias", "From"} -> <<token, "type", "SemiColon">>
    [] token = "Struct" -> <<"Struct", "BeginScope", "members", "EndScope">>
    [] OTHER -> <<"a type declaration">>

Statement(token, next) ==
  CASE token \in {"Var", "Let"} ->
         <<token, "simple", "optional type", "Assign", "expression", "SemiColon">>
    [] token = "Return" ->
         IF next = "SemiColon" THEN <<"Return", "SemiColon">>
         ELSE <<"Return", "expression", "SemiColon">>
    [] token = "BeginScope" -> <<"scope">>
    [] OTHER -> <<"expression", "assigned", "SemiColon">>

Primary(token, next) ==
  CASE token = "BeginPar" -> <<"BeginPar", "expression", "EndPar">>
    [] token \in Literals -> <<token>>
    [] token = "Self" -> <<"self">>
    [] token \in Names /\ next = "BeginPar" -> <<"identifier", "arguments">>
    [] token \in Names /\ next = "BeginScope" -> <<"type", "struct body">>
    [] token = "Identifier" -> <<"simple">>
    [] token = "IdentifierMulti" -> <<"identifier", "something to name">>
    [] token \in BuiltinTokens -> <<"type", "struct body">>
    [] token \in DOMAIN Prefix -> <<token, "operand">>
    [] OTHER -> <<"an operand">>

Qualifier(token, next) ==
  IF token = "Mutable" /\ next = "Reference" THEN <<"Mutable", "Reference">>
  ELSE IF token \in {"Mutable", "Reference"} THEN <<token>>
  ELSE <<>>

Symbols ==
  {"decl", "function", "type decl", "statement", "scope", "assigned", "primary", "arguments",
   "struct body", "params", "param", "member", "init", "chunk", "simple", "identifier", "self", "type",
   "qualifier", "qualified", "optional type"}

Production(symbol, token, next) ==
  CASE symbol = "decl" -> Decl(token)
    [] symbol = "function" -> IF token = "Function" THEN Decl(token) ELSE <<"a function">>
    [] symbol = "type decl" -> TypeDecl(token)
    [] symbol = "statement" -> Statement(token, next)
    [] symbol = "scope" -> <<"BeginScope", "statements", "EndScope">>
    [] symbol = "assigned" -> IF token = "Assign" THEN <<"Assign", "expression">> ELSE <<>>
    [] symbol = "primary" -> Primary(token, next)
    [] symbol = "arguments" -> <<"BeginPar", "expressions", "EndPar">>
    [] symbol = "struct body" -> <<"BeginScope", "inits", "EndScope">>
    [] symbol = "params" -> <<"BeginPar", "parameters", "EndPar">>
    [] symbol = "param" ->
         IF token \in {"Self", "Mutable", "Reference"} THEN <<"qualifier", "self">>
         ELSE <<"simple", "Colon", "qualified">>
    [] symbol = "member" -> <<"simple", "Colon", "qualified">>
    [] symbol = "init" -> <<"simple", "Colon", "expression">>
    [] symbol = "chunk" -> <<"Colon", "Colon", "simple">>
    [] symbol = "simple" -> <<"Identifier">>
    [] symbol = "identifier" -> <<IF token \in Names THEN token ELSE "Identifier">>
    [] symbol = "self" -> <<"Self">>
    [] symbol = "type" -> <<IF token \in BuiltinTokens THEN token ELSE "identifier">>
    [] symbol = "qualifier" -> Qualifier(token, next)
    [] symbol = "qualified" -> <<"qualifier", "type">>
    [] symbol = "optional type" -> IF token = "Colon" THEN <<"Colon", "qualified">> ELSE <<>>

\* Lists: what they consist of, what ends them, whether with commas and
\* whether there may be none.
Lists ==
  [expressions |-> [of |-> "expression", end |-> "EndPar", commas |-> TRUE, empty |-> TRUE],
   parameters |-> [of |-> "param", end |-> "EndPar", commas |-> TRUE, empty |-> TRUE],
   members |-> [of |-> "member", end |-> "EndScope", commas |-> TRUE, empty |-> FALSE],
   statements |-> [of |-> "statement", end |-> "EndScope", commas |-> FALSE, empty |-> TRUE],
   functions |-> [of |-> "function", end |-> "EndScope", commas |-> FALSE, empty |-> FALSE],
   chunks |-> [of |-> "chunk", end |-> "SemiColon", commas |-> FALSE, empty |-> TRUE],
   decls |-> [of |-> "decl", end |-> "EOS", commas |-> FALSE, empty |-> TRUE],
   inits |-> [of |-> "init", end |-> "EndScope", commas |-> TRUE, empty |-> TRUE]]

-----------------------------------------------------------------------------
(* The node of a symbol, from the nodes and tokens v of its rule. *)

Between(v) == CreateSourceInfo(v[1], v[Len(v)])

DeclNode(v) ==
  CASE v[1].what = "Function" ->
         STDeclFunction(v[2], v[4], v[3].parts, v[5].parts, CreateSourceInfo(v[1], v[5]))
    [] v[1].what = "Impl" -> STDeclTypeFunctions(v[2], v[4].parts, Between(v))
    [] v[1].what = "Import" -> STDeclImport(<<v[2]>> \o v[3].parts, Between(v))
    [] v[1].what = "Type" ->
         IF v[3].type = "STDeclStruct"
         THEN STDeclStruct(v[2], v[3].parts, CreateSourceInfo(v[1], v[3]))
         ELSE STDeclAlias(v[2], v[3].parts[1], v[3].what = "From", CreateSourceInfo(v[1], v[3]))

StatementNode(v) ==
  CASE v[1].what \in {"Var", "Let"} /\ v[1].type = "Token" ->
         STStmtDecl(STDeclVar(v[1], v[2], v[3], v[5], v[1].what = "Let"))
    [] v[1].what = "Return" /\ Len(v) = 2 -> STStmtReturn(Null, v[1].at)
    [] v[1].what = "Return" /\ Len(v) = 3 -> STStmtReturn(v[2], CreateSourceInfo(v[1], v[2]))
    [] v[1].type = "scope" -> STStmtListScoped(v[1].parts, v[1].at)
    [] OTHER -> IF v[2] = Null THEN STStmtExpression(v[1]) ELSE STStmtAssign(v[1], v[2])

PrimaryNode(v) ==
  CASE v[1].what = "BeginPar" -> v[2]
    [] v[1].what \in Literals -> STExprLiteral(v[1])
    [] v[1].type = "STIdentifier" /\ Len(v) = 1 -> STExprVarRef(v[1])
    [] v[1].type = "STIdentifier" /\ Len(v) = 2 ->
         STExprFnCall(v[1], <<>>, v[2].parts, Between(v))
    [] v[1].type = "STType" -> STExprStructInit(v[1], v[2].parts, v[2])
    [] OTHER -> STExprUnaryOperator(v[1], Prefix[v[1].what], v[2])

TypeNode(v) ==
  IF v[1].type = "STIdentifier" THEN CustomType(v[1])
  ELSE STType(CHOOSE type \in {BuiltinTypes[k] : k \in DOMAIN BuiltinTypes} :
                v[1].what = "Type" \o type, v[1])

Made(symbol, v) ==
  CASE symbol \in {"decl", "function"} -> DeclNode(v)
    [] symbol = "type decl" ->
         IF v[1].what = "Struct" THEN Node("STDeclStruct", "", v[3].parts, Between(v))
         ELSE Node("STDeclAlias", v[1].what, <<v[2]>>, Between(v))
    [] symbol = "statement" -> StatementNode(v)
    [] symbol \in {"scope", "params", "arguments", "struct body"} ->
         Node(symbol, "", v[2].parts, Between(v))
    [] symbol \in {"assigned", "optional type"} -> IF v = <<>> THEN Null ELSE v[2]
    [] symbol = "primary" -> PrimaryNode(v)
    [] symbol = "param" ->
         IF Len(v) = 2 THEN SelfParam(v[2], v[1].what) ELSE STDeclParam(v[1], v[3], Between(v))
    [] symbol = "member" -> STStructMember(v[1], v[3])
    [] symbol = "init" -> STStructMemberInit(v[1], v[3])
    [] symbol = "chunk" -> v[3]
    [] symbol \in {"simple", "identifier", "self"} -> STIdentifier(v[1])
    [] symbol = "type" -> TypeNode(v)
    [] symbol = "qualifier" ->
         Node("qualifier", IF Len(v) = 2 THEN "mut &"
                           ELSE IF v = <<>> THEN ""
                           ELSE IF v[1].what = "Mutable" THEN "mut" ELSE "&", <<>>, NoSource)
    [] symbol = "qualified" -> STQualType(v[2], v[1].what)

-----------------------------------------------------------------------------
(* Reading. *)

\* A symbol; an expression has operators of at least a level.
RECURSIVE Read(_, _, _, _)

\* The parts of a rule, one behind the other; v are those read.
RECURSIVE Parts(_, _, _, _)
Parts(parts, text, i, v) ==
  LET part == Read(parts[1], Casts, text, i)
  IN  IF parts = <<>> THEN Parsed(v, i)
      ELSE IF part.ok THEN Parts(Tail(parts), text, part.next, Append(v, part.node))
      ELSE part

\* The items of a list from the next one on.
RECURSIVE Items(_, _, _, _)
Items(list, text, i, v) ==
  LET item == Read(list.of, Casts, text, i)
      next == TokenOf(text, item.next)
  IN  IF ~item.ok THEN item
      ELSE IF list.commas /\ next = "Comma"
           THEN Items(list, text, item.next + 1, Append(v, item.node))
      ELSE IF ~list.commas /\ next # list.end
           THEN Items(list, text, item.next, Append(v, item.node))
      ELSE Parsed(Node("list", "", Append(v, item.node), NoSource), item.next)

\* (A comma before the first item is an item left out.)
ListFrom(list, text, i) ==
  IF ~list.empty THEN Items(list, text, i, <<>>)
  ELSE IF TokenOf(text, i) = list.end THEN Parsed(Node("list", "", <<>>, NoSource), i)
  ELSE Items(list, text, IF list.commas /\ TokenOf(text, i) = "Comma" THEN i + 1 ELSE i, <<>>)

\* `.member` and `.method(...)`, any number of them.
RECURSIVE Members(_, _)
Members(text, left) ==
  LET call == TokenOf(text, left.next + 1) = "Identifier" /\ TokenOf(text, left.next + 2) = "BeginPar"
      access == Parts(<<"Dot", "identifier">> \o (IF call THEN <<"arguments">> ELSE <<>>),
                      text, left.next, <<>>)
  IN  IF ~left.ok \/ TokenOf(text, left.next) # "Dot" THEN left
      ELSE IF ~access.ok THEN access
      ELSE Members(text, Parsed(
             IF call THEN STExprFnCall(access.node[2], <<left.node>>, access.node[3].parts,
                                       CreateSourceInfo(left.node, access.node[3]))
             ELSE STExprStructVarRef(left.node, access.node[2]), access.next))

\* An operator before an operand binds tighter than those between operands,
\* but not as tight as the dot.
Operand(text, i) ==
  LET primary == Read("primary", Casts, text, i)
  IN  IF TokenOf(text, i) \in DOMAIN Prefix THEN primary ELSE Members(text, primary)

\* The operators behind `left` that bind at least as tight as `level`.
\* Operators of a level go from left to right, but a comparison is no operand
\* of another.  A cast is as an operand in brackets.
RECURSIVE Operators(_, _, _, _)
Operators(text, left, level, compared) ==
  LET token == TokenOf(text, left.next)
      operator == Infix[token]
      right == IF token = "As" THEN Read("qualified", Casts, text, left.next + 1)
               ELSE Read("expression", Level(operator) + 1, text, left.next + 1)
  IN  IF \/ ~left.ok
         \/ token \notin DOMAIN Infix \union {"As"}
         \/ (IF token = "As" THEN Casts ELSE Level(operator)) < level
      THEN left
      ELSE IF token # "As" /\ compared /\ Level(operator) = Compares THEN Fail(left.next)
      ELSE IF ~right.ok THEN right
      ELSE IF token = "As"
           THEN Operators(text, Members(text, Parsed(STExprCast(left.node, right.node), right.next)),
                          level, FALSE)
      ELSE Operators(text, Parsed(STExprBinaryOperator(operator, left.node, right.node), right.next),
                     level, Level(operator) = Compares)

Read(symbol, level, text, i) ==
  LET rule == Parts(Production(symbol, TokenOf(text, i), TokenOf(text, i + 1)), text, i, <<>>)
  IN  CASE symbol = "expression" -> Operators(text, Operand(text, i), level, FALSE)
        [] symbol = "operand" -> Operand(text, i)
        [] symbol \in DOMAIN Lists -> ListFrom(Lists[symbol], text, i)
        [] symbol \in Symbols -> IF rule.ok THEN Parsed(Made(symbol, rule.node), rule.next) ELSE rule
        [] OTHER -> IF TokenOf(text, i) = symbol THEN Parsed(TokenAt(symbol, i), i + 1) ELSE Fail(i)

\* A module: declarations up to the end of the stream.
ModuleOf(text) == Parts(<<"decls", "EOS">>, text, 1, <<>>)
=============================================================================
