----------------------------- MODULE ParserRules ------------------------------
(***************************************************************************)
(* The actions of the rules of the grammar (stparserimpl.lemon, in the     *)
(* switch of yy_reduce in stparserimpl.cpp).  A rule has a number; v holds *)
(* the values of its right side, the first at 1, and the result is the     *)
(* value of its left side.  Rules that read lists put items into vectors   *)
(* all lists of a kind share (ParseList) and pass on a range of places.    *)
(***************************************************************************)
EXTENDS SyntaxTree, ParserTables, Functions

Kinds == {"decl", "expr", "stmt", "init", "member", "param"}

NoLists == [kind \in Kinds |-> <<>>]

RangeEmpty == [begin |-> 0, end |-> 0]

FirstRange(list) == [begin |-> Len(list), end |-> Len(list) + 1]
NextRange(range, list) == [range EXCEPT !.end = Len(list) + 1]

\* (Faulty variant: the items stay in the vector.)
CopyRange(list, range) ==
  IF range.begin < Len(list) /\ range.end > range.begin /\ range.end <= Len(list)
  THEN [moved |-> SubSeq(list, range.begin + 1, range.end), kept |-> list]
  ELSE [moved |-> <<>>, kept |-> list]
MoveRange(list, range) ==
  IF range.begin < Len(list) /\ range.end > range.begin /\ range.end <= Len(list)
  THEN [moved |-> SubSeq(list, range.begin + 1, range.end),
        kept |-> SubSeq(list, 1, range.begin) \o SubSeq(list, range.end + 1, Len(list))]
  ELSE [moved |-> <<>>, kept |-> list]

\* The rules that read the first item of a list, those that read another one
\* (after it may be a comma), those that find none.
FirstItem ==
  [decl |-> 46, param |-> 48, stmt |-> 57, expr |-> 97, init |-> 102, member |-> 40]
NextItem ==
  [decl |-> 45, param |-> 47, stmt |-> 56, expr |-> 96, init |-> 101, member |-> 39]
NoItem == [param |-> 49, stmt |-> 54, expr |-> 98, init |-> 100]

\* The rules whose node takes a list, and where its range stands.
Takes(rule, kind) ==
  CASE rule = 38 /\ kind = "member" -> 5
    [] rule = 43 /\ kind = "param" -> 3
    [] rule = 43 /\ kind = "stmt" -> 6
    [] rule = 44 /\ kind = "decl" -> 4
    [] rule = 63 /\ kind = "stmt" -> 2
    [] rule = 76 /\ kind = "expr" -> 3
    [] rule = 77 /\ kind = "expr" -> 5
    [] rule = 99 /\ kind = "init" -> 3
    [] OTHER -> 0

\* What a node takes out of the list of a kind.
Taken(rule, v, lists, kind) == MoveRange(lists[kind], v[Takes(rule, kind)]).moved

\* The lists after a rule.
ListsAfter(rule, v, lists) ==
  [kind \in Kinds |->
     IF rule = FirstItem[kind] \/ rule = NextItem[kind] THEN Append(lists[kind], v[Len(v)])
     ELSE IF Takes(rule, kind) # 0 THEN MoveRange(lists[kind], v[Takes(rule, kind)]).kept
     ELSE lists[kind]]

ListRule(rule, v, lists) ==
  IF rule \in Range(NoItem) THEN RangeEmpty
  ELSE LET kind == CHOOSE k \in Kinds : rule \in {FirstItem[k], NextItem[k]}
       IN  IF rule = FirstItem[kind] THEN FirstRange(lists[kind])
           ELSE NextRange(v[1], lists[kind])

\* The module is one node for the whole parse, which declarations are added
\* to; nothing of it is on the stack.
Module == Null

NameRule(rule, v) ==
  CASE rule \in {7, 8, 11} -> STIdentifier(v[1])
    [] rule = 15 -> Null
    [] rule = 16 -> CustomType(v[1])

BuiltinRule(rule, v) == STType(BuiltinTypes[rule - 16], v[1])

QualifierRule(rule, v) ==
  CASE rule \in 28..31 -> <<"", "mut", "&", "mut &">>[rule - 27]
    [] rule = 32 -> STQualType(v[2], v[1])

DeclRule(rule, v, lists) ==
  CASE rule = 33 -> STDeclImport(v[2].parts, CreateSourceInfo(v[1], v[3]))
    [] rule = 34 -> STDeclImport(Append(v[1].parts, v[4]), NoSource)
    [] rule = 35 -> STDeclImport(<<v[1]>>, NoSource)
    [] rule \in {36, 37} -> STDeclAlias(v[2], v[4], rule = 37, CreateSourceInfo(v[1], v[5]))
    [] rule = 38 ->
         STDeclStruct(v[2], Taken(rule, v, lists, "member"), CreateSourceInfo(v[1], v[6]))
    [] rule = 41 -> STStructMember(v[1], v[3])

FunctionRule(rule, v, lists) ==
  CASE rule = 43 ->
         STDeclFunction(v[2], v[4], Taken(rule, v, lists, "param"), Taken(rule, v, lists, "stmt"),
                        CreateSourceInfo(v[1], v[7]))
    [] rule = 44 ->
         STDeclTypeFunctions(v[2], Taken(rule, v, lists, "decl"), CreateSourceInfo(v[1], v[5]))
    [] rule = 50 -> STDeclParam(v[1], v[3], CreateSourceInfo(v[1], v[3]))
    [] rule = 51 -> SelfParam(v[2], v[1])

StatementRule(rule, v, lists) ==
  CASE rule = 58 -> STStmtAssign(v[1], v[3])
    [] rule = 59 -> STStmtDecl(v[1])
    [] rule = 60 -> STStmtExpression(v[1])
    [] rule = 61 -> STStmtReturn(v[2], CreateSourceInfo(v[1], v[2]))
    [] rule = 62 -> STStmtReturn(Null, v[1].at)
    [] rule = 63 ->
         STStmtListScoped(Taken(rule, v, lists, "stmt"), CreateSourceInfo(v[1], v[3]))
    [] rule \in {64, 65} -> STDeclVar(v[1], v[2], v[3], v[5], rule = 65)

\* (Faulty variant: operands in the order they are popped.)
BinarySwapped(rule, v) == STExprBinaryOperator(BinaryOperators[rule - 77], v[3], v[1])
BinaryRule(rule, v) == STExprBinaryOperator(BinaryOperators[rule - 77], v[1], v[3])

UnaryRule(rule, v) == STExprUnaryOperator(v[1], UnaryOperators[rule - 90], v[2])

LiteralRule(rule, v) == STExprLiteral(v[1])

ExpressionRule(rule, v, lists) ==
  CASE rule = 73 -> STExprCast(v[1], v[3])
    [] rule = 74 -> STExprVarRef(v[1])
    [] rule = 75 -> STExprStructVarRef(v[1], v[3])
    [] rule = 76 ->
         STExprFnCall(v[1], <<>>, Taken(rule, v, lists, "expr"), CreateSourceInfo(v[1], v[4]))
    [] rule = 77 ->
         STExprFnCall(v[3], <<v[1]>>, Taken(rule, v, lists, "expr"), CreateSourceInfo(v[1], v[6]))
    [] rule = 99 -> STExprStructInit(v[1], Taken(rule, v, lists, "init"), v[4])
    [] rule = 103 -> STStructMemberInit(v[1], v[3])

\* Rules of one symbol pass its value on; brackets and colons are left out.
Passed(rule, v) ==
  IF rule \in {42, 52, 66, 68} THEN v[2]
  ELSE IF rule \in {53, 67} THEN Null
  ELSE v[1]

ListRules ==
  Range(NoItem) \union {FirstItem[k] : k \in Kinds} \union {NextItem[k] : k \in Kinds}

Value(rule, v, lists) ==
  CASE rule \in {0, 1} -> Module
    [] rule \in {7, 8, 11, 15, 16} -> NameRule(rule, v)
    [] rule \in 17..27 -> BuiltinRule(rule, v)
    [] rule \in 28..32 -> QualifierRule(rule, v)
    [] rule \in (33..38) \union {41} -> DeclRule(rule, v, lists)
    [] rule \in {43, 44, 50, 51} -> FunctionRule(rule, v, lists)
    [] rule \in 58..65 -> StatementRule(rule, v, lists)
    [] rule \in (73..77) \union {99, 103} -> ExpressionRule(rule, v, lists)
    [] rule \in 78..90 -> BinaryRule(rule, v)
    [] rule \in 91..95 -> UnaryRule(rule, v)
    [] rule \in 104..116 -> LiteralRule(rule, v)
    [] rule \in ListRules -> ListRule(rule, v, lists)
    [] OTHER -> Passed(rule, v)
=============================================================================
