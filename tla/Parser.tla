-------------------------------- MODULE Parser --------------------------------
(***************************************************************************)
(* The parser of the compiler: STParser::parse (stparser.cpp), which feeds *)
(* the tokens of the lexer one by one to the automaton lemon generated     *)
(* (stparserimpl.cpp), with its tables (ParserTables) and the actions of   *)
(* its rules (ParserRules).                                                *)
(*                                                                         *)
(* One step is one turn of the automaton's loop or one call of the lexer.  *)
(* Which text is parsed is chosen while it is read: a session fixes how it *)
(* begins and ends and what the lexer may find in between.                 *)
(***************************************************************************)
EXTENDS ParserRules, Grammar, SequencesExt

CONSTANTS
  Sessions,    \* [first, most, among, last]: texts that begin with the tokens
               \* `first`, have up to `most` of the tokens of `among` and then
               \* the tokens `last`
  StackDepth   \* YYSTACKDEPTH: entries of the automaton's stack, the first
               \* state with them

ASSUME ParserAssumption ==
  /\ StackDepth \in Nat \ {0}
  /\ \A session \in Sessions : session.most \in Nat

VARIABLES
  session,
  input,       \* history: the tokens read so far
  lookahead,   \* the token the automaton is run with, <<>> between two
  yystack,     \* [stateno, minor], the entry of the first state at 1
  lists,       \* the vectors of STParser, by kind
  open,        \* history: by kind, the lists that are being read, with the
               \* range the rules gave them and the places of their items
  decls,       \* the declarations of the module
  outcome,     \* "parsing", "accepted", "syntax error", "lexer error"
  overflowed,  \* history: the stack was full
  mixed        \* history: by kind, whether a list began with a comma inside
               \* another, or lists were lost with the stack

vars == <<session, input, lookahead, yystack, lists, open, decls, outcome, overflowed,
          mixed>>

Start == <<[stateno |-> 0, minor |-> Null]>>

Init ==
  /\ session \in Sessions
  /\ input = <<>>
  /\ lookahead = <<>>
  /\ yystack = Start
  /\ lists = NoLists
  /\ open = NoLists
  /\ decls = <<>>
  /\ outcome = "parsing"
  /\ overflowed = FALSE
  /\ mixed = [kind \in Kinds |-> FALSE]

-----------------------------------------------------------------------------
(* The tokens the lexer may find next. *)

\* `input` has all of `first`, and its last `rest` tokens are the beginning of
\* `last`.
Middle(rest) == Len(input) - Len(session.first) - rest

NextTokens ==
  IF Len(input) < Len(session.first)
  THEN {session.first[Len(input) + 1]}
  ELSE (IF Middle(0) < session.most THEN session.among ELSE {})
       \union {session.last[i] : i \in {k \in 1..Len(session.last) :
                 /\ Middle(k - 1) \in 0..session.most
                 /\ \A j \in 1..(k - 1) : input[Len(input) - k + 1 + j] = session.last[j]}}

\* TokenToParserToken.  The signed suffixes of literals but the first become
\* unsigned ones.
Renamed ==
  [TypeBool |-> "TYPE_BOOL", TypeInt8 |-> "TYPE_INT8", TypeUInt8 |-> "TYPE_UINT8",
   TypeInt16 |-> "TYPE_INT16", TypeUInt16 |-> "TYPE_UINT16", TypeInt32 |-> "TYPE_INT32",
   TypeUInt32 |-> "TYPE_UINT32", TypeInt64 |-> "TYPE_INT64", TypeUInt64 |-> "TYPE_UINT64",
   TypeFloat32 |-> "TYPE_FLOAT", TypeFloat64 |-> "TYPE_DOUBLE",
   And |-> "AND", Or |-> "OR", Not |-> "NOT", Mod |-> "MOD", Dot |-> "DOT",
   BitXor |-> "BIT_XOR", BitOr |-> "BIT_OR", CompareGe |-> "GE", CompareGt |-> "GT",
   CompareLe |-> "LE", CompareLt |-> "LT", CompareEq |-> "EQ", CompareNe |-> "NE",
   Assign |-> "ASSIGN", Plus |-> "PLUS", Minus |-> "MINUS", Mult |-> "MULT", Div |-> "DIV",
   Identifier |-> "IDENTIFIER", IdentifierMulti |-> "IDENTIFIER_MULTI", Colon |-> "COLON",
   SemiColon |-> "SEMI_COLON", Type |-> "TYPE", BeginScope |-> "SCOPE_BEGIN",
   EndScope |-> "SCOPE_END", BeginPar |-> "PAR_BEGIN", EndPar |-> "PAR_END",
   Function |-> "FUNCTION", Comma |-> "COMMA", Var |-> "VAR", Let |-> "LET",
   Struct |-> "STRUCT", Return |-> "RETURN", True |-> "BOOL_LITERAL", False |-> "BOOL_LITERAL",
   Mutable |-> "MUT", Reference |-> "REFERENCE", Self |-> "SELF", As |-> "AS",
   IntegerLiteral |-> "INTEGER_LITERAL", IntegerLiteralI8 |-> "INTEGER_LITERAL_I8",
   IntegerLiteralI16 |-> "INTEGER_LITERAL_U16", IntegerLiteralI32 |-> "INTEGER_LITERAL_U32",
   IntegerLiteralI64 |-> "INTEGER_LITERAL_U64", IntegerLiteralU8 |-> "INTEGER_LITERAL_U8",
   IntegerLiteralU16 |-> "INTEGER_LITERAL_U16", IntegerLiteralU32 |-> "INTEGER_LITERAL_U32",
   IntegerLiteralU64 |-> "INTEGER_LITERAL_U64", DecimalLiteral |-> "FLOAT_LITERAL",
   DecimalLiteral32 |-> "FLOAT_LITERAL_32", DecimalLiteral64 |-> "FLOAT_LITERAL_64",
   Impl |-> "IMPL", Alias |-> "ALIAS", From |-> "FROM", Import |-> "IMPORT", EOS |-> "END"]

\* (Faulty variant: & is the operator on bits.)
TokenToBitAnd(token) ==
  IF token = "Reference" THEN Code["BIT_AND"] ELSE Code[Renamed[token]]
TokenToParserToken(token) == Code[Renamed[token]]

-----------------------------------------------------------------------------
(* The automaton. *)

Top == Last(yystack)

FindShiftAction(symbol, stateno) ==
  IF stateno > YY_MAX_SHIFT THEN stateno
  ELSE LET i == At(yy_shift_ofst, stateno) + symbol
       IN  IF i >= Len(yy_lookahead) \/ At(yy_lookahead, i) # symbol
           THEN At(yy_default, stateno)
           ELSE At(yy_action, i)

FindReduceAction(stateno, symbol) == At(yy_action, At(yy_reduce_ofst, stateno) + symbol)

Action == FindShiftAction(TokenToParserToken(lookahead.what), Top.stateno)

\* No room: the stack is emptied, the token is lost, and nothing is said.
StackOverflow ==
  /\ yystack' = Start
  /\ lookahead' = <<>>
  /\ overflowed' = TRUE
  /\ outcome' = IF lookahead.what = "EOS" THEN "accepted" ELSE outcome
  /\ open' = NoLists
  /\ mixed' = [kind \in Kinds |-> TRUE]
  /\ UNCHANGED <<session, input, lists, decls>>

\* The lists the rules are reading, after a rule.
ReadOn(rule, v) ==
  [kind \in Kinds |->
     CASE rule = FirstItem[kind] ->
            Append(open[kind],
                   [range |-> Value(rule, v, lists), items |-> <<v[Len(v)].at[2]>>])
       [] kind \in DOMAIN NoItem /\ rule = NoItem[kind] ->
            Append(open[kind], [range |-> Value(rule, v, lists), items |-> <<>>])
       [] rule = NextItem[kind] ->
            Append(Front(open[kind]),
                   [range |-> Value(rule, v, lists),
                    items |-> Append(Last(open[kind]).items, v[Len(v)].at[2])])
       [] Takes(rule, kind) # 0 -> Front(open[kind])
       [] OTHER -> open[kind]]

\* An inner list whose first item follows a comma.
AfterComma(rule, kind) ==
  rule = NextItem[kind] /\ Last(open[kind]).items = <<>> /\ lists[kind] # <<>>

Reduce ==
  LET rule == Action - YY_MIN_REDUCE
      size == At(yyRuleInfo, rule)[2]
      below == SubSeq(yystack, 1, Len(yystack) - size)
      v == [i \in 1..size |-> yystack[Len(below) + i].minor]
  IN  /\ lookahead # <<>>
      /\ Action >= YY_MIN_REDUCE
      /\ ~(size = 0 /\ Len(yystack) = StackDepth)
      /\ yystack' = Append(below,
                      [stateno |-> FindReduceAction(Last(below).stateno, At(yyRuleInfo, rule)[1]),
                       minor |-> Value(rule, v, lists)])
      /\ lists' = ListsAfter(rule, v, lists)
      /\ open' = ReadOn(rule, v)
      /\ mixed' = [kind \in Kinds |-> mixed[kind] \/ AfterComma(rule, kind)]
      /\ decls' = IF rule = 0 THEN Append(decls, v[2]) ELSE decls
      /\ UNCHANGED <<session, input, lookahead, outcome, overflowed>>

OverflowOfReduce ==
  /\ lookahead # <<>>
  /\ Action >= YY_MIN_REDUCE
  /\ At(yyRuleInfo, Action - YY_MIN_REDUCE)[2] = 0
  /\ Len(yystack) = StackDepth
  /\ StackOverflow

\* The state after a shift that completes a rule is the reduction to come.
Pending(action) ==
  IF action > YY_MAX_SHIFT THEN action + (YY_MIN_REDUCE - YY_MIN_SHIFTREDUCE) ELSE action

\* parse() ends with the token END.
Shift ==
  /\ lookahead # <<>>
  /\ Action <= YY_MAX_SHIFTREDUCE
  /\ Len(yystack) < StackDepth
  /\ yystack' = Append(yystack, [stateno |-> Pending(Action), minor |-> lookahead])
  /\ lookahead' = <<>>
  /\ outcome' = IF lookahead.what = "EOS" THEN "accepted" ELSE outcome
  /\ UNCHANGED <<session, input, lists, open, decls, overflowed, mixed>>

OverflowOfShift ==
  /\ lookahead # <<>>
  /\ Action <= YY_MAX_SHIFTREDUCE
  /\ Len(yystack) = StackDepth
  /\ StackOverflow

\* The error is reported at the token; parse() then ends.
SyntaxError ==
  /\ lookahead # <<>>
  /\ Action = YY_ERROR_ACTION
  /\ lookahead' = <<>>
  /\ outcome' = "syntax error"
  /\ UNCHANGED <<session, input, yystack, lists, open, decls, overflowed, mixed>>

-----------------------------------------------------------------------------
(* STParser::parse. *)

\* The lexer returns a token.
Scan ==
  /\ outcome = "parsing"
  /\ lookahead = <<>>
  /\ \E token \in NextTokens :
       /\ input' = Append(input, token)
       /\ lookahead' = TokenAt(token, Len(input) + 1)
  /\ UNCHANGED <<session, yystack, lists, open, decls, outcome, overflowed, mixed>>

\* The lexer finds none.
LexerError ==
  /\ outcome = "parsing"
  /\ lookahead = <<>>
  /\ outcome' = "lexer error"
  /\ UNCHANGED <<session, input, lookahead, yystack, lists, open, decls, overflowed, mixed>>

Next ==
  \/ Scan \/ LexerError \/ SyntaxError
  \/ Reduce \/ OverflowOfReduce
  \/ Shift \/ OverflowOfShift

Spec == Init /\ [][Next]_vars

-----------------------------------------------------------------------------
(* Properties. *)

\* A list that begins with a comma takes items of lists around it
\* (ParseLists); its nodes are not the grammar's.
CommaFirst ==
  \E i \in 2..Len(input) : input[i] = "Comma" /\ input[i - 1] \in {"BeginPar", "BeginScope"}

\* The tables decide what the rules and the precedences of stparserimpl.lemon
\* say: an error is reported exactly at the first token that no text of the
\* grammar goes on with, and a text is accepted if it is one.  When the stack
\* was full parts are lost without a report, but never of a text of the
\* grammar: for those an error is reported behind.
VerdictIsTheGrammars ==
  /\ outcome = "accepted" => (ModuleOf(input).ok <=> ~overflowed)
  /\ outcome = "syntax error" /\ ~overflowed =>
       ~ModuleOf(input).ok /\ ModuleOf(input).next = Len(input)

\* The declarations of the module are those the grammar finds, with the
\* operands, the items of lists and the source places that belong to each
\* node, and no item is left behind in the vectors of the lists.
ModuleIsTheGrammars ==
  outcome = "accepted" /\ ~overflowed /\ ~CommaFirst =>
    decls = ModuleOf(input).node[1].parts /\ lists = NoLists

ListsOf(kind) ==
  INSTANCE ParseLists WITH
    m_list <- [i \in DOMAIN lists[kind] |-> lists[kind][i].at[2]],
    open <- open[kind],
    mixed <- mixed[kind]

\* Each of the vectors is one of ParseLists, whatever the automaton does with
\* the others: the range that a node takes is that of the list which was
\* opened last, and nothing but its items is taken out.  (This is ListsOf(kind)!Spec
\* for every kind.)
ListsSpec ==
  /\ \A kind \in Kinds : ListsOf(kind)!Init
  /\ [][\A kind \in Kinds :
         \/ UNCHANGED <<lists[kind], open[kind], mixed[kind]>>
         \/ ListsOf(kind)!Next]_vars
=============================================================================
