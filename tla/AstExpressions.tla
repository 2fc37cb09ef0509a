--------------------------- MODULE AstExpressions ---------------------------
(***************************************************************************)
(* The statements of one function as AstBuilder makes them, node by node   *)
(* from the leaves up, each with what the type pass (AstVisitorExprType)   *)
(* finds for it.  The program is not fixed beforehand: every step chooses  *)
(* the next node.  The two passes visit the nodes in the same order, so    *)
(* the rules of the second are applied as a node is made; which of two     *)
(* errors comes first is left out, and what follows an error too.          *)
(*                                                                         *)
(* A function without result is only called by a statement of its own.     *)
(***************************************************************************)
EXTENDS TypeSystem, Integers, Sequences, SequencesExt

CONSTANTS
  Functions,  \* what the module declares: names to their parameters, result,
              \* and the type they belong to
  Sessions,   \* what a function is made of: its parameters, its result, and
              \* the nodes it may have, at most this many
  Bits,       \* bound: the width of the integer types (8 to 64 in the code)
  Base        \* bound: the base of the literals (10 in the code)

Integer == {"i8", "i16", "i32", "i64", "u8", "u16", "u32", "u64"}

ASSUME AstExpressionsAssumption == Base > 1 /\ Bits \in [Integer -> Nat \ {0}]

VARIABLES
  session,    \* which function it is
  scopes,     \* the declared variables, from the function's scope inwards
  stackExpr,  \* AstBuilder's State::stackExpressions
  open,       \* the calls and initialisers whose arguments are being visited
  body,       \* the statements that are complete
  left,       \* bound: how many nodes may follow
  token,      \* history: the literal that was read last, and what came of it
  refused     \* which pass has reported an error

ast == <<session, scopes, stackExpr, open, body, left, token, refused>>

(* A node, with the parts it is made of.  The type of statements is void.    *)
Node(what, text, value, parts, qt) ==
  [what |-> what, text |-> text, value |-> value, parts |-> parts, qt |-> qt]

Void == QT("void", FALSE, FALSE, FALSE)
Statement(what, text, parts) == Node(what, text, 0, parts, Void)

VarRef(name, qt) == Node("var", name, 0, <<>>, qt)
BoolLiteral(value) == Node("bool", "", value, <<>>, Fresh("bool"))
IntegerLiteral(type, value) == Node("integer", "", value, <<>>, Fresh(type))
UnaryOperator(op, e, qt) == Node("unary", op, 0, <<e>>, qt)
BinaryOperator(op, l, r, qt) == Node("binary", op, 0, <<l, r>>, qt)
StructVarRef(e, name, qt) == Node("member", name, 0, <<e>>, qt)
Cast(e, qt) == Node("cast", "", 0, <<e>>, qt)
StructInit(type, members) == Node("init", type, 0, members, Fresh(type))
FnCall(f, arguments, qt) == Node("call", f, 0, arguments, qt)
TypeFnCall(f, arguments, qt) == Node("method", f, 0, arguments, qt)

VarDeclared(name, qt, e) == [Statement("decl", name, <<e>>) EXCEPT !.qt = qt]
Return(e) == Statement("return", "", <<e>>)
Assign(l, r) == Statement("assign", "", <<l, r>>)

NothingRead == [text |-> [kind |-> "none"], valid |-> FALSE, value |-> 0]

-----------------------------------------------------------------------------
(* Literals. *)

WordBits == Bits["u64"]

Signed(word) == IF word < 2 ^ (WordBits - 1) THEN word ELSE word - 2 ^ WordBits

RangeOf(type) ==
  IF type = "bool" THEN 0..1
  ELSE IF IsSigned(type) THEN -(2 ^ (Bits[type] - 1))..(2 ^ (Bits[type] - 1) - 1)
  ELSE 0..(2 ^ Bits[type] - 1)

\* (Faulty variant: a number that is too long is not noticed.)
NextDigitAtAnyLength(read, digit, negative) ==
  [valid |-> read.valid, out |-> (read.out * Base + digit) % 2 ^ WordBits]

NextDigit(read, digit, negative) ==
  LET next == (read.out * Base + digit) % 2 ^ WordBits
  IN  [valid |-> read.valid /\ next >= read.out /\ (negative => next <= 2 ^ (WordBits - 1)),
       out |-> next]

\* StringRefToInteger.  A decimal point makes it fail: literals with one come
\* here as well, as all nodes for literals have the type of those for integers.
StringRefToInteger(text) ==
  LET Read(read, digit) == NextDigit(read, digit, text.negative)
      read == FoldLeft(Read, [valid |-> TRUE, out |-> 0], text.digits)
  IN  [valid |-> read.valid /\ ~text.point /\ text.digits # <<>>,
       word |-> (IF text.negative THEN 2 ^ WordBits - read.out ELSE read.out) % 2 ^ WordBits]

\* The kinds of tokens that occur: the lexer knows none of 64 bits.
IntegerType == [IntegerLiteral |-> "u32", IntegerLiteralI8 |-> "i8", IntegerLiteralI16 |-> "i16",
                IntegerLiteralI32 |-> "i32", IntegerLiteralU8 |-> "u8",
                IntegerLiteralU16 |-> "u16", IntegerLiteralU32 |-> "u32"]

LiteralIsValid(text) ==
  LET read == StringRefToInteger(text)
      type == IntegerType[text.kind]
  IN  /\ read.valid
      /\ IF IsSigned(type) THEN Signed(read.word) \in RangeOf(type)
         ELSE ~text.negative /\ read.word \in RangeOf(type)

\* getValueAsI8 and the like.
LiteralValue(text) ==
  LET word == StringRefToInteger(text).word
  IN  IF IsSigned(IntegerType[text.kind]) THEN Signed(word) ELSE word

-----------------------------------------------------------------------------
(* Scopes. *)

Visible == UNION {DOMAIN scopes[i] : i \in DOMAIN scopes}
ScopeOf(name) == CHOOSE i \in DOMAIN scopes : name \in DOMAIN scopes[i]
Variable(name) == scopes[ScopeOf(name)][name]

Declare(name, qt, typed) ==
  scopes' = [scopes EXCEPT ![Len(scopes)] =
    [n \in DOMAIN @ \cup {name} |-> IF n = name THEN [qt |-> qt, typed |-> typed] ELSE @[n]]]

-----------------------------------------------------------------------------
(* Building.  The expressions above the base belong to what is being built.  *)
Below == IF open = <<>> THEN 0 ELSE Last(open).base
Above == Len(stackExpr) - Below
Top(i) == stackExpr[Len(stackExpr) + 1 - i]

Going == refused = "no" /\ left > 0

\* The topmost n expressions are there, and have a type.
Given(n) == refused = "no" /\ Above >= n /\ \A i \in 1..n : IsValid(Top(i).qt)
Takes(n) == Going /\ Given(n)

Rest(n) == SubSeq(stackExpr, 1, Len(stackExpr) - n)

Push(n, node) ==
  /\ stackExpr' = Append(Rest(n), node)
  /\ left' = left - 1
  /\ UNCHANGED <<session, scopes, open, body, token, refused>>

Refuse(pass) ==
  /\ refused' = pass
  /\ UNCHANGED <<session, scopes, stackExpr, open, body, left, token>>

\* The type pass reports an error unless the node is as it should be.
Typed(fits, n, node) == IF fits THEN Push(n, node) ELSE Refuse("type")

ExprVarRef(name) ==
  /\ Going
  /\ \/ name \in Visible /\ Push(0, VarRef(name, Variable(name).qt))
     \/ name \notin Visible /\ Refuse("builder")     \* a function's, or nobody's

ExprBoolLiteral(value) ==
  /\ Going
  /\ Push(0, BoolLiteral(value))

ExprIntegerLiteral(text) ==
  /\ Going
  /\ token' = [text |-> text, valid |-> LiteralIsValid(text), value |-> LiteralValue(text)]
  /\ IF token'.valid
     THEN /\ stackExpr' = Append(stackExpr, IntegerLiteral(IntegerType[text.kind], token'.value))
          /\ left' = left - 1
          /\ UNCHANGED refused
     ELSE /\ refused' = "builder"
          /\ UNCHANGED <<stackExpr, left>>
  /\ UNCHANGED <<session, scopes, open, body>>

ExprUnaryOperator(op) ==
  /\ Takes(1)
  /\ LET qt == Top(1).qt
         Result(type) == UnaryOperator(op, Top(1), type)
     IN  CASE op = "&" -> Typed(~qt.reference /\ qt.lvalue, 1,
                                Result([qt EXCEPT !.reference = TRUE, !.lvalue = TRUE]))
           [] op = "*" -> Typed(qt.reference, 1, Result([qt EXCEPT !.reference = FALSE]))
           [] OTHER -> Typed(OperandFits(op, qt.type), 1, Result(Fresh(qt.type)))

ExprBinaryOperator(op) ==
  /\ Takes(2)
  /\ LET l == Top(2).qt
         r == Top(1).qt
     IN  Typed(OperandsFit(op, l.type, r.type) /\ (op \in Connectives \/ Converts(r, l)), 2,
               BinaryOperator(op, Top(2), Top(1), Fresh(ResultOf(op, l.type))))

\* The one member that a struct has.
MemberName(type) == IF Resolve(type) \in Plains THEN "n" ELSE "r"
MemberType(type) == QT(Member[Resolve(type)], TRUE, Resolve(type) \in Holders, TRUE)

ExprStructVarRef(name) ==
  /\ Takes(1)
  /\ LET qt == Top(1).qt
         isStruct == Resolve(qt.type) \in Structs
     IN  Typed(isStruct /\ name = MemberName(qt.type), 1,
               StructVarRef(Top(1), name,
                 IF isStruct THEN [MemberType(qt.type) EXCEPT !.mutable = qt.mutable] ELSE Void))

\* resolveType, of a simple name.
IsKnown(type) == type \in Types

ExprCast(qt) ==
  /\ Takes(1)
  /\ IF ~IsKnown(qt.type) THEN Refuse("builder")
     ELSE Typed(Casts(Top(1).qt, qt), 1, Cast(Top(1), qt))

-----------------------------------------------------------------------------
(* Calls and initialisers: what they are of comes first, then one argument   *)
(* after the other is visited and taken from the stack.                      *)
Opened(n, what, text, parts) ==
  /\ stackExpr' = Rest(n)
  /\ open' = Append(open, [what |-> what, text |-> text, parts |-> parts,
                           base |-> Len(stackExpr) - n])
  /\ left' = left - 1
  /\ UNCHANGED <<session, scopes, body, token, refused>>

HasFunctions(type) == type \in Structs \cup Strong

\* TypeTargetable: functions are looked up under the type's own name.
FunctionsOf(type) == {f \in DOMAIN Functions : HasFunctions(type) /\ Functions[f].of = type}

IsTypeFunction(f) == Functions[f].of # "none"
IsStatic(f) == IsTypeFunction(f) /\ ~Functions[f].self

BeginFnCall(f) ==
  /\ Going
  /\ IF f \in DOMAIN Functions /\ (IsTypeFunction(f) => IsStatic(f))
     THEN Opened(0, "call", f, <<>>)
     ELSE Refuse("builder")

\* Which function it is, the type pass finds out.
BeginTypeFnCall(f) ==
  /\ Takes(1)
  /\ Opened(1, "method", f, <<Top(1)>>)

BeginStructInit(type) ==
  /\ Going
  /\ IF IsKnown(type) /\ Resolve(type) \in Structs
     THEN Opened(0, "init", type, <<>>)
     ELSE Refuse("builder")

Argument ==
  /\ Given(1) /\ Above = 1 /\ open # <<>>
  /\ Last(open).what # "init"
  /\ stackExpr' = Rest(1)
  /\ open' = [open EXCEPT ![Len(open)].parts = Append(@, Top(1))]
  /\ UNCHANGED <<session, scopes, body, left, token, refused>>

\* In the code the name of the member comes before its expression.
StructMemberInit(name) ==
  /\ Given(1) /\ Above = 1 /\ open # <<>>
  /\ Last(open).what = "init"
  /\ IF name # MemberName(Last(open).text) THEN Refuse("builder")
     ELSE /\ stackExpr' = Rest(1)
          /\ open' = [open EXCEPT ![Len(open)].parts = Append(@, Top(1))]
          /\ UNCHANGED <<session, scopes, body, left, token, refused>>

\* So what is made from a type does not have its methods.
Found(call) ==
  call.what = "method" =>
    call.text \in FunctionsOf(call.parts[1].qt.type) /\ Functions[call.text].self

ArgumentsFit(call, from) ==
  LET params == Functions[call.text].params
  IN  /\ Len(call.parts) = Len(params)
      /\ \A i \in from..Len(params) : Converts(call.parts[i].qt, params[i])

\* Of the receiver only the mutability is compared.
CallFits(call) ==
  /\ Found(call)
  /\ IF call.what = "method"
     THEN /\ call.parts[1].qt.mutable \/ ~Functions[call.text].params[1].mutable
          /\ ArgumentsFit(call, 2)
     ELSE ArgumentsFit(call, 1)

\* Only their number is compared with that of the members.
InitFits(init) ==
  /\ Len(init.parts) = 1
  /\ \A i \in DOMAIN init.parts : Converts(init.parts[i].qt, MemberType(init.text))

Completed(call) ==
  LET result == [Functions[call.text].result EXCEPT !.lvalue = FALSE]
  IN  CASE call.what = "init" -> StructInit(call.text, call.parts)
        [] call.what = "call" -> FnCall(call.text, call.parts, result)
        [] call.what = "method" -> TypeFnCall(call.text, call.parts, result)

End ==
  /\ refused = "no" /\ open # <<>> /\ Above = 0
  /\ LET call == Last(open)
         fits == IF call.what = "init" THEN InitFits(call) ELSE CallFits(call)
     IN  IF ~fits THEN Refuse("type")
         ELSE /\ stackExpr' = Append(stackExpr, Completed(call))
              /\ open' = Front(open)
              /\ UNCHANGED <<session, scopes, body, left, token, refused>>

-----------------------------------------------------------------------------
(* Statements. *)

\* The stack holds what the statement is made of and nothing else.
Completes(n) == refused = "no" /\ open = <<>> /\ Len(stackExpr) = n

Done(statement) ==
  /\ body' = Append(body, statement)
  /\ stackExpr' = <<>>
  /\ UNCHANGED <<session, open, left, token, refused>>

StmtExpression == Completes(1) /\ Done(Top(1)) /\ UNCHANGED scopes

StmtReturn ==
  /\ Completes(1) /\ IsValid(Top(1).qt)
  /\ IsValid(session.result)
  /\ IF Converts(Top(1).qt, session.result)
     THEN Done(Return(Top(1))) /\ UNCHANGED scopes
     ELSE Refuse("type")

DeclVar(name, qt, typed) ==
  /\ Completes(1) /\ IsValid(Top(1).qt)
  /\ IF name \in Visible THEN Refuse("builder")
     ELSE IF typed /\ ~Converts(Top(1).qt, qt) THEN Refuse("type")
     ELSE /\ Done(VarDeclared(name, qt, Top(1)))
          /\ Declare(name, qt, typed)

DeclVarTyped(name, type, mutable, reference) ==
  DeclVar(name, QT(type, mutable, reference, TRUE), TRUE)

\* Type inference: the initialiser's type, as mutable as the variable is.
DeclVarInferred(name, mutable) ==
  /\ Completes(1)
  /\ DeclVar(name, [Top(1).qt EXCEPT !.mutable = mutable, !.lvalue = TRUE], FALSE)

\* A reference to a variable of an inner scope.  A variable whose type is yet
\* to be inferred does not count as a reference.
Outlived(l, r) ==
  /\ l.what = "var" /\ r.what = "unary"
  /\ Variable(l.text).typed /\ Variable(l.text).qt.reference
  /\ LET e == IF r.parts[1].what = "member" THEN r.parts[1].parts[1] ELSE r.parts[1]
     IN  e.what = "var" /\ ScopeOf(e.text) > ScopeOf(l.text)

StmtAssign ==
  /\ Completes(2) /\ IsValid(Top(1).qt) /\ IsValid(Top(2).qt)
  /\ LET l == Top(2).qt
     IN  IF Outlived(Top(2), Top(1)) THEN Refuse("builder")
         ELSE IF ~l.lvalue \/ ~l.mutable \/ ~Converts(Top(1).qt, l) THEN Refuse("type")
         ELSE Done(Assign(Top(2), Top(1))) /\ UNCHANGED scopes

BeginListScoped ==
  /\ Going /\ Completes(0)
  /\ scopes' = Append(scopes, [n \in {} |-> Void])
  /\ body' = Append(body, Statement("begin", "", <<>>))
  /\ left' = left - 1
  /\ UNCHANGED <<session, stackExpr, open, token, refused>>

EndListScoped ==
  /\ Completes(0) /\ Len(scopes) > 1
  /\ scopes' = Front(scopes)
  /\ body' = Append(body, Statement("end", "", <<>>))
  /\ UNCHANGED <<session, stackExpr, open, left, token, refused>>

-----------------------------------------------------------------------------
AstInit ==
  /\ session \in Sessions
  /\ scopes = <<[n \in DOMAIN session.vars |-> [qt |-> session.vars[n], typed |-> TRUE]]>>
  /\ stackExpr = <<>> /\ open = <<>> /\ body = <<>>
  /\ left = session.most
  /\ token = NothingRead
  /\ refused = "no"

Expression ==
  \/ \E name \in session.names : ExprVarRef(name)
  \/ \E value \in session.bools : ExprBoolLiteral(value)
  \/ \E text \in session.literals : ExprIntegerLiteral(text)
  \/ \E op \in session.unary : ExprUnaryOperator(op)
  \/ \E op \in session.binary : ExprBinaryOperator(op)
  \/ \E name \in session.members : ExprStructVarRef(name)
  \/ \E qt \in session.casts : ExprCast(qt)
  \/ \E f \in session.calls : BeginFnCall(f)
  \/ \E f \in session.calls : BeginTypeFnCall(f)
  \/ \E type \in session.inits : BeginStructInit(type)
  \/ \E name \in session.members : StructMemberInit(name)
  \/ Argument
  \/ End

AStatement ==
  \/ "expression" \in session.statements /\ StmtExpression
  \/ "return" \in session.statements /\ StmtReturn
  \/ \E name \in session.news, qt \in session.typed :
       DeclVarTyped(name, qt.type, qt.mutable, qt.reference)
  \/ \E name \in session.news, mutable \in BOOLEAN : DeclVarInferred(name, mutable)
  \/ "assign" \in session.statements /\ StmtAssign
  \/ "scope" \in session.statements /\ (BeginListScoped \/ EndListScoped)

AstNext == Expression \/ AStatement
=============================================================================
