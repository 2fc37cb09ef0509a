---------------------------- MODULE CExpressions ----------------------------
(***************************************************************************)
(* How a C compiler reads what CSource writes, after the C standard and    *)
(* not after the code: the grammar of expressions and their types.  And    *)
(* what was meant, to compare it with.                                     *)
(***************************************************************************)
EXTENDS CSource

(* C trees. *)
C(op, text, parts) == [op |-> op, text |-> text, parts |-> parts]
Leaf(piece) == C("leaf", <<piece>>, <<>>)

-----------------------------------------------------------------------------
(* Reading.  Two signs in a row are read as one, then spaces do not matter.  *)
NextPiece(read, piece) ==
  IF piece = "-" /\ read # <<>> /\ Last(read) = "-" THEN Append(Front(read), "--")
  ELSE Append(read, piece)

Pieces(text) == SelectSeq(FoldLeft(NextPiece, <<>>, text), LAMBDA piece : piece # " ")

Unary == {"-", "~", "!", "&", "*", "--"}

Level(op) ==
  CASE op \in {"*", "/"} -> 8 [] op \in {"+", "-"} -> 7
    [] op \in {"<", "<=", ">", ">="} -> 6 [] op \in {"==", "!="} -> 5
    [] op = "&" -> 4 [] op = "^" -> 3 [] op = "|" -> 2
    [] op = "&&" -> 1 [] op = "||" -> 0 [] op = "=" -> -1

Binary == {"*", "/", "+", "-", "<", "<=", ">", ">=", "==", "!=", "&", "^", "|", "&&", "||", "="}

Opening == {"(", "{"}
Closing == {")", "}"}

\* How many brackets are open before a piece.
Depth(s, k) ==
  Cardinality({i \in 1..(k - 1) : s[i] \in Opening}) - Cardinality({i \in 1..(k - 1) : s[i] \in Closing})

\* The bracket that closes one, and the one that opens one.
Closes(s, i) ==
  CHOOSE j \in i..Len(s) : /\ s[j] \in Closing /\ Depth(s, j + 1) = Depth(s, i)
                           /\ \A k \in i..(j - 1) : s[k] \in Closing => Depth(s, k + 1) > Depth(s, i)
Opens(s, j) == CHOOSE i \in 1..j : s[i] \in Opening /\ Closes(s, i) = j

\* A type in parentheses, which is not that of an initialiser.
IsCast(s, i) ==
  /\ s[i] = "(" /\ s[i + 1] \in Types \cup {"const"}
  /\ s[Closes(s, i) + 1] # "{"

EndsOperand(s, j) ==
  /\ s[j] \notin Unary \cup Binary \cup Opening
  /\ s[j] = ")" => ~IsCast(s, Opens(s, j))

Operators(s) ==
  {k \in 2..Len(s) : Depth(s, k) = 0 /\ s[k] \in Binary /\ EndsOperand(s, k - 1)}

\* The operator that binds least, of equal ones the last.
Main(s) == CHOOSE k \in Operators(s) :
  \A j \in Operators(s) : \/ Level(s[k]) < Level(s[j])
                          \/ Level(s[k]) = Level(s[j]) /\ k >= j

\* What is between commas.
Items(s) ==
  LET cuts == SetToSortSeq({0, Len(s) + 1} \cup {k \in DOMAIN s : s[k] = "," /\ Depth(s, k) = 0}, <)
  IN  IF s = <<>> THEN <<>>
      ELSE [i \in 1..(Len(cuts) - 1) |-> SubSeq(s, cuts[i] + 1, cuts[i + 1] - 1)]

Between(s, i, j) == SubSeq(s, i + 1, j - 1)

RECURSIVE Reading(_)
Reading(s) ==
  CASE s = <<>> -> Leaf("")
    [] Operators(s) # {} ->
         LET k == Main(s)
         IN  C("binary", <<s[k]>>, <<Reading(SubSeq(s, 1, k - 1)), Reading(SubSeq(s, k + 1, Len(s)))>>)
    [] Operators(s) = {} /\ s # <<>> /\ s[1] \in Unary -> C("unary", <<s[1]>>, <<Reading(Tail(s))>>)
    [] Operators(s) = {} /\ Len(s) > 1 /\ IsCast(s, 1) ->
         C("cast", Between(s, 1, Closes(s, 1)), <<Reading(SubSeq(s, Closes(s, 1) + 1, Len(s)))>>)
    [] OTHER ->
         IF Len(s) = 1 THEN Leaf(s[1])
         ELSE IF s[Len(s) - 1] \in {".", "->"}
         THEN C("member", SubSeq(s, Len(s) - 1, Len(s)), <<Reading(SubSeq(s, 1, Len(s) - 2))>>)
         ELSE IF Last(s) = "}"
         THEN LET inits == Items(Between(s, Opens(s, Len(s)), Len(s)))
              IN  C("init", <<s[2]>>, [i \in DOMAIN inits |-> Reading(SubSeq(inits[i], 4, Len(inits[i])))])
         ELSE IF Opens(s, Len(s)) = 1 THEN Reading(Between(s, 1, Len(s)))
         ELSE LET arguments == Items(Between(s, 2, Len(s)))
              IN  C("call", <<s[1]>>, [i \in DOMAIN arguments |-> Reading(arguments[i])])

ReadStatement(s) ==
  CASE s[1] \in {"{", "}"} -> Leaf(s[1])
    [] s[1] = "return" -> C("return", <<>>, <<Reading(Tail(s))>>)
    [] s[1] \in Types \cup {"const"} ->
         LET k == CHOOSE i \in DOMAIN s : s[i] = "=" /\ \A j \in 1..(i - 1) : s[j] # "="
         IN  C("decl", SubSeq(s, 1, k - 1), <<Reading(SubSeq(s, k + 1, Len(s)))>>)
    [] OTHER -> Reading(s)

-----------------------------------------------------------------------------
(* What was meant.  A pair of parentheses is no tree of its own.             *)
Converted(node, qt) ==      \* an operand, converted to the type of the other
  IF node.type = qt.type THEN node.tree ELSE C("cast", GenQualType(qt), <<node.tree>>)

RECURSIVE Meant(_)
Meant(node) ==
  LET parts == [i \in DOMAIN node.parts |-> Meant(node.parts[i])]
      from == node.parts[1].qt
  IN  CASE node.what \in {"var", "begin", "end", "bool"} -> Leaf(Write(node)[1])
        [] node.what = "integer" ->
             IF node.value < 0 THEN C("unary", <<"-">>, <<Leaf(ToString(-node.value))>>)
             ELSE Leaf(ToString(node.value))
        [] node.what = "unary" -> C("unary", <<node.text>>, parts)
        [] node.what = "binary" ->
             C("binary", <<GenBinaryOperator(node.text)>>,
               <<parts[1], Converted([tree |-> parts[2], type |-> node.parts[2].qt.type], from)>>)
        [] node.what = "member" -> C("member", <<IF from.reference THEN "->" ELSE ".", node.text>>, parts)
        [] node.what = "cast" ->
             IF {from.type, node.qt.type} \subseteq Builtins /\ node.qt.type \in ConversionTable[from.type]
             THEN C("call", <<GenBuiltinCall(from.type, node.qt.type)>>, parts)
             ELSE C("cast", GenQualType(node.qt), parts)
        [] node.what = "call" -> C("call", <<node.text>>, parts)
        [] node.what = "method" ->
             C("call", <<node.text>>,
               <<IF from.reference THEN parts[1] ELSE C("unary", <<"&">>, <<parts[1]>>)>> \o Tail(parts))
        [] node.what = "init" -> C("init", <<node.text>>, parts)
        [] node.what = "decl" -> C("decl", GenQualType(node.qt) \o <<node.text>>, parts)
        [] node.what = "return" -> C("return", <<>>, parts)
        [] node.what = "assign" -> C("binary", <<"=">>, parts)

\* How tightly a tree is bound.  Casts are written in parentheses.
Binds(tree) ==
  CASE tree.op = "binary" -> Level(tree.text[1])
    [] tree.op = "unary" -> 9
    [] OTHER -> 10

\* The operands that would have to be in parentheses, which the backend never
\* writes around operators; and a sign in front of a sign.
NeedsParentheses(tree) ==
  CASE tree.op = "binary" -> \/ Binds(tree.parts[1]) < Level(tree.text[1])
                             \/ Binds(tree.parts[2]) <= Level(tree.text[1])
    [] tree.op \in {"unary", "cast"} -> Binds(tree.parts[1]) < 9
    [] tree.op = "member" -> Binds(tree.parts[1]) < 10
    [] OTHER -> FALSE

SignOfSign(tree) ==
  /\ tree.op = "unary" /\ tree.text = <<"-">>
  /\ tree.parts[1].op = "unary" /\ tree.parts[1].text = <<"-">>

RECURSIVE Misread(_)
Misread(tree) ==
  NeedsParentheses(tree) \/ SignOfSign(tree) \/ \E i \in DOMAIN tree.parts : Misread(tree.parts[i])

\* The C compiler reads every statement as it was meant, unless an operator
\* has an operand that needs parentheses (visit(ExprBinaryOperator) and its
\* like write none).
CReadsTheSame ==
  \A i \in DOMAIN output :
    (ReadStatement(Pieces(output[i])) = Meant(body[i])) <=> ~Misread(Meant(body[i]))

-----------------------------------------------------------------------------
(* Types of C: of a value, or of what a pointer points to.                   *)
ReadType(text) ==
  [type |-> CHOOSE t \in Types \cup {"void"} : \E i \in DOMAIN text : text[i] = t,
   const |-> \E i \in DOMAIN text : text[i] = "const",
   pointer |-> \E i \in DOMAIN text : text[i] = "*"]

\* An expression has a type, may denote something that is stored, and is right
\* or not.
CExpression(type, lvalue, right) == [type |-> type, lvalue |-> lvalue, right |-> right]
Wrong == CExpression([type |-> "void", const |-> FALSE, pointer |-> FALSE], FALSE, FALSE)

Number == [type |-> "i32", const |-> FALSE, pointer |-> FALSE]
Aliased(name) == IF name \in DOMAIN Header.typedefs THEN Header.typedefs[name] ELSE name
IsNumber(type) == ~type.pointer /\ Aliased(type.type) \in Builtins

\* What may be assigned, passed or returned without a word of the compiler.
Fits(from, to) ==
  \/ IsNumber(from) /\ IsNumber(to)
  \/ /\ from.pointer = to.pointer
     /\ Aliased(from.type) = Aliased(to.type)
     /\ from.pointer => (from.const => to.const)

BuiltinCalls == {GenBuiltinCall(p[1], p[2]) : p \in {q \in Builtins \X Builtins : q[2] \in ConversionTable[q[1]]}}

\* The declarations that the expressions of a statement can refer to, in their
\* order.
DeclaredBefore(i) ==
  SetToSeq({Append(GenQualTypeFnParam(session.vars[n]), n) : n \in DOMAIN session.vars})
    \o [k \in 1..(i - 1) |-> IF body[k].what = "decl" THEN ReadStatement(Pieces(output[k])).text ELSE <<"">>]

CVariable(name, declared) ==
  ReadType(Front(declared[SelectLastInSeq(declared, LAMBDA text : Last(text) = name)]))

RECURSIVE CTypes(_, _)
CTypes(tree, declared) ==
  LET e == [i \in DOMAIN tree.parts |-> CTypes(tree.parts[i], declared)]
      right == \A i \in DOMAIN e : e[i].right
      all(Is(_)) == \A i \in DOMAIN e : Is(e[i].type)
  IN  CASE ~right -> Wrong
        [] tree.op = "leaf" ->
             IF \E i \in DOMAIN declared : Last(declared[i]) = tree.text[1]
             THEN CExpression(CVariable(tree.text[1], declared), TRUE, TRUE)
             ELSE CExpression(Number, FALSE, TRUE)
        [] tree.op = "unary" ->
             CASE tree.text[1] = "&" ->
                    CExpression([e[1].type EXCEPT !.pointer = TRUE], FALSE, e[1].lvalue /\ ~e[1].type.pointer)
               [] tree.text[1] = "*" ->
                    CExpression([e[1].type EXCEPT !.pointer = FALSE], TRUE, e[1].type.pointer)
               [] OTHER -> CExpression(Number, FALSE, IsNumber(e[1].type))
        [] tree.op = "binary" /\ tree.text[1] # "=" -> CExpression(Number, FALSE, all(IsNumber))
        [] tree.op = "binary" /\ tree.text[1] = "=" ->
             CExpression(e[1].type, FALSE,
               e[1].lvalue /\ (e[1].type.const => e[1].type.pointer) /\ Fits(e[2].type, e[1].type))
        [] tree.op = "cast" ->
             LET to == ReadType(tree.text)
             IN  CExpression(to, FALSE, IF to.pointer THEN e[1].type.pointer ELSE Fits(e[1].type, to))
        [] tree.op = "member" ->
             LET struct == Aliased(e[1].type.type)
                 declaration == Header.structs[struct]
             IN  IF struct \notin Structs \/ e[1].type.pointer # (tree.text[1] = "->") THEN Wrong
                 ELSE LET type == ReadType(declaration.type)
                      IN  CExpression([type EXCEPT !.const = @ \/ (e[1].type.const /\ ~type.pointer)],
                                      e[1].lvalue \/ tree.text[1] = "->", tree.text[2] = declaration.name)
        [] tree.op = "init" ->
             CExpression([type |-> tree.text[1], const |-> FALSE, pointer |-> FALSE], TRUE,
               \A i \in DOMAIN e : Fits(e[i].type, ReadType(Header.structs[Aliased(tree.text[1])].type)))
        [] tree.op = "call" /\ tree.text[1] \in BuiltinCalls ->
             CExpression(Number, FALSE, all(IsNumber))
        [] tree.op = "call" /\ tree.text[1] \notin BuiltinCalls ->
             LET f == Header.functions[tree.text[1]]
             IN  CExpression(ReadType(f.result), FALSE,
                   Len(e) = Len(f.params) /\ \A i \in DOMAIN e : Fits(e[i].type, ReadType(f.params[i])))
        [] tree.op = "decl" ->
             CExpression(e[1].type, FALSE, Fits(e[1].type, ReadType(Front(tree.text))))
        [] tree.op = "return" ->
             CExpression(e[1].type, FALSE, Fits(e[1].type, ReadType(GenQualTypeReturn(session.result))))

(* What the type pass lets through that C does not.                          *)
RECURSIVE Nodes(_)
Nodes(node) == {node} \cup UNION {Nodes(node.parts[i]) : i \in DOMAIN node.parts}

\* An operand that is a reference; a cast of one to a value.
ReferenceAsNumber(node) ==
  \/ node.what = "binary" /\ (node.parts[1].qt.reference \/ node.parts[2].qt.reference)
  \/ node.what = "unary" /\ node.text \notin {"&", "*"} /\ node.parts[1].qt.reference
  \/ node.what = "cast" /\ ~node.qt.reference /\ node.parts[1].qt.reference

\* What a function returned, and its members, cannot be referred to in C.
RECURSIVE Returned(_)
Returned(node) ==
  \/ node.what \in {"call", "method"} /\ ~node.qt.reference
  \/ node.what = "member" /\ ~node.parts[1].qt.reference /\ Returned(node.parts[1])

AddressOfReturned(node) ==
  /\ \/ node.what = "unary" /\ node.text = "&"
     \/ node.what = "method" /\ ~node.parts[1].qt.reference
  /\ Returned(node.parts[1])

\* A reference just made has the l-value bit.
AssignedReference(node) ==
  node.what = "assign" /\ (node.parts[1].what = "cast" \/ (node.parts[1].what = "unary" /\ node.parts[1].text = "&"))

\* A method whose self is a value is given an address all the same.
SelfByValue(node) == node.what = "method" /\ ~Functions[node.text].params[1].reference

\* What is converted to what, without being asked for.
Conversions(node) ==
  CASE node.what \in {"call", "method"} ->
         {<<node.parts[i].qt, Functions[node.text].params[i]>> :
            i \in IF node.what = "call" THEN DOMAIN node.parts ELSE 2..Len(node.parts)}
    [] node.what = "init" -> {<<node.parts[i].qt, MemberType(node.text)>> : i \in DOMAIN node.parts}
    [] node.what = "decl" -> {<<node.parts[1].qt, node.qt>>}
    [] node.what = "assign" -> {<<node.parts[2].qt, node.parts[1].qt>>}
    [] node.what = "return" -> {<<node.parts[1].qt, session.result>>}
    [] OTHER -> {}

\* References to builtin types are converted as values are; and an inferred
\* type is as mutable as the variable is.
ReferenceConverted(node) ==
  \E c \in Conversions(node) :
    /\ c[1].reference
    /\ Resolve(c[1].type) # Resolve(c[2].type) \/ (c[2].mutable /\ ~c[1].mutable)

Gap(node) ==
  \/ ReferenceAsNumber(node) \/ AddressOfReturned(node) \/ AssignedReference(node)
  \/ SelfByValue(node) \/ ReferenceConverted(node)

\* If a statement that passed all passes is read as it was meant, its types
\* are right in C too, but for the gaps (visit(StmtAssign) to visit(ExprCast)
\* of the type pass against those of AstVisitorCSource).
CTypesFit ==
  \A i \in DOMAIN output :
    LET tree == ReadStatement(Pieces(output[i]))
    IN  body[i].what \notin {"begin", "end"} /\ ~Misread(Meant(body[i])) =>
          (CTypes(tree, DeclaredBefore(i)).right <=> \A node \in Nodes(body[i]) : ~Gap(node))

-----------------------------------------------------------------------------
(* Values. *)

Exact(text) ==
  LET value == FoldLeft(LAMBDA v, digit : v * Base + digit, 0, text.digits)
  IN  IF text.negative THEN -value ELSE value

Readable(text) == Exact(text) \in RangeOf(IntegerType[text.kind]) /\ ~text.point
                  /\ (text.negative => IsSigned(IntegerType[text.kind]))

\* Signed literals whose words, read with a sign, are small negative numbers.
WrapsAround(text) ==
  /\ IsSigned(IntegerType[text.kind]) /\ ~text.negative /\ ~text.point
  /\ (Exact(text) % 2 ^ WordBits) - 2 ^ WordBits \in RangeOf(IntegerType[text.kind])

\* A literal is accepted if its value is one of its type, and then has that
\* value; but for those that wrap around (visit(STExprIntegerLiteral) reads
\* the word as a signed one, whether there is a sign or not).
LiteralsKeepTheirValue ==
  token # NothingRead =>
    \/ WrapsAround(token.text)
    \/ /\ token.valid <=> Readable(token.text)
       /\ token.valid => token.value = Exact(token.text)

\* The nearest value of a type.
Nearest(type, value) ==
  IF value > Largest(type) THEN Largest(type) ELSE IF value < Lowest(type) THEN Lowest(type) ELSE value

\* Casts without a conversion function, for which the bits are cut off.
Unsaturated(from, to) ==
  from = "u64" \/ (IsSigned(from) /\ ~IsSigned(to) /\ Bits[from] < Bits[to])

\* A cast between integer types gives the nearest value of its type, except
\* for the casts that have no conversion function and need one
\* (kBuilitinConverionTable).
ConversionsSaturate ==
  \A i \in DOMAIN stackExpr :
    LET from == stackExpr[i].parts[1].qt.type
        to == stackExpr[i].qt.type
    IN  stackExpr[i].what = "cast" /\ {from, to} \subseteq Integer =>
          \/ Unsaturated(from, to)
          \/ \A value \in RangeOf(from) : CastValue(from, to, value) = Nearest(to, value)
=============================================================================
