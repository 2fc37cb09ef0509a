------------------------------- MODULE MCBytecode -------------------------------
(* The bytecode generator and the virtual machine together: bodies of a       *)
(* function t(x) made of pairs from a menu of statements are compiled as the  *)
(* earlier compiler compiles them and run by the machine.                     *)
EXTENDS YalVm, SequencesExt, TLC

CONSTANTS MaxRegisters, MaxJump, Depth, Chars

Gen == INSTANCE ByteCodeGenerator
M == INSTANCE Meaning
File == INSTANCE BinaryFile

(* Trees *)
I(n) == [k |-> "int", c |-> n]
S(t) == [k |-> "str", t |-> t]
V(v) == [k |-> "var", v |-> v]
Two(k, l, r) == [k |-> k, l |-> l, r |-> r]
Plus(l, r) == Two("plus", l, r)
And(l, r) == Two("and", l, r)
Or(l, r) == Two("or", l, r)
Same(l, r) == Two("eq", l, r)
Set(l, r) == [k |-> "assign", op |-> "copy", l |-> l, r |-> r]
With(op, l, r) == [k |-> "assign", op |-> op, l |-> l, r |-> r]
Differ(l, r) == Two("ne", l, r)
Not(e) == [k |-> "not", e |-> e]
Neg(e) == [k |-> "neg", e |-> e]
Flip(e) == [k |-> "bitnot", e |-> e]
Par(e) == [k |-> "par", e |-> e]
Fn(f, args) == [k |-> "call", f |-> f, obj |-> <<>>, args |-> args]
Method(v, f) == [k |-> "call", f |-> f, obj |-> <<V(v)>>, args |-> <<>>]
Array(es) == [k |-> "arr", es |-> es]
Exp(e) == [k |-> "exp", e |-> e]
Decl(v, e) == [k |-> "decl", v |-> v, e |-> e]
Show(es) == [k |-> "print", es |-> es]
If(c, t) == [k |-> "if", c |-> <<c>>, t |-> t, f |-> <<>>]
IfElse(c, t, f) == [k |-> "if", c |-> <<c>>, t |-> t, f |-> <<[k |-> "if", c |-> <<>>, t |-> f, f |-> <<>>]>>]
IfElif(c, t, d, u) == [k |-> "if", c |-> <<c>>, t |-> t, f |-> <<If(d, u)>>]
While(c, t) == [k |-> "while", c |-> <<c>>, t |-> t]
Ret(e) == [k |-> "ret", e |-> e]

(* Functions every program has. *)
Param(n, t) == [name |-> n, type |-> t]
F(self, params, ret, body) == [self |-> self, params |-> params, ret |-> ret, body |-> body, native |-> FALSE]
x == V("x")
g == V("g")
Library ==
  [echo |-> F("", <<Param("p", "str")>>, "str", <<Show(<<V("p")>>), Ret(<<V("p")>>)>>),
   again |-> F("", <<>>, "str", <<Ret(<<Fn("echo", <<S("n")>>)>>)>>),
   one |-> F("", <<Param("p", "str")>>, "int", <<Ret(<<I(1)>>)>>),
   inc |-> F("int", <<>>, "void", <<Exp(Set(V("self"), Plus(V("self"), I(1))))>>),
   drop |-> F("int", <<>>, "void", <<Exp(With("shr", V("self"), I(1))), Exp(With("minus", V("self"), I(1)))>>),
   twice |-> F("", <<Param("n", "int")>>, "int", <<Ret(<<Plus(V("n"), V("n"))>>)>>),
   setg |-> F("", <<>>, "void", <<Exp(Set(g, I(5)))>>),
   sum |-> F("", <<Param("n", "int")>>, "int",
             <<If(Same(V("n"), I(0)), <<Ret(<<I(0)>>)>>), Ret(<<Plus(Fn("sum", <<Plus(V("n"), Neg(I(1)))>>), V("n"))>>)>>),
   deep |-> F("", <<Param("n", "int")>>, "void", <<Exp(Fn("deep", <<Plus(V("n"), I(1))>>))>>),
   size |-> F("str", <<>>, "int", <<Ret(<<I(3)>>)>>),
   pick |-> F("", <<Param("n", "int")>>, "str",
              <<Decl("s", S("a")), Decl("t", Fn("echo", <<V("s")>>)), If(V("n"), <<Show(<<V("n")>>)>>), Ret(<<V("t")>>)>>),
   sqrt |-> [F("", <<Param("n", "int")>>, "int", <<>>) EXCEPT !.native = TRUE]]
Order == <<"echo", "again", "one", "inc", "drop", "twice", "setg", "sum", "deep", "size", "pick">>

Menu == <<
  <<Show(<<x, g>>)>>,
  <<Exp(Set(g, Plus(g, x)))>>,
  <<Decl("s", S("u")), Decl("r", V("s")), Show(<<V("r"), V("s")>>)>>,
  <<Exp(Set(V("gs"), S("v"))), Show(<<V("gs")>>)>>,
  <<Decl("w", S("u")), Exp(Set(V("w"), S("w"))), Show(<<V("w")>>)>>,
  <<Decl("e", Fn("echo", <<S("p")>>)), Show(<<V("e")>>)>>,
  <<Exp(Fn("echo", <<V("gs")>>))>>,
  <<Show(<<Plus(Fn("sqrt", <<Plus(x, I(3))>>), I(1)), S("k")>>)>>,
  <<Exp(Method("x", "inc")), Show(<<x>>)>>,
  <<Exp(Method("g", "inc")), Show(<<g>>)>>,
  <<Exp(Fn("setg", <<>>)), Show(<<g>>)>>,
  <<Decl("a", Array(<<x, I(2)>>)), Show(<<Two("idx", V("a"), I(1))>>)>>,
  <<Decl("q", Array(<<I(1)>>)), Show(<<Two("idx", V("q"), x)>>)>>,
  <<IfElse(And(Same(g, I(1)), x), <<Decl("in", S("in")), Show(<<V("in")>>)>>, <<Show(<<I(2)>>)>>)>>,
  <<IfElif(Not(x), <<Show(<<I(3)>>)>>, g, <<Show(<<g>>)>>)>>,
  <<IfElse(Or(Par(And(Differ(x, I(0)), Par(Set(g, I(3))))), Same(x, I(0))), <<Show(<<g>>)>>, <<Show(<<x>>)>>)>>,
  <<Decl("i", I(0)), While(Differ(V("i"), I(2)), <<Decl("l", S("l")), Exp(Set(V("i"), Plus(V("i"), I(1)))), Show(<<V("l"), V("i")>>)>>)>>,
  <<Decl("m", S("m")), Show(<<Method("m", "size"), Method("m", "size")>>)>>,
  <<Decl("b", Fn("pick", <<x>>)), Exp(Set(V("b"), V("gs"))), Exp(Set(V("gs"), Fn("pick", <<g>>)))>>,
  <<If(x, <<While(Differ(x, I(3)), <<Exp(Method("x", "inc")), If(Same(x, I(2)), <<Show(<<x>>)>>)>>)>>)>>,
  <<Decl("c", I(0)), While(And(Differ(V("c"), I(2)), g), <<Exp(Set(V("c"), Plus(V("c"), I(1)))), Exp(Fn("setg", <<>>))>>)>>,
  <<If(x, <<Ret(<<>>)>>)>>,
  <<Show(<<Fn("sum", <<x>>)>>)>>,
  <<Exp(Fn("deep", <<I(0)>>))>>,
  <<Show(<<Fn("twice", <<Fn("twice", <<x>>)>>)>>)>>,
  <<While(Same(x, I(5)), <<Show(<<g>>)>>), Show(<<g>>)>>,
  <<If(Or(And(Same(x, I(1)), Same(g, I(2))), Same(g, I(1))), <<Show(<<I(7)>>)>>)>>,
  <<IfElif(And(Same(g, I(7)), x), <<Show(<<I(1)>>)>>, Same(x, I(0)), <<Show(<<I(8)>>)>>)>>,
  <<Decl("o", S("o")), If(x, <<Ret(<<>>)>>)>>,
  <<Show(<<Fn("again", <<>>)>>)>>,
  <<Decl("z", S("z")), Exp(Set(V("z"), V("z")))>>,
  <<If(Or(Par(And(x, Fn("one", <<S("c")>>))), g), <<Show(<<I(9)>>)>>)>>,
  <<If(Same(Fn("one", <<S("c")>>), x), <<Show(<<I(9)>>)>>)>>,
  <<Show(<<Two("div", Two("minus", x, I(4)), I(2)), Two("mod", Two("minus", x, I(4)), I(2)), Two("mult", x, g)>>)>>,
  <<If(Two("lt", x, I(1)), <<Show(<<Two("ge", g, x)>>)>>), Show(<<Two("le", x, I(0)), Two("gt", x, I(0))>>)>>,
  <<Show(<<Two("div", g, x)>>)>>,
  <<Decl("j", I(0)), While(Differ(Fn("one", <<S("c")>>), V("j")), <<Exp(Set(V("j"), I(1)))>>)>>,
  <<Show(<<Two("bitand", Plus(x, I(5)), I(3)), Two("bitor", Neg(Plus(x, I(6))), I(3)), Two("bitxor", I(6), Plus(x, I(2)))>>)>>,
  <<Show(<<Flip(x), Two("shl", Plus(g, x), I(3)), Two("shr", I(40000), Plus(x, I(2)))>>)>>,
  <<Exp(With("plus", g, I(70000))), Exp(With("bitxor", g, I(40000))), Exp(With("shl", x, I(2))), Show(<<g, x, I(70000)>>)>>,
  <<Exp(With("mult", g, I(9))), Exp(Method("g", "drop")), Show(<<Plus(With("div", g, I(2)), I(1)), Two("shl", I(1), g)>>)>>,
  <<Decl("k", S("k")), If(x, <<Exp(With("plus", V("k"), S("l")))>>), Show(<<V("k")>>)>>,
  <<Show(<<Two("shl", I(1), Neg(x))>>)>>,
  <<Decl("h", Same(x, g)), Exp(With("bitor", V("h"), x)), Show(<<V("h")>>)>>,
  <<If(Set(x, Plus(x, I(1))), <<Show(<<Neg(With("minus", g, I(3))), Plus(Set(x, I(6)), Set(g, x))>>)>>)>>,
  <<Exp(x), Show(<<Set(g, I(4))>>)>>,
  <<Exp(Fn("twice", <<Set(x, I(4))>>)), Decl("y", Set(g, x)), Show(<<V("y")>>)>>,
  <<If(x, <<Show([i \in 1 .. 12 |-> I(i)])>>)>>     \* longer than a jump reaches
>>

(* The expressions and statements within. *)
Operands(e) ==
  CASE e.k \in {"int", "str", "var"} -> <<>>
    [] e.k \in {"not", "neg", "bitnot", "par"} -> <<e.e>>
    [] e.k = "arr" -> e.es
    [] e.k = "call" -> e.obj \o e.args
    [] OTHER -> <<e.l, e.r>>
RECURSIVE Within(_), Statements(_), Exps(_)
Within(es) ==
  IF es = <<>> THEN <<>> ELSE <<Head(es)>> \o Within(Operands(Head(es))) \o Within(Tail(es))
Own(n) ==
  CASE n.k \in {"exp", "decl"} -> <<n.e>>
    [] n.k = "print" -> n.es
    [] n.k \in {"if", "while"} -> n.c
    [] n.k = "ret" -> n.e
Inner(n) == IF n.k = "if" THEN n.t \o n.f ELSE IF n.k = "while" THEN n.t ELSE <<>>
Statements(ns) ==
  IF ns = <<>> THEN <<>> ELSE <<Head(ns)>> \o Statements(Inner(Head(ns))) \o Statements(Tail(ns))
Exps(ns) ==
  IF ns = <<>> THEN <<>> ELSE Within(Own(Head(ns))) \o Exps(Inner(Head(ns))) \o Exps(Tail(ns))
Some(q, P(_)) == \E i \in DOMAIN q : P(q[i])
IsCall(e) == e.k = "call"
Called(ns) == LET calls1 == SelectSeq(Exps(ns), IsCall) IN {calls1[i].f : i \in DOMAIN calls1}
Names(ns, v) == Some(Exps(ns), LAMBDA e : e.k = "var" /\ e.v = v)
MakesText(es) == Some(Within(es), LAMBDA e : e.k = "str")
RECURSIVE Reached(_)
\* The functions a body calls, and those they call.
Reached(fs) ==
  LET more == UNION {Called(Library[f].body) : f \in fs} IN IF more \subseteq fs THEN fs ELSE Reached(fs \cup more)

\* A program declares the functions of the library that its body needs.
Program(body) ==
  LET used == Reached(Called(body)) \cup {"sqrt"}
  IN [globals |-> <<Decl("g", I(1)), Decl("gs", S("gs"))>>,
      body |-> <<Show(<<V("gs")>>)>>,
      order |-> Append(SelectSeq(Order, LAMBDA f : f \in used), "t"),
      funs |-> ("t" :> F("", <<Param("x", "int")>>, "void", body)) @@ [f \in used |-> Library[f]]]

\* Every entry of the menu alone and in front of each of Follow.
Follow == <<1, 3, 10, 16, 22>>
Size == Len(Follow) + 1
MCPrograms == 1 .. Size * Len(Menu)
Body(n) ==
  LET i == ((n - 1) \div Size) + 1
      j == ((n - 1) % Size) + 1
  IN IF j = Size \/ Follow[j] = i THEN Menu[i] ELSE Menu[i] \o Menu[Follow[j]]
MCBinary(i) ==
  LET m == Gen!Compile(Program(Body(i)))
  IN IF m.ok /\ File!Accepted(m) THEN File!Load(File!Write(m), {"sqrt"}) ELSE File!Refused
MCCalls == <<[f |-> "main", args |-> <<>>], [f |-> "t", args |-> <<0>>], [f |-> "t", args |-> <<1>>]>>

(* Shapes the generator or the machine gets wrong, see README.  *)
\* RETURN gives the caller the registers of the frame that still takes arguments.
InArguments(e) == IsCall(e) /\ Some(Within(Operands(e)), LAMBDA c : IsCall(c) /\ ~Library[c.f].native)
\* NOT negates the register of its result, whatever its operand is.
Negated(e) == e.k = "not"
\* The old object is released before the new one, the same, is acquired.
ToItself(e) == e.k = "assign" /\ e.l = e.r
\* A temporary object is released at the end of the statement although a jump skipped it.
Skipped(e) == e.k = "par" /\ e.e.k \in {"and", "or"} /\ MakesText(<<e.e.r>>)
\* A global that a loop loaded counts as loaded behind it, also when the loop did not run.
LoadedByLoop(b) == \E i, j \in DOMAIN b : /\ i < j /\ b[i].k = "while"
                                          /\ Names(Inner(b[i]), "g") /\ Names(<<b[j]>>, "g")
Conditional(n) == n.k = "if" /\ n.c # <<>>
\* The left "and" of an "or" jumps past the "or".
Mixed(n) == Conditional(n) /\ n.c[1].k = "or" /\ n.c[1].l.k = "and"
\* An inner condition gives the jumps of the outer one its own targets.
Retargeted(n) == Conditional(n) /\ n.c[1].k \in {"and", "or"} /\ Some(Statements(Inner(n)), Conditional)
\* An assignment that is printed, passed on, an initialiser, the condition of a loop or
\* returned leaves no register for that.
IsAssignment(e) == e.k = "assign"
Unpushed(e) == IsCall(e) /\ Some(e.args, IsAssignment)
UnpushedBy(n) == n.k \in {"print", "decl", "while", "ret"} /\ Some(Own(n), IsAssignment)
Wrong(b) ==
  \/ Some(Exps(b), LAMBDA e : InArguments(e) \/ Negated(e) \/ ToItself(e) \/ Skipped(e) \/ Unpushed(e))
  \/ LoadedByLoop(b) \/ Some(Statements(b), LAMBDA n : Mixed(n) \/ Retargeted(n) \/ UnpushedBy(n))

\* A return releases what its own scope owns, not what the scopes around it do.
ReturnsPast(b) == \E i, j \in DOMAIN b : /\ i < j /\ b[i].k = "decl" /\ b[i].e.k # "int"
                                         /\ Some(Statements(Inner(b[j])), LAMBDA n : n.k = "ret")
\* Objects made for a returned call are released behind the RETURN.
ReturnsCall(n) == n.k = "ret" /\ Some(Within(n.e), LAMBDA e : IsCall(e) /\ MakesText(Operands(e)))
\* Objects of a loop's condition are released once, behind the loop.
LoopMakes(n) == n.k = "while" /\ MakesText(n.c)
Leaks(b) ==
  \/ ReturnsPast(b) \/ \E f \in Called(b) : Some(Library[f].body, ReturnsCall)
  \/ Some(Statements(b), LoopMakes)

\* A logical operation takes a register for true whose lower half is 0, as something
\* else has left bits in the upper half.
ReadsLeftover ==
  /\ Executing /\ pc \in DOMAIN Text /\ Inst[1] \in {"AND", "OR"}
  /\ \E i \in 3 .. 4 : IsNumber(Inst[i]) /\ ~Truth(Inst[i]) /\ Upper(R(Inst[i]))

\* History: what the program prints, the shapes it has, what it has read.
VARIABLE meant
MCInit == Init /\ meant = [prints |-> <<>>, wrong |-> FALSE, leaks |-> FALSE, misread |-> FALSE, undef |-> FALSE]
MCNext ==
  /\ Next
  /\ meant' = IF phase # "file" THEN [meant EXCEPT !.misread = @ \/ ReadsLeftover]
              ELSE LET m == M!Prints(Program(Body(prog)), "t", <<0, 1>>) IN
                   [prints |-> m.out, undef |-> ~m.defined, misread |-> FALSE,
                    wrong |-> Wrong(Body(prog)), leaks |-> Leaks(Body(prog))]
MCSpec == MCInit /\ [][MCNext]_<<vars, meant>> /\ WF_vars(Proceed)

Finished == phase = "destroyed" /\ errors = {}

\* A compiled program prints what it means, in order and completely, as long as no
\* execution fails (bytecodegenerator.cpp, yalvm_ctx_execute).
PrintsWhatProgramMeans ==
  ~meant.wrong /\ ~meant.misread /\ errors = {} =>
                                 /\ IsPrefix(out, meant.prints)
                                 /\ Finished => out = meant.prints

\* Every object a program creates is destroyed when it ends: scopes, statements,
\* assignments and globals release exactly what they own, as the execution tests
\* require of every program (EXEC_TEST_MEMCHECK_END).
NothingLeaks == Finished /\ ~meant.wrong /\ ~meant.leaks => \A i \in DOMAIN heap : heap[i].kind = "freed"

\* No instruction touches an object that has been destroyed, reads a register as what
\* it does not hold, or leaves the stack, unless memory ran out or the program divides by 0.
NeverUndefined == errors = {} /\ ~meant.wrong /\ ~meant.undef => phase # "undefined"

\* The result of a function is in the register its call names when the caller goes on,
\* and the caller's registers are its own again (RETURN and yalvm_stack_frame_end).
ResultReachesCaller ==
  [][Return /\ ReturnPlace # 0 /\ Inst[2] # NoRegisterIndex /\ ~meant.wrong
       => mem'[registers' + Text[ReturnPlace - 1][3]] = R(Inst[2])]_<<vars, meant>>
================================================================================
