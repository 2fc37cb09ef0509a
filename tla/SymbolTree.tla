------------------------------- MODULE SymbolTree -------------------------------
(* SymbolTreeBuilder of the earlier compiler                                  *)
(* (src/lib/yal/symbols/symboltreebuilder.cpp): it walks a program, resolves  *)
(* names, checks types, declares a temporary for every intermediate result,   *)
(* and decides by flags on the symbols who releases each object.  The walk is *)
(* a function from a tree to the same tree annotated with types, symbols,     *)
(* scopes and statement numbers; the state s of the builder goes along.       *)
(*                                                                            *)
(* Trees are records with a kind k.  Expressions:                             *)
(*   int c, const t (text constant), str t, var v, not/neg/bitnot e, par e,   *)
(*   plus/minus/mult/div/mod/and/or/bitand/bitor/bitxor/shl/shr/idx l r,      *)
(*   eq/ne/lt/le/gt/ge l r, assign op l r (op copy, or the operator of a      *)
(*   compound assignment), arr es, call f obj args.                           *)
(* Statements: exp e, decl v e, print es, if c t f, while c t, ret e.         *)
(* An optional part is a sequence of none or one.  Widths of numbers,         *)
(* explicit types of variables and custom types are left out.                 *)
EXTENDS Integers, Sequences, TLC

SeqX == INSTANCE SequencesExt

NoType == "undefined"
IsObject(t) == t \in {"str", "arr"}               \* kTypeFlagIsObjectType
Comparisons == {"eq", "ne", "lt", "le", "gt", "ge"}
BitOperators == {"bitand", "bitor", "bitxor", "shl", "shr"}
DualOperators == {"plus", "minus", "mult", "div", "mod", "and", "or", "idx"} \cup BitOperators
SingleOperators == {"not", "neg", "bitnot"}
IsInteger(t) == t \in {"int", "bool"}
RequiresInteger(op) == op \in BitOperators \cup {"bitnot", "mod", "idx"}
\* isPromotableTo: within the types of this model numbers also become booleans.
IsPromotable(t, u) == t = u \/ (t = "int" /\ u = "bool")
\* acceptsOperator
Accepts(t, op) == CASE op = "idx" -> t = "arr"
                    [] op \in {"and", "or"} -> t \in {"int", "bool"}
                    [] OTHER -> t = "int"

(* The builder's state: scopes with their parent, level, symbols in order of  *)
(* declaration, scope actions and counter of temporaries; the symbols; the    *)
(* temporaries of each statement; the current scope, statement and function;  *)
(* the texts, the functions called and the numbers too long for an            *)
(* instruction so far, for the module;                                        *)
(* type and symbol of the last expression (_expResult).  Symbol 1 stands for  *)
(* no symbol, scope 1 is the global scope.                                    *)
Undefined == [name |-> "", scope |-> 1, type |-> NoType, flags |-> {}]
InitBuilder(funs) ==
  [scopes |-> <<[parent |-> 0, level |-> 0, table |-> <<>>, actions |-> <<>>, tmps |-> 0]>>,
   syms |-> <<Undefined>>, tmp |-> <<>>, cur |-> 1, st |-> 0, fn |-> "", funs |-> funs, texts |-> {}, called |-> {}, consts |-> <<>>,
   type |-> NoType, sym |-> 1, err |-> FALSE]

Fail(s, bad) == [s EXCEPT !.err = @ \/ bad]

BeginScope(s) ==
  [s EXCEPT !.scopes = Append(@, [parent |-> s.cur, level |-> s.scopes[s.cur].level + 1,
                                  table |-> <<>>, actions |-> <<>>, tmps |-> 0]),
            !.cur = Len(s.scopes) + 1]
EndScope(s) == [s EXCEPT !.cur = s.scopes[@].parent]

\* A statement begins to collect the temporaries of its expressions.
BeginStatement(s) == [s EXCEPT !.tmp = Append(@, <<>>), !.st = Len(s.tmp) + 1]

Declare(s, name, type, flags) ==
  [s EXCEPT !.syms = Append(@, [name |-> name, scope |-> s.cur, type |-> type, flags |-> flags]),
            !.scopes[s.cur].table = Append(@, Len(s.syms) + 1)]
Newest(s) == Len(s.syms)

\* declareTemporarySymbol and addSymbolToScope.  The name counts within the scope.
DeclareTemporary(s, type, flags) ==
  LET name == "tmp_sym@" \o ToString(s.scopes[s.cur].level) \o ":" \o ToString(s.scopes[s.cur].tmps)
      d == Declare(s, name, type, flags \cup {"temporary", "assignable"})
  IN [d EXCEPT !.scopes[s.cur].tmps = @ + 1, !.tmp[s.st] = Append(@, Newest(d))]

\* removeSymbolFromScope and eraseSymbol
Without(q, y) == SelectSeq(q, LAMBDA z : z # y)
Erase(s, y) == [s EXCEPT !.tmp[s.st] = Without(@, y), !.scopes[s.cur].table = Without(@, y)]

Mark(s, y, flag) == [s EXCEPT !.syms[y].flags = @ \cup {flag}]

Declared(s, sc, name) ==
  {y \in 1 .. Len(s.syms) : s.syms[y].name = name /\ \E i \in DOMAIN s.scopes[sc].table : s.scopes[sc].table[i] = y}

RECURSIVE resolveSymbol(_, _, _)
resolveSymbol(s, sc, name) ==
  IF sc = 0 THEN 1
  ELSE IF Declared(s, sc, name) # {} THEN CHOOSE y \in Declared(s, sc, name) : TRUE
  ELSE resolveSymbol(s, s.scopes[sc].parent, name)

\* A node whose type and symbol are set, with the builder that remembers both.
Result(n, s, t, y) == [n |-> n @@ [type |-> t, sym |-> y], s |-> [s EXCEPT !.type = t, !.sym = y]]
\* The result of an operation is a temporary of its own.
IntoTemporary(n, s, t, result, flags) ==
  LET d == DeclareTemporary(s, t, flags) IN Result(n, d, result, Newest(d))

NewObject(t) == IF IsObject(t) THEN {"newobject"} ELSE {}

RECURSIVE SymExp(_, _), SymExps(_, _)

SymExps(es, s) ==
  IF es = <<>> \/ s.err THEN [n |-> <<>>, s |-> s]
  ELSE LET h == SymExp(Head(es), s)
           t == SymExps(Tail(es), h.s)
       IN [n |-> <<h.n>> \o t.n, s |-> t.s]

\* valueFitsInByteCode, for numbers of 32 bits
Fits(n) == n \in -32768 .. 32767
\* Module::addConstant: each number once, in the order they are met.
addConstant(q, n) == IF \E i \in DOMAIN q : q[i] = n THEN q ELSE Append(q, n)
\* visit(ConstantNode): what does not fit into an instruction is registered with the module.
SymConstant(e, s) ==
  IF e.k = "int"
  THEN IntoTemporary(e, IF Fits(e.c) THEN s ELSE [s EXCEPT !.consts = addConstant(@, e.c)], "int", "int", {})
  ELSE IntoTemporary(e, [s EXCEPT !.texts = @ \cup {e.t}], "strc", "strc", {})

\* visit(StringCreateNode): a register for the text and one for the object.
SymStr(e, s) ==
  LET c == SymConstant([k |-> "const", t |-> e.t], s)
  IN IntoTemporary(e @@ [text |-> c.n], c.s, "str", "str", {"newobject"})

SymVar(e, s) ==
  LET y == resolveSymbol(s, s.cur, e.v)
  IN Result(e, Fail(s, y = 1 \/ "variable" \notin s.syms[y].flags), s.syms[y].type, y)

SymCompare(e, s) ==
  LET l == SymExp(e.l, s)
      r == SymExp(e.r, l.s)
  IN IntoTemporary([k |-> e.k, l |-> l.n, r |-> r.n], Fail(r.s, ~IsPromotable(r.s.type, l.s.type)),
                   l.s.type, "bool", {})

SymDual(e, s) ==
  LET l == SymExp(e.l, s)
      r == SymExp(e.r, Fail(l.s, ~Accepts(l.s.type, e.k)))
      t == IF e.k = "idx" THEN "int" ELSE l.s.type
      bad == \/ RequiresInteger(e.k) /\ ~IsInteger(r.s.type)
             \/ e.k # "idx" /\ ~IsPromotable(r.s.type, l.s.type)
  IN IntoTemporary([k |-> e.k, l |-> l.n, r |-> r.n], Fail(r.s, bad), t, t, NewObject(t))

SymSingle(e, s) ==
  LET x == SymExp(e.e, s)
      bad == (e.k = "neg" /\ x.s.type # "int") \/ (RequiresInteger(e.k) /\ ~IsInteger(x.s.type))
  IN IntoTemporary([k |-> e.k, e |-> x.n], Fail(x.s, bad), x.s.type, x.s.type, NewObject(x.s.type))

\* visit(ParentExpNode) sets no result of its own: only _expResult passes on.
SymParent(e, s) == LET x == SymExp(e.e, s) IN [n |-> [k |-> "par", e |-> x.n], s |-> x.s]

\* visit(AssignOperatorNode): whether the left type has the operator is never asked.
SymAssign(e, s) ==
  LET l == SymExp(e.l, s)
      r == SymExp(e.r, Fail(l.s, "assignable" \notin l.s.syms[l.s.sym].flags))
      m == Mark(Fail(r.s, ~IsPromotable(r.s.type, l.s.type)), r.s.sym, "assigned")
      onto == e.op = "copy" /\ ~IsObject(l.s.type) /\ "temporary" \in l.s.syms[l.s.sym].flags
      rn == IF onto THEN [r.n EXCEPT !.sym = l.s.sym] ELSE r.n
  IN Result([k |-> "assign", op |-> e.op, l |-> l.n, r |-> rn], IF onto THEN Erase(m, r.s.sym) ELSE m,
            l.s.type, l.s.sym)

SymArray(e, s) ==
  LET x == SymExps(e.es, s)
      bad == \E i \in DOMAIN x.n : ~IsPromotable(x.n[i].type, "int")
  IN IntoTemporary([k |-> "arr", es |-> x.n], Fail(x.s, bad), "arr", "arr", {"newobject"})

\* visit(FunctionCallNode) and visit(FunctionCallArgsNode)
SymCall(e, s) ==
  LET o == SymExps(e.obj, s)
      known == e.f \in DOMAIN s.funs
      f == IF known THEN s.funs[e.f] ELSE [self |-> "", params |-> <<>>, ret |-> "void"]
      bad == \/ ~known \/ Len(f.params) # Len(e.args)
             \/ e.obj # <<>> /\ (f.self = "" \/ ~IsPromotable(o.s.type, f.self))
      a == SymExps(e.args, Fail(o.s, bad))
      wrong == ~bad /\ \E i \in DOMAIN a.n : ~IsPromotable(a.n[i].type, f.params[i].type)
  IN IntoTemporary([k |-> "call", f |-> e.f, obj |-> o.n, args |-> a.n],
                   [Fail(a.s, wrong) EXCEPT !.called = @ \cup {e.f}],
                   f.ret, f.ret, NewObject(f.ret))

SymExp(e, s) ==
  CASE e.k \in {"int", "const"} -> SymConstant(e, s)
    [] e.k = "str" -> SymStr(e, s)
    [] e.k = "var" -> SymVar(e, s)
    [] e.k \in Comparisons -> SymCompare(e, s)
    [] e.k \in DualOperators -> SymDual(e, s)
    [] e.k \in SingleOperators -> SymSingle(e, s)
    [] e.k = "par" -> SymParent(e, s)
    [] e.k = "assign" -> SymAssign(e, s)
    [] e.k = "arr" -> SymArray(e, s)
    [] e.k = "call" -> SymCall(e, s)

\* visit(VariableDeclNode).  A number is computed straight into the variable: its
\* temporary is dropped.  An object gets a scope action that releases it.
DropsTemporary(x) == ~IsObject(x.n.type) /\ "temporary" \in x.s.syms[x.n.sym].flags
OwnedByScope(s, y) == IF IsObject(s.syms[y].type) THEN [s EXCEPT !.scopes[s.cur].actions = Append(@, y)] ELSE s
SymDecl(n, s) ==
  LET x == SymExp(n.e, Fail(s, Declared(s, s.cur, n.v) # {}))
      global == IF s.cur = 1 THEN {"global"} ELSE {}
      d == Declare(Fail(x.s, x.s.type = "void"), n.v, x.s.type, global \cup {"assignable", "variable"})
      m == Mark(d, x.s.sym, "assigned")
      e == IF DropsTemporary(x) THEN [x.n EXCEPT !.sym = Newest(d)] ELSE x.n
  IN [n |-> [k |-> "decl", v |-> n.v, e |-> e, sym |-> Newest(d)],
      s |-> OwnedByScope(IF DropsTemporary(x) THEN Erase(m, x.n.sym) ELSE m, Newest(d))]

\* visit(PrintArgsNode): a text literal is printed as the constant it is.
Printed(e) == IF e.k = "str" THEN [k |-> "const", t |-> e.t] ELSE e
SymPrint(n, s) ==
  LET x == SymExps([i \in DOMAIN n.es |-> Printed(n.es[i])], s) IN [n |-> [k |-> "print", es |-> x.n], s |-> x.s]

\* visit(ReturnNode)
SymReturn(n, s) ==
  LET want == IF s.fn = "" THEN "void" ELSE s.funs[s.fn].ret
      x == SymExps(n.e, Fail(s, s.fn = "" \/ (want = "void") # (n.e = <<>>)))
      r == IF n.e = <<>> THEN x.s ELSE Mark(Fail(x.s, ~IsPromotable(x.s.type, want)), x.s.sym, "returned")
  IN [n |-> [k |-> "ret", e |-> x.n], s |-> r]

ToBoolean(s) == Fail(s, s.type \notin {"int", "bool"})

RECURSIVE SymStatement(_, _), SymBody(_, _)

\* visit(CodeBodyNode): every statement becomes the current one.
SymBody(ns, s) ==
  IF ns = <<>> \/ s.err THEN [n |-> <<>>, s |-> s]
  ELSE LET h == SymStatement(Head(ns), BeginStatement(s))
           t == SymBody(Tail(ns), h.s)
       IN [n |-> <<h.n>> \o t.n, s |-> t.s]

\* A body in a scope of its own, or none.
SymScope(ns, s) ==
  LET b == SymBody(ns, BeginScope(s))
  IN [n |-> [scope |-> Len(s.scopes) + 1, code |-> b.n], s |-> EndScope(b.s)]

\* visit(ConditionNode): the condition is a statement that owns its temporaries.
SymCondition(n, s) ==
  LET c == IF n.c = <<>> THEN [n |-> <<>>, s |-> s] ELSE SymExps(n.c, BeginStatement(s))
      t == SymScope(n.t, IF n.c = <<>> THEN c.s ELSE ToBoolean(c.s))
      f == IF n.f = <<>> THEN [n |-> [scope |-> 0, code |-> <<>>], s |-> t.s]
           ELSE LET x == SymStatement(n.f[1], BeginScope(t.s))
                IN [n |-> [scope |-> Len(t.s.scopes) + 1, code |-> <<x.n>>], s |-> EndScope(x.s)]
  IN [n |-> [k |-> "if", c |-> c.n, cst |-> IF n.c = <<>> THEN 0 ELSE c.s.st, t |-> t.n, f |-> f.n], s |-> f.s]

\* visit(WhileLoopNode): the temporaries of the condition belong to the loop.
SymWhile(n, s) ==
  LET c == SymExps(n.c, s)
      t == SymScope(n.t, ToBoolean(c.s))
  IN [n |-> [k |-> "while", c |-> c.n, t |-> t.n], s |-> t.s]

SymStatement(n, s) ==
  LET x == CASE n.k = "exp" -> (LET e == SymExp(n.e, s) IN [n |-> [k |-> "exp", e |-> e.n], s |-> e.s])
             [] n.k = "decl" -> SymDecl(n, s)
             [] n.k = "print" -> SymPrint(n, s)
             [] n.k = "if" -> SymCondition(n, s)
             [] n.k = "while" -> SymWhile(n, s)
             [] n.k = "ret" -> SymReturn(n, s)
  IN [n |-> x.n @@ [id |-> s.st, scope |-> s.cur], s |-> x.s]

\* visit(FunctionDeclNode): self and the arguments share the scope of the code.
SymFunction(name, s) ==
  LET f == s.funs[name]
      in == [BeginScope(s) EXCEPT !.fn = name]
      ref == IF IsObject(f.self) THEN {} ELSE {"reference"}
      self == IF f.self = "" THEN in ELSE Declare(in, "self", f.self, ref \cup {"assignable", "variable"})
      Param[i \in 0 .. Len(f.params)] ==
        IF i = 0 THEN self
        ELSE Declare(Fail(Param[i - 1], Declared(Param[i - 1], in.cur, f.params[i].name) # {}),
                     f.params[i].name, f.params[i].type, {"assignable", "param", "variable"})
      b == SymBody(f.body, Param[Len(f.params)])
  IN [n |-> [scope |-> in.cur, code |-> b.n, ret |-> f.ret], s |-> [EndScope(b.s) EXCEPT !.fn = ""]]

\* process: functions first, as a program has to declare what it calls.
RECURSIVE SymFunctions(_, _)
SymFunctions(names, s) ==
  IF names = <<>> \/ s.err THEN [n |-> <<>>, s |-> s]
  ELSE LET h == SymFunction(Head(names), s)
           t == SymFunctions(Tail(names), h.s)
       IN [n |-> <<h.n>> \o t.n, s |-> t.s]
process(p) ==
  LET g == SymBody(p.globals, InitBuilder(p.funs))
      fs == SymFunctions(p.order, g.s)
      m == SymBody(p.body, fs.s)
  IN [globals |-> g.n, funs |-> fs.n, body |-> m.n, s |-> m.s]

\* Module::removeUnusedAndAssignIndices: texts, functions and globals are found by their
\* place from here on, globals apart by their size.  A native function nobody calls is left out.
IsGlobal(s, y, objects) == "global" \in s.syms[y].flags /\ IsObject(s.syms[y].type) = objects
GlobalNames(s, objects) ==
  LET ys == SelectSeq([y \in DOMAIN s.syms |-> y], LAMBDA y : IsGlobal(s, y, objects))
  IN [i \in DOMAIN ys |-> s.syms[ys[i]].name]
removeUnusedAndAssignIndices(s) ==
  s @@ [module |-> [strings |-> SeqX!SetToSeq(s.texts), constants32 |-> s.consts,
                    funs |-> SeqX!SetToSeq({f \in DOMAIN s.funs : s.funs[f].native => f \in s.called}),
                    globals |-> [g32 |-> GlobalNames(s, FALSE), ptr |-> GlobalNames(s, TRUE)]]]
IndexOf(q, x) == CHOOSE i \in DOMAIN q : q[i] = x
================================================================================
