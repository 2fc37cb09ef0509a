--------------------------------- MODULE Meaning ---------------------------------
(* What a program of SymbolTree's trees means, without registers, jumps or    *)
(* reference counts: the prints it makes.  The machine's output is compared   *)
(* with this.  Values are words of YalVm; a string or an array is its         *)
(* contents.  An environment is a sequence of scopes, the first one global.   *)
EXTENDS Integers, Sequences, SequencesExt, TLC

CONSTANTS Depth           \* bound: calls within calls before the stack is full

\* The state of a run: scopes, prints, and why it stopped ("no" while it goes on): a
\* return, an error, or a division by 0.
State(env, out) == [env |-> env, out |-> out, stop |-> "no", val |-> <<"int", 0>>, depth |-> 0]

ScopeOf(s, v) == CHOOSE i \in DOMAIN s.env : v \in DOMAIN s.env[i]
                                             /\ \A j \in i + 1 .. Len(s.env) : v \notin DOMAIN s.env[j]
Look(s, v) == s.env[ScopeOf(s, v)][v]
Bind(s, v, w) == [s EXCEPT !.env[ScopeOf(s, v)][v] = w]
New(s, v, w) == [s EXCEPT !.env[Len(s.env)] = (v :> w) @@ @]
Open(s) == [s EXCEPT !.env = Append(@, [v \in {} |-> 0])]
Close(s) == [s EXCEPT !.env = Front(@)]
Say(s, w) == [s EXCEPT !.out = Append(@, w)]
Stop(s, why) == [s EXCEPT !.stop = why]
Yields(s, w) == [s EXCEPT !.val = w]
Truth(s) == s.val[2] # 0
Bool(b) == <<"int", IF b THEN 1 ELSE 0>>

\* The number of greatest size, with the sign of the quotient, that is not beyond it.
Quotient(a, b) ==
  LET s == IF (a < 0) = (b < 0) THEN 1 ELSE -1
      m(n) == IF n < 0 THEN -n ELSE n
  IN s * CHOOSE q \in 0 .. m(a) : q * m(b) <= m(a) /\ m(a) < (q + 1) * m(b)

\* The bits that two numbers have in common, a negative one having endlessly many.
RECURSIVE Common(_, _)
Common(a, b) ==
  IF a = 0 \/ b = 0 THEN 0 ELSE IF a = -1 /\ b = -1 THEN -1
  ELSE 2 * Common(a \div 2, b \div 2) + (a % 2) * (b % 2)
Either(a, b) == a + b - Common(a, b)
BitMeaning(k, a, b) ==
  CASE k = "bitand" -> Common(a, b) [] k = "bitor" -> Either(a, b) [] k = "bitxor" -> Either(a, b) - Common(a, b)
    [] k = "shl" -> a * 2 ^ b [] k = "shr" -> a \div 2 ^ b

RECURSIVE Eval(_, _, _), EvalAll(_, _, _, _), Run(_, _, _), Loop(_, _, _)

EvalAll(es, s, F, vals) ==
  IF es = <<>> THEN [s |-> s, vals |-> vals]
  ELSE LET h == Eval(Head(es), s, F) IN EvalAll(Tail(es), h, F, Append(vals, h.val))

\* "and" and "or" need the right operand only when the left one does not decide.
EvalDual(e, s, F) ==
  LET l == Eval(e.l, s, F)
      r == Eval(e.r, l, F)
      a == l.val[2]
      b == r.val[2]
  IN IF (e.k = "and" /\ ~Truth(l)) \/ (e.k = "or" /\ Truth(l)) THEN Yields(l, Bool(Truth(l)))
     ELSE IF r.stop # "no" THEN r
     ELSE CASE e.k \in {"and", "or"} -> Yields(r, Bool(Truth(r)))
            [] e.k = "plus" -> Yields(r, <<"int", a + b>>)
            [] e.k = "minus" -> Yields(r, <<"int", a - b>>)
            [] e.k = "mult" -> Yields(r, <<"int", a * b>>)
            [] e.k \in {"div", "mod"} ->
                 IF b = 0 THEN Stop(r, "undefined")
                 ELSE Yields(r, <<"int", IF e.k = "div" THEN Quotient(a, b) ELSE a - b * Quotient(a, b)>>)
            [] e.k = "eq" -> Yields(r, Bool(a = b))
            [] e.k = "ne" -> Yields(r, Bool(a # b))
            [] e.k = "lt" -> Yields(r, Bool(a < b))
            [] e.k = "le" -> Yields(r, Bool(a <= b))
            [] e.k = "gt" -> Yields(r, Bool(a > b))
            [] e.k = "ge" -> Yields(r, Bool(a >= b))
            [] e.k \in {"shl", "shr"} /\ b \notin 0 .. 31 -> Stop(r, "undefined")
            [] e.k \in {"bitand", "bitor", "bitxor", "shl", "shr"} -> Yields(r, <<"int", BitMeaning(e.k, a, b)>>)
            [] e.k = "idx" -> IF b < Len(a) THEN Yields(r, a[b + 1]) ELSE Stop(r, "error")

\* A compound assignment is the assignment of the operation; strings have none.
EvalAssign(e, s, F) ==
  LET x == Eval(IF e.op = "copy" THEN e.r ELSE [k |-> e.op, l |-> e.l, r |-> e.r], s, F)
  IN IF e.op # "copy" /\ Look(s, e.l.v)[1] # "int" THEN Stop(s, "error")
     ELSE IF x.stop = "no" THEN Bind(x, e.l.v, x.val) ELSE x

Root(n) == <<"int", CHOOSE r \in 0 .. n : r * r <= n /\ n < (r + 1) * (r + 1)>>

\* A method works on the variable it is called on.
EvalCall(e, s, F) ==
  LET f == F[e.f]
      self == IF e.obj = <<>> THEN <<>> ELSE <<Look(s, e.obj[1].v)>>
      a == EvalAll(e.args, s, F, <<>>)
      me == IF self = <<>> THEN [v \in {} |-> 0] ELSE "self" :> self[1]
      local == [n \in {f.params[i].name : i \in DOMAIN f.params} |->
                  a.vals[CHOOSE i \in DOMAIN f.params : f.params[i].name = n]]
      in == [a.s EXCEPT !.env = <<Head(a.s.env), local @@ me>>, !.depth = @ + 1, !.val = <<"int", 0>>]
      ran == Run(f.body, in, F)
      back == [ran EXCEPT !.env = <<Head(ran.env)>> \o Tail(a.s.env), !.depth = a.s.depth,
                          !.stop = IF @ = "return" THEN "no" ELSE @]
  IN IF a.s.stop # "no" THEN a.s
     ELSE IF f.native THEN Yields(a.s, Root(a.vals[1][2]))
     ELSE IF s.depth = Depth THEN Stop(a.s, "error")
     ELSE IF self = <<>> THEN back ELSE Bind(back, e.obj[1].v, ran.env[2]["self"])

Eval(e, s, F) ==
  IF s.stop # "no" THEN s
  ELSE CASE e.k = "int" -> Yields(s, <<"int", e.c>>)
         [] e.k = "str" -> Yields(s, <<"txt", e.t>>)
         [] e.k = "var" -> Yields(s, Look(s, e.v))
         [] e.k = "par" -> Eval(e.e, s, F)
         [] e.k = "not" -> (LET x == Eval(e.e, s, F) IN Yields(x, Bool(~Truth(x))))
         [] e.k = "neg" -> (LET x == Eval(e.e, s, F) IN Yields(x, <<"int", -x.val[2]>>))
         [] e.k = "bitnot" -> (LET x == Eval(e.e, s, F) IN Yields(x, <<"int", -x.val[2] - 1>>))
         [] e.k = "assign" -> EvalAssign(e, s, F)
         [] e.k = "arr" -> (LET x == EvalAll(e.es, s, F, <<>>) IN Yields(x.s, <<"arr", x.vals>>))
         [] e.k = "call" -> EvalCall(e, s, F)
         [] OTHER -> EvalDual(e, s, F)

Loop(n, s, F) ==
  LET c == Eval(n.c[1], s, F)
  IN IF c.stop # "no" \/ ~Truth(c) THEN c
     ELSE LET b == Close(Run(n.t, Open(c), F)) IN IF b.stop # "no" THEN b ELSE Loop(n, b, F)

Branch(n, s, F) ==
  LET c == IF n.c = <<>> THEN Yields(s, Bool(TRUE)) ELSE Eval(n.c[1], s, F)
  IN IF c.stop # "no" THEN c
     ELSE IF Truth(c) THEN Close(Run(n.t, Open(c), F))
     ELSE IF n.f = <<>> THEN c ELSE Close(Run(n.f, Open(c), F))

RECURSIVE PrintEach(_, _, _)
PrintEach(es, s, F) ==
  IF s.stop # "no" THEN s
  ELSE IF es = <<>> THEN Say(s, <<"nl", 0>>)
  ELSE LET x == Eval(Head(es), s, F) IN PrintEach(Tail(es), IF x.stop = "no" THEN Say(x, x.val) ELSE x, F)

Do(n, s, F) ==
  CASE n.k = "exp" -> Eval(n.e, s, F)
    [] n.k = "decl" -> (LET x == Eval(n.e, s, F) IN IF x.stop = "no" THEN New(x, n.v, x.val) ELSE x)
    [] n.k = "print" -> PrintEach(n.es, s, F)
    [] n.k = "if" -> Branch(n, s, F)
    [] n.k = "while" -> Loop(n, s, F)
    [] n.k = "ret" -> (LET x == EvalAll(n.e, s, F, <<>>) IN IF x.s.stop = "no" THEN Stop(x.s, "return") ELSE x.s)

Run(ns, s, F) ==
  IF ns = <<>> \/ s.stop # "no" THEN s ELSE Run(Tail(ns), Do(Head(ns), s, F), F)

\* The global variables, the global code, then the calls of a function.
RECURSIVE CallEach(_, _, _, _)
CallEach(s, f, args, F) ==
  LET call == [k |-> "call", f |-> f, obj |-> <<>>, args |-> <<[k |-> "int", c |-> Head(args)]>>]
  IN IF args = <<>> THEN s ELSE CallEach(Eval(call, s, F), f, Tail(args), F)
Prints(p, f, args) ==
  LET g == Run(p.globals, State(<<[v \in {} |-> 0]>>, <<>>), p.funs)
      end == CallEach(Run(p.body, g, p.funs), f, args, p.funs)
  IN [out |-> end.out, defined |-> end.stop # "undefined"]
================================================================================
