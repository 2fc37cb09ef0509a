---------------------------- MODULE ByteCodeGenerator ----------------------------
(* ByteCodeGenerator and ByteCodeBuilder of the earlier compiler              *)
(* (src/lib/yal/bytecode/): from the annotated tree of SymbolTree to the      *)
(* instructions of the virtual machine.  Each visit of the generator is an    *)
(* operator from its state g to the next one; S is the finished symbol tree.  *)
(* An instruction is <<operation, register, value or register, register>>;    *)
(* the variants of an operation for numbers are one operation here.           *)
EXTENDS SymbolTree, RegisterAllocator

CONSTANT MaxJump          \* the limits of a 16-bit jump distance: 32767 in the code

\* A register as the generator holds it; only temporaries go back to the allocator.
Register(idx, tmp) == [idx |-> idx, tmp |-> tmp]
NoRegister == Register(Unused, FALSE)

(* The generator: code so far, allocator, stack of result registers, globals  *)
(* cached in registers, jumps of the current condition and of the open        *)
(* parentheses that still need their target.  err: an exception was thrown,   *)
(* nothing more is generated.                                                 *)
Reset == [code |-> <<>>, ra |-> reset, stack |-> <<>>, globals |-> [v \in {} |-> NoRegister],
          conds |-> <<>>, track |-> FALSE, paren |-> <<>>, err |-> FALSE]

Emit(g, op, a, b, c) == [g EXCEPT !.code = Append(@, <<op, a, b, c>>)]
Size(g) == Len(g.code)                       \* the offset of the next instruction
\* replace: the value of the instruction at an offset becomes the distance d, if it fits.
Patch(g, at, d) == [g EXCEPT !.code[at + 1][3] = d, !.err = @ \/ d >= MaxJump]

Push(g, r) == [g EXCEPT !.stack = Append(@, r)]
TopOf(g) == IF g.stack = <<>> THEN NoRegister ELSE g.stack[Len(g.stack)]
Pop(g) == IF g.stack = <<>> THEN g ELSE [g EXCEPT !.stack = SubSeq(@, 1, Len(@) - 1)]
Release(g, r) == IF r.tmp THEN [g EXCEPT !.ra = deallocateTemporary(@, r.idx)] ELSE g

KeyOf(S, y) == Key(S.syms[y].name, S.scopes[S.syms[y].scope].level)
Is(S, y, flag) == flag \in S.syms[y].flags
Allot(g, S, y) == [g EXCEPT !.ra = allocate(@, KeyOf(S, y))]
RegisterOf(g, S, y) == registerForVariable(g.ra, KeyOf(S, y))

\* getConstantIdx, getFunctionIdx and getGlobalVarIdx
ConstantIdx(S, n) == IndexOf(S.module.constants32, n)
TextIdx(S, t) == IndexOf(S.module.strings, t)
FunctionIdx(S, f) == IndexOf(S.module.funs, f)
SizeOf(S, y) == IF IsObject(S.syms[y].type) THEN "ptr" ELSE "g32"
GlobalIdx(S, y) == IndexOf(S.module.globals[SizeOf(S, y)], S.syms[y].name)
\* LoadGlobalByteCodeInst and StoreGlobalByteCodeInst: by the size of the type.
LoadInst(t) == IF IsObject(t) THEN "LOAD_GLOBAL_PTR" ELSE "LOAD_GLOBAL_32"
StoreInst(t) == IF IsObject(t) THEN "STORE_GLOBAL_PTR" ELSE "STORE_GLOBAL_32"

\* Faulty variant: globals stay cached.
FaultyClearGlobalMap(g) == g
clearGlobalMap(g) == [g EXCEPT !.globals = [v \in {} |-> NoRegister]]

\* loadVariableIntoRegister: a global is loaded once and then cached, a reference is
\* loaded into a temporary, any other variable lives in its register.
LoadGlobal(g, S, y) ==
  LET v == S.syms[y].name
      a == Allot(g, S, y)
      r == Register(RegisterOf(a, S, y), FALSE)
  IN IF v \in DOMAIN g.globals THEN Push(g, g.globals[v])
     ELSE Push([Emit(a, LoadInst(S.syms[y].type), r.idx, GlobalIdx(S, y), 0) EXCEPT !.globals = (v :> r) @@ @], r)
LoadReference(g, S, y) ==
  LET r == Register(g.ra.next, TRUE)
  IN Push([Emit(g, "LOAD_REF", r.idx, RegisterOf(g, S, y), 0) EXCEPT !.ra = allocateTemporary(@)], r)
loadVariable(g, S, y) ==
  IF Is(S, y, "global") THEN LoadGlobal(g, S, y)
  ELSE IF Is(S, y, "reference") THEN LoadReference(g, S, y)
  ELSE Push(g, Register(RegisterOf(g, S, y), FALSE))

\* releaseObject: the destructor is skipped while other references remain.
releaseObject(g, S, y, r) ==
  LET dealloc == IF S.syms[y].type = "str" THEN "STRING_DEALLOC" ELSE "ARRAY_DEALLOC"
  IN Emit(Emit(g, "OBJECT_RELEASE", r.idx, 1, 0), dealloc, r.idx, 0, 0)

\* Faulty variant: a new object gets one more owner as well.
FaultyAcquired(g, S, e, r) == IF IsObject(e.type) THEN Emit(g, "OBJECT_ACQUIRE", r.idx, 0, 0) ELSE g
\* An object that is not new gets one more owner.
Acquired(g, S, e, r) ==
  IF IsObject(e.type) /\ ~Is(S, e.sym, "newobject") THEN Emit(g, "OBJECT_ACQUIRE", r.idx, 0, 0) ELSE g

StoreGlobal(g, S, y, r) ==
  IF Is(S, y, "global") THEN Emit(g, StoreInst(S.syms[y].type), r.idx, GlobalIdx(S, y), 0) ELSE g

(* Scopes: their variables get registers on entry, the objects they own are   *)
(* released on exit, the last declared first.                                 *)
ReverseOf(q) == [i \in DOMAIN q |-> q[Len(q) + 1 - i]]
RECURSIVE AllotAll(_, _, _), Forget(_, _, _), ExitActions(_, _, _)
AllotAll(g, S, ys) ==
  IF ys = <<>> \/ g.err THEN g ELSE AllotAll(Allot(g, S, Head(ys)), S, Tail(ys))
Forget(g, S, ys) ==
  IF ys = <<>> \/ g.err THEN g ELSE Forget([g EXCEPT !.ra = deallocate(@, KeyOf(S, Head(ys)))], S, Tail(ys))
ExitActions(g, S, ys) ==
  IF ys = <<>> \/ g.err THEN g
  ELSE LET l == loadVariable(g, S, Head(ys))
       IN ExitActions(releaseObject(Pop(l), S, Head(ys), TopOf(l)), S, Tail(ys))
Variables(S, sc) == SelectSeq(S.scopes[sc].table, LAMBDA y : Is(S, y, "variable"))
onScopeExit(g, S, sc) == ExitActions(g, S, ReverseOf(S.scopes[sc].actions))
onScopeBegin(g, S, sc) == AllotAll(clearGlobalMap(g), S, Variables(S, sc))
onScopeEnd(g, S, sc) == Forget(onScopeExit(g, S, sc), S, Variables(S, sc))

\* Statements: their temporaries get registers; an object nobody took is released.
onStatementScopeBegin(g, S, id) == AllotAll(g, S, S.tmp[id])
\* Faulty variant: an object that was assigned is released as well.
FaultyUnclaimed(S, y) == IsObject(S.syms[y].type) /\ ~Is(S, y, "returned")
Unclaimed(S, y) == IsObject(S.syms[y].type) /\ ~Is(S, y, "returned") /\ ~Is(S, y, "assigned")
RECURSIVE EndTemporaries(_, _, _)
EndTemporaries(g, S, ys) ==
  IF ys = <<>> \/ g.err THEN g
  ELSE LET y == Head(ys)
           r == Register(RegisterOf(g, S, y), FALSE)
           d == IF Unclaimed(S, y) THEN releaseObject(g, S, y, r) ELSE g
       IN EndTemporaries([d EXCEPT !.ra = deallocate(@, KeyOf(S, y))], S, Tail(ys))
onStatementScopeEnd(g, S, id) == EndTemporaries(g, S, S.tmp[id])

(* Expressions: each leaves its result register on the stack, but an          *)
(* assignment only for an expression or a condition around it.  GenRoot is    *)
(* an expression with nothing of the kind around it: a statement, what is     *)
(* printed, passed or returned, an initialiser, the condition of a loop.  Who *)
(* takes the register of such an assignment takes what was left before.       *)
RECURSIVE GenExp(_, _, _), GenRoot(_, _, _)

GenConstant(e, g, S) ==
  LET l == loadVariable(g, S, e.sym)
  IN IF e.k = "int" /\ Fits(e.c) THEN Emit(l, "LOAD_VALUE", TopOf(l).idx, e.c, 0)
     ELSE IF e.k = "int" THEN Emit(l, "LOAD_CONST_32", TopOf(l).idx, ConstantIdx(S, e.c), 0)
     ELSE Emit(l, "LOAD_STRING", TopOf(l).idx, TextIdx(S, e.t), 0)

GenStr(e, g, S) == LET l == loadVariable(g, S, e.sym) IN Emit(l, "STRING_ALLOC", TopOf(l).idx, TextIdx(S, e.t), 0)

\* CompareOperatorByteCodeInst and DualOperatorByteCodeInst, for numbers of 32 bits.
Comparison(k) == [eq |-> "COMPARE_EQ", ne |-> "COMPARE_NE", lt |-> "COMPARE_LT", le |-> "COMPARE_LE",
                  gt |-> "COMPARE_GT", ge |-> "COMPARE_GE"][k]
Arithmetic(k) == [plus |-> "ADD", minus |-> "SUB", mult |-> "MULT", div |-> "DIV"][k]
BitOperation(k) == [bitand |-> "BIT_AND", bitor |-> "BIT_OR", bitxor |-> "BIT_XOR", shl |-> "SHIFTL",
                    shr |-> "SHIFTR", mod |-> "MOD", and |-> "AND", or |-> "OR", idx |-> "ARRAY_GET"][k]
IsArithmetic(k) == k \in {"plus", "minus", "mult", "div"}
Operation(k) == IF IsArithmetic(k) THEN Arithmetic(k) ELSE BitOperation(k)
\* SingeOperatorByteCodeInst
SingleOperation(k) == [neg |-> "NEG", not |-> "NOT", bitnot |-> "BIT_NOT"][k]
\* AssignOperatorByteCodeInst: other types than numbers get an instruction there is not.
AssignOperation(op, t) ==
  IF op = "copy" THEN "COPY_REGISTER" ELSE IF IsObject(t) THEN "TOTAL"
  ELSE IF IsArithmetic(op) THEN Arithmetic(op) ELSE BitOperation(op)

GenCompare(e, g, S) ==
  LET l == GenExp(e.l, g, S)
      r == GenExp(e.r, Pop(l), S)
      d == loadVariable(Pop(r), S, e.sym)
  IN Release(Release(Emit(d, Comparison(e.k), TopOf(d).idx, TopOf(l).idx, TopOf(r).idx), TopOf(l)), TopOf(r))

\* The jump over the right operand of "and" and "or": out of the parentheses, or to a
\* branch of the condition when both are known.
ShortCircuit(e, g, result, left) ==
  LET op == IF e.k = "and" THEN "JUMP_FALSE" ELSE "JUMP_TRUE"
      v == IF e.k = "and" THEN 0 ELSE 1
      set == Emit(g, "LOAD_VALUE", result.idx, v, 0)
  IN IF e.k \notin {"and", "or"} THEN g
     ELSE IF g.paren # <<>>
          THEN [Emit(set, op, left.idx, 0, 0) EXCEPT !.paren[Len(g.paren)] = Append(@, Size(set))]
     ELSE IF g.track THEN [Emit(g, op, left.idx, 0, 0) EXCEPT !.conds = Append(@, Size(g))]
     ELSE g
GenDual(e, g, S) ==
  LET d == loadVariable(g, S, e.sym)
      l == GenExp(e.l, Pop(d), S)
      r == GenExp(e.r, ShortCircuit(e, Pop(l), TopOf(d), TopOf(l)), S)
      o == Emit(Push(Pop(r), TopOf(d)), Operation(e.k), TopOf(d).idx, TopOf(l).idx, TopOf(r).idx)
  IN Release(Release(o, TopOf(l)), TopOf(r))

GenSingle(e, g, S) ==
  LET x == GenExp(e.e, g, S)
      d == loadVariable(Pop(x), S, e.sym)
  IN Emit(d, SingleOperation(e.k), TopOf(d).idx, TopOf(x).idx, 0)

RECURSIVE PatchAll(_, _, _, _)
\* Every jump at the given offsets gets its target, by the kind of jump.
PatchAll(g, offsets, onTrue, onFalse) ==
  IF offsets = <<>> \/ g.err THEN g
  ELSE LET at == Head(offsets)
           to == IF g.code[at + 1][1] = "JUMP_FALSE" THEN onFalse ELSE onTrue
       IN PatchAll(Patch(g, at, to - at - 1), Tail(offsets), onTrue, onFalse)

GenParent(e, g, S) ==
  LET x == GenExp(e.e, [g EXCEPT !.paren = Append(@, <<>>)], S)
      p == PatchAll(x, x.paren[Len(x.paren)], Size(x), Size(x))
  IN [p EXCEPT !.paren = SubSeq(@, 1, Len(@) - 1)]

\* visit(AssignOperatorNode): the old object is released before the new one is acquired.
AssignInto(g, e, l, r) ==
  IF e.op # "copy" THEN Emit(g, AssignOperation(e.op, e.l.type), l.idx, l.idx, r.idx)
  ELSE IF e.l.sym = e.r.sym THEN g ELSE Emit(g, "COPY_REGISTER", l.idx, r.idx, 0)
GenAssign(e, g, S, nested) ==
  LET l == GenExp(e.l, g, S)
      r == GenExp(e.r, Pop(l), S)
      left == TopOf(l)
      right == TopOf(r)
      old == IF IsObject(e.l.type) THEN releaseObject(Pop(r), S, e.l.sym, left) ELSE Pop(r)
      c == AssignInto(Acquired(old, S, e.r, right), e, left, right)
      s == IF Is(S, e.l.sym, "reference") THEN Emit(c, "STORE_REF", RegisterOf(c, S, e.l.sym), left.idx, 0)
           ELSE StoreGlobal(c, S, e.l.sym, left)
  IN Release(IF nested THEN Push(s, left) ELSE Release(s, left), right)

RECURSIVE PutAll(_, _, _, _)
PutAll(es, g, S, d) ==
  IF es = <<>> \/ g.err THEN g
  ELSE LET x == GenExp(Head(es), g, S) IN PutAll(Tail(es), Emit(Pop(x), "ARRAY_PUT", d.idx, TopOf(x).idx, 0), S, d)
\* visit(ArrayCtrNode): the temporary with the length is given back before it is read.
GenArray(e, g, S) ==
  LET l == loadVariable(g, S, e.sym)
      d == TopOf(l)
      t == l.ra.next
      n == Emit(Pop(l), "LOAD_VALUE", t, Len(e.es), 0)
      sized == [n EXCEPT !.ra = deallocateTemporary(allocateTemporary(@), t)]
  IN IF e.es = <<>> THEN Push(Emit(Pop(l), "ARRAY_ALLOC", d.idx, Unused, 0), d)
     ELSE Push(PutAll(e.es, Emit(sized, "ARRAY_ALLOC", d.idx, t, 0), S, d), d)

RECURSIVE PushArgs(_, _, _)
PushArgs(es, g, S) ==
  IF es = <<>> \/ g.err THEN g
  ELSE LET x == GenRoot(Head(es), g, S)
       IN PushArgs(Tail(es), Release(Emit(Pop(x), "PUSH_ARG", TopOf(x).idx, 0, 0), TopOf(x)), S)
\* visit(FunctionCallNode): the frame is opened before the arguments are computed.  A
\* global the method was called on is stored back, as the method may have changed it.
GenCall(e, g, S) ==
  LET f == Register(g.ra.next, TRUE)
      begun == [Emit(g, "LOAD_FUNCTION", f.idx, FunctionIdx(S, e.f), 0) EXCEPT !.ra = allocateTemporary(@)]
      o == IF e.obj = <<>> THEN begun ELSE GenExp(e.obj[1], begun, S)
      how == IF e.obj # <<>> /\ IsObject(e.obj[1].type) THEN "PUSH_ARG" ELSE "PUSH_REF"
      self == IF e.obj = <<>> THEN o ELSE Emit(Pop(o), how, TopOf(o).idx, 0, 0)
      a == PushArgs(e.args, self, S)
      ret == S.funs[e.f].ret # "void"
      d == IF ret THEN loadVariable(a, S, e.sym) ELSE a
      call == IF S.funs[e.f].native THEN "CALL_NATIVE" ELSE "CALL"
      c == Release(Emit(d, call, f.idx, IF ret THEN TopOf(d).idx ELSE Unused, 0), f)
  IN clearGlobalMap(IF e.obj = <<>> THEN c ELSE StoreGlobal(c, S, e.obj[1].sym, TopOf(o)))

GenExp(e, g, S) ==
  CASE e.k \in {"int", "const"} -> GenConstant(e, g, S)
    [] e.k = "str" -> GenStr(e, g, S)
    [] e.k = "var" -> loadVariable(g, S, e.sym)
    [] e.k \in Comparisons -> GenCompare(e, g, S)
    [] e.k \in DualOperators -> GenDual(e, g, S)
    [] e.k \in SingleOperators -> GenSingle(e, g, S)
    [] e.k = "par" -> GenParent(e, g, S)
    [] e.k = "assign" -> GenAssign(e, g, S, TRUE)
    [] e.k = "arr" -> GenArray(e, g, S)
    [] e.k = "call" -> GenCall(e, g, S)

GenRoot(e, g, S) == IF e.k = "assign" THEN GenAssign(e, g, S, FALSE) ELSE GenExp(e, g, S)

(* Statements.                                                                *)
RECURSIVE GenStatement(_, _, _), GenBody(_, _, _)

GenBody(ns, g, S) ==
  IF ns = <<>> \/ g.err THEN g
  ELSE LET b == GenStatement(Head(ns), onStatementScopeBegin(g, S, Head(ns).id), S)
       IN GenBody(Tail(ns), onStatementScopeEnd(b, S, Head(ns).id), S)

GenScope(b, g, S) == onScopeEnd(GenBody(b.code, onScopeBegin(g, S, b.scope), S), S, b.scope)

GenDecl(n, g, S) ==
  LET v == loadVariable(g, S, n.sym)
      x == GenRoot(n.e, Pop(v), S)
      a == Acquired(Pop(x), S, n.e, TopOf(x))
      c == IF n.e.sym = n.sym THEN a ELSE Emit(a, "COPY_REGISTER", TopOf(v).idx, TopOf(x).idx, 0)
  IN Release(Release(StoreGlobal(c, S, n.sym, TopOf(v)), TopOf(v)), TopOf(x))

PrintInst(t) == CASE t = "str" -> "PRINT_STR_OBJECT" [] t = "strc" -> "PRINT_STR_CONSTANT" [] OTHER -> "PRINT_I"
RECURSIVE PrintAll(_, _, _)
PrintAll(es, g, S) ==
  IF g.err THEN g
  ELSE IF es = <<>> THEN Emit(g, "PRINT_NL", 0, 0, 0)
  ELSE LET x == GenRoot(Head(es), g, S)
       IN PrintAll(Tail(es), Release(Emit(Pop(x), PrintInst(Head(es).type), TopOf(x).idx, 0, 0), TopOf(x)), S)

\* visit(ReturnNode): only the innermost scope releases what it owns.
GenReturn(n, g, S) ==
  LET x == IF n.e = <<>> THEN g ELSE GenRoot(n.e[1], g, S)
      r == TopOf(x)
      a == IF n.e = <<>> THEN g ELSE Acquired(Release(Pop(x), r), S, n.e[1], r)
  IN Emit(onScopeExit(a, S, n.scope), "RETURN", IF n.e = <<>> THEN Unused ELSE r.idx, 0, 0)

\* visit(ConditionNode), the condition and its branches; the last one is an "else".
GenTest(n, g, S) ==
  LET c == GenExp(n.c[1], onStatementScopeBegin([g EXCEPT !.track = TRUE], S, n.cst), S)
      e == [onStatementScopeEnd(c, S, n.cst) EXCEPT !.track = FALSE]
  IN Release(Emit(Pop(e), "JUMP_FALSE", TopOf(e).idx, 1, 0), TopOf(e))
GenElse(n, g, S) ==
  LET j == Emit(g, "JUMP", 0, 0, 0)
      b == onScopeEnd(GenStatement(n.f.code[1], onScopeBegin(j, S, n.f.scope), S), S, n.f.scope)
  IN Patch(b, Size(g), Size(b) - 1 - Size(g))
GenCondition(n, g, S) ==
  LET c == IF n.c = <<>> THEN g ELSE GenTest(n, g, S)
      t == GenScope(n.t, c, S)
      else == n.f.code # <<>>
      p == IF n.c = <<>> THEN t ELSE Patch(t, Size(c) - 1, Size(t) - (IF else THEN 0 ELSE 1) - (Size(c) - 1))
      f == IF else THEN GenElse(n, p, S) ELSE p
      h == IF n.c = <<>> THEN f
           ELSE [PatchAll(f, f.conds, Size(c), IF else THEN Size(p) + 1 ELSE Size(p)) EXCEPT !.conds = <<>>]
  IN clearGlobalMap(h)

\* Faulty variant: the start of the loop is taken behind its body.
FaultyGenWhile(n, g, S) ==
  LET c == GenRoot(n.c[1], g, S)
      j == Release(Emit(Pop(c), "JUMP_FALSE", TopOf(c).idx, 1, 0), TopOf(c))
      b == GenScope(n.t, j, S)
      l == Emit(b, "JUMP", 0, Size(b) - (Size(b) + 1), 0)
  IN Patch(l, Size(j) - 1, Size(b) - (Size(j) - 1))
\* visit(WhileLoopNode): the globals cached in the body stay cached behind the loop.
GenWhile(n, g, S) ==
  LET c == GenRoot(n.c[1], g, S)
      j == Release(Emit(Pop(c), "JUMP_FALSE", TopOf(c).idx, 1, 0), TopOf(c))
      b == GenScope(n.t, j, S)
      l == Emit(b, "JUMP", 0, Size(g) - (Size(b) + 1), 0)
  IN Patch(l, Size(j) - 1, Size(b) - (Size(j) - 1))

GenStatement(n, g, S) ==
  CASE n.k = "exp" -> GenRoot(n.e, g, S)
    [] n.k = "decl" -> GenDecl(n, g, S)
    [] n.k = "print" -> PrintAll(n.es, g, S)
    [] n.k = "if" -> GenCondition(n, g, S)
    [] n.k = "while" -> GenWhile(n, g, S)
    [] n.k = "ret" -> GenReturn(n, g, S)

\* setupFunction: self and the arguments get the first registers, in order.
Arguments(S, sc) == SelectSeq(Variables(S, sc), LAMBDA y : Is(S, y, "param") \/ S.syms[y].name = "self")
generateFunction(f, S) ==
  LET g == GenScope([scope |-> f.scope, code |-> f.code], AllotAll(Reset, S, Arguments(S, f.scope)), S)
  IN IF f.ret # "void" THEN Emit(g, "HALT", 0, 0, 0) ELSE Emit(g, "RETURN", Unused, 0, 0)

(* ByteCodeBuilder::writeModuleInfo: declarations of globals go to the static *)
(* code, other statements of the program to the global function, the last     *)
(* one.  Native functions have no code.                                       *)
Halted(g) == IF g.code = <<>> THEN g ELSE Emit(g, "HALT", 0, 0, 0)
Block(g) == [code |-> Halted(g).code, n |-> maxRegisterCount(g.ra)]
NArgs(f) == Len(f.params) + (IF f.self = "" THEN 0 ELSE 1)

FunctionInfo(T, name) ==
  LET f == T.s.funs[name]
      g == generateFunction(T.funs[IndexOf(T.order, name)], T.s)
  IN [name |-> name, args |-> NArgs(f), native |-> f.native, err |-> ~f.native /\ g.err,
      code |-> IF f.native THEN <<>> ELSE g.code,
      n |-> IF f.native THEN Len(f.params) ELSE maxRegisterCount(g.ra)]
writeModuleInfo(T) ==
  LET names == T.s.module.funs
      main == GenBody(T.body, Reset, T.s)
      \* The registers of a global function without code are not counted.
      global == [name |-> "main", args |-> 0, native |-> FALSE, err |-> main.err, code |-> Halted(main).code,
                 n |-> IF main.code = <<>> THEN 0 ELSE maxRegisterCount(main.ra)]
  IN [strings |-> T.s.module.strings, constants32 |-> T.s.module.constants32,
      globals |-> [g32 |-> Len(T.s.module.globals.g32), ptr |-> Len(T.s.module.globals.ptr)],
      init |-> Block(GenBody(T.globals, Reset, T.s)), dtor |-> Block(onScopeExit(Reset, T.s, 1)),
      funs |-> Append([i \in DOMAIN names |-> FunctionInfo(T, names[i])], global)]

\* Compiler::compile, from the tree to the module that is written; an exception of either
\* pass leaves nothing to write.
NotCompiled == [ok |-> FALSE]
Compile(p) ==
  LET T == process(p)
      m == writeModuleInfo([T EXCEPT !.s = removeUnusedAndAssignIndices(@)] @@ [order |-> p.order])
  IN IF T.s.err \/ \E i \in DOMAIN m.funs : m.funs[i].err THEN NotCompiled ELSE [ok |-> TRUE] @@ m
================================================================================
