---------------------------------- MODULE YalVm ----------------------------------
(* The virtual machine of the earlier compiler (src/lib/yalvm/): a context    *)
(* with a stack of frames in one block of memory, reference counted objects,  *)
(* and the program that uses it as src/src/yale/main.cpp and the execution    *)
(* tests do: create, acquire, push, execute, release, destroy.                *)
(*                                                                            *)
(* A word of memory is a kind and a value; a number also has an upper half,   *)
(* which is clear or not: the registers are 64 bits wide, and most operations *)
(* on numbers leave the upper half as it was.  An address has bits in both    *)
(* halves.  The record in front of a frame takes one word.  The address of a  *)
(* text is the text, that of a function its place in the file.  Address 0 is  *)
(* NULL, pc 0 too.  Where the C code would read a word as what it is not,     *)
(* leave its memory or touch a freed object, its behaviour is undefined and   *)
(* the model stops in phase "undefined".                                      *)
EXTENDS Integers, Sequences

FS == INSTANCE FiniteSetsExt

CONSTANTS Programs,       \* indices of the programs to run
          Binary(_),      \* a program, compiled
          Calls,          \* the functions to call one after the other, with arguments
          StackWords      \* words of stack memory

ASSUME StackAssumption == StackWords \in Nat

VARIABLES prog,           \* index of the program
          bin,            \* the program once it is loaded
          mem,            \* the stack's memory, and the handle's return register
          base, top,      \* stack_frame_base, stack_frame_top
          pc, registers,  \* of the context
          heap,           \* the objects created so far
          globals, out,   \* values of globals; what has been printed
          phase, calls,   \* what the caller is at, and what it has left to do
          errors          \* what executions have returned other than success

stack == <<mem, base, top>>
data == <<heap, globals, out>>
driver == <<bin, phase, calls, errors>>
vars == <<prog, stack, pc, registers, data, driver>>

Start == 1
End == StackWords + 1
Handle == StackWords + 1  \* func_hdl.return_register, outside the stack
NoRegisterIndex == 255    \* 0xFF

Num(n) == <<"int", n, FALSE>>
Session(b, p, r) == <<"session", b, p, r>>
Text == bin.text
Executing == phase \in {"init", "call", "dtor"}

Init ==
  /\ prog \in Programs
  /\ mem = [a \in Start .. Handle |-> <<"garbage", 0>>]
  /\ base = 0 /\ top = 0 /\ pc = 0 /\ registers = 0
  /\ heap = <<>> /\ globals = <<>> /\ out = <<>>
  /\ bin = <<>> /\ phase = "file" /\ calls = Calls /\ errors = {}

\* The globals lie in the memory the caller provides, which nobody clears.
Fresh(counts) == [c \in DOMAIN counts |-> [i \in 1 .. counts[c] |-> <<"garbage", 0>>]]
LoadBinary ==
  /\ phase = "file" /\ bin' = Binary(prog)
  /\ IF bin'.loaded THEN phase' = "new" /\ globals' = Fresh(bin'.globals)
     ELSE phase' = "failed" /\ UNCHANGED globals
  /\ UNCHANGED <<prog, stack, pc, registers, heap, out, calls, errors>>

(* yalvm_stack.c *)
FrameAt == IF base = 0 THEN Start ELSE top
HasRoom(n) == FrameAt + 1 + n < End
\* yalvm_stack_frame_begin: the record goes where the last frame ends, registers are 0.
Opened(n) ==
  [a \in DOMAIN mem |-> IF a = FrameAt THEN Session(base, 0, 0)
                        ELSE IF a \in FrameAt + 1 .. FrameAt + n THEN Num(0) ELSE mem[a]]
frame_begin(n) == mem' = Opened(n) /\ base' = FrameAt + 1 /\ top' = FrameAt + 1

\* yalvm_stack_function_begin
Entered(m, b, back, ret) == [m EXCEPT ![b - 1] = Session(@[2], back, ret)]
function_begin(n, back, ret) ==
  mem' = Entered(mem, base, back, ret) /\ base' = base /\ top' = base + n

\* yalvm_stack_frame_end: the place and the result go by the record of the frame.
IsFirst == base - 1 <= Start
\* Faulty variant: the frame below grows by the record of the one that is left.
FaultyFrameEnd ==
  /\ base' = IF IsFirst THEN 0 ELSE mem[base - 1][2]
  /\ top' = IF IsFirst THEN 0 ELSE base
frame_end ==
  /\ base' = IF IsFirst THEN 0 ELSE mem[base - 1][2]
  /\ top' = IF IsFirst THEN 0 ELSE base - 1
ReturnPlace == IF IsFirst THEN 0 ELSE mem[base - 1][3]

(* yalvm_ctx.c: globals_run, for the initialisation and the destruction.      *)
RunStatic(code, during, after) ==
  /\ IF code.start = 0
     THEN phase' = after /\ UNCHANGED <<stack, pc, registers>>
     ELSE IF ~HasRoom(code.n)
          THEN phase' = "failed" /\ UNCHANGED <<stack, pc, registers>>
          ELSE /\ mem' = Opened(code.n) /\ base' = FrameAt + 1 /\ top' = FrameAt + 1 + code.n
               /\ pc' = code.start /\ registers' = FrameAt + 1
               /\ phase' = during
  /\ UNCHANGED <<prog, bin, data, calls, errors>>

CreateContext == phase = "new" /\ RunStatic(bin.init, "init", "ready")
DestroyContext == phase = "ready" /\ calls = <<>> /\ RunStatic(bin.dtor, "dtor", "destroyed")

\* yalvm_ctx_acquire_function: the frame is opened for the arguments that follow.
Wanted == calls[1]
\* The function of that name, the last one of the file that has it.
Found(f) == f \in {bin.funs[i].name : i \in DOMAIN bin.funs}
Named(f) == bin.funs[CHOOSE i \in DOMAIN bin.funs :
                       bin.funs[i].name = f /\ \A j \in i + 1 .. Len(bin.funs) : bin.funs[j].name # f]
Acquirable == Found(Wanted.f) /\ Named(Wanted.f).start # 0 /\ HasRoom(Named(Wanted.f).n)
AcquireFunction ==
  /\ phase = "ready" /\ calls # <<>> /\ Acquirable
  /\ frame_begin(Named(Wanted.f).n)
  /\ registers' = FrameAt + 1 /\ phase' = "acquired"
  /\ UNCHANGED <<prog, bin, pc, data, calls, errors>>
RefuseFunction ==
  /\ phase = "ready" /\ calls # <<>> /\ ~Acquirable
  /\ calls' = Tail(calls)
  /\ UNCHANGED <<prog, stack, pc, registers, data, bin, phase, errors>>

\* yalvm_func_hdl_push_arg.  Callers set the lower half of the register they pass.
PushArg ==
  /\ phase = "acquired" /\ Wanted.args # <<>>
  /\ \E upper \in BOOLEAN : mem' = [mem EXCEPT ![top] = <<"int", Head(Wanted.args), upper>>]
  /\ top' = top + 1
  /\ calls' = [calls EXCEPT ![1].args = Tail(@)]
  /\ UNCHANGED <<prog, base, pc, registers, data, bin, phase, errors>>

\* yalvm_func_hdl_execute
Execute ==
  /\ phase = "acquired" /\ Wanted.args = <<>>
  /\ function_begin(Named(Wanted.f).n, 0, Handle)
  /\ pc' = Named(Wanted.f).start /\ phase' = "call"
  /\ UNCHANGED <<prog, bin, registers, data, calls, errors>>

\* yalvm_ctx_release_function: one frame is popped, unless none is left.
ReleaseFunction ==
  /\ phase = "stopped"
  /\ IF base = 0 THEN UNCHANGED <<base, top, pc>> ELSE frame_end /\ pc' = ReturnPlace
  /\ phase' = "ready" /\ calls' = Tail(calls)
  /\ UNCHANGED <<prog, bin, mem, registers, data, errors>>

\* yalvm_ctx_execute returns e; globals_run then pops its frame.
StopWith(e) ==
  /\ errors' = errors \cup ({e} \ {"none"})
  /\ IF phase = "call" THEN phase' = "stopped" /\ UNCHANGED <<base, top, pc, registers>>
     ELSE /\ frame_end /\ pc' = 0 /\ registers' = 0
          /\ phase' = IF e # "none" THEN "failed" ELSE IF phase = "init" THEN "ready" ELSE "destroyed"
  /\ UNCHANGED <<prog, bin, mem, data, calls>>

(* The instructions. *)
Inst == Text[pc]
R(r) == mem[registers + r]
Number(r) == R(r)[2]
Upper(w) == IF w[1] = "int" THEN w[3] ELSE TRUE
Object(r) == heap[R(r)[2]]
InStack(r) == registers + r \in Start .. StackWords

Holds(r, kind) == InStack(r) /\ R(r)[1] = kind
IsNumber(r) == Holds(r, "int")
IsLive(r) == Holds(r, "obj") /\ Object(r).kind # "freed"
\* The bits of a word of 32 bits, and the word of given bits.
Bits(n) == [i \in 0 .. 31 |-> IF i = 31 THEN n < 0 ELSE (n \div 2 ^ i) % 2 = 1]
Word(bits) == FS!MapThenSumSet(LAMBDA i : IF i = 31 THEN -(2 ^ 30) - 2 ^ 30 ELSE 2 ^ i, {i \in 0 .. 31 : bits[i]})
\* yalvm_array_base_grow
Grown(a) ==
  LET capacity == IF a.capacity = 0 THEN 8 ELSE 2 * a.capacity
  IN IF Len(a.val) + 1 >= a.capacity THEN [a EXCEPT !.capacity = capacity, !.room = capacity] ELSE a
Divisions == {"DIV", "MOD"}
Shifts == {"SHIFTL", "SHIFTR"}
BitInstructions == {"BIT_AND", "BIT_OR", "BIT_XOR"}
Comparisons == {"COMPARE_EQ", "COMPARE_NE", "COMPARE_LT", "COMPARE_LE", "COMPARE_GT", "COMPARE_GE"}
\* What the instruction reads is what it takes it for, and its results have a place.
Defined ==
  LET a == Inst[2] b == Inst[3] c == Inst[4]
  IN CASE Inst[1] \in Divisions -> InStack(a) /\ IsNumber(b) /\ IsNumber(c) /\ Number(c) # 0
       [] Inst[1] \in Shifts -> InStack(a) /\ IsNumber(b) /\ IsNumber(c) /\ Number(c) \in 0 .. 31
       [] Inst[1] \in {"ADD", "SUB", "MULT", "AND", "OR"} \cup BitInstructions \cup Comparisons ->
            InStack(a) /\ IsNumber(b) /\ IsNumber(c)
       [] Inst[1] \in {"NEG", "BIT_NOT"} -> InStack(a) /\ IsNumber(b)
       [] Inst[1] \in {"JUMP_TRUE", "JUMP_FALSE", "PRINT_I"} -> IsNumber(a)
       [] Inst[1] = "COPY_REGISTER" -> InStack(a) /\ InStack(b)
       [] Inst[1] \in {"OBJECT_ACQUIRE", "OBJECT_RELEASE", "STRING_DEALLOC", "ARRAY_DEALLOC", "PRINT_STR_OBJECT"} -> IsLive(a)
       [] Inst[1] = "PRINT_STR_CONSTANT" -> Holds(a, "txt")
       [] Inst[1] = "ARRAY_ALLOC" -> InStack(a) /\ (b # NoRegisterIndex => IsNumber(b))
       [] Inst[1] = "ARRAY_PUT" -> IsLive(a) /\ IsNumber(b) /\ Len(Object(a).val) < Grown(Object(a)).room
       [] Inst[1] = "ARRAY_GET" -> InStack(a) /\ IsLive(b) /\ IsNumber(c)
       [] Inst[1] = "LOAD_REF" -> InStack(a) /\ Holds(b, "ref")
       [] Inst[1] = "STORE_REF" -> Holds(a, "ref") /\ InStack(b)
       [] Inst[1] \in {"CALL", "CALL_NATIVE"} -> Holds(a, "fun") /\ (b # NoRegisterIndex => InStack(b))
       [] Inst[1] \in {"PUSH_ARG", "PUSH_REF"} -> InStack(a) /\ top < Handle
       [] Inst[1] = "RETURN" -> a # NoRegisterIndex => InStack(a) /\ mem[base - 1][4] # 0
       [] Inst[1] \in {"JUMP", "HALT", "PRINT_NL", "TOTAL"} -> TRUE
       [] OTHER -> InStack(a)

Fetched(ops) == Executing /\ pc \in DOMAIN Text /\ Inst[1] \in ops /\ Defined
Undefined == Executing /\ pc \in DOMAIN Text /\ ~Defined /\ phase' = "undefined"
             /\ UNCHANGED <<prog, stack, pc, registers, data, bin, calls, errors>>

\* An instruction that only computes a register, or only an object, or prints.
Sets(r, w) == mem' = [mem EXCEPT ![registers + r] = w] /\ pc' = pc + 1
              /\ UNCHANGED <<prog, base, top, registers, driver>>
Goes(to) == pc' = to /\ UNCHANGED <<prog, stack, registers, driver>>

\* The lower half of the register changes, or both do.
Half(n) == <<"int", n, Upper(R(Inst[2]))>>
Bit(b) == IF b THEN 1 ELSE 0
\* Jumps look at the lower half of a register, the logical operations at both.
Truth(r) == Number(r) # 0
Whole(w) == Upper(w) \/ w[2] # 0
Magnitude(n) == IF n < 0 THEN -n ELSE n
\* Division rounds towards 0, as C does.
Quotient(l, r) ==
  IF (l < 0) = (r < 0) THEN Magnitude(l) \div Magnitude(r) ELSE -(Magnitude(l) \div Magnitude(r))
Orders(op, l, r) ==
  CASE op = "COMPARE_LT" -> l < r [] op = "COMPARE_LE" -> l <= r
    [] op = "COMPARE_GT" -> l > r [] op = "COMPARE_GE" -> l >= r
Equates(op, l, r) == (l = r) = (op = "COMPARE_EQ")
Calculated(op, l, r) ==
  CASE op = "ADD" -> l + r [] op = "SUB" -> l - r [] op = "MULT" -> l * r [] op = "DIV" -> Quotient(l, r)
Modulo(l, r) == l - r * Quotient(l, r)
Opposite(n) == -n
\* Bit by bit.  Shifts are those of unsigned numbers, 0 comes in on either side.
Bitwise(op, x, y) ==
  [i \in 0 .. 31 |-> CASE op = "BIT_AND" -> x[i] /\ y[i] [] op = "BIT_OR" -> x[i] \/ y[i] [] op = "BIT_XOR" -> x[i] # y[i]]
BitNot(x) == [i \in 0 .. 31 |-> ~x[i]]
ShiftedLeft(x, n) == [i \in 0 .. 31 |-> i >= n /\ x[i - n]]
ShiftedRight(x, n) == [i \in 0 .. 31 |-> i + n <= 31 /\ x[i + n]]
\* NOT negates the register of its result and never reads its operand.
Logical(op) ==
  CASE op = "AND" -> Whole(R(Inst[3])) /\ Whole(R(Inst[4]))
    [] op = "OR" -> Whole(R(Inst[3])) \/ Whole(R(Inst[4]))
    [] op = "NOT" -> ~Whole(R(Inst[2]))
Computed ==
  LET l == Number(Inst[3])
      r == Number(Inst[4])
  IN CASE Inst[1] \in {"ADD", "SUB", "MULT", "DIV"} -> Half(Calculated(Inst[1], l, r))
       [] Inst[1] = "MOD" -> Half(Modulo(l, r))
       [] Inst[1] = "NEG" -> Half(Opposite(l))
       [] Inst[1] \in BitInstructions -> Half(Word(Bitwise(Inst[1], Bits(l), Bits(r))))
       [] Inst[1] = "BIT_NOT" -> Half(Word(BitNot(Bits(l))))
       [] Inst[1] = "SHIFTL" -> Half(Word(ShiftedLeft(Bits(l), r)))
       [] Inst[1] = "SHIFTR" -> Half(Word(ShiftedRight(Bits(l), r)))
       [] Inst[1] \in {"COMPARE_EQ", "COMPARE_NE"} -> Half(Bit(Equates(Inst[1], l, r)))
       [] Inst[1] \in Comparisons -> Half(Bit(Orders(Inst[1], l, r)))
       [] OTHER -> Num(Bit(Logical(Inst[1])))

\* A global number is loaded by half, a pointer as a whole.
Loaded(w) == IF Inst[1] = "LOAD_GLOBAL_32" THEN Half(w[2]) ELSE w
GlobalKind == IF Inst[1] \in {"LOAD_GLOBAL_32", "STORE_GLOBAL_32"} THEN "g32" ELSE "ptr"

LoadConstant == Fetched({"LOAD_CONST_32"}) /\ Sets(Inst[2], Half(bin.constants32[Inst[3]])) /\ UNCHANGED data
Load ==
  \/ Fetched({"LOAD_VALUE"}) /\ Sets(Inst[2], Num(Inst[3])) /\ UNCHANGED data
  \/ Fetched({"LOAD_STRING"}) /\ Sets(Inst[2], <<"txt", bin.strings[Inst[3]]>>) /\ UNCHANGED data
  \/ Fetched({"LOAD_GLOBAL_32", "LOAD_GLOBAL_PTR"})
     /\ Sets(Inst[2], Loaded(globals[GlobalKind][Inst[3]])) /\ UNCHANGED data
  \/ Fetched({"COPY_REGISTER"}) /\ Sets(Inst[2], R(Inst[3])) /\ UNCHANGED data
  \/ Fetched({"LOAD_REF"}) /\ Sets(Inst[2], mem[Number(Inst[3])]) /\ UNCHANGED data
Store ==
  \/ /\ Fetched({"STORE_GLOBAL_32", "STORE_GLOBAL_PTR"}) /\ Goes(pc + 1)
     /\ globals' = [globals EXCEPT ![GlobalKind][Inst[3]] = R(Inst[2])] /\ UNCHANGED <<heap, out>>
  \/ /\ Fetched({"STORE_REF"}) /\ pc' = pc + 1 /\ mem' = [mem EXCEPT ![Number(Inst[2])] = R(Inst[3])]
     /\ UNCHANGED <<prog, base, top, registers, data, driver>>
Calculate ==
  /\ Fetched({"ADD", "SUB", "MULT", "NEG", "AND", "OR", "NOT", "BIT_NOT"}
             \cup Divisions \cup Comparisons \cup BitInstructions \cup Shifts)
  /\ Sets(Inst[2], Computed) /\ UNCHANGED data

\* A jump counts from the instruction behind it.
Jump == /\ Fetched({"JUMP", "JUMP_TRUE", "JUMP_FALSE"})
        /\ Goes(pc + 1 + IF Inst[1] = "JUMP" \/ Truth(Inst[2]) = (Inst[1] = "JUMP_TRUE") THEN Inst[3] ELSE 0)
        /\ UNCHANGED data

LoadFunction ==
  /\ Fetched({"LOAD_FUNCTION"}) /\ HasRoom(bin.funs[Inst[3]].n)
  /\ mem' = [Opened(bin.funs[Inst[3]].n) EXCEPT ![registers + Inst[2]] = <<"fun", Inst[3]>>]
  /\ base' = FrameAt + 1 /\ top' = FrameAt + 1 /\ pc' = pc + 1
  /\ UNCHANGED <<prog, registers, data, driver>>
StackOverflow == Fetched({"LOAD_FUNCTION"}) /\ ~HasRoom(bin.funs[Inst[3]].n) /\ StopWith("stack overflow")

\* yalvm_stack_push and yalvm_stack_push_ref
Pushed == IF Inst[1] = "PUSH_ARG" THEN R(Inst[2]) ELSE <<"ref", registers + Inst[2]>>
Push ==
  /\ Fetched({"PUSH_ARG", "PUSH_REF"})
  /\ mem' = [mem EXCEPT ![top] = Pushed]
  /\ top' = top + 1 /\ pc' = pc + 1
  /\ UNCHANGED <<prog, base, registers, data, driver>>

\* Faulty variant: the register is counted in the frame of the callee.
FaultyReturnRegister(r) == IF r = NoRegisterIndex THEN 0 ELSE base + r
ReturnRegister(r) == IF r = NoRegisterIndex THEN 0 ELSE registers + r
Call ==
  LET f == bin.funs[Number(Inst[2])]
  IN /\ Fetched({"CALL"})
     /\ function_begin(f.n, pc + 1, ReturnRegister(Inst[3]))
     /\ pc' = f.start /\ registers' = base
     /\ UNCHANGED <<prog, data, driver>>
\* The frame lasts for the call only; the registers of the caller stay.
NativeResult(n) == CHOOSE r \in 0 .. n : r * r <= n /\ n < (r + 1) * (r + 1)
CallNative ==
  /\ Fetched({"CALL_NATIVE"})
  /\ mem' = [Entered(mem, base, pc + 1, ReturnRegister(Inst[3])) EXCEPT
               ![ReturnRegister(Inst[3])] = <<"int", NativeResult(mem[base][2]), Upper(@)>>]
  /\ frame_end /\ pc' = pc + 1
  /\ UNCHANGED <<prog, registers, data, driver>>
\* The registers become those of the frame below, also when that one is not entered.
Return ==
  /\ Fetched({"RETURN"})
  /\ mem' = IF Inst[2] = NoRegisterIndex THEN mem ELSE [mem EXCEPT ![mem[base - 1][4]] = R(Inst[2])]
  /\ frame_end /\ pc' = ReturnPlace /\ registers' = base'
  /\ UNCHANGED <<prog, data, driver>>

Printed == CASE Inst[1] = "PRINT_NL" -> <<"nl", 0>>
             [] Inst[1] = "PRINT_STR_OBJECT" -> <<"txt", Object(Inst[2]).val>>
             [] OTHER -> <<R(Inst[2])[1], R(Inst[2])[2]>>
PrintValue ==
  /\ Fetched({"PRINT_I", "PRINT_STR_CONSTANT", "PRINT_STR_OBJECT", "PRINT_NL"})
  /\ out' = Append(out, Printed) /\ Goes(pc + 1) /\ UNCHANGED <<heap, globals>>

\* An array: its elements, the capacity it believes it has and the elements there is
\* memory for.  yalvm_array_base_init takes the bytes of the first for the capacity.
NumberBytes == 4
array_init(a, n) == [a EXCEPT !.capacity = NumberBytes * n, !.room = n]
array_create32(n) == array_init([kind |-> "arr", nref |-> 1, val |-> <<>>, capacity |-> 0, room |-> 0], n)
string_create(t) == [kind |-> "str", nref |-> 1, val |-> t]
NewObject ==
  IF Inst[1] = "STRING_ALLOC" THEN string_create(bin.strings[Inst[3]])
  ELSE array_create32(IF Inst[3] = NoRegisterIndex THEN 0 ELSE Number(Inst[3]))
Allocate ==
  /\ Fetched({"STRING_ALLOC", "ARRAY_ALLOC"})
  /\ heap' = Append(heap, NewObject) /\ Sets(Inst[2], <<"obj", Len(heap) + 1>>)
  /\ UNCHANGED <<globals, out>>
OutOfMemory == Fetched({"STRING_ALLOC", "ARRAY_ALLOC"}) /\ StopWith("mem alloc")

Changes(r, o) == heap' = [heap EXCEPT ![Number(r)] = o] /\ UNCHANGED <<globals, out>>
Acquire ==
  Fetched({"OBJECT_ACQUIRE"}) /\ Changes(Inst[2], [Object(Inst[2]) EXCEPT !.nref = @ + 1]) /\ Goes(pc + 1)
\* The instruction that follows, the destruction, is skipped while others hold the object.
ReleaseObject ==
  /\ Fetched({"OBJECT_RELEASE"})
  /\ Changes(Inst[2], [Object(Inst[2]) EXCEPT !.nref = @ - 1])
  /\ Goes(pc + 1 + IF Object(Inst[2]).nref - 1 <= 0 THEN 0 ELSE Inst[3])
array_destroy(a) == [a EXCEPT !.kind = "freed", !.val = <<>>, !.capacity = 0, !.room = 0]
string_destroy(o) == [o EXCEPT !.kind = "freed"]
Deallocate ==
  /\ Fetched({"STRING_DEALLOC", "ARRAY_DEALLOC"})
  /\ LET o == Object(Inst[2])
     IN Changes(Inst[2], IF Inst[1] = "STRING_DEALLOC" THEN string_destroy(o) ELSE array_destroy(o))
  /\ Goes(pc + 1)

array_append(a, n) == [Grown(a) EXCEPT !.val = Append(@, n)]
ArrayPut ==
  Fetched({"ARRAY_PUT"}) /\ Changes(Inst[2], array_append(Object(Inst[2]), Number(Inst[3]))) /\ Goes(pc + 1)
WithinArray == Number(Inst[4]) < Len(Object(Inst[3]).val)
array_get(a, i) == a.val[i + 1]
ArrayGet ==
  Fetched({"ARRAY_GET"}) /\ WithinArray
  /\ Sets(Inst[2], Half(array_get(Object(Inst[3]), Number(Inst[4])))) /\ UNCHANGED data
OutOfBounds == Fetched({"ARRAY_GET"}) /\ ~WithinArray /\ StopWith("out of bounds")

Halt == Fetched({"HALT"}) /\ StopWith("none")
UnknownInstruction == Fetched({"TOTAL"}) /\ StopWith("unknown instruction")
\* The loop of yalvm_ctx_execute ends when the place to go back to is NULL.
LoopEnds == Executing /\ pc \notin DOMAIN Text /\ StopWith("none")

Instruction ==
  \/ Load \/ LoadConstant \/ Store \/ Calculate \/ Jump \/ LoadFunction \/ StackOverflow \/ Push \/ Call
  \/ CallNative \/ Return \/ PrintValue \/ Allocate \/ OutOfMemory \/ Acquire \/ ReleaseObject
  \/ Deallocate \/ ArrayPut \/ ArrayGet \/ OutOfBounds \/ Halt \/ UnknownInstruction \/ LoopEnds \/ Undefined

Over == phase \in {"destroyed", "failed", "undefined"}
Rest == Over /\ UNCHANGED vars

Proceed == \/ CreateContext \/ AcquireFunction \/ RefuseFunction \/ PushArg \/ Execute
           \/ ReleaseFunction \/ DestroyContext \/ Instruction

Next == LoadBinary \/ Proceed \/ Rest

\* One thread calls and interprets: what is loaded goes on until it is over.
Spec == Init /\ [][Next]_vars /\ WF_vars(Proceed)

(* The stack the records in memory stand for, from the first frame to the     *)
(* innermost one: a frame ends where the record of the next one lies.         *)
BaseBelow(b) == IF mem[b - 1][1] = "session" /\ mem[b - 1][2] < b THEN mem[b - 1][2] ELSE 0
Bases[b \in 0 .. End] == IF b = 0 THEN <<>> ELSE Append(Bases[BaseBelow(b)], b)
Frames ==
  LET c == Bases[base]
      EndOf(i) == IF i = Len(c) THEN top ELSE c[i + 1] - 1
  IN [i \in DOMAIN c |-> [base |-> c[i], size |-> EndOf(i) - c[i], back |-> mem[c[i] - 1][3]]]
CS == INSTANCE CallStack WITH Words <- StackWords, frames <- Frames, pc <- pc

\* The linked records behave as a stack: frames are opened at the end, entered and left
\* last in first out, and what lies below a frame is found again as it was
\* (yalvm_stack.c: frame_begin, push, function_begin and frame_end).
CallStackSpec == CS!Spec

\* Every program the generator makes of these bodies comes to an end: its jumps lead
\* out of its loops and every execution returns to the caller.
EveryProgramEnds == phase = "new" ~> Over
================================================================================
