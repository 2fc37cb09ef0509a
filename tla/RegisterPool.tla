------------------------------- MODULE RegisterPool ------------------------------
(* The allocator of RegisterAllocator in the hands of the bytecode generator: *)
(* variables by name when a scope begins, temporaries for references,         *)
(* functions and lengths, each given back at most once, and a fresh start for *)
(* every function.  In any order, as no scope or expression is taken into     *)
(* account.                                                                   *)
EXTENDS RegisterAllocator, Sequences

CONSTANT Keys             \* keys of variables

VARIABLES allocator,      \* _regAllocator
          temps,          \* the temporaries in the generator's hands
          answer,         \* what the last request returned
          handed,         \* history: the registers the function has been given
          free            \* history: the registers on the free list, in its order

vars == <<allocator, temps, answer, handed, free>>

AllInOrder == [i \in 1 .. MaxRegisters |-> i - 1]
Init ==
  /\ allocator = reset /\ temps = {} /\ answer = Unused
  /\ handed = {} /\ free = AllInOrder

\* The history follows the request: the first of the free list goes to whoever asks.
Gives == free' = Tail(free) /\ handed' = handed \cup {answer'}
Keeps == UNCHANGED <<free, handed>>

\* registerScope, and loadVariableIntoRegister for a global
Allocate(k) ==
  /\ allocator' = allocate(allocator, k) /\ answer' = Allocated(allocator, k)
  /\ IF free = <<>> \/ k \in DOMAIN allocator.map THEN Keeps ELSE Gives
  /\ UNCHANGED temps
\* unregisterScope; a key that has no register is passed over.
Deallocate(k) ==
  /\ allocator' = deallocate(allocator, k)
  /\ free' = IF k \in DOMAIN allocator.map THEN <<allocator.map[k]>> \o free ELSE free
  /\ UNCHANGED <<temps, answer, handed>>
\* ByteCodeGenerator::Register(RegisterAllocator&)
AllocateTemporary ==
  /\ allocator' = allocateTemporary(allocator) /\ answer' = allocator.next
  /\ IF free = <<>> THEN Keeps /\ UNCHANGED temps ELSE Gives /\ temps' = temps \cup {allocator.next}
\* ByteCodeGenerator::Register::release
Release(r) ==
  /\ allocator' = deallocateTemporary(allocator, r)
  /\ temps' = temps \ {r} /\ free' = <<r>> \o free
  /\ UNCHANGED <<answer, handed>>
\* ByteCodeGenerator::reset, also when temporaries have not been given back
Reset ==
  /\ allocator' = reset /\ temps' = {} /\ handed' = {} /\ free' = AllInOrder
  /\ UNCHANGED answer

Next ==
  \/ \E k \in Keys : Allocate(k) \/ Deallocate(k)
  \/ AllocateTemporary
  \/ \E r \in temps : Release(r)
  \/ Reset

Spec == Init /\ [][Next]_vars

S == INSTANCE RegisterSet WITH Registers <- Registers, Keys <- Keys, Refusal <- Unused,
                               named <- allocator.map, temps <- temps, answer <- answer

\* Threading the free list through the pool never hands a register to two holders,
\* forgets none, and refuses a request only when all registers are in use, whatever the
\* order in which variables and temporaries come and go.
RegisterSetSpec == S!Spec

\* The number of registers a function declares covers every register its instructions
\* were given, also those given back long before: the machine clears and reserves that
\* many words of the frame (maxRegisterCount, n_registers of the function header).
CountCoversAll == \A r \in handed : r < maxRegisterCount(allocator)
================================================================================
