---------------------------- MODULE RegisterAllocator ----------------------------
(* The register allocator of the bytecode generator                           *)
(* (src/lib/yal/bytecode/registerallocator.cpp).  An allocator is a record:   *)
(* pool is the free list threaded through the registers, next its head, map   *)
(* the registers of named variables, max the highest register handed out.     *)
(* The scope level is part of a variable's key; hashing is left out.          *)
EXTENDS Integers

CONSTANT MaxRegisters     \* kMaxRegisters, 250 in the code

ASSUME MaxRegistersAssumption == MaxRegisters \in Nat \ {0}

Unused == -1              \* UnusedRegisterValue

Registers == 0 .. MaxRegisters - 1

Key(name, level) == <<name, level>>

reset == [pool |-> [r \in Registers |-> IF r = MaxRegisters - 1 THEN Unused ELSE r + 1],
          next |-> 0, max |-> 0, map |-> [k \in {} |-> 0]]

\* The head of the free list, taken off it; its link stays.
Taken(a) == [pool |-> a.pool, next |-> a.pool[a.next], max |-> IF a.next > a.max THEN a.next ELSE a.max, map |-> a.map]

\* The link is forgotten.  An allocator that is out of registers refuses also a variable
\* that has one.
allocate(a, key) ==
  IF a.next = Unused \/ key \in DOMAIN a.map THEN a
  ELSE [pool |-> [a.pool EXCEPT ![a.next] = Unused], next |-> Taken(a).next, max |-> Taken(a).max,
        map |-> [k \in DOMAIN a.map \cup {key} |-> IF k = key THEN a.next ELSE a.map[k]]]

\* What allocate returns.
Allocated(a, key) == IF a.next = Unused THEN Unused ELSE allocate(a, key).map[key]

\* Faulty variant: the rest of the list is not linked to.
FaultyFreed(a, r) == [a EXCEPT !.next = r]
\* The free list with r put in front of it.
Freed(a, r) == [pool |-> [a.pool EXCEPT ![r] = a.next], next |-> r, max |-> a.max, map |-> a.map]

deallocate(a, key) ==
  IF key \notin DOMAIN a.map THEN a
  ELSE [Freed(a, a.map[key]) EXCEPT !.map = [k \in DOMAIN a.map \ {key} |-> a.map[k]]]

registerForVariable(a, key) == IF key \in DOMAIN a.map THEN a.map[key] ELSE Unused

\* allocateTemporary returns a.next and leaves this allocator.
allocateTemporary(a) == IF a.next = Unused THEN a ELSE Taken(a)

deallocateTemporary(a, r) == IF r = Unused THEN a ELSE Freed(a, r)

maxRegisterCount(a) == a.max + 1
================================================================================
