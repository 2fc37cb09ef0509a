------------------------------ MODULE MachineProofs ------------------------------
(* What the earlier compiler and its machine share out: registers and frames. *)
(*                                                                            *)
(* For any number of registers and any variables the free list holds exactly  *)
(* the registers nobody has, so the allocator implements RegisterSet, and the *)
(* count covers every register that was handed out.  For a stack of any size, *)
(* frames that are opened, filled, entered and left as CallStack says never   *)
(* share a word nor leave the stack; that the machine's steps are steps of    *)
(* CallStack is checked by its runs.                                          *)
EXTENDS RegisterPool, SequenceTheorems, TLAPS

CONSTANT Words                \* the words of the machine's stack
VARIABLES frames, pc          \* the machine's frames and its place
Calls == INSTANCE CallStack

--------------------------------------------------------------------------------
(* The register pool: its invariant. *)

Links == [Registers -> Registers \cup {Unused}]
Elements(s) == {s[i] : i \in 1 .. Len(s)}

\* The list that begins at first and follows pool runs through s, and no register twice.
Chain(first, pool, s) ==
  /\ s \in Seq(Registers)
  /\ first = IF s = <<>> THEN Unused ELSE s[1]
  /\ \A i \in 1 .. Len(s) : pool[s[i]] = IF i = Len(s) THEN Unused ELSE s[i + 1]
  /\ \A i, j \in 1 .. Len(s) : s[i] = s[j] => i = j

IsAllocator(a) ==
  /\ a = [pool |-> a.pool, next |-> a.next, max |-> a.max, map |-> a.map]
  /\ a.pool \in Links /\ a.max \in Nat
  /\ a.map = [k \in DOMAIN a.map |-> a.map[k]]
  /\ \A k \in DOMAIN a.map : k \in Keys /\ a.map[k] \in Registers

Mapped == {allocator.map[k] : k \in DOMAIN allocator.map}

\* Every register is on the free list, with one variable or with one temporary.
Partition ==
  /\ Chain(allocator.next, allocator.pool, free)
  /\ temps \subseteq Registers
  /\ Registers \subseteq Elements(free) \cup Mapped \cup temps
  /\ Elements(free) \cap (Mapped \cup temps) = {}
  /\ Mapped \cap temps = {}
  /\ \A j, k \in DOMAIN allocator.map : allocator.map[j] = allocator.map[k] => j = k

Covered == handed \subseteq 0 .. allocator.max

IInv == IsAllocator(allocator) /\ Partition /\ Covered

--------------------------------------------------------------------------------
(* The free list. *)

LEMMA UnusedIsNoRegister == Unused \notin Registers /\ Registers \subseteq Nat
BY MaxRegistersAssumption DEF Unused, Registers

\* An empty list has nothing to give.
LEMMA ChainEnd ==
  ASSUME NEW first, NEW pool \in Links, NEW s, Chain(first, pool, s)
  PROVE  /\ s = <<>> <=> first = Unused
         /\ s = <<>> => Elements(s) = {}
         /\ s # <<>> => first \in Registers /\ first \in Elements(s) /\ pool[first] \in Registers \cup {Unused}
<1>1. s \in Seq(Registers) /\ first = IF s = <<>> THEN Unused ELSE s[1]
  BY DEF Chain
<1>2. s # <<>> => Len(s) \in Nat /\ Len(s) >= 1 /\ 1 \in 1 .. Len(s) /\ s[1] \in Registers
  BY <1>1
<1>3. s # <<>> => s[1] \in Elements(s)
  BY <1>2 DEF Elements
<1>4. s = <<>> => Elements(s) = {}
  BY DEF Elements
<1> QED BY <1>1, <1>2, <1>3, <1>4, UnusedIsNoRegister DEF Links

\* Taking the head leaves the list that begins at its link.
LEMMA ChainTail ==
  ASSUME NEW first, NEW pool \in Links, NEW s, Chain(first, pool, s), s # <<>>
  PROVE  /\ Chain(pool[first], pool, Tail(s))
         /\ Elements(Tail(s)) = Elements(s) \ {first}
<1> DEFINE t == Tail(s)
<1>1. s \in Seq(Registers) /\ first = s[1] /\ Len(s) \in Nat /\ Len(s) >= 1
  BY DEF Chain
<1>2. t \in Seq(Registers) /\ Len(t) = Len(s) - 1 /\ Len(t) \in Nat /\ \A i \in 1 .. Len(t) : t[i] = s[i + 1]
  BY <1>1
<1>3. \A i \in 1 .. Len(s) : pool[s[i]] = IF i = Len(s) THEN Unused ELSE s[i + 1]
  BY DEF Chain
<1>4. \A i, j \in 1 .. Len(s) : s[i] = s[j] => i = j
  BY DEF Chain
<1>5. pool[first] = IF t = <<>> THEN Unused ELSE t[1]
  <2>1. pool[first] = IF Len(s) = 1 THEN Unused ELSE s[2]
    <3>1. 1 \in 1 .. Len(s) /\ 1 + 1 = 2
      BY <1>1
    <3>2. pool[s[1]] = IF 1 = Len(s) THEN Unused ELSE s[1 + 1]
      BY <1>3, <3>1
    <3> QED BY <1>1, <3>1, <3>2
  <2>2. t = <<>> <=> Len(s) = 1
    <3>1. t = <<>> <=> Len(t) = 0
      BY <1>2, EmptySeq
    <3> QED BY <1>1, <1>2, <3>1
  <2>3. t # <<>> => t[1] = s[2]
    BY <1>1, <1>2, <2>2
  <2> QED BY <2>1, <2>2, <2>3
<1>6. \A i \in 1 .. Len(t) : pool[t[i]] = IF i = Len(t) THEN Unused ELSE t[i + 1]
  <2> TAKE i \in 1 .. Len(t)
  <2>1. i + 1 \in 1 .. Len(s) /\ t[i] = s[i + 1] /\ (i + 1 = Len(s) <=> i = Len(t))
    BY <1>1, <1>2
  <2>2. CASE i = Len(t)
    <3>1. pool[s[i + 1]] = IF i + 1 = Len(s) THEN Unused ELSE s[i + 1 + 1]
      BY <1>3, <2>1
    <3> QED BY <2>1, <2>2, <3>1
  <2>3. CASE i # Len(t)
    <3>4. Len(t) \in Nat /\ i \in 1 .. Len(t)
      BY <1>2
    <3> HIDE DEF t
    <3>1. i + 1 \in 1 .. Len(t)
      BY <3>4, <2>3
    <3>3. t[i + 1] = s[(i + 1) + 1]
      BY <1>2, <3>1
    <3>2. pool[s[i + 1]] = s[(i + 1) + 1]
      BY <1>3, <2>1, <2>3
    <3> QED BY <2>1, <2>3, <3>2, <3>3
  <2> QED BY <2>2, <2>3
<1>7. \A i, j \in 1 .. Len(t) : t[i] = t[j] => i = j
  <2> TAKE i, j \in 1 .. Len(t)
  <2>1. i + 1 \in 1 .. Len(s) /\ j + 1 \in 1 .. Len(s) /\ t[i] = s[i + 1] /\ t[j] = s[j + 1]
    BY <1>1, <1>2
  <2> QED BY <1>4, <2>1
<1>8. Elements(t) = Elements(s) \ {first}
  <2>1. ASSUME NEW r \in Elements(t) PROVE r \in Elements(s) \ {first}
    <3>1. PICK i \in 1 .. Len(t) : r = t[i]
      BY DEF Elements
    <3>2. i + 1 \in 1 .. Len(s) /\ r = s[i + 1] /\ i + 1 # 1 /\ 1 \in 1 .. Len(s)
      BY <1>1, <1>2, <3>1
    <3> QED BY <1>1, <1>4, <3>2 DEF Elements
  <2>2. ASSUME NEW r \in Elements(s), r # first PROVE r \in Elements(t)
    <3>1. PICK i \in 1 .. Len(s) : r = s[i]
      BY DEF Elements
    <3>2. i - 1 \in 1 .. Len(t) /\ r = t[i - 1]
      BY <1>1, <1>2, <2>2, <3>1
    <3> QED BY <3>2 DEF Elements
  <2> QED BY <2>1, <2>2
<1> QED BY <1>2, <1>5, <1>6, <1>7, <1>8 DEF Chain

\* Links of registers outside the list do not matter.
LEMMA ChainElsewhere ==
  ASSUME NEW first, NEW pool \in Links, NEW s, Chain(first, pool, s),
         NEW r \in Registers, r \notin Elements(s), NEW v
  PROVE  Chain(first, [pool EXCEPT ![r] = v], s)
<1>1. \A i \in 1 .. Len(s) : s[i] # r /\ s[i] \in Registers
  BY DEF Chain, Elements
<1> QED BY <1>1 DEF Chain, Links

\* A register put in front of the list becomes its head.
LEMMA ChainFront ==
  ASSUME NEW first, NEW pool \in Links, NEW s, Chain(first, pool, s),
         NEW r \in Registers, r \notin Elements(s)
  PROVE  /\ Chain(r, [pool EXCEPT ![r] = first], <<r>> \o s)
         /\ Elements(<<r>> \o s) = Elements(s) \cup {r}
<1> DEFINE t == <<r>> \o s
           p == [pool EXCEPT ![r] = first]
<1>1. s \in Seq(Registers) /\ Len(s) \in Nat /\ first = IF s = <<>> THEN Unused ELSE s[1]
  BY DEF Chain
<1>2. t \in Seq(Registers) /\ Len(t) = Len(s) + 1 /\ t # <<>> /\ t[1] = r
      /\ \A i \in 1 .. Len(s) : t[i + 1] = s[i]
  BY <1>1
<1>3. \A i \in 1 .. Len(s) : s[i] # r /\ s[i] \in Registers /\ p[s[i]] = pool[s[i]]
  BY <1>1 DEF Elements, Links
<1>4. \A i \in 1 .. Len(t) : i = 1 \/ (i - 1 \in 1 .. Len(s) /\ t[i] = s[i - 1])
  <2> TAKE i \in 1 .. Len(t)
  <2>1. CASE i # 1
    <3>1. i - 1 \in 1 .. Len(s) /\ i = (i - 1) + 1
      BY <1>1, <1>2, <2>1
    <3> QED BY <1>2, <3>1
  <2> QED BY <2>1
<1>5. \A i \in 1 .. Len(t) : p[t[i]] = IF i = Len(t) THEN Unused ELSE t[i + 1]
  <2> TAKE i \in 1 .. Len(t)
  <2>1. CASE i = 1
    <3>1. p[t[i]] = first
      BY <1>2, <2>1 DEF Links
    <3>2. CASE s = <<>>
      BY <1>1, <1>2, <2>1, <3>1, <3>2
    <3>3. CASE s # <<>>
      <4>1. Len(s) >= 1 /\ 1 \in 1 .. Len(s) /\ i # Len(t)
        BY <1>1, <1>2, <2>1, <3>3
      <4> QED BY <1>1, <1>2, <2>1, <3>1, <3>3, <4>1
    <3> QED BY <3>2, <3>3
  <2>2. CASE i # 1
    <3>1. i - 1 \in 1 .. Len(s) /\ t[i] = s[i - 1]
      BY <1>4, <2>2
    <3>2. p[t[i]] = IF i - 1 = Len(s) THEN Unused ELSE s[i - 1 + 1]
      BY <1>3, <3>1 DEF Chain
    <3>3. i # Len(t) => i \in 1 .. Len(s) /\ t[i + 1] = s[i]
      BY <1>1, <1>2, <3>1
    <3> QED BY <1>1, <1>2, <3>1, <3>2, <3>3
  <2> QED BY <2>1, <2>2
<1>6. \A i, j \in 1 .. Len(t) : t[i] = t[j] => i = j
  <2> TAKE i, j \in 1 .. Len(t)
  <2> HAVE t[i] = t[j]
  <2>1. CASE i = 1 \/ j = 1
    BY <1>2, <1>3, <1>4, <2>1
  <2>2. CASE i # 1 /\ j # 1
    <3>1. i - 1 = j - 1
      BY <1>4, <2>2 DEF Chain
    <3> QED BY <3>1
  <2> QED BY <2>1, <2>2
<1>7. Elements(t) = Elements(s) \cup {r}
  <2>1. ASSUME NEW x \in Elements(t) PROVE x \in Elements(s) \cup {r}
    BY <1>2, <1>4 DEF Elements
  <2>2. ASSUME NEW x \in Elements(s) PROVE x \in Elements(t)
    <3>1. PICK i \in 1 .. Len(s) : x = s[i]
      BY DEF Elements
    <3>2. i + 1 \in 1 .. Len(t) /\ t[i + 1] = x
      BY <1>1, <1>2, <3>1
    <3> QED BY <3>2 DEF Elements
  <2>3. r \in Elements(t)
    <3>1. 1 \in 1 .. Len(t)
      BY <1>1, <1>2
    <3> QED BY <1>2, <3>1 DEF Elements
  <2> QED BY <2>1, <2>2, <2>3
<1> QED BY <1>2, <1>5, <1>6, <1>7 DEF Chain

\* In the beginning the list runs through all registers.
LEMMA ChainReset == Chain(reset.next, reset.pool, AllInOrder) /\ Elements(AllInOrder) = Registers
<1> DEFINE s == AllInOrder
<1>1. /\ MaxRegisters \in Nat /\ MaxRegisters >= 1
      /\ s \in Seq(Registers) /\ Len(s) = MaxRegisters /\ s # <<>>
      /\ \A i \in 1 .. MaxRegisters : s[i] = i - 1
  BY MaxRegistersAssumption DEF AllInOrder, Registers
<1>2. \A i \in 1 .. MaxRegisters : i - 1 \in Registers
  BY <1>1 DEF Registers
<1>3. reset.next = s[1] /\ \A r \in Registers : reset.pool[r] = IF r = MaxRegisters - 1 THEN Unused ELSE r + 1
  BY <1>1 DEF reset
<1>4. \A i \in 1 .. Len(s) : reset.pool[s[i]] = IF i = Len(s) THEN Unused ELSE s[i + 1]
  BY <1>1, <1>2, <1>3
<1>5. \A r \in Registers : r + 1 \in 1 .. Len(s) /\ s[r + 1] = r
  BY <1>1 DEF Registers
<1>6. Elements(s) = Registers
  BY <1>1, <1>2, <1>5 DEF Elements
<1> QED BY <1>1, <1>3, <1>4, <1>6 DEF Chain

--------------------------------------------------------------------------------
(* What the operators of the allocator do to its fields. *)

LEMMA ResetFields ==
  IsAllocator(reset) /\ DOMAIN reset.map = {} /\ reset.max = 0
<1>1. reset.pool \in Links
  BY MaxRegistersAssumption DEF reset, Links, Registers, Unused
<1> QED BY <1>1 DEF reset, IsAllocator

LEMMA TakenFields ==
  ASSUME NEW a, IsAllocator(a), a.next \in Registers
  PROVE  /\ Taken(a) = [pool |-> a.pool, next |-> a.pool[a.next],
                        max |-> IF a.next > a.max THEN a.next ELSE a.max, map |-> a.map]
         /\ IsAllocator(Taken(a))
<1> DEFINE P == a.pool
           N == a.next
           X == a.max
           M == a.map
           x == IF N > X THEN N ELSE X
<1>1. Taken(a) = [pool |-> P, next |-> P[N], max |-> x, map |-> M]
  BY DEF Taken
<1>2. x \in Nat
  BY UnusedIsNoRegister DEF IsAllocator
<1> QED BY <1>1, <1>2 DEF IsAllocator

LEMMA AllocateFields ==
  ASSUME NEW a, IsAllocator(a), a.next \in Registers, NEW k \in Keys, k \notin DOMAIN a.map
  PROVE  /\ allocate(a, k).pool = [a.pool EXCEPT ![a.next] = Unused]
         /\ allocate(a, k).next = a.pool[a.next]
         /\ allocate(a, k).map = [j \in DOMAIN a.map \cup {k} |-> IF j = k THEN a.next ELSE a.map[j]]
         /\ allocate(a, k).max = IF a.next > a.max THEN a.next ELSE a.max
         /\ IsAllocator(allocate(a, k))
<1> DEFINE m == [j \in DOMAIN a.map \cup {k} |-> IF j = k THEN a.next ELSE a.map[j]]
           p == [a.pool EXCEPT ![a.next] = Unused]
           x == IF a.next > a.max THEN a.next ELSE a.max
           l == a.pool[a.next]
<1>1. a.next # Unused
  BY UnusedIsNoRegister
<1>4. allocate(a, k) = [pool |-> p, next |-> l, max |-> x, map |-> m]
  BY <1>1 DEF allocate, Taken
<1>5. p \in Links
  BY DEF IsAllocator, Links
<1>6. DOMAIN m = DOMAIN a.map \cup {k} /\ \A j \in DOMAIN m : j \in Keys /\ m[j] \in Registers
  BY DEF IsAllocator
<1>7. x \in Nat
  BY UnusedIsNoRegister DEF IsAllocator
<1> QED BY <1>4, <1>5, <1>6, <1>7 DEF IsAllocator

LEMMA FreedFields ==
  ASSUME NEW a, IsAllocator(a), NEW r \in Registers, a.next \in Registers \cup {Unused}
  PROVE  /\ Freed(a, r) = [pool |-> [a.pool EXCEPT ![r] = a.next], next |-> r, max |-> a.max, map |-> a.map]
         /\ IsAllocator(Freed(a, r))
<1> DEFINE P == a.pool
           N == a.next
<1>3. Freed(a, r) = [pool |-> [P EXCEPT ![r] = N], next |-> r, max |-> a.max, map |-> a.map]
  BY DEF Freed
<1>4. [P EXCEPT ![r] = N] \in Links
  <2>1. P \in [Registers -> Registers \cup {Unused}] /\ N \in Registers \cup {Unused}
    BY DEF IsAllocator, Links
  <2> HIDE DEF P, N
  <2> QED BY <2>1 DEF Links
<1> QED BY <1>3, <1>4 DEF IsAllocator

LEMMA DeallocateFields ==
  ASSUME NEW a, IsAllocator(a), NEW k \in DOMAIN a.map, a.next \in Registers \cup {Unused}
  PROVE  /\ deallocate(a, k).pool = [a.pool EXCEPT ![a.map[k]] = a.next] /\ deallocate(a, k).next = a.map[k]
         /\ deallocate(a, k).map = [j \in DOMAIN a.map \ {k} |-> a.map[j]] /\ deallocate(a, k).max = a.max
         /\ IsAllocator(deallocate(a, k))
<1> DEFINE r == a.map[k]
           m == [j \in DOMAIN a.map \ {k} |-> a.map[j]]
           f == Freed(a, r)
<1>1. r \in Registers
  BY DEF IsAllocator
<1>2. f = [pool |-> [a.pool EXCEPT ![r] = a.next], next |-> r, max |-> a.max, map |-> a.map] /\ IsAllocator(f)
  BY <1>1, FreedFields
<1>3. deallocate(a, k) = [f EXCEPT !.map = m]
  BY DEF deallocate
<1>4. deallocate(a, k) = [pool |-> [a.pool EXCEPT ![r] = a.next], next |-> r, max |-> a.max, map |-> m]
  <2> HIDE DEF f, m
  <2> QED BY <1>2, <1>3
<1>5. [a.pool EXCEPT ![r] = a.next] \in Links /\ a.max \in Nat
  BY <1>2 DEF IsAllocator
<1>6. \A j \in DOMAIN m : j \in Keys /\ m[j] \in Registers
  BY DEF IsAllocator
<1> QED BY <1>4, <1>5, <1>6 DEF IsAllocator

--------------------------------------------------------------------------------
(* The inductive invariant, step by step, and the step of RegisterSet it is.  *)

\* The names of the fields of the parts of RegisterSet.
LEMMA InUseIs == S!InUse = Mapped \cup temps
BY DEF S!InUse, Mapped

\* The head of the list is a register nobody has, if there is one.
LEMMA HeadIsFree ==
  ASSUME IInv
  PROVE  /\ free = <<>> <=> allocator.next = Unused
         /\ free = <<>> => Registers \subseteq Mapped \cup temps
         /\ free # <<>> => /\ allocator.next \in Registers
                          /\ allocator.next \in Elements(free)
                          /\ allocator.next \notin Mapped \cup temps
                          /\ Chain(allocator.pool[allocator.next], allocator.pool, Tail(free))
                          /\ Elements(Tail(free)) = Elements(free) \ {allocator.next}
         /\ allocator.next \in Registers \cup {Unused}
<1>1. allocator.pool \in Links /\ Chain(allocator.next, allocator.pool, free)
  BY DEF IInv, IsAllocator, Partition
<1>2. /\ free = <<>> <=> allocator.next = Unused
      /\ free = <<>> => Elements(free) = {}
      /\ free # <<>> => allocator.next \in Registers /\ allocator.next \in Elements(free)
  <2> DEFINE first == allocator.next
             pool == allocator.pool
  <2>1. pool \in Links /\ Chain(first, pool, free)
    BY <1>1
  <2> HIDE DEF first, pool
  <2>2. /\ free = <<>> <=> first = Unused
        /\ free = <<>> => Elements(free) = {}
        /\ free # <<>> => first \in Registers /\ first \in Elements(free)
    <3>1. free = <<>> <=> first = Unused
      BY <2>1, ChainEnd
    <3>2. free = <<>> => Elements(free) = {}
      BY <2>1, ChainEnd
    <3>3. free # <<>> => first \in Registers
      BY <2>1, ChainEnd
    <3>4. free # <<>> => first \in Elements(free)
      BY <2>1, ChainEnd
    <3> QED BY <3>1, <3>2, <3>3, <3>4
  <2> QED BY <2>2 DEF first
<1>3. free # <<>> => /\ Chain(allocator.pool[allocator.next], allocator.pool, Tail(free))
                     /\ Elements(Tail(free)) = Elements(free) \ {allocator.next}
  BY <1>1, ChainTail
<1> QED BY <1>2, <1>3 DEF IInv, Partition

LEMMA InitHolds == Init => IInv /\ S!Init
<1> SUFFICES ASSUME Init PROVE IInv /\ S!Init
  OBVIOUS
<1>1. allocator = reset /\ temps = {} /\ handed = {} /\ free = AllInOrder /\ answer = Unused
  BY DEF Init
<1>2. Mapped = {} /\ DOMAIN allocator.map = {}
  BY <1>1, ResetFields DEF Mapped
<1>3. Partition
  BY <1>1, <1>2, ChainReset DEF Partition
<1>4. allocator.map = [k \in {} |-> Unused]
  BY <1>1, <1>2, ResetFields DEF reset
<1> QED BY <1>1, <1>3, <1>4, ResetFields DEF IInv, Covered, S!Init

\* Nothing changes but the answer.
LEMMA SameHolds ==
  ASSUME IInv, UNCHANGED <<allocator, temps, handed, free>> PROVE IInv'
BY DEF IInv, Partition, Covered, Mapped

LEMMA AllocateHolds ==
  ASSUME IInv, NEW k \in Keys, Allocate(k)
  PROVE  IInv' /\ S!Next
<1> DEFINE a == allocator
           r == allocator.next
<1>1. IsAllocator(a) /\ r \in Registers \cup {Unused}
  BY HeadIsFree DEF IInv
<1>2. CASE free = <<>>
  <2>1. r = Unused /\ Registers \subseteq Mapped \cup temps
    BY <1>2, HeadIsFree
  <2>2. UNCHANGED <<allocator, temps, handed, free>> /\ answer' = Unused
    BY <1>2, <2>1 DEF Allocate, Keeps, allocate, Allocated
  <2>3. S!Refuse
    BY <2>1, <2>2, InUseIs DEF S!Refuse
  <2> QED BY <2>2, <2>3, SameHolds DEF S!Next
<1>3. CASE free # <<>> /\ k \in DOMAIN a.map
  <2>1. r # Unused
    BY <1>3, HeadIsFree
  <2>2. UNCHANGED <<allocator, temps, handed, free>> /\ answer' = a.map[k]
    BY <1>3, <2>1 DEF Allocate, Keeps, allocate, Allocated
  <2>3. S!NameAgain
    BY <1>3, <2>2 DEF S!NameAgain
  <2> QED BY <2>2, <2>3, SameHolds DEF S!Next
<1>4. CASE free # <<>> /\ k \notin DOMAIN a.map
  <2>1. /\ r \in Registers /\ r # Unused /\ r \in Elements(free) /\ r \notin Mapped \cup temps
        /\ Chain(a.pool[r], a.pool, Tail(free)) /\ Elements(Tail(free)) = Elements(free) \ {r}
    BY <1>4, HeadIsFree, UnusedIsNoRegister
  <2>2. /\ allocator' = allocate(a, k) /\ temps' = temps /\ free' = Tail(free)
        /\ answer' = Allocated(a, k) /\ handed' = handed \cup {answer'}
    BY <1>4 DEF Allocate, Gives
  <2>3. /\ allocator'.pool = [a.pool EXCEPT ![r] = Unused] /\ allocator'.next = a.pool[r]
        /\ allocator'.map = [j \in DOMAIN a.map \cup {k} |-> IF j = k THEN r ELSE a.map[j]]
        /\ allocator'.max = IF r > a.max THEN r ELSE a.max
        /\ IsAllocator(allocator')
    <3>1. IsAllocator(a) /\ a.next \in Registers /\ k \notin DOMAIN a.map
      BY <1>1, <1>4, <2>1
    <3> HIDE DEF a
    <3>2. /\ allocate(a, k).pool = [a.pool EXCEPT ![a.next] = Unused] /\ allocate(a, k).next = a.pool[a.next]
          /\ allocate(a, k).map = [j \in DOMAIN a.map \cup {k} |-> IF j = k THEN a.next ELSE a.map[j]]
          /\ allocate(a, k).max = IF a.next > a.max THEN a.next ELSE a.max
          /\ IsAllocator(allocate(a, k))
      BY <3>1, AllocateFields
    <3> QED BY <2>2, <3>2 DEF a
  <2>4. answer' = r
    BY <2>1, <2>2, <2>3 DEF Allocated
  <2>5. Mapped' = Mapped \cup {r}
    BY <1>4, <2>3 DEF Mapped
  <2>6. Chain(allocator'.next, allocator'.pool, free')
    <3> DEFINE n == a.pool[r]
               p == a.pool
    <3>1. p \in Links /\ Chain(n, p, Tail(free)) /\ r \notin Elements(Tail(free))
      BY <1>1, <2>1 DEF IsAllocator
    <3> HIDE DEF n, p
    <3>2. Chain(n, [p EXCEPT ![r] = Unused], Tail(free))
      BY <2>1, <3>1, ChainElsewhere
    <3> QED BY <2>2, <2>3, <3>2 DEF n, p
  <2>7. \A i, j \in DOMAIN allocator'.map : allocator'.map[i] = allocator'.map[j] => i = j
    BY <2>1, <2>3 DEF IInv, Partition, Mapped
  <2>8. Partition'
    BY <2>1, <2>2, <2>5, <2>6, <2>7 DEF IInv, Partition
  <2>9. Covered'
    <3>1. a.max \in Nat /\ r \in Nat /\ handed \subseteq 0 .. a.max
      BY <1>1, <2>1, UnusedIsNoRegister DEF IInv, IsAllocator, Covered
    <3>2. handed' = handed \cup {r}
      BY <2>2, <2>4
    <3> DEFINE m == a.max
               n == IF r > m THEN r ELSE m
    <3>3. m \in Nat /\ handed \subseteq 0 .. m /\ allocator'.max = n
      BY <2>3, <3>1
    <3> HIDE DEF m, r
    <3>4. handed \cup {r} \subseteq 0 .. n
      BY <3>1, <3>3
    <3> QED BY <3>2, <3>3, <3>4 DEF Covered
  <2>10. S!Name
    <3>1. k \in Keys \ DOMAIN a.map /\ r \in Registers \ S!InUse /\ allocator'.map = S!With(k, r)
      BY <1>4, <2>1, <2>3, InUseIs DEF S!With
    <3> QED BY <2>2, <2>4, <3>1 DEF S!Name
  <2> QED BY <2>3, <2>8, <2>9, <2>10 DEF IInv, S!Next
<1> QED BY <1>2, <1>3, <1>4

LEMMA DeallocateHolds ==
  ASSUME IInv, NEW k \in Keys, Deallocate(k)
  PROVE  IInv' /\ (S!Next \/ UNCHANGED <<allocator.map, temps, answer>>)
<1> DEFINE a == allocator
           r == allocator.map[k]
<1>1. IsAllocator(a) /\ a.next \in Registers \cup {Unused}
  BY HeadIsFree DEF IInv
<1>2. CASE k \notin DOMAIN a.map
  <2>1. UNCHANGED <<allocator, temps, handed, free, answer>>
    BY <1>2 DEF Deallocate, deallocate
  <2> QED BY <2>1, SameHolds
<1>3. CASE k \in DOMAIN a.map
  <2>1. r \in Registers /\ r \in Mapped /\ r \notin Elements(free) /\ r \notin temps
    BY <1>1, <1>3 DEF IsAllocator, Mapped, IInv, Partition
  <2>2. /\ allocator' = deallocate(a, k) /\ free' = <<r>> \o free
        /\ temps' = temps /\ answer' = answer /\ handed' = handed
    BY <1>3 DEF Deallocate
  <2>3. /\ allocator'.pool = [a.pool EXCEPT ![r] = a.next] /\ allocator'.next = r
        /\ allocator'.map = [j \in DOMAIN a.map \ {k} |-> a.map[j]] /\ allocator'.max = a.max
        /\ IsAllocator(allocator')
    <3>1. IsAllocator(a) /\ a.next \in Registers \cup {Unused} /\ k \in DOMAIN a.map
      BY <1>1, <1>3
    <3> HIDE DEF a
    <3>2. /\ deallocate(a, k).pool = [a.pool EXCEPT ![a.map[k]] = a.next] /\ deallocate(a, k).next = a.map[k]
          /\ deallocate(a, k).map = [j \in DOMAIN a.map \ {k} |-> a.map[j]] /\ deallocate(a, k).max = a.max
          /\ IsAllocator(deallocate(a, k))
      BY <3>1, DeallocateFields
    <3> QED BY <2>2, <3>2 DEF a
  <2>4. Chain(allocator'.next, allocator'.pool, free') /\ Elements(free') = Elements(free) \cup {r}
    <3> DEFINE n == a.next
               p == a.pool
    <3>1. p \in Links /\ Chain(n, p, free) /\ r \in Registers /\ r \notin Elements(free)
      BY <1>1, <2>1 DEF IsAllocator, IInv, Partition
    <3> HIDE DEF n, p, r
    <3>2. /\ Chain(r, [p EXCEPT ![r] = n], <<r>> \o free)
          /\ Elements(<<r>> \o free) = Elements(free) \cup {r}
      BY <3>1, ChainFront
    <3> QED BY <2>2, <2>3, <3>2 DEF n, p, r
  <2>5. Mapped' = Mapped \ {r}
    BY <1>3, <2>3 DEF Mapped, IInv, Partition
  <2>6. \A i, j \in DOMAIN allocator'.map : allocator'.map[i] = allocator'.map[j] => i = j
    BY <2>3 DEF IInv, Partition
  <2>7. Partition'
    BY <2>1, <2>2, <2>4, <2>5, <2>6 DEF IInv, Partition
  <2>8. S!TakeBack
    BY <1>3, <2>2, <2>3 DEF S!TakeBack, S!Without
  <2> QED BY <2>2, <2>3, <2>7, <2>8 DEF IInv, Covered, S!Next
<1> QED BY <1>2, <1>3

LEMMA AllocateTemporaryHolds ==
  ASSUME IInv, AllocateTemporary
  PROVE  IInv' /\ S!Next
<1> DEFINE a == allocator
           r == allocator.next
<1>1. IsAllocator(a)
  BY DEF IInv
<1>2. CASE free = <<>>
  <2>1. r = Unused /\ Registers \subseteq Mapped \cup temps
    BY <1>2, HeadIsFree
  <2>2. UNCHANGED <<allocator, temps, handed, free>> /\ answer' = Unused
    BY <1>2, <2>1 DEF AllocateTemporary, Keeps, allocateTemporary
  <2>3. S!Refuse
    BY <2>1, <2>2, InUseIs DEF S!Refuse
  <2> QED BY <2>2, <2>3, SameHolds DEF S!Next
<1>3. CASE free # <<>>
  <2>1. /\ r \in Registers /\ r # Unused /\ r \in Elements(free) /\ r \notin Mapped \cup temps
        /\ Chain(a.pool[r], a.pool, Tail(free)) /\ Elements(Tail(free)) = Elements(free) \ {r}
    BY <1>3, HeadIsFree, UnusedIsNoRegister
  <2>2. /\ allocator' = Taken(a) /\ temps' = temps \cup {r} /\ free' = Tail(free)
        /\ answer' = r /\ handed' = handed \cup {r}
    BY <1>3, <2>1 DEF AllocateTemporary, Gives, allocateTemporary
  <2>3. /\ allocator'.pool = a.pool /\ allocator'.next = a.pool[r] /\ allocator'.map = a.map
        /\ allocator'.max = IF r > a.max THEN r ELSE a.max
        /\ IsAllocator(allocator')
    BY <1>1, <2>1, <2>2, TakenFields
  <2>4. Mapped' = Mapped
    BY <2>3 DEF Mapped
  <2>5. Partition'
    BY <2>1, <2>2, <2>3, <2>4 DEF IInv, Partition
  <2>6. Covered'
    <3>1. a.max \in Nat /\ r \in Nat /\ handed \subseteq 0 .. a.max
      BY <1>1, <2>1, UnusedIsNoRegister DEF IInv, IsAllocator, Covered
    <3> DEFINE m == a.max
               n == IF r > m THEN r ELSE m
    <3>3. m \in Nat /\ handed \subseteq 0 .. m /\ allocator'.max = n
      BY <2>3, <3>1
    <3> HIDE DEF m, r
    <3>4. handed \cup {r} \subseteq 0 .. n
      BY <3>1, <3>3
    <3> QED BY <2>2, <3>3, <3>4 DEF Covered
  <2>7. S!Lend
    BY <2>1, <2>2, <2>3, InUseIs DEF S!Lend
  <2> QED BY <2>3, <2>5, <2>6, <2>7 DEF IInv, S!Next
<1> QED BY <1>2, <1>3

LEMMA ReleaseHolds ==
  ASSUME IInv, NEW r \in temps, Release(r)
  PROVE  IInv' /\ S!Next
<1> DEFINE a == allocator
<1>1. IsAllocator(a) /\ a.next \in Registers \cup {Unused}
  BY HeadIsFree DEF IInv
<1>2. r \in Registers /\ r # Unused /\ r \notin Elements(free) /\ r \notin Mapped
  BY UnusedIsNoRegister DEF IInv, Partition
<1>3. /\ allocator' = Freed(a, r) /\ free' = <<r>> \o free
      /\ temps' = temps \ {r} /\ answer' = answer /\ handed' = handed
  BY <1>2 DEF Release, deallocateTemporary
<1>4. /\ allocator'.pool = [a.pool EXCEPT ![r] = a.next] /\ allocator'.next = r
      /\ allocator'.map = a.map /\ allocator'.max = a.max /\ IsAllocator(allocator')
  <2> HIDE DEF a
  <2>1. /\ Freed(a, r) = [pool |-> [a.pool EXCEPT ![r] = a.next], next |-> r, max |-> a.max, map |-> a.map]
        /\ IsAllocator(Freed(a, r))
    BY <1>1, <1>2, FreedFields
  <2> QED BY <1>3, <2>1 DEF a
<1>5. Chain(allocator'.next, allocator'.pool, free') /\ Elements(free') = Elements(free) \cup {r}
  <2> DEFINE n == a.next
             p == a.pool
  <2>1. p \in Links /\ Chain(n, p, free) /\ r \in Registers /\ r \notin Elements(free)
    BY <1>1, <1>2 DEF IsAllocator, IInv, Partition
  <2> HIDE DEF n, p
  <2>2. /\ Chain(r, [p EXCEPT ![r] = n], <<r>> \o free)
        /\ Elements(<<r>> \o free) = Elements(free) \cup {r}
    BY <2>1, ChainFront
  <2> QED BY <1>3, <1>4, <2>2 DEF n, p
<1>6. Mapped' = Mapped
  BY <1>4 DEF Mapped
<1>7. Partition'
  BY <1>2, <1>3, <1>4, <1>5, <1>6 DEF IInv, Partition
<1>8. S!TakeBack
  BY <1>3, <1>4 DEF S!TakeBack
<1> QED BY <1>3, <1>4, <1>7, <1>8 DEF IInv, Covered, S!Next

LEMMA ResetHolds ==
  ASSUME Reset
  PROVE  IInv' /\ S!Next
<1>1. /\ allocator' = reset /\ temps' = {} /\ handed' = {} /\ free' = AllInOrder /\ answer' = answer
  BY DEF Reset
<1>2. Mapped' = {} /\ DOMAIN allocator'.map = {}
  BY <1>1, ResetFields DEF Mapped
<1>3. Partition'
  BY <1>1, <1>2, ChainReset DEF Partition
<1>4. allocator'.map = [k \in {} |-> Unused]
  BY <1>1, <1>2, ResetFields DEF reset
<1>5. S!Clear
  BY <1>1, <1>4 DEF S!Clear
<1> QED BY <1>1, <1>3, <1>5, ResetFields DEF IInv, Covered, S!Next

--------------------------------------------------------------------------------
(* The theorems.                                                              *)

\* Whatever the number of registers, the variables and the order of requests: every
\* register is on the free list once, or has one holder.
THEOREM PoolInvariant == Spec => []IInv
<1>1. Init => IInv
  BY InitHolds
<1>2. IInv /\ [Next]_vars => IInv'
  <2> SUFFICES ASSUME IInv, [Next]_vars PROVE IInv'
    OBVIOUS
  <2>1. CASE UNCHANGED vars
    BY <2>1, SameHolds DEF vars
  <2>2. CASE Next
    BY <2>2, AllocateHolds, DeallocateHolds, AllocateTemporaryHolds, ReleaseHolds, ResetHolds DEF Next
  <2> QED BY <2>1, <2>2
<1> QED BY <1>1, <1>2, PTL DEF Spec

\* The allocator implements RegisterSet: no register has two holders, none is lost, a
\* request is refused only when all are in use (registerallocator.cpp).
THEOREM ImplementsRegisterSet == Spec => RegisterSetSpec
<1>1. Init => S!Init
  BY InitHolds
<1>2. IInv /\ [Next]_vars => [S!Next]_<<allocator.map, temps, answer>>
  <2> SUFFICES ASSUME IInv, [Next]_vars PROVE [S!Next]_<<allocator.map, temps, answer>>
    OBVIOUS
  <2>1. CASE UNCHANGED vars
    BY <2>1 DEF vars
  <2>2. CASE Next
    BY <2>2, AllocateHolds, DeallocateHolds, AllocateTemporaryHolds, ReleaseHolds, ResetHolds DEF Next
  <2> QED BY <2>1, <2>2
<1> QED BY <1>1, <1>2, PoolInvariant, PTL DEF Spec, RegisterSetSpec, S!Spec

\* The number of registers a function declares covers all it was given.
THEOREM CountIsEnough == Spec => []CountCoversAll
<1>1. IInv => CountCoversAll
  BY DEF IInv, IsAllocator, Covered, CountCoversAll, maxRegisterCount
<1> QED BY <1>1, PoolInvariant, PTL

--------------------------------------------------------------------------------
(* The frames of the machine. *)

\* Frames of no negative size that lie one behind the other.
Stacked(s) ==
  /\ s \in Seq(Calls!Frame)
  /\ \A i \in 1 .. Len(s) : s[i].base >= 1 /\ s[i].size >= 0 /\ Calls!EndOf(s[i]) <= Words + 1
  /\ \A i, j \in 1 .. Len(s) : i < j => Calls!EndOf(s[i]) < s[j].base

\* What Disjoint says of the frames from 1 to the last.
LEMMA StackedIsDisjoint == Stacked(frames) => Calls!Disjoint
<1> SUFFICES ASSUME Stacked(frames) PROVE Calls!Disjoint
  OBVIOUS
<1>1. DOMAIN frames = 1 .. Len(frames)
  BY DEF Stacked
<1> QED BY <1>1 DEF Stacked, Calls!Disjoint

\* Without its last frame a stack is still one, and the last frame is behind the rest.
LEMMA BelowIsStacked ==
  ASSUME NEW s, Stacked(s), s # <<>>
  PROVE  LET t == SubSeq(s, 1, Len(s) - 1)
         IN /\ Stacked(t) /\ Len(s) \in Nat /\ Len(s) >= 1 /\ Len(t) = Len(s) - 1
            /\ s[Len(s)] \in Calls!Frame
            /\ \A i \in 1 .. Len(t) : Calls!EndOf(t[i]) < s[Len(s)].base
<1> DEFINE t == SubSeq(s, 1, Len(s) - 1)
<1>1. s \in Seq(Calls!Frame) /\ Len(s) \in Nat /\ Len(s) >= 1
  BY EmptySeq DEF Stacked
<1>2. t \in Seq(Calls!Frame) /\ Len(t) = Len(s) - 1 /\ \A i \in 1 .. Len(s) - 1 : t[i] = s[i]
  <2>1. \A i \in 1 .. Len(s) - 1 : s[i] \in Calls!Frame
    BY <1>1
  <2>2. Len(s) - 1 \in Int
    BY <1>1
  <2>3. /\ t \in Seq(Calls!Frame) /\ Len(t) = (IF 1 <= Len(s) - 1 THEN (Len(s) - 1) - 1 + 1 ELSE 0)
        /\ \A i \in 1 .. (Len(s) - 1) - 1 + 1 : t[i] = s[1 + i - 1]
    BY <2>1, <2>2, SubSeqProperties
  <2> DEFINE n == Len(s)
  <2>4. n \in Nat /\ n >= 1 /\ Len(t) = (IF 1 <= n - 1 THEN (n - 1) - 1 + 1 ELSE 0)
    BY <1>1, <2>3
  <2>5. Len(t) = n - 1
    <3> HIDE DEF t, n
    <3> QED BY <2>4
  <2>6. ASSUME NEW i \in 1 .. Len(s) - 1 PROVE t[i] = s[i]
    <3>1. i \in 1 .. (Len(s) - 1) - 1 + 1 /\ 1 + i - 1 = i
      BY <1>1
    <3>2. t[i] = s[1 + i - 1]
      BY <2>3, <3>1
    <3> QED BY <3>1, <3>2
  <2> QED BY <2>3, <2>5, <2>6
<1>3. \A i \in 1 .. Len(t) : i \in 1 .. Len(s) /\ i < Len(s) /\ t[i] = s[i]
  BY <1>1, <1>2
<1>4. Len(s) \in 1 .. Len(s)
  BY <1>1
<1>5. \A i \in 1 .. Len(t) : t[i].base >= 1 /\ t[i].size >= 0 /\ Calls!EndOf(t[i]) <= Words + 1
  BY <1>3 DEF Stacked
<1>6. \A i, j \in 1 .. Len(t) : i < j => Calls!EndOf(t[i]) < t[j].base
  BY <1>3 DEF Stacked
<1>7. \A i \in 1 .. Len(t) : Calls!EndOf(t[i]) < s[Len(s)].base
  BY <1>3, <1>4 DEF Stacked
<1>8. s[Len(s)] \in Calls!Frame
  BY <1>1, <1>4
<1> QED BY <1>1, <1>2, <1>5, <1>6, <1>7, <1>8 DEF Stacked

\* A frame put behind all others makes a stack again.
LEMMA AppendIsStacked ==
  ASSUME NEW s, Stacked(s), NEW f \in Calls!Frame, f.base >= 1, f.size >= 0, Calls!EndOf(f) <= Words + 1,
         \A i \in 1 .. Len(s) : Calls!EndOf(s[i]) < f.base
  PROVE  Stacked(Append(s, f))
<1> DEFINE t == Append(s, f)
<1>1. s \in Seq(Calls!Frame) /\ Len(s) \in Nat
  BY DEF Stacked
<1>2. t \in Seq(Calls!Frame) /\ Len(t) = Len(s) + 1 /\ t[Len(s) + 1] = f /\ \A i \in 1 .. Len(s) : t[i] = s[i]
  BY <1>1
<1>3. \A i \in 1 .. Len(t) : (i \in 1 .. Len(s) /\ t[i] = s[i]) \/ (i = Len(s) + 1 /\ t[i] = f)
  BY <1>1, <1>2
<1>4. \A i \in 1 .. Len(t) : t[i].base >= 1 /\ t[i].size >= 0 /\ Calls!EndOf(t[i]) <= Words + 1
  <2> TAKE i \in 1 .. Len(t)
  <2> QED BY <1>3 DEF Stacked
<1>5. \A i, j \in 1 .. Len(t) : i < j => Calls!EndOf(t[i]) < t[j].base
  <2> TAKE i, j \in 1 .. Len(t)
  <2> HAVE i < j
  <2>1. i \in 1 .. Len(s) /\ t[i] = s[i]
    BY <1>1, <1>2, <1>3
  <2> QED BY <1>3, <2>1 DEF Stacked
<1> QED BY <1>2, <1>4, <1>5 DEF Stacked

\* In a stack the frames below lie before the end of the last one as well.
LEMMA BeforeTheEnd ==
  ASSUME NEW s, Stacked(s), s # <<>>, NEW b \in Int, b > Calls!EndOf(s[Len(s)])
  PROVE  \A i \in 1 .. Len(s) : Calls!EndOf(s[i]) < b
<1> TAKE i \in 1 .. Len(s)
<1>1. Len(s) \in Nat /\ Len(s) >= 1 /\ Len(s) \in 1 .. Len(s) /\ s[i] \in Calls!Frame /\ s[Len(s)] \in Calls!Frame
  BY BelowIsStacked DEF Stacked
<1>a. s[i].base \in Int /\ s[i].size \in Int /\ s[Len(s)].base \in Int /\ s[Len(s)].size \in Int
  BY <1>1 DEF Calls!Frame
<1>b. s[Len(s)].size >= 0
  BY <1>1 DEF Stacked
<1>2. Calls!EndOf(s[i]) \in Int /\ Calls!EndOf(s[Len(s)]) \in Int /\ s[Len(s)].base <= Calls!EndOf(s[Len(s)])
  BY <1>a, <1>b DEF Calls!EndOf
<1>3. i = Len(s) \/ Calls!EndOf(s[i]) < s[Len(s)].base
  BY <1>1 DEF Stacked
<1>4. s[Len(s)].base \in Int
  BY <1>1 DEF Calls!Frame
<1> QED BY <1>2, <1>3, <1>4

LEMMA StepIsStacked == ASSUME Words \in Nat PROVE Stacked(frames) /\ Calls!Next => Stacked(frames')
<1> SUFFICES ASSUME Stacked(frames), Calls!Next PROVE Stacked(frames')
  OBVIOUS
<1> DEFINE n == Len(frames)
<1>1. CASE Calls!Open
  <2>1. frames' = Append(frames, Calls!Newest) /\ Calls!Newest \in Calls!Frame /\ Calls!Newest.base >= 1 /\ Calls!Newest.size >= 0
        /\ Calls!EndOf(Calls!Newest) <= Words + 1 /\ (frames # <<>> => Calls!Newest.base > Calls!EndOf(frames[n]))
    BY <1>1 DEF Calls!Open, Calls!Last
  <2>2. Calls!Newest.base \in Int
    BY <2>1 DEF Calls!Frame
  <2>3. CASE frames = <<>>
    <3>1. \A i \in 1 .. Len(frames) : Calls!EndOf(frames[i]) < Calls!Newest.base
      BY <2>3
    <3> QED BY <2>1, <3>1, AppendIsStacked
  <2>4. CASE frames # <<>>
    <3>1. \A i \in 1 .. Len(frames) : Calls!EndOf(frames[i]) < Calls!Newest.base
      BY <2>1, <2>2, <2>4, BeforeTheEnd
    <3> QED BY <2>1, <3>1, AppendIsStacked
  <2> QED BY <2>3, <2>4
<1>2. CASE Calls!Push
  <2> DEFINE f == frames[n]
             g == [f EXCEPT !.size = @ + 1]
  <2>1. frames # <<>> /\ Calls!EndOf(f) <= Words /\ frames' = [frames EXCEPT ![n] = g]
    BY <1>2 DEF Calls!Push, Calls!Last
  <2>2. /\ n \in Nat /\ n >= 1 /\ n \in 1 .. n /\ f \in Calls!Frame /\ f.base >= 1 /\ f.size >= 0
        /\ frames \in Seq(Calls!Frame)
    BY <2>1, BelowIsStacked DEF Stacked
  <2>3. g \in Calls!Frame /\ g.base = f.base /\ g.size = f.size + 1 /\ g.size >= 0 /\ Calls!EndOf(g) = Calls!EndOf(f) + 1
        /\ Calls!EndOf(f) \in Int
    <3>1. f.base \in Int /\ f.size \in Int
      BY <2>2 DEF Calls!Frame
    <3>2. g \in Calls!Frame
      BY <2>2, <3>1 DEF Calls!Frame
    <3>3. g.base = f.base
      BY <2>2 DEF Calls!Frame
    <3>4. g.size = f.size + 1
      BY <2>2 DEF Calls!Frame
    <3> HIDE DEF f, g
    <3> QED BY <2>2, <3>1, <3>2, <3>3, <3>4 DEF Calls!EndOf
  <2>4. frames' \in Seq(Calls!Frame) /\ Len(frames') = n
        /\ \A i \in 1 .. n : frames'[i] = IF i = n THEN g ELSE frames[i]
    BY <2>1, <2>2, <2>3
  <2>5. \A i \in 1 .. n : frames'[i].base = frames[i].base
    BY <2>3, <2>4
  <2>6. Calls!EndOf(g) <= Words + 1
    BY <2>1, <2>3
  <2>7. \A i \in 1 .. n : frames'[i].base >= 1 /\ frames'[i].size >= 0 /\ Calls!EndOf(frames'[i]) <= Words + 1
    <3> TAKE i \in 1 .. n
    <3> HIDE DEF f, g
    <3> QED BY <2>2, <2>3, <2>4, <2>6 DEF Stacked
  <2>8. \A i, j \in 1 .. n : i < j => Calls!EndOf(frames'[i]) < frames'[j].base
    <3> TAKE i, j \in 1 .. n
    <3> HAVE i < j
    <3>1. frames'[i] = frames[i] /\ frames'[j].base = frames[j].base
      BY <2>2, <2>4, <2>5
    <3> QED BY <3>1 DEF Stacked
  <2> QED BY <2>4, <2>7, <2>8 DEF Stacked
<1>3. CASE Calls!Enter
  <2>1. frames # <<>> /\ frames' = Append(Calls!Below, Calls!Newest) /\ Calls!Newest \in Calls!Frame
        /\ Calls!Newest.base = frames[n].base /\ Calls!Newest.size >= 0 /\ Calls!EndOf(Calls!Newest) <= Words + 1
    BY <1>3 DEF Calls!Enter, Calls!Last
  <2>2. Stacked(Calls!Below) /\ \A i \in 1 .. Len(Calls!Below) : Calls!EndOf(Calls!Below[i]) < Calls!Newest.base
    BY <2>1, BelowIsStacked DEF Calls!Below
  <2>3. Calls!Newest.base >= 1
    BY <2>1, BelowIsStacked DEF Stacked
  <2> QED BY <2>1, <2>2, <2>3, AppendIsStacked
<1>4. CASE Calls!Leave
  BY <1>4, BelowIsStacked DEF Calls!Leave, Calls!Below
<1> QED BY <1>1, <1>2, <1>3, <1>4 DEF Calls!Next

\* No two frames share a word and none leaves the stack, however calls are nested.
THEOREM FramesNeverOverlap == ASSUME Words \in Nat PROVE Calls!Spec => []Calls!Disjoint
<1>1. Calls!Init => Stacked(frames)
  BY DEF Calls!Init, Stacked
<1>2. Stacked(frames) /\ [Calls!Next]_frames => Stacked(frames)'
  BY StepIsStacked DEF Stacked
<1> QED BY <1>1, <1>2, StackedIsDisjoint, PTL DEF Calls!Spec
================================================================================
