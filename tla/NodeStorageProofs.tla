-------------------------- MODULE NodeStorageProofs --------------------------
(***************************************************************************)
(* Where syntax trees lie and what they are made of.                       *)
(*                                                                         *)
(* For every page size, every set of object sizes and any number of        *)
(* blocks: the arena implements Region, and no object outlives its memory  *)
(* or is destroyed twice.                                                  *)
(*                                                                         *)
(* For any number of lists and items and any nesting, a node gets exactly  *)
(* the items of its list.  That is not inductive: a list that is open may  *)
(* be buried under others.  LaidOut adds where each open list lies: one on *)
(* top of the other in the vector, without gap or overlap, the last one up *)
(* to its end.                                                             *)
(***************************************************************************)
EXTENDS AllocatorStack, SequenceTheorems, TLAPS

VARIABLES m_list, open, mixed      \* the lists the parser is reading
Lists == INSTANCE ParseLists

-----------------------------------------------------------------------------
(* The arena: its invariant. *)


\* Pages are filled from below: every block lies under the offset of its page.
Packed ==
  /\ \A p \in 1..Len(m_stackList) : m_stackList[p] <= PageSize
  /\ \A b \in held : b.page \in 1..Len(m_stackList) /\ R!End(b) <= m_stackList[b.page]

PlacesInv ==
  /\ TypeOK
  /\ Packed
  /\ pc = "reset" => m_activeStack = 0

\* The objects that still have to be destroyed by reset.
Pending == {m_dtors[i] : i \in next..Len(m_dtors)}
Constructed == {m_dtors[i] : i \in 1..Len(m_dtors)}

ObjectsInv ==
  /\ alive \subseteq held
  /\ owner = "manager" => m_dtors = <<>>
  /\ owner = "context" => pc # "ending" /\ (pc = "reset" => after = "gone")
  /\ owner = "context" /\ pc = "live" => alive = Constructed
  /\ pc = "reset" => next >= 1 /\ alive = Pending
  /\ pc \in {"ending", "gone"} => alive = {}
  /\ \A i, j \in 1..Len(m_dtors) : m_dtors[i] = m_dtors[j] => i = j

IInv == PlacesInv /\ ObjectsInv

-----------------------------------------------------------------------------
(* Blocks. *)

\* A block is not apart from itself.
LEMMA NotItself ==
  ASSUME NEW b \in R!Block, NEW S, \A c \in S : R!Apart(b, c)
  PROVE  b \notin S
<1> SUFFICES ASSUME b \in S PROVE FALSE
  OBVIOUS
<1>1. R!Apart(b, b)
  OBVIOUS
<1> QED BY <1>1 DEF R!Apart, R!End, R!Block

\* A new block is in its page, apart from all others, and the pages stay packed.
LEMMA NewBlock ==
  ASSUME PlacesInv, NEW bytes \in Nat \ {0}, Allocate(bytes)
  PROVE  /\ Place(bytes) \in R!Block
         /\ R!End(Place(bytes)) <= PageSize
         /\ \A c \in held : R!Apart(Place(bytes), c)
         /\ Place(bytes) \notin held
         /\ held' = held \cup {Place(bytes)}
         /\ m_stackList' \in Seq(Nat) /\ m_activeStack' \in 0..Len(m_stackList')
         /\ Packed'
<1> DEFINE b == Place(bytes)
           n == Len(m_stackList)
<1>1. /\ m_stackList \in Seq(Nat) /\ n \in Nat /\ m_activeStack \in 0..n
      /\ held \subseteq R!Block /\ PageSize \in Nat
      /\ bytes <= PageSize /\ m_stackList' = Filled(bytes)
      /\ m_activeStack' = b.page /\ held' = held \cup {b}
      /\ \A p \in 1..n : m_stackList[p] \in Nat /\ m_stackList[p] <= PageSize
      /\ \A c \in held : c.page \in 1..n /\ R!End(c) <= m_stackList[c.page]
  BY AllocatorAssumption DEF PlacesInv, TypeOK, Allocate, Packed
<1>2. \A c \in held : c.page \in Nat /\ c.from \in Nat /\ c.size \in Nat \ {0}
                      /\ R!End(c) = c.from + c.size
  BY <1>1 DEF R!Block, R!End
<1>3. CASE Fits(bytes)
  <2> DEFINE a == m_activeStack
  <2>1. a \in 1..n /\ m_stackList[a] \in Nat /\ m_stackList[a] + bytes <= PageSize
    BY <1>1, <1>3 DEF Fits
  <2>2. b = [page |-> a, from |-> m_stackList[a], size |-> bytes]
    BY <1>3 DEF Place
  <2>3. b \in R!Block /\ R!End(b) = m_stackList[a] + bytes /\ b.page = a /\ b.from = m_stackList[a]
    BY <2>1, <2>2 DEF R!Block, R!End
  <2>4. m_stackList' = [m_stackList EXCEPT ![a] = m_stackList[a] + bytes]
    BY <1>1, <1>3 DEF Filled
  <2>5. /\ m_stackList' \in Seq(Nat) /\ Len(m_stackList') = n
        /\ \A p \in 1..n : m_stackList'[p] = IF p = a THEN m_stackList[a] + bytes ELSE m_stackList[p]
    <3>1. m_stackList[a] + bytes \in Nat
      BY <2>1
    <3> QED BY <1>1, <2>1, <2>4, <3>1, ExceptSeq
  <2>6. \A c \in held : R!Apart(b, c)
    <3> TAKE c \in held
    <3>1. CASE c.page = a
      BY <1>1, <2>3, <3>1 DEF R!Apart
    <3>2. CASE c.page # a
      BY <2>3, <3>2 DEF R!Apart
    <3> QED BY <3>1, <3>2
  <2>7. Packed'
    <3>1. \A p \in 1..n : m_stackList'[p] <= PageSize
      BY <1>1, <2>1, <2>5
    <3>2. ASSUME NEW c \in held PROVE R!End(c) <= m_stackList'[c.page]
      <4>1. /\ R!End(c) <= m_stackList[c.page] /\ R!End(c) \in Nat
            /\ c.page \in 1..n /\ m_stackList[c.page] \in Nat
        BY <1>1, <1>2
      <4>2. m_stackList[c.page] <= m_stackList'[c.page]
        BY <2>1, <2>5, <4>1
      <4>3. m_stackList'[c.page] \in Nat
        BY <2>1, <2>5, <4>1
      <4> QED BY <4>1, <4>2, <4>3
    <3>3. b.page \in 1..n /\ R!End(b) <= m_stackList'[b.page]
      BY <2>1, <2>3, <2>5
    <3> QED BY <1>1, <2>5, <3>1, <3>2, <3>3 DEF Packed, R!End
  <2> QED BY <1>1, <2>1, <2>3, <2>5, <2>6, <2>7, NotItself
<1>4. CASE ~Fits(bytes)
  <2>1. b = [page |-> n + 1, from |-> 0, size |-> bytes]
    BY <1>4 DEF Place
  <2>2. b \in R!Block /\ R!End(b) = bytes /\ b.page = n + 1
    BY <1>1, <2>1 DEF R!Block, R!End
  <2>3. m_stackList' = Append(m_stackList, bytes)
    BY <1>1, <1>4 DEF Filled
  <2>4. /\ m_stackList' \in Seq(Nat) /\ Len(m_stackList') = n + 1
        /\ m_stackList'[n + 1] = bytes
        /\ \A p \in 1..n : m_stackList'[p] = m_stackList[p]
    BY <1>1, <2>3, AppendProperties
  <2>5. \A c \in held : R!Apart(b, c)
    BY <1>1, <2>2 DEF R!Apart
  <2>6. Packed'
    <3>1. ASSUME NEW p \in 1..(n + 1) PROVE m_stackList'[p] <= PageSize
      <4>1. CASE p = n + 1
        BY <1>1, <2>4, <4>1
      <4>2. CASE p # n + 1
        <5>1. p \in 1..n
          BY <1>1, <4>2
        <5> QED BY <1>1, <2>4, <5>1
      <4> QED BY <4>1, <4>2
    <3>2. ASSUME NEW c \in held
          PROVE  c.page \in 1..(n + 1) /\ R!End(c) <= m_stackList'[c.page]
      BY <1>1, <2>4
    <3>3. b.page \in 1..(n + 1) /\ R!End(b) <= m_stackList'[b.page]
      BY <1>1, <2>2, <2>4
    <3> QED BY <1>1, <2>4, <3>1, <3>2, <3>3 DEF Packed, R!End
  <2>7. m_activeStack' \in 0..Len(m_stackList')
    BY <1>1, <2>2, <2>4
  <2> QED BY <1>1, <2>2, <2>4, <2>5, <2>6, <2>7, NotItself
<1> QED BY <1>3, <1>4

-----------------------------------------------------------------------------
(* Places. *)

LEMMA InitInv == Init => IInv
<1> SUFFICES ASSUME Init PROVE IInv
  OBVIOUS
<1>1. /\ owner \in Owners /\ m_stackList = <<>> /\ m_activeStack = 0 /\ m_dtors = <<>>
      /\ pc = "live" /\ after = "live" /\ next = 1 /\ held = {} /\ alive = {}
      /\ vector = NoVector
  BY DEF Init
<1>2. Len(<<>>) = 0 /\ <<>> \in Seq(Nat) /\ <<>> \in Seq(R!Block)
  BY EmptySeq
<1>3. NoVector \in [block : SUBSET R!Block, capacity : Nat, size : Nat]
  BY DEF NoVector
<1>4. TypeOK
  BY <1>1, <1>2, <1>3 DEF TypeOK
<1>5. PlacesInv
  BY <1>1, <1>2, <1>4 DEF PlacesInv, Packed
<1>6. ObjectsInv
  BY <1>1, <1>2 DEF ObjectsInv, Constructed
<1> QED BY <1>5, <1>6 DEF IInv

\* The steps that allocate: what they ask for, and what they leave alone.
LEMMA Allocating ==
  ASSUME TypeOK, NEW bytes \in Sizes
  PROVE  bytes \in Nat \ {0}
BY AllocatorAssumption

LEMMA GrownIsPositive ==
  ASSUME TypeOK
  PROVE  Grown \in Nat \ {0}
<1>1. vector.capacity \in Nat
  BY DEF TypeOK
<1> QED BY <1>1 DEF Grown

LEMMA PlacesStep == PlacesInv /\ [Next]_vars => PlacesInv'
<1> SUFFICES ASSUME PlacesInv, [Next]_vars PROVE PlacesInv'
  OBVIOUS
<1>1. TypeOK
  BY DEF PlacesInv
<1>2. ASSUME NEW bytes \in Nat \ {0}, Allocate(bytes), pc' = pc, pc = "live",
             m_dtors' \in Seq(R!Block), owner' = owner, after' = after, next' = next,
             alive' \subseteq alive \cup {Place(bytes)},
             vector' \in [block : SUBSET R!Block, capacity : Nat, size : Nat]
      PROVE  PlacesInv'
  <2>1. /\ Place(bytes) \in R!Block /\ held' = held \cup {Place(bytes)}
        /\ m_stackList' \in Seq(Nat) /\ m_activeStack' \in 0..Len(m_stackList')
        /\ Packed'
    BY <1>2, NewBlock
  <2>2. held' \subseteq R!Block /\ alive' \subseteq R!Block
    BY <1>1, <1>2, <2>1 DEF TypeOK
  <2>3. TypeOK'
    BY <1>1, <1>2, <2>1, <2>2 DEF TypeOK
  <2> QED BY <1>2, <2>1, <2>3 DEF PlacesInv
<1>3. ASSUME NEW bytes \in Sizes, Construct(bytes) PROVE PlacesInv'
  <2>1. /\ Allocate(bytes) /\ pc' = pc /\ pc = "live" /\ owner' = owner /\ after' = after
        /\ next' = next /\ alive' = alive \cup {Place(bytes)} /\ vector' = vector
        /\ m_dtors' = Append(m_dtors, Place(bytes))
    BY <1>3 DEF Construct, Registered
  <2>2. bytes \in Nat \ {0} /\ Place(bytes) \in R!Block
    BY <1>1, <2>1, Allocating, NewBlock
  <2>3. m_dtors' \in Seq(R!Block)
    BY <1>1, <2>1, <2>2, AppendProperties DEF TypeOK
  <2>4. vector' \in [block : SUBSET R!Block, capacity : Nat, size : Nat]
    BY <1>1, <2>1 DEF TypeOK
  <2> QED BY <1>2, <2>1, <2>2, <2>3, <2>4
<1>4. ASSUME NEW bytes \in Sizes, ConstructNoDtor(bytes) \/ NewModule(bytes) PROVE PlacesInv'
  <2>1. /\ Allocate(bytes) /\ pc' = pc /\ pc = "live" /\ owner' = owner /\ after' = after
        /\ next' = next /\ alive' \subseteq alive \cup {Place(bytes)} /\ vector' = vector
        /\ m_dtors' = m_dtors
    BY <1>4 DEF ConstructNoDtor, NewModule, NotRegistered
  <2>2. bytes \in Nat \ {0}
    BY <1>1, Allocating
  <2>3. /\ m_dtors' \in Seq(R!Block)
        /\ vector' \in [block : SUBSET R!Block, capacity : Nat, size : Nat]
    BY <1>1, <2>1 DEF TypeOK
  <2> QED BY <1>2, <2>1, <2>2, <2>3
<1>5. CASE PushBack
  <2>1. /\ pc = "live" /\ owner' = owner /\ after' = after /\ next' = next /\ alive' = alive
    BY <1>5 DEF PushBack
  <2>2. vector \in [block : SUBSET R!Block, capacity : Nat, size : Nat]
    BY <1>1 DEF TypeOK
  <2>3. CASE /\ vector' = [vector EXCEPT !.size = @ + 1]
             /\ UNCHANGED <<arena, pc>>
    <3>1. vector' \in [block : SUBSET R!Block, capacity : Nat, size : Nat]
      BY <2>2, <2>3
    <3>2. TypeOK' /\ Packed'
      BY <1>1, <2>1, <2>3, <3>1 DEF TypeOK, arena, PlacesInv, Packed, R!End
    <3> QED BY <2>1, <2>3, <3>2 DEF PlacesInv
  <2>4. CASE /\ Allocate(Grown)
             /\ vector' = [block |-> {Place(Grown)}, capacity |-> Grown, size |-> vector.size + 1]
             /\ UNCHANGED <<m_dtors, pc>>
    <3>1. Grown \in Nat \ {0} /\ Place(Grown) \in R!Block
      BY <1>1, <2>4, GrownIsPositive, NewBlock
    <3>2. vector' \in [block : SUBSET R!Block, capacity : Nat, size : Nat]
      <4>1. vector.size + 1 \in Nat
        BY <2>2
      <4> QED BY <2>4, <3>1, <4>1
    <3>3. m_dtors' \in Seq(R!Block)
      BY <1>1, <2>4 DEF TypeOK
    <3> QED BY <1>2, <2>1, <2>4, <3>1, <3>2, <3>3
  <2>5. CASE Refuse(Grown) /\ UNCHANGED vector
    <3>1. /\ pc' = "crashed" /\ m_dtors' = m_dtors /\ held' = held /\ vector' = vector
          /\ m_stackList' = IF m_stackList = <<>> THEN <<0>> ELSE m_stackList
          /\ m_activeStack' = IF m_stackList = <<>> THEN 1 ELSE m_activeStack
      BY <2>5 DEF Refuse
    <3>2. /\ m_stackList' \in Seq(Nat) /\ m_activeStack' \in 0..Len(m_stackList') /\ Packed'
      <4>1. CASE m_stackList = <<>>
        <5>1. m_stackList' = <<0>> /\ m_activeStack' = 1
          BY <3>1, <4>1
        <5>2. held' = {}
          BY <3>1, <4>1 DEF PlacesInv, Packed
        <5>3. Len(m_stackList') = 1 /\ m_stackList'[1] = 0
          BY <5>1
        <5> QED BY <5>1, <5>2, <5>3, AllocatorAssumption DEF Packed
      <4>2. CASE m_stackList # <<>>
        BY <1>1, <3>1, <4>2 DEF TypeOK, PlacesInv, Packed, R!End
      <4> QED BY <4>1, <4>2
    <3>3. TypeOK'
      BY <1>1, <2>1, <3>1, <3>2 DEF TypeOK
    <3> QED BY <3>1, <3>2, <3>3 DEF PlacesInv
  <2> QED BY <1>5, <2>3, <2>4, <2>5 DEF PushBack
<1>6. CASE Clear \/ Destruct
  <2>1. /\ pc' = "reset" /\ after' \in {"live", "ending", "gone"} /\ next' = 1
        /\ m_activeStack' = 0 /\ held' = held /\ m_stackList' = m_stackList
        /\ m_dtors' = m_dtors /\ owner' = owner
        /\ alive' \subseteq alive /\ (vector' = vector \/ vector' = NoVector)
    BY <1>6 DEF Clear, Destruct, Reset, NotActive, FreedLater
  <2>2. vector' \in [block : SUBSET R!Block, capacity : Nat, size : Nat]
    BY <1>1, <2>1 DEF TypeOK, NoVector
  <2>3. TypeOK'
    <3>1. 0 \in 0..Len(m_stackList)
      BY <1>1 DEF TypeOK
    <3> QED BY <1>1, <2>1, <2>2, <3>1 DEF TypeOK
  <2> QED BY <2>1, <2>3 DEF PlacesInv, Packed, R!End
<1>7. CASE CallDtor
  BY <1>1, <1>7 DEF CallDtor, arena, PlacesInv, TypeOK, Packed, R!End
<1>8. CASE FreePages
  <2>1. /\ m_stackList' = <<>> /\ held' = {} /\ pc' = after /\ m_activeStack' = 0
        /\ UNCHANGED <<owner, m_dtors, after, next, alive, vector>>
    BY <1>8 DEF FreePages, PlacesInv
  <2>2. <<>> \in Seq(Nat) /\ Len(<<>>) = 0
    BY EmptySeq
  <2> QED BY <1>1, <2>1, <2>2 DEF PlacesInv, TypeOK, Packed
<1>9. CASE UNCHANGED vars
  BY <1>1, <1>9 DEF vars, arena, PlacesInv, TypeOK, Packed, R!End
<1> QED BY <1>3, <1>4, <1>5, <1>6, <1>7, <1>8, <1>9 DEF Next

-----------------------------------------------------------------------------
(* Objects. *)

\* Registering an object that is not registered.
LEMMA Register ==
  ASSUME m_dtors \in Seq(R!Block), NEW o \in R!Block, o \notin Constructed,
         m_dtors' = Append(m_dtors, o),
         \A i, j \in 1..Len(m_dtors) : m_dtors[i] = m_dtors[j] => i = j
  PROVE  /\ Constructed' = Constructed \cup {o}
         /\ \A i, j \in 1..Len(m_dtors') : m_dtors'[i] = m_dtors'[j] => i = j
<1> DEFINE n == Len(m_dtors)
<1>1. /\ n \in Nat /\ Len(m_dtors') = n + 1 /\ m_dtors'[n + 1] = o
      /\ \A i \in 1..n : m_dtors'[i] = m_dtors[i]
  BY AppendProperties
<1>2. \A i \in 1..n : m_dtors[i] # o
  BY DEF Constructed
<1>3. Constructed' = Constructed \cup {o}
  <2>1. 1..(n + 1) = 1..n \cup {n + 1}
    BY <1>1
  <2> QED BY <1>1, <2>1 DEF Constructed
<1>4. ASSUME NEW i \in 1..(n + 1), NEW j \in 1..(n + 1), m_dtors'[i] = m_dtors'[j]
      PROVE  i = j
  <2>1. CASE i = n + 1 /\ j = n + 1
    BY <2>1
  <2>2. CASE i # n + 1 /\ j # n + 1
    <3>1. i \in 1..n /\ j \in 1..n
      BY <1>1, <2>2
    <3> QED BY <1>1, <1>4, <3>1
  <2>3. CASE i = n + 1 /\ j # n + 1
    <3>1. j \in 1..n
      BY <1>1, <2>3
    <3> QED BY <1>1, <1>2, <1>4, <2>3, <3>1
  <2>4. CASE i # n + 1 /\ j = n + 1
    <3>1. i \in 1..n
      BY <1>1, <2>4
    <3> QED BY <1>1, <1>2, <1>4, <2>4, <3>1
  <2> QED BY <2>1, <2>2, <2>3, <2>4
<1> QED BY <1>1, <1>3, <1>4

\* One destructor is called.
LEMMA OneLess ==
  ASSUME m_dtors \in Seq(R!Block), next \in Nat, next >= 1, next <= Len(m_dtors),
         \A i, j \in 1..Len(m_dtors) : m_dtors[i] = m_dtors[j] => i = j,
         m_dtors' = m_dtors, next' = next + 1
  PROVE  Pending' = Pending \ {m_dtors[next]}
<1>1. Len(m_dtors) \in Nat
  OBVIOUS
<1>2. next..Len(m_dtors) = (next + 1)..Len(m_dtors) \cup {next}
  BY <1>1
<1>3. \A i \in (next + 1)..Len(m_dtors) : m_dtors[i] # m_dtors[next]
  <2> TAKE i \in (next + 1)..Len(m_dtors)
  <2>1. i \in 1..Len(m_dtors) /\ next \in 1..Len(m_dtors) /\ i # next
    BY <1>1
  <2> QED BY <2>1
<1> QED BY <1>2, <1>3 DEF Pending

LEMMA ObjectsStep == IInv /\ [Next]_vars => ObjectsInv'
<1> SUFFICES ASSUME IInv, [Next]_vars PROVE ObjectsInv'
  OBVIOUS
<1>1. TypeOK /\ PlacesInv /\ ObjectsInv
  BY DEF IInv, PlacesInv
<1>2. /\ m_dtors \in Seq(R!Block) /\ next \in Nat /\ Len(m_dtors) \in Nat
      /\ owner \in Owners
  BY <1>1 DEF TypeOK
<1>3. ASSUME NEW bytes \in Sizes, Construct(bytes) PROVE ObjectsInv'
  <2> DEFINE o == Place(bytes)
  <2>1. /\ pc = "live" /\ owner = "context" /\ Allocate(bytes)
        /\ m_dtors' = Append(m_dtors, o) /\ alive' = alive \cup {o}
        /\ pc' = pc /\ owner' = owner
    BY <1>3 DEF Construct, Registered
  <2>2. bytes \in Nat \ {0}
    BY <1>1, Allocating
  <2>3. o \in R!Block /\ o \notin held /\ held' = held \cup {o}
    BY <1>1, <2>1, <2>2, NewBlock
  <2> HIDE DEF o
  <2>4. alive = Constructed /\ alive \subseteq held
    BY <1>1, <2>1 DEF ObjectsInv
  <2>5. o \notin Constructed
    BY <2>3, <2>4
  <2>6. /\ Constructed' = Constructed \cup {o}
        /\ \A i, j \in 1..Len(m_dtors') : m_dtors'[i] = m_dtors'[j] => i = j
    BY <1>1, <1>2, <2>1, <2>3, <2>5, Register DEF ObjectsInv
  <2> QED BY <2>1, <2>3, <2>4, <2>6 DEF ObjectsInv
<1>4. ASSUME NEW bytes \in Sizes, ConstructNoDtor(bytes) PROVE ObjectsInv'
  <2>1. /\ pc = "live" /\ pc' = pc /\ owner' = owner /\ m_dtors' = m_dtors /\ alive' = alive
        /\ held \subseteq held'
    BY <1>4 DEF ConstructNoDtor, Allocate
  <2> QED BY <1>1, <2>1 DEF ObjectsInv, Constructed
<1>5. ASSUME NEW bytes \in Sizes, NewModule(bytes) PROVE ObjectsInv'
  <2>1. /\ pc = "live" /\ pc' = pc /\ owner = "manager" /\ owner' = owner
        /\ m_dtors' = m_dtors /\ alive' = alive \cup {Place(bytes)}
        /\ held' = held \cup {Place(bytes)}
    BY <1>5 DEF NewModule, NotRegistered, Allocate
  <2> QED BY <1>1, <2>1 DEF ObjectsInv
<1>6. CASE PushBack
  <2>1. /\ pc = "live" /\ pc' \in {"live", "crashed"} /\ owner' = owner /\ m_dtors' = m_dtors
        /\ alive' = alive /\ held \subseteq held'
    BY <1>6 DEF PushBack, Allocate, Refuse, arena
  <2> QED BY <1>1, <2>1 DEF ObjectsInv, Constructed
<1>7. CASE Clear
  <2>1. /\ owner = "manager" /\ owner' = owner /\ pc' = "reset" /\ next' = 1 /\ alive' = {}
        /\ m_dtors' = m_dtors /\ m_dtors = <<>>
    BY <1>1, <1>7 DEF Clear, Reset, ObjectsInv
  <2>2. Pending' = {}
    BY <2>1 DEF Pending
  <2> QED BY <2>1, <2>2 DEF ObjectsInv
<1>8. CASE Destruct
  <2>1. /\ owner' = owner /\ pc' = "reset" /\ next' = 1 /\ after' = "gone" /\ alive' = alive
        /\ m_dtors' = m_dtors /\ held' = held
        /\ pc = IF owner = "manager" THEN "ending" ELSE "live"
    BY <1>8 DEF Destruct, Reset, FreedLater
  <2>2. Pending' = Constructed
    BY <2>1 DEF Pending, Constructed
  <2>3. alive = Constructed
    <3>1. CASE owner = "context"
      BY <1>1, <2>1, <3>1 DEF ObjectsInv
    <3>2. CASE owner = "manager"
      BY <1>1, <2>1, <3>2 DEF ObjectsInv, Constructed
    <3> QED BY <1>2, <3>1, <3>2 DEF Owners
  <2> QED BY <1>1, <2>1, <2>2, <2>3 DEF ObjectsInv
<1>9. CASE CallDtor
  <2>1. /\ pc = "reset" /\ next <= Len(m_dtors) /\ alive' = alive \ {m_dtors[next]}
        /\ next' = next + 1 /\ pc' = pc /\ owner' = owner /\ after' = after
        /\ m_dtors' = m_dtors /\ held' = held
    BY <1>9 DEF CallDtor, arena
  <2>2. next >= 1 /\ alive = Pending
    BY <1>1, <2>1 DEF ObjectsInv
  <2>3. Pending' = Pending \ {m_dtors[next]}
    BY <1>1, <1>2, <2>1, <2>2, OneLess DEF ObjectsInv
  <2> QED BY <1>1, <1>2, <2>1, <2>2, <2>3 DEF ObjectsInv
<1>10. CASE FreePages
  <2>1. /\ pc = "reset" /\ next > Len(m_dtors) /\ held' = {} /\ pc' = after
        /\ owner' = owner /\ after' = after /\ m_dtors' = m_dtors /\ alive' = alive
    BY <1>10 DEF FreePages
  <2>2. alive = Pending
    BY <1>1, <2>1 DEF ObjectsInv
  <2>3. Pending = {}
    BY <1>2, <2>1 DEF Pending
  <2>4. after \in {"live", "ending", "gone"}
    BY <1>1 DEF TypeOK
  <2> QED BY <1>1, <2>1, <2>2, <2>3, <2>4 DEF ObjectsInv, Constructed
<1>11. CASE UNCHANGED vars
  BY <1>1, <1>11 DEF vars, arena, ObjectsInv, Constructed, Pending
<1> QED BY <1>3, <1>4, <1>5, <1>6, <1>7, <1>8, <1>9, <1>10, <1>11 DEF Next

-----------------------------------------------------------------------------
\* The inductive invariant: blocks are packed and the objects that are alive
\* are those that reset still has to destroy.
THEOREM ArenaInvariant == Spec => []IInv
<1>1. IInv /\ [Next]_vars => IInv'
  BY PlacesStep, ObjectsStep DEF IInv
<1> QED BY <1>1, InitInv, PTL DEF Spec

\* The types of the model hold; the active page is one of the pages.
THEOREM TypeCorrect == Spec => []TypeOK
<1>1. IInv => TypeOK
  BY DEF IInv, PlacesInv
<1> QED BY <1>1, ArenaInvariant, PTL

\* allocatorstack.cpp:124-127: an object's memory outlives it.
THEOREM ObjectsLiveInMemory == Spec => []LivesInMemory
<1>1. IInv => LivesInMemory
  BY DEF IInv, ObjectsInv, LivesInMemory
<1> QED BY <1>1, ArenaInvariant, PTL

\* No destructor is called twice, although m_dtors is never cleared.
THEOREM NoObjectIsDestroyedTwice == Spec => []DestroyedOnce
<1>1. IInv => DestroyedOnce
  <2> SUFFICES ASSUME IInv, pc = "reset", next <= Len(m_dtors) PROVE m_dtors[next] \in alive
    BY DEF DestroyedOnce
  <2>1. alive = Pending /\ next \in Nat /\ Len(m_dtors) \in Nat
    BY DEF IInv, ObjectsInv, PlacesInv, TypeOK
  <2>2. next \in next..Len(m_dtors)
    BY <2>1
  <2> QED BY <2>1, <2>2 DEF Pending
<1> QED BY <1>1, ArenaInvariant, PTL

\* When its owner is gone, every object has been destroyed.
THEOREM EveryObjectIsDestroyed == Spec => []AllDestroyed
<1>1. IInv => AllDestroyed
  BY DEF IInv, ObjectsInv, AllDestroyed
<1> QED BY <1>1, ArenaInvariant, PTL

\* The arena implements Region: a step takes one block that is apart from all
\* others, releases them all, or does neither.
THEOREM ImplementsRegion == Spec => RegionSpec
<1>1. Init => R!Init
  BY DEF Init, R!Init
<1>2. IInv /\ [Next]_vars => [R!Next]_held
  <2> SUFFICES ASSUME IInv, [Next]_vars PROVE [R!Next]_held
    OBVIOUS
  <2>1. PlacesInv /\ TypeOK
    BY DEF IInv, PlacesInv
  <2>2. ASSUME NEW bytes \in Nat \ {0}, Allocate(bytes) PROVE R!Next
    <3>1. /\ Place(bytes) \in R!Block /\ R!End(Place(bytes)) <= PageSize
          /\ \A c \in held : R!Apart(Place(bytes), c)
          /\ held' = held \cup {Place(bytes)}
      BY <2>1, <2>2, NewBlock
    <3> QED BY <3>1 DEF R!Next, R!Take
  <2>3. ASSUME NEW bytes \in Sizes, Construct(bytes) \/ ConstructNoDtor(bytes) \/ NewModule(bytes)
        PROVE  R!Next
    <3>1. Allocate(bytes) /\ bytes \in Nat \ {0}
      BY <2>1, <2>3, Allocating DEF Construct, ConstructNoDtor, NewModule
    <3> QED BY <2>2, <3>1
  <2>4. CASE PushBack
    <3>1. Allocate(Grown) \/ held' = held
      BY <2>4 DEF PushBack, Refuse, arena
    <3>2. Grown \in Nat \ {0}
      BY <2>1, GrownIsPositive
    <3> QED BY <2>2, <3>1, <3>2
  <2>5. CASE Clear \/ Destruct \/ CallDtor \/ UNCHANGED vars
    BY <2>5 DEF Clear, Destruct, Reset, FreedLater, CallDtor, vars, arena
  <2>6. CASE FreePages
    BY <2>6 DEF FreePages, R!Next, R!ReleaseAll
  <2> QED BY <2>3, <2>4, <2>5, <2>6 DEF Next
<1> QED BY <1>1, <1>2, ArenaInvariant, PTL DEF Spec, RegionSpec, R!Spec

-----------------------------------------------------------------------------
(* The lists of the parser. *)

\* The list o takes the vector from below to above.
Lies(o, below, above) ==
  /\ above = below \o o.items
  /\ o.items = <<>> => o.range.begin = 0 /\ o.range.end = 0
  /\ o.items # <<>> => o.range.begin = Len(below) /\ o.range.end = Len(above)

\* The i-th of the lists os lies on what the vector was before, below[i].
Layout(list, os, below) ==
  /\ below \in [1..(Len(os) + 1) -> Seq(Nat)]
  /\ below[1] = <<>>
  /\ below[Len(os) + 1] = list
  /\ \A i \in 1..Len(os) : Lies(os[i], below[i], below[i + 1])

LaidOut(list, os) == \E below : Layout(list, os, below)

ListsInv == Lists!TypeOK /\ (~mixed => LaidOut(m_list, open))

-----------------------------------------------------------------------------
(* Lists are put on the stack and taken from it. *)

\* With no list open there is nothing in the vector.
LEMMA Nothing ==
  ASSUME NEW list \in Seq(Nat)
  PROVE  LaidOut(list, <<>>) <=> list = <<>>
<1>1. ASSUME LaidOut(list, <<>>) PROVE list = <<>>
  BY <1>1 DEF LaidOut, Layout
<1>2. ASSUME list = <<>> PROVE Layout(list, <<>>, [i \in 1..1 |-> <<>>])
  BY <1>2, EmptySeq DEF Layout
<1> QED BY <1>1, <1>2 DEF LaidOut

\* A list is opened.
LEMMA Pushed ==
  ASSUME NEW list \in Seq(Nat), NEW longer \in Seq(Nat),
         NEW os \in Seq(Lists!OpenList), NEW o \in Lists!OpenList,
         LaidOut(list, os), Lies(o, list, longer)
  PROVE  LaidOut(longer, Append(os, o))
<1> DEFINE n == Len(os)
           ps == Append(os, o)
<1>1. PICK below : Layout(list, os, below)
  BY DEF LaidOut
<1>2. n \in Nat /\ Len(ps) = n + 1 /\ ps[n + 1] = o /\ \A i \in 1..n : ps[i] = os[i]
  OBVIOUS
<1> DEFINE new == [i \in 1..(n + 2) |-> IF i = n + 2 THEN longer ELSE below[i]]
<1>3. /\ below \in [1..(n + 1) -> Seq(Nat)] /\ below[1] = <<>> /\ below[n + 1] = list
      /\ \A i \in 1..n : Lies(os[i], below[i], below[i + 1])
  BY <1>1 DEF Layout
<1> HIDE DEF n, ps
<1>4. /\ new \in [1..(n + 2) -> Seq(Nat)] /\ new[n + 2] = longer
      /\ \A i \in 1..(n + 1) : new[i] = below[i]
  BY <1>2, <1>3
<1> HIDE DEF new
<1>5. ASSUME NEW i \in 1..(n + 1) PROVE Lies(ps[i], new[i], new[i + 1])
  <2>1. CASE i = n + 1
    <3>1. ps[i] = o /\ new[i] = list /\ new[i + 1] = longer
      BY <1>2, <1>3, <1>4, <2>1
    <3> QED BY <3>1
  <2>2. CASE i # n + 1
    <3>1. i \in 1..n /\ ps[i] = os[i] /\ new[i] = below[i] /\ new[i + 1] = below[i + 1]
      BY <1>2, <1>4, <2>2
    <3> QED BY <1>3, <3>1
  <2> QED BY <2>1, <2>2
<1>6. Layout(longer, ps, new)
  <2>1. new[1] = <<>> /\ n + 1 + 1 = n + 2
    BY <1>2, <1>3, <1>4
  <2> QED BY <1>2, <1>4, <1>5, <2>1 DEF Layout
<1> QED BY <1>6 DEF LaidOut, ps

\* The stack without its top.
LEMMA FrontIsASeq ==
  ASSUME NEW os \in Seq(Lists!OpenList), os # <<>>
  PROVE  /\ Lists!Front(os) \in Seq(Lists!OpenList) /\ Len(Lists!Front(os)) = Len(os) - 1
         /\ \A i \in 1..(Len(os) - 1) : Lists!Front(os)[i] = os[i]
<1> DEFINE n == Len(os)
<1>1. n \in Nat /\ n > 0
  BY EmptySeq
<1>2. \A i \in 1..(n - 1) : os[i] \in Lists!OpenList /\ 1 + i - 1 = i
  BY <1>1
<1>3. n - 1 \in Int /\ 1 \in Int /\ (n - 1) - 1 + 1 = n - 1
  BY <1>1
<1>4. /\ SubSeq(os, 1, n - 1) \in Seq(Lists!OpenList)
      /\ Len(SubSeq(os, 1, n - 1)) = IF 1 <= n - 1 THEN (n - 1) - 1 + 1 ELSE 0
      /\ \A i \in 1..((n - 1) - 1 + 1) : SubSeq(os, 1, n - 1)[i] = os[1 + i - 1]
  BY <1>2, <1>3, SubSeqProperties
<1> HIDE DEF n
<1> QED BY <1>1, <1>2, <1>3, <1>4 DEF Lists!Front, n

\* The top list is taken away: it lies on what is left.
LEMMA Popped ==
  ASSUME NEW list \in Seq(Nat), NEW os \in Seq(Lists!OpenList), os # <<>>, LaidOut(list, os)
  PROVE  /\ Lists!Last(os) \in Lists!OpenList /\ Lists!Front(os) \in Seq(Lists!OpenList)
         /\ Len(Lists!Front(os)) = Len(os) - 1
         /\ \E below \in Seq(Nat) : Lies(Lists!Last(os), below, list) /\ LaidOut(below, Lists!Front(os))
<1> DEFINE n == Len(os)
           ps == Lists!Front(os)
<1>1. PICK below : Layout(list, os, below)
  BY DEF LaidOut
<1>2. n \in Nat /\ n > 0
  BY EmptySeq
<1>3. Len(ps) = n - 1 /\ ps \in Seq(Lists!OpenList) /\ \A i \in 1..(n - 1) : ps[i] = os[i]
  BY FrontIsASeq
<1>4. Lists!Last(os) = os[n] /\ os[n] \in Lists!OpenList
  BY <1>2 DEF Lists!Last
<1>5. /\ below \in [1..(n + 1) -> Seq(Nat)] /\ below[1] = <<>> /\ below[n + 1] = list
      /\ \A i \in 1..n : Lies(os[i], below[i], below[i + 1])
  BY <1>1 DEF Layout
<1> HIDE DEF n, ps
<1> DEFINE old == [i \in 1..n |-> below[i]]
<1>6. old \in [1..n -> Seq(Nat)] /\ \A i \in 1..n : old[i] = below[i]
  BY <1>2, <1>5
<1> HIDE DEF old
<1>7. Layout(below[n], ps, old)
  <2>1. old[1] = <<>> /\ old[n] = below[n] /\ n - 1 + 1 = n
    BY <1>2, <1>5, <1>6
  <2>2. ASSUME NEW i \in 1..(n - 1) PROVE Lies(ps[i], old[i], old[i + 1])
    <3>1. i \in 1..n /\ i + 1 \in 1..n
      BY <1>2
    <3>2. ps[i] = os[i] /\ old[i] = below[i] /\ old[i + 1] = below[i + 1]
      BY <1>3, <1>6, <3>1
    <3> QED BY <1>5, <3>1, <3>2
  <2> QED BY <1>3, <1>6, <2>1, <2>2 DEF Layout
<1>8. Lies(Lists!Last(os), below[n], list) /\ below[n] \in Seq(Nat)
  BY <1>2, <1>4, <1>5
<1> QED BY <1>3, <1>4, <1>7, <1>8 DEF LaidOut, n, ps

\* To replace the top is to take it away and to put another there.
LEMMA TopReplaced ==
  ASSUME NEW os \in Seq(Lists!OpenList), os # <<>>, NEW o \in Lists!OpenList
  PROVE  [os EXCEPT ![Len(os)] = o] = Append(Lists!Front(os), o)
<1> DEFINE n == Len(os)
           es == [os EXCEPT ![n] = o]
           as == Append(Lists!Front(os), o)
<1>1. n \in Nat /\ n > 0 /\ n \in 1..n
  BY EmptySeq
<1>2. es \in Seq(Lists!OpenList) /\ Len(es) = n
      /\ \A j \in 1..n : es[j] = IF j = n THEN o ELSE os[j]
  BY <1>1, ExceptSeq
<1>3. /\ Lists!Front(os) \in Seq(Lists!OpenList) /\ Len(Lists!Front(os)) = n - 1
      /\ \A j \in 1..(n - 1) : Lists!Front(os)[j] = os[j]
  BY FrontIsASeq
<1>4. /\ as \in Seq(Lists!OpenList) /\ Len(as) = n - 1 + 1
      /\ \A j \in 1..(n - 1) : as[j] = Lists!Front(os)[j]
      /\ as[n - 1 + 1] = o
  BY <1>3, AppendProperties
<1> HIDE DEF es, as, n
<1>5. ASSUME NEW j \in 1..n PROVE es[j] = as[j]
  <2>1. CASE j = n
    <3>1. n - 1 + 1 = n
      BY <1>1
    <3> QED BY <1>2, <1>4, <2>1, <3>1
  <2>2. CASE j # n
    <3>1. j \in 1..(n - 1)
      BY <1>1, <2>2
    <3> QED BY <1>2, <1>3, <1>4, <2>2, <3>1
  <2> QED BY <2>1, <2>2
<1>6. Len(as) = n
  BY <1>1, <1>4
<1> QED BY <1>2, <1>4, <1>5, <1>6, SeqEqual DEF es, as, n

-----------------------------------------------------------------------------
(* What a list finds in the vector. *)

\* What moveRange leaves of the vector is a vector.
LEMMA KeptIsASeq ==
  ASSUME NEW range \in Lists!PlaceRange, m_list \in Seq(Nat)
  PROVE  Lists!Kept(range) \in Seq(Nat)
<1> DEFINE a == SubSeq(m_list, 1, range.begin)
           b == SubSeq(m_list, range.end + 1, Len(m_list))
<1>1. range.begin \in Nat /\ range.end \in Nat /\ Len(m_list) \in Nat
  BY DEF Lists!PlaceRange
<1>2. CASE Lists!Movable(range)
  <2>1. \A i \in 1..range.begin : m_list[i] \in Nat
    BY <1>1, <1>2 DEF Lists!Movable
  <2>2. \A i \in (range.end + 1)..Len(m_list) : m_list[i] \in Nat
    BY <1>1
  <2>3. a \in Seq(Nat)
    BY <1>1, <2>1, SubSeqProperties
  <2>4. b \in Seq(Nat)
    BY <1>1, <2>2, SubSeqProperties
  <2>5. a \o b \in Seq(Nat)
    BY <2>3, <2>4, ConcatProperties
  <2> QED BY <1>2, <2>5 DEF Lists!Kept
<1>3. CASE ~Lists!Movable(range)
  BY <1>3 DEF Lists!Kept
<1> QED BY <1>2, <1>3

\* A part of the vector that begins at the end of another.
LEMMA Pieces ==
  ASSUME NEW b \in Seq(Nat), NEW s \in Seq(Nat), s # <<>>
  PROVE  /\ Len(b \o s) = Len(b) + Len(s) /\ Len(b) \in Nat /\ Len(s) \in Nat \ {0}
         /\ SubSeq(b \o s, Len(b) + 1, Len(b) + Len(s)) = s
         /\ SubSeq(b \o s, 1, Len(b)) = b
         /\ SubSeq(b \o s, Len(b) + Len(s) + 1, Len(b) + Len(s)) = <<>>
<1>1. Len(b \o s) = Len(b) + Len(s) /\ Len(b) \in Nat /\ Len(s) \in Nat \ {0}
  BY EmptySeq
<1>2. SubSeq(b \o s, Len(b) + 1, Len(b) + Len(s)) = s
  <2>1. SubSeq(b \o s, Len(b) + 1, Len(b) + Len(s)) =
          SubSeq(s, Len(b) + 1 - Len(b), Len(b) + Len(s) - Len(b))
    <3>1. /\ Len(b) + 1 \in Len(b) + 1 .. Len(b) + Len(s)
          /\ Len(b) + Len(s) \in Len(b) + 1 .. Len(b) + Len(s)
      BY <1>1
    <3> QED BY <3>1, SubSeqOfConcat2
  <2>2. Len(b) + 1 - Len(b) = 1 /\ Len(b) + Len(s) - Len(b) = Len(s)
    BY <1>1
  <2> QED BY <2>1, <2>2, SubSeqFull
<1>3. SubSeq(b \o s, 1, Len(b)) = b
  <2>1. CASE b = <<>>
    <3>1. Len(b) = 0
      BY <2>1
    <3> QED BY <2>1, <3>1, SubSeqEmpty
  <2>2. CASE b # <<>>
    <3>1. 1 \in 1..Len(b) /\ Len(b) \in 1..Len(b)
      BY <2>2, EmptySeq
    <3> QED BY <3>1, SubSeqOfConcat1, SubSeqFull
  <2> QED BY <2>1, <2>2
<1>4. SubSeq(b \o s, Len(b) + Len(s) + 1, Len(b) + Len(s)) = <<>>
  BY <1>1, SubSeqEmpty
<1> QED BY <1>1, <1>2, <1>3, <1>4

\* The top list finds its items, and leaves what was below it.
LEMMA Found ==
  ASSUME Lists!TypeOK, NEW o \in Lists!OpenList, NEW below \in Seq(Nat), Lies(o, below, m_list)
  PROVE  Lists!Moved(o.range) = o.items /\ Lists!Kept(o.range) = below
<1>1. o.items \in Seq(Nat) /\ m_list = below \o o.items /\ m_list \in Seq(Nat)
  BY DEF Lists!OpenList, Lies, Lists!TypeOK
<1>2. CASE o.items = <<>>
  <2>1. ~Lists!Movable(o.range)
    BY <1>2 DEF Lies, Lists!Movable
  <2>2. m_list = below
    BY <1>1, <1>2, ConcatEmptySeq
  <2> QED BY <1>2, <2>1, <2>2 DEF Lists!Moved, Lists!Kept
<1>3. CASE o.items # <<>>
  <2>1. /\ Len(m_list) = Len(below) + Len(o.items)
        /\ Len(below) \in Nat /\ Len(o.items) \in Nat \ {0}
        /\ o.range.begin = Len(below) /\ o.range.end = Len(below) + Len(o.items)
    BY <1>1, <1>3, Pieces DEF Lies
  <2>2. Lists!Movable(o.range)
    BY <2>1 DEF Lists!Movable
  <2>3. Lists!Moved(o.range) = o.items
    <3>1. Lists!Moved(o.range) = SubSeq(m_list, Len(below) + 1, Len(below) + Len(o.items))
      BY <2>1, <2>2 DEF Lists!Moved
    <3> QED BY <1>1, <1>3, <3>1, Pieces
  <2>4. Lists!Kept(o.range) = below
    <3>1. Lists!Kept(o.range) =
            SubSeq(m_list, 1, Len(below)) \o
            SubSeq(m_list, Len(below) + Len(o.items) + 1, Len(below) + Len(o.items))
      BY <2>1, <2>2 DEF Lists!Kept
    <3>2. Lists!Kept(o.range) = below \o <<>>
      BY <1>1, <1>3, <3>1, Pieces
    <3> QED BY <3>2, ConcatEmptySeq
  <2> QED BY <2>3, <2>4
<1> QED BY <1>2, <1>3

\* An item is added on top.
LEMMA ItemOnTop ==
  ASSUME NEW below \in Seq(Nat), NEW items \in Seq(Nat), NEW item \in Nat
  PROVE  /\ Append(below \o items, item) = below \o Append(items, item)
         /\ Append(items, item) \in Seq(Nat) /\ Append(items, item) # <<>>
         /\ Append(below \o items, item) \in Seq(Nat)
         /\ Len(Append(below \o items, item)) = Len(below \o items) + 1
<1>1. below \o items \in Seq(Nat) /\ <<item>> \in Seq(Nat)
  OBVIOUS
<1>2. Append(below \o items, item) = (below \o items) \o <<item>>
  BY <1>1, AppendIsConcat
<1>3. (below \o items) \o <<item>> = below \o (items \o <<item>>)
  BY <1>1, ConcatAssociative
<1>4. items \o <<item>> = Append(items, item)
  BY AppendIsConcat
<1>5. /\ Append(items, item) \in Seq(Nat) /\ Append(items, item) # <<>>
  <2>1. Append(items, item) \in Seq(Nat) /\ Len(Append(items, item)) = Len(items) + 1
    BY AppendProperties
  <2> DEFINE longer == Append(items, item)
  <2>2. Len(items) \in Nat
    OBVIOUS
  <2> HIDE DEF longer
  <2>3. longer # <<>>
    <3>1. Len(longer) = Len(items) + 1
      BY <2>1 DEF longer
    <3>2. Len(<<>>) = 0
      OBVIOUS
    <3> QED BY <2>2, <3>1, <3>2
  <2> QED BY <2>1, <2>3 DEF longer
<1>6. /\ Append(below \o items, item) \in Seq(Nat)
      /\ Len(Append(below \o items, item)) = Len(below \o items) + 1
  BY <1>1, AppendProperties
<1> QED BY <1>2, <1>3, <1>4, <1>5, <1>6

-----------------------------------------------------------------------------
(* The invariant. *)

\* It holds at the start and gives what the runs check.
LEMMA InitLaidOut == Lists!Init => ListsInv
<1> SUFFICES ASSUME Lists!Init PROVE ListsInv
  OBVIOUS
<1>1. Lists!TypeOK
  <2>1. <<>> \in Seq(Nat) /\ <<>> \in Seq(Lists!OpenList)
    BY EmptySeq
  <2> QED BY <2>1 DEF Lists!TypeOK, Lists!Init
<1>2. LaidOut(m_list, open)
  BY Nothing, EmptySeq DEF Lists!Init
<1> QED BY <1>1, <1>2 DEF ListsInv

LEMMA LaidOutGives == ListsInv => Lists!ListGetsItsOwn /\ Lists!NothingIsLeft
<1> SUFFICES ASSUME ListsInv PROVE Lists!ListGetsItsOwn /\ Lists!NothingIsLeft
  OBVIOUS
<1>1. m_list \in Seq(Nat) /\ open \in Seq(Lists!OpenList) /\ (~mixed => LaidOut(m_list, open))
  BY DEF ListsInv, Lists!TypeOK
<1>2. Lists!NothingIsLeft
  BY <1>1, Nothing DEF Lists!NothingIsLeft
<1>3. ASSUME ~mixed, open # <<>> PROVE Lists!Moved(Lists!Top.range) = Lists!Top.items
  <2>1. PICK below \in Seq(Nat) : Lies(Lists!Top, below, m_list)
    BY <1>1, <1>3, Popped DEF Lists!Top
  <2>2. Lists!Top \in Lists!OpenList
    BY <1>1, <1>3, Popped DEF Lists!Top
  <2> QED BY <2>1, <2>2, Found DEF ListsInv
<1> QED BY <1>2, <1>3 DEF Lists!ListGetsItsOwn

\* Every step keeps the types.
LEMMA ListsTypeStep == Lists!TypeOK /\ [Lists!Next]_(Lists!vars) => Lists!TypeOK'
<1> SUFFICES ASSUME Lists!TypeOK, [Lists!Next]_(Lists!vars) PROVE Lists!TypeOK'
  OBVIOUS
<1> DEFINE item == Lists!Last(m_list')
<1>1. /\ m_list \in Seq(Nat) /\ open \in Seq(Lists!OpenList) /\ Len(open) \in Nat
      /\ mixed \in BOOLEAN /\ Len(m_list) \in Nat
  BY DEF Lists!TypeOK
<1>2. ASSUME Lists!Read PROVE m_list' \in Seq(Nat) /\ item \in Nat
  <2>1. item \in Nat /\ m_list' = Append(m_list, item)
    BY <1>2 DEF Lists!Read
  <2> HIDE DEF item
  <2> QED BY <1>1, <2>1, AppendProperties
<1> HIDE DEF item
<1>3. CASE Lists!First
  <2> DEFINE o == [range |-> [begin |-> Len(m_list), end |-> Len(m_list) + 1],
                   items |-> <<item>>]
  <2>1. o \in Lists!OpenList
    <3>1. item \in Nat
      BY <1>2, <1>3 DEF Lists!First
    <3>2. <<item>> \in Seq(Nat)
      BY <3>1
    <3> QED BY <1>1, <3>2 DEF Lists!OpenList, Lists!PlaceRange
  <2>2. open' = Append(open, o) /\ mixed' = mixed /\ Lists!Read
    BY <1>3 DEF Lists!First, item
  <2> HIDE DEF o
  <2>3. open' \in Seq(Lists!OpenList)
    BY <1>1, <2>1, <2>2, AppendProperties
  <2> QED BY <1>1, <1>2, <2>2, <2>3 DEF Lists!TypeOK
<1>4. CASE Lists!Empty
  <2> DEFINE o == [range |-> [begin |-> 0, end |-> 0], items |-> <<>>]
  <2>1. o \in Lists!OpenList
    BY EmptySeq DEF Lists!OpenList, Lists!PlaceRange
  <2>2. open' = Append(open, o) /\ UNCHANGED <<m_list, mixed>>
    BY <1>4 DEF Lists!Empty
  <2> HIDE DEF o
  <2>3. open' \in Seq(Lists!OpenList)
    BY <1>1, <2>1, <2>2, AppendProperties
  <2> QED BY <1>1, <2>2, <2>3 DEF Lists!TypeOK
<1>5. CASE Lists!Another
  <2> DEFINE o == [range |-> Lists!Add(Lists!Top.range), items |-> Append(Lists!Top.items, item)]
             n == Len(open)
  <2>1. open # <<>> /\ Lists!Read /\ mixed' \in BOOLEAN /\ open' = [open EXCEPT ![n] = o]
    BY <1>5 DEF Lists!Another, item
  <2>2. n \in 1..n /\ Lists!Top \in Lists!OpenList
    BY <1>1, <2>1, EmptySeq DEF Lists!Top, Lists!Last
  <2>3. o \in Lists!OpenList
    <3>1. Lists!Top.range \in Lists!PlaceRange /\ Lists!Top.items \in Seq(Nat) /\ item \in Nat
      BY <1>2, <2>1, <2>2 DEF Lists!OpenList
    <3>2. Lists!Add(Lists!Top.range) \in Lists!PlaceRange
      <4>1. ASSUME NEW range \in Lists!PlaceRange, NEW e \in Nat
            PROVE  [range EXCEPT !.end = e] \in Lists!PlaceRange
        BY DEF Lists!PlaceRange
      <4>2. Len(m_list) + 1 \in Nat
        BY <1>1
      <4> QED BY <3>1, <4>1, <4>2 DEF Lists!Add
    <3>3. Append(Lists!Top.items, item) \in Seq(Nat)
      BY <3>1
    <3> QED BY <3>2, <3>3 DEF Lists!OpenList
  <2> HIDE DEF o
  <2>4. open' \in Seq(Lists!OpenList)
    BY <1>1, <2>1, <2>2, <2>3, ExceptSeq
  <2> QED BY <1>2, <2>1, <2>4 DEF Lists!TypeOK
<1>6. CASE Lists!Close
  <2>1. open # <<>> /\ open' = Lists!Front(open) /\ m_list' = Lists!Kept(Lists!Top.range) /\ mixed' = mixed
    BY <1>6 DEF Lists!Close
  <2>2. Lists!Front(open) \in Seq(Lists!OpenList)
    BY <1>1, <2>1, FrontIsASeq
  <2>3. Lists!Top.range \in Lists!PlaceRange
    <3>1. Len(open) \in 1..Len(open)
      BY <1>1, <2>1, EmptySeq
    <3>2. Lists!Top \in Lists!OpenList
      BY <1>1, <3>1 DEF Lists!Top, Lists!Last
    <3> QED BY <3>2 DEF Lists!OpenList
  <2>4. Lists!Kept(Lists!Top.range) \in Seq(Nat)
    BY <1>1, <2>3, KeptIsASeq
  <2> QED BY <1>1, <2>1, <2>2, <2>4 DEF Lists!TypeOK
<1>7. CASE Lists!GiveUp
  BY <1>1, <1>7, EmptySeq DEF Lists!GiveUp, Lists!TypeOK
<1>8. CASE UNCHANGED Lists!vars
  BY <1>8 DEF Lists!TypeOK, Lists!vars
<1> QED BY <1>3, <1>4, <1>5, <1>6, <1>7, <1>8 DEF Lists!Next

\* Every step keeps the lists on top of each other.
LEMMA LayoutStep == ListsInv /\ [Lists!Next]_(Lists!vars) => (~mixed' => LaidOut(m_list', open'))
<1> SUFFICES ASSUME ListsInv, [Lists!Next]_(Lists!vars), ~mixed' PROVE LaidOut(m_list', open')
  OBVIOUS
<1>1. Lists!TypeOK /\ Lists!TypeOK'
  BY ListsTypeStep DEF ListsInv
<1>2. /\ m_list \in Seq(Nat) /\ m_list' \in Seq(Nat)
      /\ open \in Seq(Lists!OpenList) /\ open' \in Seq(Lists!OpenList)
  BY <1>1 DEF Lists!TypeOK
<1>3. ~mixed /\ LaidOut(m_list, open)
  <2>1. ~mixed
    <3>1. \/ mixed' = mixed
          \/ mixed' = (mixed \/ (Lists!Top.items = <<>> /\ m_list # <<>>))
          \/ mixed' = TRUE
      BY DEF Lists!Next, Lists!First, Lists!Empty, Lists!Another, Lists!Close, Lists!GiveUp, Lists!vars
    <3> QED BY <1>1, <3>1 DEF Lists!TypeOK
  <2> QED BY <2>1 DEF ListsInv
<1> DEFINE item == Lists!Last(m_list')
<1>4. Lists!Read => item \in Nat /\ m_list' = Append(m_list, item)
  BY DEF Lists!Read
<1> HIDE DEF item
<1>5. CASE Lists!First
  <2> DEFINE o == [range |-> [begin |-> Len(m_list), end |-> Len(m_list) + 1],
                   items |-> <<item>>]
  <2>1. open' = Append(open, o) /\ m_list' = Append(m_list, item)
    BY <1>4, <1>5 DEF Lists!First, item
  <2>2. Append(m_list, item) = m_list \o <<item>> /\ Len(Append(m_list, item)) = Len(m_list) + 1
    BY <1>2, <1>4, <1>5, AppendIsConcat, AppendProperties DEF Lists!First
  <2>3. Lies(o, m_list, m_list')
    BY <2>1, <2>2 DEF Lies
  <2>4. o \in Lists!OpenList
    <3>1. <<item>> \in Seq(Nat) /\ Len(m_list) \in Nat
      BY <1>2, <1>4, <1>5 DEF Lists!First
    <3> QED BY <3>1 DEF Lists!OpenList, Lists!PlaceRange
  <2> HIDE DEF o
  <2> QED BY <1>2, <1>3, <2>1, <2>3, <2>4, Pushed
<1>6. CASE Lists!Empty
  <2> DEFINE o == [range |-> [begin |-> 0, end |-> 0], items |-> <<>>]
  <2>1. open' = Append(open, o) /\ m_list' = m_list
    BY <1>6 DEF Lists!Empty
  <2>2. Lies(o, m_list, m_list')
    BY <1>2, <2>1, ConcatEmptySeq DEF Lies
  <2>3. o \in Lists!OpenList
    BY EmptySeq DEF Lists!OpenList, Lists!PlaceRange
  <2> HIDE DEF o
  <2> QED BY <1>2, <1>3, <2>1, <2>2, <2>3, Pushed
<1>7. CASE Lists!Another
  <2> DEFINE o == [range |-> Lists!Add(Lists!Top.range), items |-> Append(Lists!Top.items, item)]
  <2>1. /\ open # <<>> /\ m_list' = Append(m_list, item)
        /\ open' = [open EXCEPT ![Len(open)] = o]
        /\ Lists!Top.items = <<>> => m_list = <<>>
    BY <1>4, <1>7 DEF Lists!Another, item
  <2>2. PICK below \in Seq(Nat) : Lies(Lists!Top, below, m_list) /\ LaidOut(below, Lists!Front(open))
    BY <1>2, <1>3, <2>1, Popped DEF Lists!Top
  <2>3. Lists!Top \in Lists!OpenList /\ Lists!Front(open) \in Seq(Lists!OpenList)
    BY <1>2, <1>3, <2>1, Popped DEF Lists!Top
  <2>4. Lists!Top.items \in Seq(Nat) /\ Lists!Top.range \in Lists!PlaceRange
    BY <2>3 DEF Lists!OpenList
  <2>5. m_list = below \o Lists!Top.items
    BY <2>2 DEF Lies
  <2>6. /\ m_list' = below \o Append(Lists!Top.items, item)
        /\ Append(Lists!Top.items, item) \in Seq(Nat) /\ Append(Lists!Top.items, item) # <<>>
        /\ Len(m_list') = Len(m_list) + 1
    <3>1. item \in Nat
      BY <1>4, <1>7 DEF Lists!Another
    <3>2. /\ Append(below \o Lists!Top.items, item) = below \o Append(Lists!Top.items, item)
          /\ Append(Lists!Top.items, item) \in Seq(Nat) /\ Append(Lists!Top.items, item) # <<>>
          /\ Len(Append(below \o Lists!Top.items, item)) = Len(below \o Lists!Top.items) + 1
      BY <2>4, <3>1, ItemOnTop
    <3> QED BY <2>1, <2>5, <3>2
  <2>7. Lists!Top.range.begin = Len(below)
    <3>1. CASE Lists!Top.items = <<>>
      <4>1. below = <<>>
        BY <2>1, <2>4, <2>5, <3>1, ConcatEmptySeq
      <4> QED BY <2>2, <3>1, <4>1 DEF Lies
    <3>2. CASE Lists!Top.items # <<>>
      BY <2>2, <3>2 DEF Lies
    <3> QED BY <3>1, <3>2
  <2>8. Lists!Add(Lists!Top.range) = [begin |-> Len(below), end |-> Len(m_list')]
    <3>1. Lists!Add(Lists!Top.range) = [Lists!Top.range EXCEPT !.end = Len(m_list')]
      BY <2>6 DEF Lists!Add
    <3> QED BY <2>4, <2>7, <3>1 DEF Lists!PlaceRange
  <2>9. Lies(o, below, m_list')
    <3>1. /\ o.items = Append(Lists!Top.items, item)
          /\ o.range.begin = Len(below) /\ o.range.end = Len(m_list')
      BY <2>8
    <3> HIDE DEF o
    <3> QED BY <2>6, <3>1 DEF Lies
  <2>10. o \in Lists!OpenList
    <3>1. Len(below) \in Nat /\ Len(m_list') \in Nat
      BY <1>2
    <3> QED BY <2>6, <2>8, <3>1 DEF Lists!OpenList, Lists!PlaceRange
  <2> HIDE DEF o
  <2>11. open' = Append(Lists!Front(open), o)
    BY <1>2, <2>1, <2>10, TopReplaced
  <2> QED BY <1>2, <2>2, <2>3, <2>9, <2>10, <2>11, Pushed
<1>8. CASE Lists!Close
  <2>1. open # <<>> /\ open' = Lists!Front(open) /\ m_list' = Lists!Kept(Lists!Top.range)
    BY <1>8 DEF Lists!Close
  <2>2. PICK below \in Seq(Nat) : Lies(Lists!Top, below, m_list) /\ LaidOut(below, Lists!Front(open))
    BY <1>2, <1>3, <2>1, Popped DEF Lists!Top
  <2>3. Lists!Top \in Lists!OpenList
    BY <1>2, <1>3, <2>1, Popped DEF Lists!Top
  <2> QED BY <1>1, <2>1, <2>2, <2>3, Found
<1>9. CASE Lists!GiveUp
  BY <1>9 DEF Lists!GiveUp
<1>10. CASE UNCHANGED Lists!vars
  BY <1>3, <1>10 DEF Lists!vars
<1> QED BY <1>5, <1>6, <1>7, <1>8, <1>9, <1>10 DEF Lists!Next

-----------------------------------------------------------------------------
\* The types of the model hold, with any number of lists and items.
THEOREM ListsTypeCorrect == Lists!Spec => []Lists!TypeOK
<1>1. Lists!Init => Lists!TypeOK
  BY InitLaidOut DEF ListsInv
<1> QED BY <1>1, ListsTypeStep, PTL DEF Lists!Spec

\* Lists that are open lie on top of each other: the inductive invariant.
THEOREM ListsAreLaidOut == Lists!Spec => []ListsInv
<1>1. ListsInv /\ [Lists!Next]_(Lists!vars) => ListsInv'
  <2> SUFFICES ASSUME ListsInv, [Lists!Next]_(Lists!vars) PROVE ListsInv'
    OBVIOUS
  <2>1. Lists!TypeOK' /\ (~mixed' => LaidOut(m_list', open'))
    BY ListsTypeStep, LayoutStep DEF ListsInv
  <2> QED BY <2>1 DEF ListsInv, LaidOut, Layout
<1> QED BY <1>1, InitLaidOut, PTL DEF Lists!Spec

\* A node gets exactly the items of its list (stparser.h:88), whatever lists
\* were read between them.
THEOREM NodesGetTheirLists == Lists!Spec => []Lists!ListGetsItsOwn
<1>1. ListsInv => Lists!ListGetsItsOwn
  BY LaidOutGives
<1> QED BY <1>1, ListsAreLaidOut, PTL

\* The vector is empty again when no list is open.
THEOREM VectorIsEmptied == Lists!Spec => []Lists!NothingIsLeft
<1>1. ListsInv => Lists!NothingIsLeft
  BY LaidOutGives
<1> QED BY <1>1, ListsAreLaidOut, PTL
================================================================================
