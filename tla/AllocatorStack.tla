---------------------------- MODULE AllocatorStack ----------------------------
(***************************************************************************)
(* The arena (allocatorstack.cpp) in which syntax trees, types and modules *)
(* live, with its two kinds of owners: contexts (STContext, ASTContext,    *)
(* TypeContext), which construct objects and vectors in it and never reset *)
(* it, and ModuleManager, which places modules in raw blocks, destroys     *)
(* them itself in clear() and then resets the arena.                       *)
(*                                                                         *)
(* Sizes are in words.  That malloc may fail is left out; a block larger   *)
(* than a page is refused with nullptr, which no caller survives.          *)
(***************************************************************************)
EXTENDS Naturals, Sequences, FiniteSets, Functions

CONSTANTS
  PageSize,      \* m_stackSizeBytes
  Sizes,         \* the sizes of objects
  MaxBlocks,     \* bound: blocks between two resets
  MaxElements    \* bound: elements of the vector

ASSUME AllocatorAssumption ==
  /\ PageSize \in Nat \ {0}
  /\ Sizes \subseteq 1..PageSize
  /\ MaxBlocks \in Nat /\ MaxElements \in Nat

Owners == {"context", "manager"}

VARIABLES
  owner,
  m_stackList,     \* the offset in use of each page
  m_activeStack,   \* the page that is being filled; 0 is nullptr
  m_dtors,         \* the objects whose destructors reset() calls
  pc,              \* what the owner does, or the arena in a call of it
  after,           \* what follows the reset that is running
  next,            \* the place in m_dtors the reset has come to
  held,            \* history: blocks handed out whose pages are not freed
  alive,           \* history: objects that are constructed and not destroyed
  vector           \* a vector that lives in the arena; 0 capacity at first

arena == <<m_stackList, m_activeStack, m_dtors, held>>
vars == <<owner, arena, pc, after, next, alive, vector>>

R == INSTANCE Region WITH PageSize <- PageSize, held <- held

NoVector == [block |-> {}, capacity |-> 0, size |-> 0]

TypeOK ==
  /\ owner \in Owners
  /\ m_stackList \in Seq(Nat)
  /\ m_activeStack \in 0..Len(m_stackList)
  /\ m_dtors \in Seq(R!Block)
  /\ pc \in {"live", "ending", "reset", "gone", "crashed"}
  /\ after \in {"live", "ending", "gone"}
  /\ next \in Nat
  /\ held \subseteq R!Block
  /\ alive \subseteq R!Block
  /\ vector \in [block : SUBSET R!Block, capacity : Nat, size : Nat]

Init ==
  /\ owner \in Owners
  /\ m_stackList = <<>>
  /\ m_activeStack = 0
  /\ m_dtors = <<>>
  /\ pc = "live"
  /\ after = "live"
  /\ next = 1
  /\ held = {}
  /\ alive = {}
  /\ vector = NoVector

-----------------------------------------------------------------------------
(* allocate.  (Faulty variant: the page is checked for room without the    *)
(* new block.)                                                             *)

FitsLoosely(bytes) == m_activeStack > 0 /\ m_stackList[m_activeStack] < PageSize
Fits(bytes) == m_activeStack > 0 /\ m_stackList[m_activeStack] + bytes <= PageSize

Place(bytes) ==
  IF Fits(bytes)
  THEN [page |-> m_activeStack, from |-> m_stackList[m_activeStack], size |-> bytes]
  ELSE [page |-> Len(m_stackList) + 1, from |-> 0, size |-> bytes]

Filled(bytes) ==
  IF Fits(bytes)
  THEN [m_stackList EXCEPT ![m_activeStack] = @ + bytes]
  ELSE Append(m_stackList, bytes)

Allocate(bytes) ==
  /\ Cardinality(held) < MaxBlocks
  /\ bytes <= PageSize
  /\ m_stackList' = Filled(bytes)
  /\ m_activeStack' = Place(bytes).page
  /\ held' = held \cup {Place(bytes)}

\* The first page is made before the size is looked at.
Refuse(bytes) ==
  /\ bytes > PageSize
  /\ m_stackList' = IF m_stackList = <<>> THEN <<0>> ELSE m_stackList
  /\ m_activeStack' = IF m_stackList = <<>> THEN 1 ELSE m_activeStack
  /\ UNCHANGED <<m_dtors, held>>
  /\ pc' = "crashed"

-----------------------------------------------------------------------------
(* What owners do with it. *)

\* construct registers the destructor, whoever only allocates does not.
\* (Faulty variants: it is forgotten; it is registered although the owner
\* will call it.)
Forgotten(o) == m_dtors
Registered(o) == Append(m_dtors, o)
NotRegistered(o) == m_dtors

Construct(bytes) ==
  /\ pc = "live"
  /\ owner = "context"
  /\ Allocate(bytes)
  /\ m_dtors' = Registered(Place(bytes))
  /\ alive' = alive \cup {Place(bytes)}
  /\ UNCHANGED <<owner, pc, after, next, vector>>

\* constructNoDtor: nodes that hold nothing outside the arena.
ConstructNoDtor(bytes) ==
  /\ pc = "live"
  /\ owner = "context"
  /\ Allocate(bytes)
  /\ UNCHANGED <<owner, m_dtors, pc, after, next, alive, vector>>

\* push_back on a vector of words: a full one moves to a block twice as large.
\* The old block is not given back.
Grown == IF vector.capacity = 0 THEN 1 ELSE 2 * vector.capacity

PushBack ==
  /\ pc = "live"
  /\ owner = "context"
  /\ vector.size < MaxElements
  /\ UNCHANGED <<owner, after, next, alive>>
  /\ \/ /\ vector.size < vector.capacity
        /\ vector' = [vector EXCEPT !.size = @ + 1]
        /\ UNCHANGED <<arena, pc>>
     \/ /\ vector.size = vector.capacity
        /\ Allocate(Grown)
        /\ vector' = [block |-> {Place(Grown)}, capacity |-> Grown, size |-> vector.size + 1]
        /\ UNCHANGED <<m_dtors, pc>>
     \/ /\ vector.size = vector.capacity
        /\ Refuse(Grown)
        /\ UNCHANGED vector

\* ModuleManager::createNew.
NewModule(bytes) ==
  /\ pc = "live"
  /\ owner = "manager"
  /\ Allocate(bytes)
  /\ m_dtors' = NotRegistered(Place(bytes))
  /\ alive' = alive \cup {Place(bytes)}
  /\ UNCHANGED <<owner, pc, after, next, vector>>

-----------------------------------------------------------------------------
(* reset, which calls destructors.  (Faulty variant: the pages are freed   *)
(* before.)                                                                *)

FreedFirst == {}
FreedLater == held
NotActive == 0

Reset(then) ==
  /\ pc' = "reset"
  /\ after' = then
  /\ next' = 1
  /\ m_activeStack' = NotActive
  /\ held' = FreedLater
  /\ UNCHANGED <<m_stackList, m_dtors>>

\* ModuleManager::clear, from outside or from its destructor: the modules are
\* destroyed first.
Clear ==
  /\ pc = "live"
  /\ owner = "manager"
  /\ alive' = {}
  /\ \E then \in {"live", "ending"} : Reset(then)
  /\ UNCHANGED <<owner, vector>>

\* The members of the owner are destroyed: ~AllocatorStack calls reset.
Destruct ==
  /\ pc = IF owner = "manager" THEN "ending" ELSE "live"
  /\ Reset("gone")
  /\ vector' = NoVector
  /\ UNCHANGED <<owner, alive>>

CallDtor ==
  /\ pc = "reset"
  /\ next <= Len(m_dtors)
  /\ alive' = alive \ {m_dtors[next]}
  /\ next' = next + 1
  /\ UNCHANGED <<owner, arena, pc, after, vector>>

FreePages ==
  /\ pc = "reset"
  /\ next > Len(m_dtors)
  /\ m_stackList' = <<>>
  /\ held' = {}
  /\ pc' = after
  /\ UNCHANGED <<owner, m_activeStack, m_dtors, after, next, alive, vector>>

Next ==
  \/ \E bytes \in Sizes : Construct(bytes) \/ ConstructNoDtor(bytes) \/ NewModule(bytes)
  \/ PushBack
  \/ Clear \/ Destruct \/ CallDtor \/ FreePages

Spec == Init /\ [][Next]_vars

-----------------------------------------------------------------------------
\* The arena keeps its promise: blocks lie inside a page and apart from each
\* other until all are freed.
RegionSpec == R!Spec

\* An object's memory outlives it: destructors run before their page is freed.
LivesInMemory == alive \subseteq held

\* reset calls the destructor only of an object that has not been destroyed.
\* (m_dtors is never cleared: it relies on owners that construct objects to
\* reset only at the end.)
DestroyedOnce ==
  pc = "reset" /\ next <= Len(m_dtors) => m_dtors[next] \in alive

\* When the owner is gone no object is left undestroyed.
AllDestroyed == pc = "gone" => alive = {}

=============================================================================
