------------------------- MODULE ModuleRegistryProofs -------------------------
(***************************************************************************)
(* For any sources, bounds and declarations: the types that a module knows *)
(* keep different ids, a module that is translated right away finds each   *)
(* of them under its own C name, what a module knows is closed, and what   *)
(* is returned rests on nothing that failed.                               *)
(*                                                                         *)
(* The ids are told apart by two facts.  A module is imported with all of  *)
(* its types or none, so types of one module are renumbered together, by   *)
(* their places in one list; and what the latest module knows was numbered *)
(* last by its own list.                                                   *)
(***************************************************************************)
EXTENDS ModuleRegistry, TLAPS, SequenceTheorems, FiniteSetTheorems

Injective(list) == \A i, j \in 1..Len(list) : list[i] = list[j] => i = j

-----------------------------------------------------------------------------
(* The invariant. *)

\* Modules are told apart by their names; what is not compiled has nothing.
ModulesDiffer ==
  /\ \A m, x \in Compiled : NameOf(m) = NameOf(x) => m = x
  /\ \A m \in Ids \ Compiled : m_typeList[m] = <<>> /\ m_importedModules[m] = <<>>
  /\ \A m \in Ids : ToSet(m_importedModules[m]) \subseteq Compiled

\* What is declared is in the list of its module, and what is in a list is
\* declared by that module or an earlier one.
ListsHoldDeclared ==
  /\ \A m \in Ids : Injective(m_typeList[m])
  /\ \A t \in Declared : /\ DeclaredIn(t) \in Compiled
                         /\ t \in Known(DeclaredIn(t))
                         /\ target[t] \in Declared \cup {NoType}
  /\ \A m \in Ids : \A t \in Known(m) : t \in Declared /\ DeclaredIn(t) <= m

\* The types of one module differ in name or target.
IdentifiersDiffer ==
  \A t, u \in Declared :
    DeclaredIn(t) = DeclaredIn(u) /\ OwnIdentifier(t) = OwnIdentifier(u) => t = u

\* A module that knows a type of another one knows all of its types.
AllOrNone ==
  \A m \in Ids : \A t \in Known(m) : \A u \in Declared :
    DeclaredIn(u) = DeclaredIn(t) => u \in Known(m)

IdsDiffer ==
  /\ \A t \in Declared : m_typeId[t].module = DeclaredIn(t)
  /\ \A t, u \in Declared :
       DeclaredIn(t) = DeclaredIn(u) /\ m_typeId[t].index = m_typeId[u].index => t = u

\* The latest module has numbered all that it knows.
PlacesAreCurrent ==
  Current # 0 =>
    \A t \in Known(Current) :
      m_typeId[t].index = BuiltinTypes + PlaceIn(m_typeList[Current], t) - 1

MentionsAreKnown ==
  /\ \A t \in Types \ Declared : mentions[t] = {}
  /\ \A m \in Ids : \A t \in Known(m) : mentions[t] \subseteq Known(m)

Structure ==
  /\ ModulesDiffer /\ ListsHoldDeclared /\ IdentifiersDiffer
  /\ AllOrNone /\ IdsDiffer /\ PlacesAreCurrent /\ MentionsAreKnown

InProgress == stage \notin {"idle", "emit"}

\* While no error was reported, only the module in progress is not returned.
Progress ==
  /\ InProgress => Current # 0 /\ Current \notin returned
  /\ ~m_hasErrors => \A m \in Compiled : m \in returned \/ (InProgress /\ m = Current)
  /\ ReturnedOnReturned

Emission ==
  /\ stage # "emit" => emitting = 0
  /\ stage = "emit" => /\ emitting \in returned
                       /\ emitting = Current \/ LateBackend
                       /\ m_ctypes = m_typeList[emitting]

IInv == TypeOK /\ Structure /\ Progress /\ Emission

-----------------------------------------------------------------------------
(* Lists without repetition. *)

\* The place of an element is where it stands.
LEMMA PlaceIsThere ==
  ASSUME NEW list \in Seq(Types), NEW t \in ToSet(list)
  PROVE  /\ PlaceIn(list, t) \in 1..Len(list)
         /\ list[PlaceIn(list, t)] = t
<1>1. \E i \in 1..Len(list) : list[i] = t
  BY DEF ToSet
<1> QED BY <1>1 DEF PlaceIn

LEMMA PlaceIsUnique ==
  ASSUME NEW list \in Seq(Types), Injective(list), NEW i \in 1..Len(list)
  PROVE  PlaceIn(list, list[i]) = i
<1>1. list[i] \in ToSet(list)
  BY DEF ToSet
<1> QED BY <1>1, PlaceIsThere DEF Injective

\* What a list holds after others were put behind it, and where.
LEMMA ConcatPlaces ==
  ASSUME NEW list \in Seq(Types), NEW types \in Seq(Types),
         Injective(list), Injective(types), ToSet(list) \cap ToSet(types) = {}
  PROVE  /\ list \o types \in Seq(Types)
         /\ ToSet(list \o types) = ToSet(list) \cup ToSet(types)
         /\ Injective(list \o types)
         /\ \A t \in ToSet(list) : PlaceIn(list \o types, t) = PlaceIn(list, t)
<1> DEFINE both == list \o types
<1>1. /\ both \in Seq(Types) /\ Len(both) = Len(list) + Len(types)
      /\ \A i \in 1..Len(both) : both[i] = IF i <= Len(list) THEN list[i] ELSE types[i - Len(list)]
  BY ConcatProperties
<1>2. Len(list) \in Nat /\ Len(types) \in Nat
  OBVIOUS
<1> HIDE DEF both
<1>3. \A i \in 1..Len(list) : i \in 1..Len(both) /\ both[i] = list[i] /\ both[i] \in ToSet(list)
  BY <1>1, <1>2 DEF ToSet
<1>4. \A i \in 1..Len(types) :
        Len(list) + i \in 1..Len(both) /\ both[Len(list) + i] = types[i] /\ types[i] \in ToSet(types)
  <2> TAKE i \in 1..Len(types)
  <2>1. types[i] \in ToSet(types)
    BY DEF ToSet
  <2>2. Len(list) + i \in 1..Len(both) /\ ~(Len(list) + i <= Len(list)) /\ (Len(list) + i) - Len(list) = i
    BY <1>1, <1>2
  <2> QED BY <2>1, <2>2, <1>1
<1>5. \A i \in 1..Len(both) :
        \/ i \in 1..Len(list)
        \/ i - Len(list) \in 1..Len(types)
  BY <1>1, <1>2
<1>6. ToSet(both) = ToSet(list) \cup ToSet(types)
  <2>1. ToSet(both) \subseteq ToSet(list) \cup ToSet(types)
    <3> SUFFICES ASSUME NEW i \in 1..Len(both)
                 PROVE  both[i] \in ToSet(list) \cup ToSet(types)
      BY <1>1 DEF ToSet
    <3>1. i - Len(list) \in 1..Len(types) => both[i] \in ToSet(types)
      <4>1. i = Len(list) + (i - Len(list))
        BY <1>1, <1>2
      <4> QED BY <4>1, <1>4
    <3> QED BY <3>1, <1>3, <1>5
  <2>2. ToSet(list) \subseteq ToSet(both)
    BY <1>1, <1>3 DEF ToSet
  <2>3. ToSet(types) \subseteq ToSet(both)
    <3> SUFFICES ASSUME NEW i \in 1..Len(types) PROVE types[i] \in ToSet(both)
      BY DEF ToSet
    <3>1. Len(list) + i \in DOMAIN both /\ both[Len(list) + i] = types[i]
      BY <1>1, <1>4
    <3> QED BY <3>1 DEF ToSet
  <2> QED BY <2>1, <2>2, <2>3
<1>7. Injective(both)
  <2> SUFFICES ASSUME NEW i \in 1..Len(both), NEW j \in 1..Len(both), both[i] = both[j]
               PROVE  i = j
    BY DEF Injective
  <2>1. CASE i \in 1..Len(list) /\ j \in 1..Len(list)
    BY <2>1, <1>3 DEF Injective
  <2>2. CASE i - Len(list) \in 1..Len(types) /\ j - Len(list) \in 1..Len(types)
    <3>1. both[i] = types[i - Len(list)] /\ both[j] = types[j - Len(list)]
      BY <2>2, <1>4, <1>5
    <3>2. i - Len(list) = j - Len(list)
      BY <2>2, <3>1 DEF Injective
    <3> QED BY <3>2, <1>2
  <2>3. CASE i \in 1..Len(list) /\ j - Len(list) \in 1..Len(types)
    <3>1. both[i] \in ToSet(list)
      BY <2>3, <1>3
    <3>2. j = Len(list) + (j - Len(list))
      BY <1>1, <1>2
    <3>3. both[j] \in ToSet(types)
      BY <2>3, <3>2, <1>4
    <3> QED BY <3>1, <3>3
  <2>4. CASE i - Len(list) \in 1..Len(types) /\ j \in 1..Len(list)
    <3>1. both[j] \in ToSet(list)
      BY <2>4, <1>3
    <3>2. i = Len(list) + (i - Len(list))
      BY <1>1, <1>2
    <3>3. both[i] \in ToSet(types)
      BY <2>4, <3>2, <1>4
    <3> QED BY <3>1, <3>3
  <2> QED BY <1>5, <2>1, <2>2, <2>3, <2>4
<1>8. ASSUME NEW t \in ToSet(list) PROVE PlaceIn(both, t) = PlaceIn(list, t)
  <2>1. PlaceIn(list, t) \in 1..Len(list) /\ list[PlaceIn(list, t)] = t
    BY PlaceIsThere
  <2>2. PlaceIn(list, t) \in 1..Len(both) /\ both[PlaceIn(list, t)] = t
    BY <2>1, <1>3
  <2> QED BY <2>2, <1>1, <1>7, PlaceIsUnique
<1> QED BY <1>1, <1>6, <1>7, <1>8 DEF both

\* A choice of elements in the order of their list is a list of just those.
LEMMA InOrderFacts ==
  ASSUME NEW list \in Seq(Types), NEW some, some \subseteq ToSet(list),
         NEW s \in InOrder(list, some)
  PROVE  s \in Seq(Types) /\ Injective(s) /\ ToSet(s) = some
<1>1. some \subseteq Types
  BY DEF ToSet
<1>2. Cardinality(some) \in Nat
  <2>1. IsFiniteSet(Types)
    <3>1. IsFiniteSet(Ids) /\ IsFiniteSet(1..MaxTypes)
      BY ModuleRegistryAssumption, FS_Interval DEF Ids
    <3> QED BY <3>1, FS_Product DEF Types
  <2>2. IsFiniteSet(some)
    BY <2>1, <1>1, FS_Subset
  <2> QED BY <2>2, FS_CardinalityType
<1>3. s \in [1..Cardinality(some) -> some] /\ ToSet(s) = some
  BY DEF InOrder
<1>4. s \in Seq(Types) /\ Len(s) = Cardinality(some)
  BY <1>1, <1>2, <1>3
<1>5. ASSUME NEW i \in 1..Len(s), NEW j \in 1..Len(s), i < j
      PROVE  s[i] # s[j]
  <2>1. PlaceIn(list, s[i]) < PlaceIn(list, s[j])
    BY <1>3, <1>4, <1>5 DEF InOrder
  <2>2. PlaceIn(list, s[i]) \in 1..Len(list)
    BY <1>3, <1>4, PlaceIsThere
  <2> QED BY <2>1, <2>2
<1>6. Injective(s)
  <2> SUFFICES ASSUME NEW i \in 1..Len(s), NEW j \in 1..Len(s), s[i] = s[j]
               PROVE  i = j
    BY DEF Injective
  <2>1. i \in Nat /\ j \in Nat
    BY <1>4, <1>2
  <2> QED BY <2>1, <1>5
<1> QED BY <1>3, <1>4, <1>6

-----------------------------------------------------------------------------
(* What the steps do to the lists and the ids. *)

LEMMA CurrentFacts ==
  ASSUME TypeOK
  PROVE  Current \in Nat /\ Compiled \subseteq Ids /\ (Current # 0 => Current \in Compiled)
BY ModuleRegistryAssumption DEF TypeOK, Current, Compiled, Ids

\* Steps that leave modules and types alone.
LEMMA SameStructure == TypeOK /\ Structure /\ UNCHANGED modules => Structure'
<1> SUFFICES ASSUME TypeOK, Structure, UNCHANGED modules PROVE Structure'
  OBVIOUS
<1> USE DEF modules, declarations
<1>1. Current' = Current /\ Compiled' = Compiled /\ Declared' = Declared
  BY DEF Current, Compiled, Declared
<1>2. \A m \in Ids : Known(m)' = Known(m)
  BY DEF Known
<1>3. \A t \in Types : OwnIdentifier(t)' = OwnIdentifier(t)
  BY DEF OwnIdentifier, Identifier, IsFunction, NameOf
<1>5. ModulesDiffer'
  BY <1>1 DEF Structure, ModulesDiffer, NameOf
<1>6. ListsHoldDeclared'
  BY <1>1, <1>2 DEF Structure, ListsHoldDeclared, Injective, Known
<1>7. IdentifiersDiffer'
  BY <1>1, <1>3 DEF Structure, IdentifiersDiffer, Declared
<1>8. AllOrNone' /\ IdsDiffer' /\ MentionsAreKnown'
  BY <1>1, <1>2 DEF Structure, AllOrNone, IdsDiffer, MentionsAreKnown
<1>9. PlacesAreCurrent'
  BY <1>1 DEF Structure, PlacesAreCurrent, Known, PlaceIn, Current
<1> QED BY <1>5, <1>6, <1>7, <1>8, <1>9 DEF Structure

\* Registering types that the latest module does not know yet.
LEMMA RegisterFacts ==
  ASSUME TypeOK, Structure, Current # 0, m_modules' = m_modules,
         NEW types \in Seq(Types), Injective(types), ToSet(types) \cap Known(Current) = {},
         Register(Current, types)
  PROVE  /\ m_typeList' \in [Ids -> Seq(Types)] /\ m_typeId' \in [Types -> TypeId]
         /\ Known(Current)' = Known(Current) \cup ToSet(types)
         /\ \A m \in Ids : m # Current => m_typeList'[m] = m_typeList[m] /\ Known(m)' = Known(m)
         /\ \A m \in Ids : Injective(m_typeList'[m])
         /\ PlacesAreCurrent'
         /\ \A t \in ToSet(types) :
              /\ m_typeId'[t].module = DeclaredIn(t)
              /\ m_typeId'[t].index = BuiltinTypes + PlaceIn(m_typeList'[Current], t) - 1
         /\ \A t \in Types \ ToSet(types) : m_typeId'[t] = m_typeId[t]
<1> DEFINE list == m_typeList[Current]
           both == list \o types
<1>1. Current \in Ids /\ Current' = Current
  BY CurrentFacts DEF Current
<1>2. list \in Seq(Types) /\ Injective(list) /\ ToSet(list) = Known(Current)
  BY <1>1 DEF TypeOK, Structure, ListsHoldDeclared, Known
<1>3. /\ both \in Seq(Types) /\ ToSet(both) = ToSet(list) \cup ToSet(types) /\ Injective(both)
      /\ \A t \in ToSet(list) : PlaceIn(both, t) = PlaceIn(list, t)
  BY <1>2, ConcatPlaces
<1>4. /\ m_typeList' = [m_typeList EXCEPT ![Current] = both]
      /\ m_typeId' = [t \in Types |->
           IF t \in ToSet(types)
           THEN [module |-> DeclaredIn(t), index |-> BuiltinTypes + PlaceIn(both, t) - 1]
           ELSE m_typeId[t]]
  BY <1>1 DEF Register, TypeOK
<1>5. m_typeList \in [Ids -> Seq(Types)] /\ m_typeId \in [Types -> TypeId]
  BY <1>1 DEF TypeOK
<1> HIDE DEF both
<1>6. m_typeList' \in [Ids -> Seq(Types)] /\ m_typeList'[Current] = both
      /\ \A m \in Ids : m # Current => m_typeList'[m] = m_typeList[m]
  BY <1>1, <1>3, <1>4, <1>5
<1>7. Known(Current)' = Known(Current) \cup ToSet(types)
  BY <1>1, <1>2, <1>3, <1>6 DEF Known
<1>8. \A m \in Ids : m # Current => Known(m)' = Known(m)
  BY <1>6 DEF Known
<1>9. \A m \in Ids : Injective(m_typeList'[m])
  BY <1>3, <1>6 DEF Structure, ListsHoldDeclared
<1>10. ToSet(types) \subseteq Types /\ ToSet(list) \subseteq Types
  BY <1>2 DEF ToSet
<1>11. \A t \in ToSet(both) : PlaceIn(both, t) \in 1..Len(both)
  BY <1>3, PlaceIsThere
<1>12. /\ \A t \in ToSet(types) : m_typeId'[t] = [module |-> DeclaredIn(t), index |-> BuiltinTypes + PlaceIn(both, t) - 1]
       /\ \A t \in Types \ ToSet(types) : m_typeId'[t] = m_typeId[t]
  BY <1>4, <1>10
<1>13. m_typeId' \in [Types -> TypeId]
  <2> SUFFICES ASSUME NEW t \in ToSet(types)
               PROVE  [module |-> DeclaredIn(t), index |-> BuiltinTypes + PlaceIn(both, t) - 1] \in TypeId
    BY <1>4, <1>5
  <2>1. DeclaredIn(t) \in 0..MaxModules
    BY <1>10, ModuleRegistryAssumption DEF Types, DeclaredIn, Ids
  <2>2. BuiltinTypes + PlaceIn(both, t) - 1 \in Nat
    BY <1>3, <1>11 DEF BuiltinTypes
  <2> QED BY <2>1, <2>2 DEF TypeId
<1>15. \A t \in ToSet(types) :
         /\ m_typeId'[t].module = DeclaredIn(t)
         /\ m_typeId'[t].index = BuiltinTypes + PlaceIn(m_typeList'[Current], t) - 1
  <2> TAKE t \in ToSet(types)
  <2> DEFINE place == BuiltinTypes + PlaceIn(both, t) - 1
  <2>1. m_typeId'[t] = [module |-> DeclaredIn(t), index |-> place]
    BY <1>12
  <2> HIDE DEF place
  <2>2. m_typeId'[t].module = DeclaredIn(t) /\ m_typeId'[t].index = place
    BY <2>1
  <2> QED BY <2>2, <1>6 DEF place
<1>14. PlacesAreCurrent'
  <2> SUFFICES ASSUME NEW t \in Known(Current)'
               PROVE  m_typeId'[t].index = BuiltinTypes + PlaceIn(both, t) - 1
    BY <1>1, <1>6 DEF PlacesAreCurrent
  <2>1. CASE t \in ToSet(types)
    BY <2>1, <1>15, <1>6
  <2>2. CASE t \notin ToSet(types)
    <3>1. t \in Known(Current) /\ t \in ToSet(list) /\ t \in Types
      BY <2>2, <1>2, <1>7, <1>10
    <3>2. m_typeId'[t] = m_typeId[t] /\ PlaceIn(both, t) = PlaceIn(list, t)
      BY <2>2, <3>1, <1>3, <1>12
    <3>3. m_typeId[t].index = BuiltinTypes + PlaceIn(list, t) - 1
      BY <3>1 DEF Structure, PlacesAreCurrent
    <3> QED BY <3>2, <3>3
  <2> QED BY <2>1, <2>2
<1> QED BY <1>6, <1>7, <1>8, <1>9, <1>12, <1>13, <1>14, <1>15

-----------------------------------------------------------------------------
(* The steps that declare, import and resolve. *)

LEMMA CompileStep == ASSUME IInv, NEW s \in Sources, Compile(s) PROVE IInv'
<1>1. TypeOK /\ Structure /\ Progress /\ Emission
  BY DEF IInv
<1>2. PICK new \in Nat : new = Current + 1
  BY <1>1, CurrentFacts
<1>20. /\ Current \in Nat /\ Compiled = 1..Current /\ Current < MaxModules
       /\ new \in Ids /\ new # 0 /\ new \notin Compiled
  BY <1>1, <1>2, CurrentFacts, ModuleRegistryAssumption DEF Compile, Compiled, Current, Ids
<1>21. /\ Current' = new /\ m_modules' \in Seq(Sources) /\ m_modules'[new] = s
       /\ \A m \in 1..Current : m_modules'[m] = m_modules[m]
  <2>1. m_modules \in Seq(Sources) /\ m_modules' = Append(m_modules, s)
    BY <1>1 DEF TypeOK, Compile
  <2> QED BY <2>1, <1>2, AppendProperties DEF Current
<1>22. Compiled' = Compiled \cup {new} /\ Compiled \subseteq Ids
  BY <1>2, <1>20, <1>21, <1>1, CurrentFacts DEF Compiled, Current
<1>3. UNCHANGED <<m_importedModules, m_typeList, m_typeId, declarations, m_hasErrors, returned, backend>>
      /\ stage = "idle" /\ stage' = "parse"
  BY DEF Compile
<1>4. /\ Declared' = Declared
      /\ \A m \in Ids : Known(m)' = Known(m)
  BY <1>3 DEF Declared, Known, declarations
<1>5. \A t \in Declared : t \in Types /\ DeclaredIn(t) \in Compiled
  BY <1>1 DEF Structure, ListsHoldDeclared, Declared
<1>6. \A t \in Declared : OwnIdentifier(t)' = OwnIdentifier(t)
  BY <1>20, <1>21, <1>3, <1>5 DEF OwnIdentifier, Identifier, IsFunction, NameOf, declarations
<1>7. m_typeList[new] = <<>> /\ m_importedModules[new] = <<>> /\ Known(new) = {}
  BY <1>1, <1>20 DEF Structure, ModulesDiffer, Known, ToSet
<1>8. TypeOK'
  BY <1>1, <1>20, <1>21, <1>22, <1>3 DEF TypeOK, declarations, backend, Ids
<1>9. ModulesDiffer'
  <2>1. \A m \in Compiled : NameOf(m)' = NameOf(m) /\ NameOf(m) # NameOf(new)'
    BY <1>20, <1>21 DEF Compile, NameIsFree, NameOf
  <2> QED BY <1>1, <1>22, <1>3, <2>1 DEF Structure, ModulesDiffer
<1>10. ListsHoldDeclared'
  BY <1>1, <1>22, <1>3, <1>4 DEF Structure, ListsHoldDeclared, declarations, Injective
<1>11. IdentifiersDiffer'
  BY <1>1, <1>4, <1>6 DEF Structure, IdentifiersDiffer
<1>12. AllOrNone' /\ IdsDiffer' /\ MentionsAreKnown'
  BY <1>1, <1>3, <1>4 DEF Structure, AllOrNone, IdsDiffer, MentionsAreKnown, declarations
<1>13. PlacesAreCurrent'
  BY <1>20, <1>21, <1>4, <1>7 DEF PlacesAreCurrent
<1>14. Progress'
  <2>1. \A m \in Compiled : ~m_hasErrors => m \in returned
    BY <1>1, <1>3 DEF Progress, InProgress
  <2>2. returned \subseteq Compiled
    BY <1>1 DEF TypeOK
  <2>3. ReturnedOnReturned'
    BY <1>1, <1>3 DEF Progress, ReturnedOnReturned
  <2> QED BY <1>20, <1>21, <1>22, <1>3, <2>1, <2>2, <2>3 DEF Progress, InProgress
<1>15. Emission'
  BY <1>1, <1>3 DEF Emission, backend
<1> QED BY <1>8, <1>9, <1>10, <1>11, <1>12, <1>13, <1>14, <1>15 DEF IInv, Structure

LEMMA DeclareStep ==
  ASSUME IInv, NEW t \in Types, NEW d \in Declarations, NEW behind \in BOOLEAN,
         Declare(t, d, behind)
  PROVE  IInv'
<1>1. TypeOK /\ Structure /\ Progress /\ Emission
  BY DEF IInv
<1>2. PICK of \in Declared \cup {NoType} :
        /\ ~Refused(d, of)
        /\ target' = [target EXCEPT ![t] = of]
        /\ \/ m_typeFunctions' = m_typeFunctions
           \/ of \in Declared /\ m_typeFunctions' = [m_typeFunctions EXCEPT ![of] = @ \cup {t}]
  BY DEF Declare
<1>3. /\ stage = "declare" /\ DeclaredIn(t) = Current /\ t \notin Declared
      /\ Register(Current, <<t>>)
      /\ decl' = [decl EXCEPT ![t] = d]
      /\ m_hasErrors' \in BOOLEAN /\ (m_hasErrors => m_hasErrors')
      /\ UNCHANGED <<m_modules, m_importedModules, mentions, stage, returned, backend>>
  BY <1>1 DEF Declare, TypeOK
<1>4. /\ Current \in Nat /\ Current # 0 /\ Current \in Compiled /\ Compiled \subseteq Ids
      /\ Current' = Current /\ Compiled' = Compiled
  BY <1>1, <1>3, CurrentFacts DEF Progress, InProgress, Current, Compiled
<1>5. Declared' = Declared \cup {t} /\ Declared \subseteq Types
  <2>1. d # NoDeclaration
    <3>1. d.kind \in {"struct", "weak", "strong", "function"}
      BY ModuleRegistryAssumption
    <3>2. NoDeclaration.kind = "none"
      BY DEF NoDeclaration
    <3> QED BY <3>1, <3>2
  <2> QED BY <1>1, <1>3, <2>1 DEF Declared, TypeOK
<1>6. \A m \in Ids : t \notin Known(m)
  BY <1>1, <1>3 DEF Structure, ListsHoldDeclared
<1>7. <<t>> \in Seq(Types) /\ Injective(<<t>>) /\ ToSet(<<t>>) = {t}
  BY DEF Injective, ToSet
<1>8. /\ m_typeList' \in [Ids -> Seq(Types)] /\ m_typeId' \in [Types -> TypeId]
      /\ Known(Current)' = Known(Current) \cup {t}
      /\ \A m \in Ids : m # Current => m_typeList'[m] = m_typeList[m] /\ Known(m)' = Known(m)
      /\ \A m \in Ids : Injective(m_typeList'[m])
      /\ PlacesAreCurrent'
      /\ m_typeId'[t].module = DeclaredIn(t)
      /\ m_typeId'[t].index = BuiltinTypes + PlaceIn(m_typeList'[Current], t) - 1
      /\ \A u \in Types \ {t} : m_typeId'[u] = m_typeId[u]
  BY <1>1, <1>3, <1>4, <1>6, <1>7, RegisterFacts
<1>9. \A m \in Ids : Known(m) \subseteq Known(m)'
  BY <1>4, <1>8
<1>10. \A u \in Declared : OwnIdentifier(u)' = OwnIdentifier(u)
  <2> TAKE u \in Declared
  <2>1. u # t /\ u \in Types /\ decl'[u] = decl[u] /\ target'[u] = target[u]
    BY <1>1, <1>2, <1>3, <1>5 DEF TypeOK
  <2>2. target[u] # NoType => target[u] # t /\ decl'[target[u]] = decl[target[u]]
    BY <1>1, <1>3, <1>5 DEF TypeOK, Structure, ListsHoldDeclared
  <2>3. CASE target[u] = NoType
    BY <2>1, <2>3, <1>3 DEF OwnIdentifier, Identifier, IsFunction, NameOf
  <2>4. CASE target[u] # NoType
    <3>1. CASE IsFunction(u)
      <4>1. IsFunction(u)'
        BY <3>1, <2>1 DEF IsFunction
      <4> QED BY <3>1, <4>1, <2>1, <2>2, <2>4, <1>3 DEF OwnIdentifier, Identifier, NameOf
    <3>2. CASE ~IsFunction(u)
      <4>1. ~IsFunction(u)'
        BY <3>2, <2>1 DEF IsFunction
      <4> QED BY <3>2, <4>1, <2>1, <1>3 DEF OwnIdentifier, Identifier, NameOf
    <3> QED BY <3>1, <3>2
  <2> QED BY <2>3, <2>4
<1>11. \A u \in Declared : DeclaredIn(u) = Current => OwnIdentifier(t)' # OwnIdentifier(u)
  <2> DEFINE id == Identifier(d.name, IF d.kind = "function" THEN of ELSE NoType, NameOf(Current))
  <2>1. OwnIdentifier(t)' = id
    <3>1. decl'[t] = d /\ target'[t] = of
      BY <1>1, <1>2, <1>3 DEF TypeOK
    <3>2. of # NoType => decl'[of] = decl[of]
      BY <1>1, <1>3, <1>5 DEF TypeOK
    <3> QED BY <3>1, <3>2, <1>3 DEF OwnIdentifier, Identifier, IsFunction, NameOf
  <2>2. ~HasType(Current, id)
    BY <1>2 DEF Refused
  <2> QED BY <2>1, <2>2, <1>1 DEF HasType, Structure, ListsHoldDeclared
<1>12. TypeOK'
  <2>1. decl' \in [Types -> Declarations \cup {NoDeclaration}]
    BY <1>1, <1>3 DEF TypeOK
  <2>2. target' \in [Types -> Types \cup {NoType}]
    BY <1>1, <1>2, <1>5 DEF TypeOK
  <2>3. m_typeFunctions' \in [Types -> SUBSET Types]
    <3>1. m_typeFunctions \in [Types -> SUBSET Types]
      BY <1>1 DEF TypeOK
    <3>2. ASSUME of \in Types PROVE [m_typeFunctions EXCEPT ![of] = @ \cup {t}] \in [Types -> SUBSET Types]
      BY <3>1, <3>2
    <3> QED BY <1>2, <1>5, <3>1, <3>2
  <2> QED BY <1>1, <1>3, <1>4, <1>8, <2>1, <2>2, <2>3 DEF TypeOK, backend, Current, Compiled
<1>13. ModulesDiffer'
  BY <1>1, <1>3, <1>4, <1>8 DEF Structure, ModulesDiffer, NameOf
<1>14. ListsHoldDeclared'
  <2>1. \A u \in Declared : DeclaredIn(u) \in Compiled /\ u \in Known(DeclaredIn(u))'
                         /\ target'[u] \in Declared' \cup {NoType}
    BY <1>1, <1>2, <1>3, <1>4, <1>5, <1>9 DEF Structure, ListsHoldDeclared, TypeOK
  <2>2. t \in Known(Current)' /\ target'[t] \in Declared' \cup {NoType}
    BY <1>1, <1>2, <1>5, <1>8 DEF TypeOK
  <2>3. \A m \in Ids : \A u \in Known(m)' : u \in Declared' /\ DeclaredIn(u) <= m
    BY <1>1, <1>3, <1>4, <1>5, <1>8 DEF Structure, ListsHoldDeclared
  <2> QED BY <1>3, <1>4, <1>5, <1>8, <2>1, <2>2, <2>3 DEF ListsHoldDeclared
<1>15. IdentifiersDiffer'
  BY <1>1, <1>3, <1>5, <1>10, <1>11 DEF Structure, IdentifiersDiffer
<1>16. AllOrNone'
  <2> SUFFICES ASSUME NEW m \in Ids, NEW v \in Known(m)', NEW u \in Declared', DeclaredIn(u) = DeclaredIn(v)
               PROVE  u \in Known(m)'
    BY DEF AllOrNone
  <2>1. CASE u \in Declared /\ v \in Known(m)
    BY <2>1, <1>1, <1>9 DEF Structure, AllOrNone
  <2>2. CASE u = t /\ v \in Known(m)
    <3>1. Current <= m
      BY <2>2, <1>1, <1>3 DEF Structure, ListsHoldDeclared
    <3>2. m_typeList[m] # <<>>
      BY <2>2 DEF Known, ToSet
    <3>3. m \in Compiled
      BY <3>2, <1>1 DEF Structure, ModulesDiffer
    <3>4. m = Current
      BY <3>1, <3>3, <1>4 DEF Compiled, Current
    <3> QED BY <2>2, <3>4, <1>4, <1>8
  <2>3. CASE v = t /\ m = Current
    <3>1. CASE u = t
      BY <3>1, <2>3, <1>4, <1>8
    <3>2. CASE u \in Declared
      <4>1. u \in Known(Current)
        BY <3>2, <2>3, <1>1, <1>3 DEF Structure, ListsHoldDeclared
      <4> QED BY <4>1, <2>3, <1>4, <1>8
    <3> QED BY <1>5, <3>1, <3>2
  <2>4. v \in Known(m) \/ (v = t /\ m = Current)
    BY <1>4, <1>8
  <2> QED BY <1>5, <2>1, <2>2, <2>3, <2>4
<1>17. IdsDiffer'
  <2>1. \A u \in Declared : m_typeId'[u] = m_typeId[u]
    BY <1>3, <1>5, <1>8
  <2>2. ASSUME NEW u \in Declared, DeclaredIn(u) = Current
        PROVE  m_typeId'[u].index # m_typeId'[t].index
    <3>1. u \in Known(Current)' /\ t \in Known(Current)' /\ u # t
      BY <2>2, <1>1, <1>3, <1>8 DEF Structure, ListsHoldDeclared
    <3>2. /\ m_typeId'[u].index = BuiltinTypes + PlaceIn(m_typeList'[Current], u) - 1
          /\ m_typeId'[t].index = BuiltinTypes + PlaceIn(m_typeList'[Current], t) - 1
      BY <3>1, <1>4, <1>8 DEF PlacesAreCurrent
    <3>3. m_typeList'[Current] \in Seq(Types)
      BY <1>4, <1>8
    <3>4. /\ PlaceIn(m_typeList'[Current], u) \in 1..Len(m_typeList'[Current])
          /\ PlaceIn(m_typeList'[Current], t) \in 1..Len(m_typeList'[Current])
          /\ m_typeList'[Current][PlaceIn(m_typeList'[Current], u)] = u
          /\ m_typeList'[Current][PlaceIn(m_typeList'[Current], t)] = t
      BY <3>1, <3>3, <1>4, PlaceIsThere DEF Known
    <3>5. PlaceIn(m_typeList'[Current], u) # PlaceIn(m_typeList'[Current], t)
      BY <3>1, <3>4
    <3> QED BY <3>2, <3>4, <3>5 DEF BuiltinTypes
  <2>3. \A u, v \in Declared :
          DeclaredIn(u) = DeclaredIn(v) /\ m_typeId'[u].index = m_typeId'[v].index => u = v
    BY <1>1, <2>1 DEF Structure, IdsDiffer
  <2>4. \A u \in Declared' : m_typeId'[u].module = DeclaredIn(u)
    BY <1>1, <1>5, <1>8, <2>1 DEF Structure, IdsDiffer
  <2> QED BY <1>3, <1>5, <2>2, <2>3, <2>4 DEF IdsDiffer
<1>18. MentionsAreKnown'
  <2>1. mentions' = mentions /\ mentions[t] = {}
    BY <1>1, <1>3 DEF Structure, MentionsAreKnown
  <2>2. \A m \in Ids : \A u \in Known(m)' : u \in Known(m) \/ u = t
    BY <1>4, <1>8
  <2> QED BY <1>1, <1>5, <1>9, <2>1, <2>2 DEF Structure, MentionsAreKnown
<1>19. Progress'
  BY <1>1, <1>3, <1>4 DEF Progress, InProgress, ReturnedOnReturned
<1>20. Emission'
  BY <1>1, <1>3 DEF Emission, backend
<1> QED BY <1>8, <1>12, <1>13, <1>14, <1>15, <1>16, <1>17, <1>18, <1>19, <1>20 DEF IInv, Structure

\* Equal identifiers are those of one type: what is missing is what is unknown.
LEMMA MissingIsUnknown ==
  ASSUME Structure, Current \in Ids, NEW x \in Ids
  PROVE  Missing(Current, x) = Known(x) \ Known(Current)
<1>1. ASSUME NEW t \in Known(x), t \in Known(Current) PROVE HasType(Current, OwnIdentifier(t))
  BY <1>1 DEF HasType
<1>2. ASSUME NEW t \in Known(x), HasType(Current, OwnIdentifier(t)) PROVE t \in Known(Current)
  <2>1. PICK u \in Known(Current) : OwnIdentifier(u) = OwnIdentifier(t)
    BY <1>2 DEF HasType
  <2>2. t \in Declared /\ u \in Declared /\ DeclaredIn(t) \in Compiled /\ DeclaredIn(u) \in Compiled
    BY DEF Structure, ListsHoldDeclared
  <2>3. NameOf(DeclaredIn(u)) = NameOf(DeclaredIn(t))
    BY <2>1 DEF OwnIdentifier, Identifier
  <2>4. DeclaredIn(u) = DeclaredIn(t)
    BY <2>2, <2>3 DEF Structure, ModulesDiffer
  <2> QED BY <2>1, <2>2, <2>4 DEF Structure, IdentifiersDiffer
<1> QED BY <1>1, <1>2 DEF Missing

LEMMA ImportStep == ASSUME IInv, NEW x \in Ids, Import(x) PROVE IInv'
<1>1. TypeOK /\ Structure /\ Progress /\ Emission
  BY DEF IInv
<1>2. PICK new \in InOrder(m_typeList[x], Missing(Current, x)) : Register(Current, new)
  BY DEF Import
<1>3. /\ stage = "declare" /\ x \in Compiled
      /\ m_importedModules' = [m_importedModules EXCEPT ![Current] = Append(@, x)]
      /\ UNCHANGED <<m_modules, declarations, stage, m_hasErrors, returned, backend>>
  BY DEF Import
<1>4. /\ Current \in Nat /\ Current # 0 /\ Current \in Compiled /\ Compiled \subseteq Ids
      /\ Current' = Current /\ Compiled' = Compiled /\ Declared' = Declared
  BY <1>1, <1>3, CurrentFacts DEF Progress, InProgress, Current, Compiled, Declared, declarations
<1>5. Missing(Current, x) = Known(x) \ Known(Current)
  BY <1>1, <1>4, MissingIsUnknown
<1>6. new \in Seq(Types) /\ Injective(new) /\ ToSet(new) = Known(x) \ Known(Current)
  <2>1. m_typeList[x] \in Seq(Types)
    BY <1>1 DEF TypeOK
  <2>2. Missing(Current, x) \subseteq ToSet(m_typeList[x])
    BY <1>5 DEF Known
  <2> QED BY <2>1, <2>2, <1>2, <1>5, InOrderFacts
<1>7. /\ m_typeList' \in [Ids -> Seq(Types)] /\ m_typeId' \in [Types -> TypeId]
      /\ Known(Current)' = Known(Current) \cup Known(x)
      /\ \A m \in Ids : m # Current => m_typeList'[m] = m_typeList[m] /\ Known(m)' = Known(m)
      /\ \A m \in Ids : Injective(m_typeList'[m])
      /\ PlacesAreCurrent'
      /\ \A t \in ToSet(new) :
           /\ m_typeId'[t].module = DeclaredIn(t)
           /\ m_typeId'[t].index = BuiltinTypes + PlaceIn(m_typeList'[Current], t) - 1
      /\ \A t \in Types \ ToSet(new) : m_typeId'[t] = m_typeId[t]
  BY <1>1, <1>2, <1>3, <1>4, <1>6, RegisterFacts
<1>8. \A m \in Ids : Known(m)' = IF m = Current THEN Known(Current) \cup Known(x) ELSE Known(m)
  BY <1>4, <1>7
<1>9. \A t \in Declared : OwnIdentifier(t)' = OwnIdentifier(t)
  BY <1>3 DEF OwnIdentifier, Identifier, IsFunction, NameOf, declarations
<1>10. /\ m_importedModules' \in [Ids -> Seq(Ids)]
       /\ \A m \in Ids : ToSet(m_importedModules'[m]) \subseteq
            IF m = Current THEN ToSet(m_importedModules[Current]) \cup {x} ELSE ToSet(m_importedModules[m])
       /\ \A m \in Ids : m # Current => m_importedModules'[m] = m_importedModules[m]
  <2>1. m_importedModules \in [Ids -> Seq(Ids)] /\ m_importedModules[Current] \in Seq(Ids)
    BY <1>1, <1>4 DEF TypeOK
  <2> DEFINE imports == Append(m_importedModules[Current], x)
  <2>2. imports \in Seq(Ids) /\ ToSet(imports) \subseteq ToSet(m_importedModules[Current]) \cup {x}
    BY <2>1, AppendProperties DEF ToSet
  <2> QED BY <2>1, <2>2, <1>3, <1>4
<1>11. TypeOK'
  BY <1>1, <1>3, <1>4, <1>7, <1>10 DEF TypeOK, backend, declarations, Current, Compiled
<1>12. ModulesDiffer'
  <2>1. \A m, y \in Compiled : NameOf(m)' = NameOf(y)' => m = y
    BY <1>1, <1>3 DEF Structure, ModulesDiffer, NameOf
  <2>2. \A m \in Ids \ Compiled : m_typeList'[m] = <<>> /\ m_importedModules'[m] = <<>>
    BY <1>1, <1>4, <1>7, <1>10 DEF Structure, ModulesDiffer
  <2>3. \A m \in Ids : ToSet(m_importedModules'[m]) \subseteq Compiled
    BY <1>1, <1>3, <1>4, <1>10 DEF Structure, ModulesDiffer
  <2> QED BY <1>4, <2>1, <2>2, <2>3 DEF ModulesDiffer
<1>13. ListsHoldDeclared'
  <2>1. \A m \in Ids : \A t \in Known(m)' : t \in Declared /\ DeclaredIn(t) <= m
    <3>1. \A t \in Known(x) : t \in Declared /\ DeclaredIn(t) <= Current
      <4>1. x <= Current /\ x \in Nat
        BY <1>3, <1>4 DEF Compiled, Current
      <4>2. \A t \in Known(x) : t \in Declared /\ DeclaredIn(t) \in Nat /\ DeclaredIn(t) <= x
        BY <1>1, <1>4 DEF Structure, ListsHoldDeclared, Compiled
      <4> QED BY <4>1, <4>2, <1>4
    <3> QED BY <3>1, <1>1, <1>8 DEF Structure, ListsHoldDeclared
  <2>2. \A t \in Declared : t \in Known(DeclaredIn(t))'
    BY <1>1, <1>4, <1>8 DEF Structure, ListsHoldDeclared
  <2> QED BY <1>1, <1>3, <1>4, <1>7, <2>1, <2>2 DEF Structure, ListsHoldDeclared, declarations
<1>14. IdentifiersDiffer'
  BY <1>1, <1>4, <1>9 DEF Structure, IdentifiersDiffer
<1>15. AllOrNone'
  BY <1>1, <1>4, <1>8 DEF Structure, AllOrNone
<1>16. IdsDiffer'
  <2>1. ToSet(new) \subseteq Declared /\ Declared \subseteq Types
    BY <1>1, <1>6 DEF Structure, ListsHoldDeclared, Declared
  <2>2. \A t \in Declared : m_typeId'[t].module = DeclaredIn(t)
    BY <1>1, <1>7, <2>1 DEF Structure, IdsDiffer
  <2>3. ASSUME NEW t \in Declared, NEW u \in Declared, DeclaredIn(t) = DeclaredIn(u),
               m_typeId'[t].index = m_typeId'[u].index
        PROVE  t = u
    <3>1. t \in ToSet(new) <=> u \in ToSet(new)
      BY <2>3, <1>1, <1>4, <1>6 DEF Structure, AllOrNone
    <3>2. CASE t \notin ToSet(new)
      BY <2>1, <2>3, <3>1, <3>2, <1>1, <1>7 DEF Structure, IdsDiffer
    <3>3. CASE t \in ToSet(new)
      <4> DEFINE list == m_typeList'[Current]
      <4>1. list \in Seq(Types) /\ t \in ToSet(list) /\ u \in ToSet(list)
        BY <3>1, <3>3, <1>4, <1>6, <1>7 DEF Known
      <4>2. /\ PlaceIn(list, t) \in 1..Len(list) /\ list[PlaceIn(list, t)] = t
            /\ PlaceIn(list, u) \in 1..Len(list) /\ list[PlaceIn(list, u)] = u
        BY <4>1, PlaceIsThere
      <4>3. BuiltinTypes + PlaceIn(list, t) - 1 = BuiltinTypes + PlaceIn(list, u) - 1
        BY <2>3, <3>1, <3>3, <1>7
      <4>4. PlaceIn(list, t) = PlaceIn(list, u)
        BY <4>2, <4>3 DEF BuiltinTypes
      <4> QED BY <4>2, <4>4
    <3> QED BY <3>2, <3>3
  <2> QED BY <1>4, <2>2, <2>3 DEF IdsDiffer
<1>17. MentionsAreKnown'
  BY <1>1, <1>3, <1>4, <1>8 DEF Structure, MentionsAreKnown, declarations
<1>18. Progress'
  <2>1. ~m_hasErrors => x \in returned \cup {Current}
    BY <1>1, <1>3 DEF Progress
  <2>2. \A m \in returned : m # Current /\ m \in Ids
    BY <1>1, <1>3, <1>4 DEF Progress, InProgress, TypeOK
  <2>3. ReturnedOnReturned'
    BY <1>1, <1>3, <1>10, <2>2 DEF Progress, ReturnedOnReturned
  <2> QED BY <1>1, <1>3, <1>4, <2>3 DEF Progress, InProgress
<1>19. Emission'
  BY <1>1, <1>3 DEF Emission, backend
<1> QED BY <1>7, <1>11, <1>12, <1>13, <1>14, <1>15, <1>16, <1>17, <1>18, <1>19 DEF IInv, Structure

LEMMA AstBuilderStep == ASSUME IInv, NEW behind \in BOOLEAN, AstBuilder(behind) PROVE IInv'
<1>1. TypeOK /\ Structure /\ Progress /\ Emission
  BY DEF IInv
<1>2. /\ stage = "build"
      /\ mentions' = [t \in Types |-> IF t \in {u \in Declared : DeclaredIn(u) = Current}
                                     THEN Known(Current) ELSE mentions[t]]
      /\ Exit(TRUE) \/ (stage' = "check" /\ UNCHANGED <<m_hasErrors, returned>>)
      /\ UNCHANGED <<m_modules, m_importedModules, m_typeList, m_typeId, decl, target, m_typeFunctions, backend>>
  BY DEF AstBuilder
<1>3. /\ Current \in Nat /\ Current # 0 /\ Current \in Compiled /\ Compiled \subseteq Ids
      /\ Current' = Current /\ Compiled' = Compiled /\ Declared' = Declared
      /\ \A m \in Ids : Known(m)' = Known(m)
  BY <1>1, <1>2, CurrentFacts DEF Progress, InProgress, Current, Compiled, Declared, Known
<1>4. stage' \in {"idle", "check"} /\ m_hasErrors' \in BOOLEAN /\ returned' = returned
      /\ (m_hasErrors => m_hasErrors') /\ (stage' = "idle" => m_hasErrors')
  BY <1>1, <1>2 DEF Exit, TypeOK
<1>5. \A m \in Ids : Known(m) \subseteq Types
  BY <1>1 DEF Structure, ListsHoldDeclared, Declared
<1>6. TypeOK'
  <2>1. mentions' \in [Types -> SUBSET Types]
    BY <1>1, <1>2, <1>3, <1>5 DEF TypeOK
  <2> QED BY <1>1, <1>2, <1>3, <1>4, <2>1 DEF TypeOK, backend, Current, Compiled
<1>7. \A t \in Declared : OwnIdentifier(t)' = OwnIdentifier(t)
  BY <1>2 DEF OwnIdentifier, Identifier, IsFunction, NameOf
<1>8. /\ ModulesDiffer' /\ ListsHoldDeclared' /\ IdentifiersDiffer'
      /\ AllOrNone' /\ IdsDiffer' /\ PlacesAreCurrent'
  <2>1. ModulesDiffer'
    BY <1>1, <1>2, <1>3 DEF Structure, ModulesDiffer, NameOf
  <2>2. ListsHoldDeclared'
    BY <1>1, <1>2, <1>3 DEF Structure, ListsHoldDeclared, Injective
  <2>3. IdentifiersDiffer'
    BY <1>1, <1>3, <1>7 DEF Structure, IdentifiersDiffer
  <2>4. AllOrNone'
    BY <1>1, <1>3 DEF Structure, AllOrNone
  <2>5. IdsDiffer'
    BY <1>1, <1>2, <1>3 DEF Structure, IdsDiffer
  <2>6. PlacesAreCurrent'
    BY <1>1, <1>2, <1>3 DEF Structure, PlacesAreCurrent, PlaceIn
  <2> QED BY <2>1, <2>2, <2>3, <2>4, <2>5, <2>6
<1>10. MentionsAreKnown'
  <2>1. ASSUME NEW m \in Ids, NEW t \in Known(m), DeclaredIn(t) = Current
        PROVE  m = Current
    <3>1. Current <= m
      BY <2>1, <1>1 DEF Structure, ListsHoldDeclared
    <3>2. m_typeList[m] # <<>>
      BY DEF Known, ToSet
    <3>3. m \in Compiled
      BY <3>2, <1>1 DEF Structure, ModulesDiffer
    <3> QED BY <3>1, <3>3, <1>3 DEF Compiled, Current
  <2>2. \A m \in Ids : \A t \in Known(m) : mentions'[t] \subseteq Known(m)
    BY <1>1, <1>2, <1>5, <2>1 DEF Structure, MentionsAreKnown
  <2>3. \A t \in Types \ Declared : mentions'[t] = {}
    BY <1>1, <1>2 DEF Structure, MentionsAreKnown
  <2> QED BY <1>3, <2>2, <2>3 DEF MentionsAreKnown
<1>11. Progress'
  BY <1>1, <1>2, <1>3, <1>4 DEF Progress, InProgress, ReturnedOnReturned
<1>12. Emission'
  BY <1>1, <1>2, <1>4 DEF Emission, backend
<1> QED BY <1>6, <1>8, <1>10, <1>11, <1>12 DEF IInv, Structure

-----------------------------------------------------------------------------
(* The other steps. *)

\* compile() returns a module only from its last pass, and only if nothing was
\* ever reported.
LEMMA ExitFacts ==
  ASSUME IInv, InProgress, NEW failed \in BOOLEAN, Exit(failed), m_hasErrors => failed,
         UNCHANGED <<modules, backend>>
  PROVE  IInv'
<1>1. TypeOK /\ Structure /\ Progress /\ Emission
  BY DEF IInv
<1>2. Structure'
  BY <1>1, SameStructure
<1>3. /\ Current \in Nat /\ Current # 0 /\ Current \in Compiled /\ Current \notin returned
      /\ Current' = Current /\ Compiled' = Compiled
  BY <1>1, CurrentFacts DEF Progress, modules, Current, Compiled
<1>4. /\ stage' = "idle" /\ m_hasErrors' = failed
      /\ returned' = IF failed THEN returned ELSE returned \cup {Current}
      /\ m_importedModules' = m_importedModules /\ emitting' = emitting /\ m_ctypes' = m_ctypes
  BY DEF Exit, modules, backend
<1>5. TypeOK'
  BY <1>1, <1>3, <1>4 DEF TypeOK, modules, declarations, backend, Current, Compiled
<1>6. Progress'
  <2>1. ~m_hasErrors => Compiled \subseteq returned \cup {Current}
    BY <1>1 DEF Progress
  <2>2. ToSet(m_importedModules[Current]) \subseteq Compiled
    BY <1>1, <1>3, CurrentFacts DEF Structure, ModulesDiffer
  <2>3. ReturnedOnReturned'
    BY <1>1, <1>4, <2>1, <2>2 DEF Progress, ReturnedOnReturned
  <2> QED BY <1>1, <1>3, <1>4, <2>1, <2>3 DEF Progress, InProgress
<1>7. Emission'
  BY <1>1, <1>4 DEF Emission, InProgress
<1> QED BY <1>2, <1>5, <1>6, <1>7 DEF IInv

\* A pass that goes on to the next, reports, or stops the compiler.
LEMMA PassStep ==
  ASSUME IInv, InProgress, stage' \in {"parse", "declare", "build", "check", "crashed"},
         m_hasErrors' \in BOOLEAN, m_hasErrors => m_hasErrors', returned' = returned,
         UNCHANGED <<modules, backend>>
  PROVE  IInv'
<1>1. TypeOK /\ Structure /\ Progress /\ Emission
  BY DEF IInv
<1>2. Structure'
  BY <1>1, SameStructure
<1>3. /\ Current' = Current /\ Compiled' = Compiled
      /\ m_importedModules' = m_importedModules /\ emitting' = emitting /\ m_ctypes' = m_ctypes
  BY DEF modules, backend, Current, Compiled
<1>4. TypeOK'
  BY <1>1, <1>3 DEF TypeOK, modules, declarations, Current, Compiled
<1>5. Progress'
  BY <1>1, <1>3 DEF Progress, InProgress, ReturnedOnReturned
<1>6. Emission'
  BY <1>1, <1>3 DEF Emission, InProgress
<1> QED BY <1>2, <1>4, <1>5, <1>6 DEF IInv

LEMMA PassSteps ==
  ASSUME IInv
  PROVE  /\ PassFails => IInv'
         /\ PassParser => IInv'
         /\ \A d \in Declarations, behind \in BOOLEAN :
              (DeclareRefused(d, behind) \/ Crashes(d, behind)) => IInv'
         /\ ImportFails => IInv'
         /\ EndDeclare => IInv'
         /\ PassChecks => IInv'
<1>1. m_hasErrors \in BOOLEAN
  BY DEF IInv, TypeOK
<1>2. PassFails => IInv'
  BY ExitFacts DEF PassFails, InProgress
<1>3. PassParser => IInv'
  BY <1>1, ExitFacts, PassStep DEF PassParser, InProgress
<1>4. \A d \in Declarations, behind \in BOOLEAN :
        (DeclareRefused(d, behind) \/ Crashes(d, behind)) => IInv'
  <2> SUFFICES ASSUME NEW d \in Declarations, NEW behind \in BOOLEAN,
                      DeclareRefused(d, behind) \/ Crashes(d, behind)
               PROVE  IInv'
    OBVIOUS
  <2>1. CASE DeclareRefused(d, behind)
    <3>1. stage = "declare" /\ m_hasErrors' = TRUE /\ UNCHANGED <<modules, stage, returned, backend>>
      BY <2>1 DEF DeclareRefused
    <3> QED BY <3>1, PassStep DEF InProgress
  <2>2. CASE Crashes(d, behind)
    <3>1. /\ stage \in {"declare", "build"} /\ stage' = "crashed"
          /\ UNCHANGED <<modules, m_hasErrors, returned, backend>>
      BY <2>2 DEF Crashes
    <3> QED BY <1>1, <3>1, PassStep DEF InProgress
  <2> QED BY <2>1, <2>2
<1>5. ImportFails => IInv'
  BY PassStep DEF ImportFails, InProgress
<1>6. EndDeclare => IInv'
  BY <1>1, ExitFacts, PassStep DEF EndDeclare, InProgress
<1>7. PassChecks => IInv'
  BY <1>1, ExitFacts DEF PassChecks, InProgress
<1> QED BY <1>2, <1>3, <1>4, <1>5, <1>6, <1>7

LEMMA IdleSteps ==
  ASSUME IInv
  PROVE  /\ ErrorsCleared => IInv'
         /\ \A m \in Ids : EmitC(m) => IInv'
         /\ \A failed \in BOOLEAN : EmitEnds(failed) => IInv'
<1>1. TypeOK /\ Structure /\ Progress /\ Emission
  BY DEF IInv
<1>2. ASSUME UNCHANGED modules
      PROVE  Structure' /\ Current' = Current /\ Compiled' = Compiled
             /\ m_importedModules' = m_importedModules /\ m_typeList' = m_typeList
  BY <1>1, <1>2, SameStructure DEF modules, Current, Compiled
<1>3. ErrorsCleared => IInv'
  <2> SUFFICES ASSUME ErrorsCleared PROVE IInv'
    OBVIOUS
  <2>1. UNCHANGED <<modules, stage, m_hasErrors, returned, backend>>
    BY DEF ErrorsCleared, ClearErrors
  <2>2. TypeOK'
    BY <1>1, <1>2, <2>1 DEF TypeOK, modules, declarations, backend
  <2>3. Progress' /\ Emission'
    BY <1>1, <1>2, <2>1 DEF Progress, InProgress, ReturnedOnReturned, Emission, backend
  <2> QED BY <1>2, <2>1, <2>2, <2>3 DEF IInv
<1>4. ASSUME NEW m \in Ids, EmitC(m) PROVE IInv'
  <2>1. /\ stage = "idle" /\ m \in returned /\ (m = Current \/ LateBackend)
        /\ stage' = "emit" /\ emitting' = m /\ m_ctypes' = m_typeList[m]
        /\ UNCHANGED <<modules, m_hasErrors, returned>>
    BY <1>4 DEF EmitC
  <2>2. m \in 0..Current
    BY <1>1, <2>1 DEF TypeOK, Compiled, Current
  <2>3. TypeOK'
    BY <1>1, <1>2, <2>1, <2>2 DEF TypeOK, modules, declarations
  <2>4. Progress' /\ Emission'
    BY <1>1, <1>2, <2>1 DEF Progress, InProgress, ReturnedOnReturned, Emission
  <2> QED BY <1>2, <2>1, <2>3, <2>4 DEF IInv
<1>5. ASSUME NEW failed \in BOOLEAN, EmitEnds(failed) PROVE IInv'
  <2>1. /\ stage = "emit" /\ stage' = "idle" /\ emitting' = 0 /\ m_ctypes' = <<>>
        /\ m_hasErrors' = (m_hasErrors \/ failed)
        /\ UNCHANGED <<modules, returned>>
    BY <1>5 DEF EmitEnds
  <2>2. m_hasErrors' \in BOOLEAN /\ (m_hasErrors => m_hasErrors')
    BY <1>1, <2>1 DEF TypeOK
  <2>3. TypeOK'
    BY <1>1, <1>2, <2>1, <2>2, CurrentFacts DEF TypeOK, modules, declarations
  <2>4. Progress' /\ Emission'
    BY <1>1, <1>2, <2>1, <2>2 DEF Progress, InProgress, ReturnedOnReturned, Emission
  <2> QED BY <1>2, <2>1, <2>3, <2>4 DEF IInv
<1> QED BY <1>3, <1>4, <1>5

\* Without modules nothing is known or declared.
LEMMA NothingHolds ==
  /\ Init => IInv
  /\ IInv /\ ClearModules => IInv'
<1> DEFINE Nothing ==
      /\ m_modules = <<>>
      /\ m_importedModules = [m \in Ids |-> <<>>]
      /\ m_typeList = [m \in Ids |-> <<>>]
      /\ m_typeId = [t \in Types |-> kIvalid]
      /\ decl = [t \in Types |-> NoDeclaration]
      /\ target = [t \in Types |-> NoType]
      /\ m_typeFunctions = [t \in Types |-> {}]
      /\ mentions = [t \in Types |-> {}]
      /\ stage = "idle" /\ m_hasErrors \in BOOLEAN
      /\ returned = {} /\ emitting = 0 /\ m_ctypes \in Seq(Types)
<1>1. Nothing => IInv
  <2> SUFFICES ASSUME Nothing PROVE IInv
    OBVIOUS
  <2>1. Current = 0 /\ Compiled = {} /\ Declared = {}
    BY DEF Current, Compiled, Declared
  <2>2. \A m \in Ids : Known(m) = {} /\ Injective(m_typeList[m]) /\ ToSet(m_importedModules[m]) = {}
    BY DEF Known, ToSet, Injective
  <2>3. TypeOK
    <3>1. kIvalid \in TypeId
      BY ModuleRegistryAssumption DEF kIvalid, TypeId
    <3>2. m_importedModules \in [Ids -> Seq(Ids)] /\ m_typeList \in [Ids -> Seq(Types)]
      OBVIOUS
    <3>3. m_modules \in Seq(Sources) /\ Current <= MaxModules
      BY <2>1, ModuleRegistryAssumption
    <3> QED BY <2>1, <3>1, <3>2, <3>3 DEF TypeOK
  <2>4. Structure
    BY <2>1, <2>2 DEF Structure, ModulesDiffer, ListsHoldDeclared, IdentifiersDiffer,
                      AllOrNone, IdsDiffer, PlacesAreCurrent, MentionsAreKnown
  <2>5. Progress /\ Emission
    BY <2>1 DEF Progress, Emission, InProgress, ReturnedOnReturned
  <2> QED BY <2>3, <2>4, <2>5 DEF IInv
<1>2. Init => Nothing
  <2> SUFFICES ASSUME Init PROVE Nothing
    OBVIOUS
  <2>1. m_hasErrors = FALSE /\ m_ctypes = <<>>
    BY DEF Init
  <2>2. m_hasErrors \in BOOLEAN
    BY <2>1
  <2>3. m_ctypes \in Seq(Types)
    BY <2>1
  <2> QED BY <2>2, <2>3 DEF Init
<1>3. ASSUME IInv, ClearModules PROVE Nothing'
  <2>1. m_hasErrors \in BOOLEAN /\ m_ctypes \in Seq(Types) /\ emitting = 0
    BY <1>3 DEF IInv, TypeOK, Emission, ClearModules
  <2> QED BY <1>3, <2>1 DEF ClearModules, backend
<1>4. Nothing' => IInv'
  BY <1>1, PTL
<1> QED BY <1>1, <1>2, <1>3, <1>4

-----------------------------------------------------------------------------
(* The theorems. *)

LEMMA IInvKept == IInv /\ [Next]_vars => IInv'
<1> SUFFICES ASSUME IInv, [Next]_vars PROVE IInv'
  OBVIOUS
<1>1. CASE UNCHANGED vars
  <2>1. UNCHANGED <<modules, stage, m_hasErrors, returned, backend>>
    BY <1>1 DEF vars
  <2>2. Structure'
    BY <2>1, SameStructure DEF IInv
  <2>3. TypeOK' /\ Progress' /\ Emission'
    BY <2>1 DEF IInv, TypeOK, Progress, Emission, InProgress, ReturnedOnReturned,
                modules, declarations, backend, Current, Compiled
  <2> QED BY <2>2, <2>3 DEF IInv
<1>2. ASSUME NEW s \in Sources, Compile(s) PROVE IInv'
  BY <1>2, CompileStep
<1>3. ASSUME NEW d \in Declarations, NEW behind \in BOOLEAN,
             \/ \E t \in Types : Declare(t, d, behind)
             \/ DeclareRefused(d, behind)
             \/ Crashes(d, behind)
      PROVE  IInv'
  BY <1>3, DeclareStep, PassSteps
<1>4. ASSUME NEW x \in Ids, Import(x) PROVE IInv'
  BY <1>4, ImportStep
<1>5. ASSUME NEW behind \in BOOLEAN, AstBuilder(behind) PROVE IInv'
  BY <1>5, AstBuilderStep
<1>6. CASE PassFails \/ PassParser \/ ImportFails \/ EndDeclare \/ PassChecks
  BY <1>6, PassSteps
<1>7. CASE \/ ErrorsCleared \/ ClearModules
           \/ \E m \in Ids : EmitC(m)
           \/ \E failed \in BOOLEAN : EmitEnds(failed)
  BY <1>7, IdleSteps, NothingHolds
<1> QED BY <1>1, <1>2, <1>3, <1>4, <1>5, <1>6, <1>7 DEF Next

\* The invariant: the types of a module are numbered together and by its list.
THEOREM RegistryInvariant == Spec => []IInv
<1>1. Init => IInv
  BY NothingHolds
<1> QED BY <1>1, IInvKept, PTL DEF Spec

\* TypeOK.
THEOREM TypeCorrect == Spec => []TypeOK
<1>1. IInv => TypeOK
  BY DEF IInv
<1> QED BY <1>1, RegistryInvariant, PTL

\* isCastableTo can tell types by their ids: Module::import renumbers the types
\* of a module together, whatever is imported in whatever order.
THEOREM IdsAreDistinct == Spec => []TypeIdsDistinct
<1>1. IInv => TypeIdsDistinct
  <2> SUFFICES ASSUME IInv, NEW m \in Compiled, NEW t \in Known(m), NEW u \in Known(m),
                      m_typeId[t] = m_typeId[u]
               PROVE  t = u
    BY DEF TypeIdsDistinct
  <2>1. t \in Declared /\ u \in Declared
    BY CurrentFacts DEF IInv, Structure, ListsHoldDeclared
  <2> QED BY <2>1 DEF IInv, Structure, IdsDiffer
<1> QED BY <1>1, RegistryInvariant, PTL

\* CTypeCache gives every type its own C name if a module is translated before
\* another one is compiled, as main_yalc.cpp does.
THEOREM CTypesAreTheirOwn == ASSUME LateBackend = FALSE PROVE Spec => []CTypeIsItsOwn
<1>1. IInv => CTypeIsItsOwn
  <2> SUFFICES ASSUME IInv, emitting # 0, NEW t \in Known(emitting) PROVE GetCType(t) = {t}
    BY DEF CTypeIsItsOwn
  <2>1. emitting = Current /\ m_ctypes = m_typeList[Current] /\ Current # 0
    BY DEF IInv, Emission
  <2>2. Current \in Ids /\ m_ctypes \in Seq(Types) /\ t \in ToSet(m_ctypes)
    BY <2>1, CurrentFacts DEF IInv, TypeOK, Known
  <2>3. PlaceIn(m_ctypes, t) \in 1..Len(m_ctypes) /\ m_ctypes[PlaceIn(m_ctypes, t)] = t
    BY <2>2, PlaceIsThere
  <2>4. m_typeId[t].index = BuiltinTypes + PlaceIn(m_ctypes, t) - 1
    BY <2>1 DEF IInv, Structure, PlacesAreCurrent
  <2>5. Len(m_ctypes) \in Nat
    BY <2>2
  <2>6. /\ m_typeId[t].index < BuiltinTypes + Len(m_ctypes) /\ m_typeId[t].index >= BuiltinTypes
        /\ m_typeId[t].index - BuiltinTypes + 1 = PlaceIn(m_ctypes, t)
    BY <2>3, <2>4, <2>5 DEF BuiltinTypes
  <2> QED BY <2>3, <2>6 DEF GetCType
<1> QED BY <1>1, RegistryInvariant, PTL

\* The map of TypeContext holds every type of its list, and registerType's
\* assertion is kept: no two types that a module knows have one identifier.
THEOREM LookupsAreUnique ==
  Spec => [](\A m \in Compiled : \A t, u \in Known(m) : OwnIdentifier(t) = OwnIdentifier(u) => t = u)
<1> DEFINE Unique ==
      \A m \in Compiled : \A t, u \in Known(m) : OwnIdentifier(t) = OwnIdentifier(u) => t = u
<1>1. IInv => Unique
  <2> SUFFICES ASSUME IInv, NEW m \in Compiled, NEW t \in Known(m), NEW u \in Known(m),
                      OwnIdentifier(t) = OwnIdentifier(u)
               PROVE  t = u
    OBVIOUS
  <2>1. /\ t \in Declared /\ DeclaredIn(t) \in Compiled
        /\ u \in Declared /\ DeclaredIn(u) \in Compiled
    BY CurrentFacts DEF IInv, Structure, ListsHoldDeclared
  <2>2. NameOf(DeclaredIn(t)) = NameOf(DeclaredIn(u))
    BY DEF OwnIdentifier, Identifier
  <2>3. DeclaredIn(t) = DeclaredIn(u)
    BY <2>1, <2>2 DEF IInv, Structure, ModulesDiffer
  <2> QED BY <2>1, <2>3 DEF IInv, Structure, IdentifiersDiffer
<1> QED BY <1>1, RegistryInvariant, PTL

\* A module knows what the declarations of its types may mention.
THEOREM KnownAreClosed == Spec => []KnownIsClosed
<1>1. IInv => KnownIsClosed
  BY CurrentFacts DEF IInv, Structure, MentionsAreKnown, KnownIsClosed
<1> QED BY <1>1, RegistryInvariant, PTL

\* What compile() returns rests on nothing that failed.
THEOREM ReturnedIsSound == Spec => []ReturnedOnReturned
<1>1. IInv => ReturnedOnReturned
  BY DEF IInv, Progress
<1> QED BY <1>1, RegistryInvariant, PTL
=============================================================================
