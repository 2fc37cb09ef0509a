--------------------------- MODULE AstBuilderProofs ---------------------------
(***************************************************************************)
(* Names are unique, references outlived by their variables and bodies     *)
(* complete, for any names, scopes and programs.                           *)
(*                                                                         *)
(* The invariant has two parts that do not depend on each other: one of    *)
(* the variables, one of the statements.                                   *)
(***************************************************************************)
EXTENDS AstBuilder, SequenceTheorems, TLAPS

VarsOK ==
  /\ m_declMap \subseteq Decl
  /\ depth \in 0..MaxDepth
  /\ declared \in 0..MaxDecls
  /\ \A d \in m_declMap : d.depth <= depth /\ d.id <= declared
  /\ target \in [1..MaxDecls -> 0..MaxDecls]
  /\ unchecked \subseteq {"inferred", "moved"}
  /\ error.kind \in {"none", "duplicate", "undefined", "reference scope"}
  /\ error.kind = "reference scope" =>
       error = RefScope(error.left, error.right) /\ {error.left, error.right} \subseteq m_declMap

\* A variable is known by its number; one that is not declared yet refers to
\* nothing.
IdsAreUnique == \A d, e \in m_declMap : d.id = e.id => d = e
NewRefersToNothing == \A id \in 1..MaxDecls : id > declared => target[id] = 0

VarInv ==
  /\ VarsOK
  /\ NamesAreUnique
  /\ IdsAreUnique
  /\ NewRefersToNothing
  /\ RefsAreOutlived
  /\ RefusedWouldDangle

-----------------------------------------------------------------------------
(* What is found. *)

LEMMA DeclTypes ==
  ASSUME NEW d \in Decl
  PROVE  /\ d.name \in Names /\ d.type \in Types
         /\ d.depth \in 1..MaxDepth /\ d.depth \in Nat /\ d.depth > 0
         /\ d.id \in 1..MaxDecls /\ d.id \in Nat /\ d.id > 0
BY AstBuilderAssumption DEF Decl

LEMMA VarTypes ==
  ASSUME VarsOK
  PROVE  /\ depth \in Nat /\ depth <= MaxDepth /\ MaxDepth \in Nat
         /\ declared \in Nat /\ declared <= MaxDecls /\ MaxDecls \in Nat
         /\ target \in [1..MaxDecls -> 0..MaxDecls]
         /\ \A d \in m_declMap :
              /\ d \in Decl /\ d.depth \in Nat /\ d.depth > 0 /\ d.depth <= depth
              /\ d.id \in 1..declared /\ d.id \in 1..MaxDecls
         /\ \A id \in 1..MaxDecls : target[id] \in 0..MaxDecls
<1>1. /\ depth \in 0..MaxDepth /\ declared \in 0..MaxDecls
      /\ target \in [1..MaxDecls -> 0..MaxDecls]
      /\ m_declMap \subseteq Decl
      /\ \A d \in m_declMap : d.depth <= depth /\ d.id <= declared
  BY DEF VarsOK
<1>2. MaxDepth \in Nat /\ MaxDecls \in Nat
  BY AstBuilderAssumption
<1>3. \A d \in m_declMap : /\ d.depth \in Nat /\ d.depth > 0
                           /\ d.id \in Nat /\ d.id > 0 /\ d.id \in 1..MaxDecls
  BY <1>1, DeclTypes
<1> QED
  BY <1>1, <1>2, <1>3

LEMMA FoundIsVisible ==
  ASSUME VarsOK, NEW name, NEW from, HasDecl(name, from)
  PROVE  /\ GetDecl(name, from) \in m_declMap
         /\ GetDecl(name, from).name = name
         /\ GetDecl(name, from).depth <= from
BY DEF HasDecl, GetDecl, Found

\* With unique names the innermost declaration is the only one.
LEMMA VisibleIsFound ==
  ASSUME VarsOK, NamesAreUnique, NEW from \in Nat,
         NEW d \in m_declMap, d.depth <= from
  PROVE  HasDecl(d.name, from) /\ GetDecl(d.name, from) = d
<1>1. d \in Found(d.name, from)
  <2>1. \A e \in m_declMap : e.name = d.name => e = d
    BY DEF NamesAreUnique
  <2>2. d.depth \in 1..MaxDepth
    BY DEF VarsOK, Decl
  <2> QED
    BY <2>1, <2>2, SMT DEF Found
<1>2. \A e \in Found(d.name, from) : e = d
  BY DEF Found, NamesAreUnique
<1> QED
  BY <1>1, <1>2 DEF HasDecl, GetDecl

LEMMA NothingFound ==
  ASSUME VarsOK, NamesAreUnique, NEW name, NEW from \in Nat, ~HasDecl(name, from),
         NEW d \in m_declMap, d.name = name
  PROVE  d.depth > from
<1>1. d.depth \in Nat
  BY DeclTypes DEF VarsOK
<1>2. ~(d.depth <= from)
  BY VisibleIsFound
<1> QED
  BY <1>1, <1>2

-----------------------------------------------------------------------------
(* Steps. *)

LEMMA InitVarInv == ASSUME Init PROVE VarInv
BY AstBuilderAssumption DEF Init, VarInv, VarsOK, NamesAreUnique, IdsAreUnique,
   NewRefersToNothing, RefsAreOutlived, Outlived, RefusedWouldDangle, NoError

\* Nothing that VarInv speaks of has changed.
LEMMA SameVarInv ==
  ASSUME VarInv, UNCHANGED <<m_declMap, depth, target, declared, unchecked, error>>
  PROVE  VarInv'
BY DEF VarInv, VarsOK, NamesAreUnique, IdsAreUnique, NewRefersToNothing, RefsAreOutlived,
   Outlived, RefusedWouldDangle

\* An error leaves the variables alone.
LEMMA FailVarInv ==
  ASSUME VarInv, NEW err, Fail(err),
         err.kind \in {"none", "duplicate", "undefined", "reference scope"},
         err.kind = "reference scope" =>
           /\ err = RefScope(err.left, err.right)
           /\ {err.left, err.right} \subseteq m_declMap
           /\ err.right.depth > err.left.depth
  PROVE  VarInv'
BY DEF VarInv, VarsOK, NamesAreUnique, IdsAreUnique, NewRefersToNothing, RefsAreOutlived,
   Outlived, RefusedWouldDangle, Fail

LEMMA PlainKinds == Plain("duplicate").kind = "duplicate" /\ Plain("undefined").kind = "undefined"
BY DEF Plain

LEMMA BeginFunctionVarInv ==
  ASSUME VarInv, NEW params \in Params, BeginFunction(params)
  PROVE  VarInv'
<1>1. CASE \E i, j \in 1..Len(params) : i # j /\ params[i].name = params[j].name
  BY <1>1, FailVarInv, PlainKinds DEF BeginFunction
<1>2. CASE ~\E i, j \in 1..Len(params) : i # j /\ params[i].name = params[j].name
  <2> DEFINE D(i) == [name |-> params[i].name, id |-> declared + i, depth |-> 1,
                      type |-> params[i].type]
  <2>1. /\ declared + Len(params) <= MaxDecls
        /\ m_declMap' = {D(i) : i \in 1..Len(params)}
        /\ declared' = declared + Len(params)
        /\ depth' = 1
        /\ UNCHANGED <<target, unchecked, error>>
    BY <1>2 DEF BeginFunction
  <2>2. PICK n \in 0..2 : params \in [1..n -> [name : Names, type : {"value", "reference"}]]
    BY DEF Params
  <2>3. Len(params) = n
    BY <2>2
  <2> HIDE DEF D
  <2>a. \A i \in 1..n : /\ D(i).name = params[i].name /\ D(i).id = declared + i
                        /\ D(i).depth = 1 /\ D(i).type = params[i].type
    BY DEF D
  <2>b. VarsOK /\ declared \in Nat /\ MaxDecls \in Nat /\ declared + n <= MaxDecls
    BY <2>1, <2>3, VarTypes DEF VarInv
  <2>4. \A i \in 1..n : D(i) \in Decl /\ D(i).depth <= 1 /\ D(i).id <= declared'
    <3> SUFFICES ASSUME NEW i \in 1..n
                 PROVE  D(i) \in Decl /\ D(i).depth <= 1 /\ D(i).id <= declared'
      OBVIOUS
    <3>1. params[i].name \in Names /\ params[i].type \in Types
      BY <2>2 DEF Types
    <3>2. declared + i \in 1..MaxDecls /\ 1 \in 1..MaxDepth
      BY <2>b, AstBuilderAssumption
    <3>3. D(i) \in Decl
      BY <3>1, <3>2 DEF D, Decl
    <3> QED
      BY <3>3, <2>a, <2>b, <2>1, <2>3
  <2>5. \A i, j \in 1..n : D(i).name = D(j).name \/ D(i).id = D(j).id => i = j
    BY <1>2, <2>a, <2>b, <2>3
  <2>6. \A i \in 1..n : target[D(i).id] = 0
    BY <2>a, <2>b DEF VarInv, NewRefersToNothing
  <2>7. VarsOK'
    <3>1. depth' \in 0..MaxDepth
      BY <2>1, AstBuilderAssumption
    <3>2. declared' \in 0..MaxDecls
      BY <2>1, <2>3, <2>b
    <3>3. /\ m_declMap' \subseteq Decl
          /\ \A d \in m_declMap' : d.depth <= depth' /\ d.id <= declared'
      BY <2>1, <2>3, <2>4
    <3>4. error'.kind # "reference scope"
      BY <2>1 DEF BeginFunction, NoError
    <3> QED
      BY <2>1, <3>1, <3>2, <3>3, <3>4 DEF VarInv, VarsOK
  <2>8. NamesAreUnique' /\ IdsAreUnique'
    <3> SUFFICES ASSUME NEW d \in m_declMap', NEW e \in m_declMap',
                        d.name = e.name \/ d.id = e.id
                 PROVE  d = e
      BY DEF NamesAreUnique, IdsAreUnique
    <3>1. PICK i \in 1..n, j \in 1..n : d = D(i) /\ e = D(j)
      BY <2>1, <2>3
    <3> QED
      BY <3>1, <2>5
  <2>9. NewRefersToNothing'
    BY <2>1, <2>3, <2>b DEF VarInv, NewRefersToNothing
  <2>10. RefsAreOutlived'
    <3>1. \A r \in m_declMap' : target'[r.id] = 0
      BY <2>1, <2>3, <2>6
    <3> QED
      BY <3>1 DEF RefsAreOutlived, Outlived
  <2>11. RefusedWouldDangle'
    BY <2>1 DEF BeginFunction, NoError, RefusedWouldDangle
  <2> QED
    BY <2>7, <2>8, <2>9, <2>10, <2>11 DEF VarInv
<1> QED
  BY <1>1, <1>2

\* Where a scope ends, what its references referred to may end with it; what
\* stays is outlived by what stays.
LEMMA EndVarInv ==
  ASSUME VarInv, depth \in 1..MaxDepth, m_declMap' = NamesEnd, depth' = depth - 1,
         error = NoError, UNCHANGED <<target, declared, unchecked, error>>
  PROVE  VarInv'
<1>1. \A d \in m_declMap' : d \in m_declMap /\ d.depth < depth /\ d.depth \in Nat
  BY VarTypes DEF NamesEnd, VarInv
<1>2. error'.kind # "reference scope"
  BY DEF NoError
<1>3. VarsOK'
  <2>1. \A d \in m_declMap' : d \in Decl /\ d.depth <= depth' /\ d.id <= declared'
    BY <1>1, VarTypes DEF VarInv
  <2>2. depth' \in 0..MaxDepth
    BY AstBuilderAssumption
  <2> QED
    BY <1>2, <2>1, <2>2 DEF VarInv, VarsOK
<1>4. NamesAreUnique' /\ IdsAreUnique' /\ NewRefersToNothing' /\ RefusedWouldDangle'
  BY <1>1, <1>2 DEF VarInv, NamesAreUnique, IdsAreUnique, NewRefersToNothing, RefusedWouldDangle
<1>5. RefsAreOutlived'
  <2> SUFFICES ASSUME unchecked = {}, NEW r \in m_declMap', r.type \in References,
                      target[r.id] # 0
               PROVE  \E d \in m_declMap' : d.id = target[r.id] /\ d.depth <= r.depth
    BY DEF RefsAreOutlived, Outlived
  <2>1. PICK d \in m_declMap : d.id = target[r.id] /\ d.depth <= r.depth
    BY <1>1 DEF VarInv, RefsAreOutlived, Outlived
  <2>2. d.depth < depth
    BY <1>1, <2>1, VarTypes DEF VarInv
  <2> QED
    BY <2>1, <2>2 DEF NamesEnd
<1> QED
  BY <1>3, <1>4, <1>5 DEF VarInv

\* What a value refers to is visible, and not declared further in than the
\* statement is.
LEMMA ReferredIsVisible ==
  ASSUME VarInv, depth \in Nat, NEW v \in Values, ~Undefined(v), IsReference(v)
  PROVE  /\ Referred(v) \in 0..MaxDecls
         /\ unchecked = {} /\ Referred(v) # 0 =>
              \E d \in m_declMap : d.id = Referred(v) /\ d.depth <= depth
<1>1. v.op \in {"address", "value"} /\ HasDecl(v.name, depth)
  BY DEF IsReference, Undefined, Values
<1> DEFINE w == GetDecl(v.name, depth)
<1>2. w \in m_declMap /\ w.depth <= depth /\ w.id \in 1..declared /\ w.depth \in Nat
  BY <1>1, FoundIsVisible, VarTypes DEF VarInv
<1>3. CASE v.op = "address"
  <2>1. Referred(v) = w.id
    BY <1>3 DEF Referred
  <2> QED
    BY <1>2, <2>1, VarTypes DEF VarInv
<1>4. CASE v.op = "value"
  <2>1. Referred(v) = target[w.id] /\ w.type \in References
    BY <1>4 DEF Referred, IsReference
  <2>2. target[w.id] \in 0..MaxDecls
    BY <1>2, VarTypes DEF VarInv
  <2> QED
    BY <1>2, <2>1, <2>2, VarTypes DEF VarInv, RefsAreOutlived, Outlived
<1> QED
  BY <1>1, <1>3, <1>4

LEMMA DeclareVarVarInv ==
  ASSUME VarInv, NEW name \in Names, NEW given \in {"none", "value", "reference"},
         NEW v \in Values, DeclareVar(name, given, v)
  PROVE  VarInv'
<1>1. CASE IsDuplicate(name) \/ Undefined(v)
  BY <1>1, FailVarInv, PlainKinds DEF DeclareVar
<1>2. CASE ~IsDuplicate(name) /\ ~Undefined(v)
  <2> DEFINE type == IF given # "none" THEN given
                     ELSE IF IsReference(v) THEN "inferred reference"
                     ELSE "inferred value"
             new == [name |-> name, id |-> declared + 1, depth |-> depth, type |-> type]
  <2>1. /\ m_declMap' = m_declMap \cup {new}
        /\ declared < MaxDecls /\ declared' = declared + 1 /\ depth > 0
        /\ target' = [target EXCEPT ![declared + 1] = Referred(v)]
        /\ error = NoError
        /\ UNCHANGED <<depth, unchecked, error>>
    BY <1>2 DEF DeclareVar
  <2>2. type \in Types
    BY DEF Types
  <2> HIDE DEF type
  <2>3. /\ new.name = name /\ new.id = declared + 1 /\ new.depth = depth /\ new.type = type
    OBVIOUS
  <2>4. /\ VarsOK /\ depth \in Nat /\ declared \in Nat /\ MaxDecls \in Nat
        /\ depth <= MaxDepth /\ MaxDepth \in Nat
        /\ target \in [1..MaxDecls -> 0..MaxDecls]
        /\ \A d \in m_declMap : /\ d \in Decl /\ d.id \in Nat /\ d.id <= declared
                               /\ d.id \in 1..MaxDecls
                               /\ d.depth \in Nat /\ d.depth <= depth
    BY VarTypes DEF VarInv
  <2>5. new \in Decl
    <3>1. depth \in 1..MaxDepth /\ declared + 1 \in 1..MaxDecls
      BY <2>1, <2>4
    <3> QED
      BY <2>2, <3>1 DEF Decl, new
  <2> HIDE DEF new
  <2>6. Referred(v) \in 0..MaxDecls
    BY <1>2, <2>4, ReferredIsVisible DEF Referred
  <2>7. \A d \in m_declMap : d.name # name
    <3> SUFFICES ASSUME NEW d \in m_declMap, d.name = name PROVE FALSE
      OBVIOUS
    <3>1. d.depth > depth
      BY <1>2, <2>4, NothingFound DEF IsDuplicate, VarInv
    <3> QED
      BY <2>4, <3>1
  <2>8. VarsOK'
    <3>1. \A d \in m_declMap' : d \in Decl /\ d.depth <= depth' /\ d.id <= declared'
      BY <2>1, <2>3, <2>4, <2>5
    <3>2. declared' \in 0..MaxDecls /\ target' \in [1..MaxDecls -> 0..MaxDecls]
      BY <2>1, <2>4, <2>6
    <3>3. error'.kind # "reference scope"
      BY <2>1 DEF NoError
    <3> QED
      BY <2>1, <2>4, <3>1, <3>2, <3>3 DEF VarsOK
  <2>9. NamesAreUnique' /\ IdsAreUnique'
    BY <2>1, <2>3, <2>4, <2>7 DEF VarInv, NamesAreUnique, IdsAreUnique
  <2>10. NewRefersToNothing'
    <3> SUFFICES ASSUME NEW id \in 1..MaxDecls, id > declared'
                 PROVE  target'[id] = 0
      BY <2>1 DEF NewRefersToNothing
    <3>1. id # declared + 1 /\ id > declared
      BY <2>1, <2>4
    <3> QED
      BY <2>1, <3>1 DEF VarInv, VarsOK, NewRefersToNothing
  <2>11. RefsAreOutlived'
    <3> SUFFICES ASSUME unchecked = {}, NEW r \in m_declMap', r.type \in References,
                        target'[r.id] # 0
                 PROVE  \E d \in m_declMap' : d.id = target'[r.id] /\ d.depth <= r.depth
      BY <2>1 DEF RefsAreOutlived, Outlived
    <3>1. CASE r \in m_declMap
      <4>1. target'[r.id] = target[r.id]
        BY <2>1, <2>4, <3>1
      <4> QED
        BY <2>1, <3>1, <4>1 DEF VarInv, RefsAreOutlived, Outlived
    <3>2. CASE r = new
      <4>1. target'[r.id] = Referred(v)
        BY <2>1, <2>3, <2>4, <3>2
      <4>2. IsReference(v)
        BY <4>1 DEF Referred
      <4> QED
        BY <1>2, <2>1, <2>3, <2>4, <3>2, <4>1, <4>2, ReferredIsVisible
    <3> QED
      BY <2>1, <3>1, <3>2
  <2>12. RefusedWouldDangle'
    BY <2>1 DEF NoError, RefusedWouldDangle
  <2> QED
    BY <2>8, <2>9, <2>10, <2>11, <2>12 DEF VarInv
<1> QED
  BY <1>1, <1>2

\* The check compares names; as these are unique it finds the variable itself.
LEMMA AssignVarInv ==
  ASSUME VarInv, NEW name \in Names, NEW v \in Values, Assign(name, v)
  PROVE  VarInv'
<1>1. CASE ~HasDecl(name, depth) \/ Undefined(v)
  BY <1>1, FailVarInv, PlainKinds DEF Assign
<1>2. CASE HasDecl(name, depth) /\ ~Undefined(v)
  <2> DEFINE left == GetDecl(name, depth)
             right == GetDecl(v.name, depth)
  <2>1. /\ VarsOK /\ depth \in Nat /\ NamesAreUnique
        /\ left \in m_declMap /\ left.depth <= depth /\ left.depth \in Nat
        /\ left.id \in 1..MaxDecls
    BY <1>2, FoundIsVisible, VarTypes DEF VarInv
  <2>2. v.op # "literal" /\ left.type \in References /\ IsReference(v)
    BY <1>2 DEF Assign
  <2>3. HasDecl(v.name, depth) /\ right \in m_declMap /\ right.name = v.name
    BY <1>2, <2>1, <2>2, FoundIsVisible DEF Undefined
  <2>4. CASE v.op = "address" /\ TooShortLived(left, v)
    <3>1. Fail(RefScope(left, right))
      BY <1>2, <2>4 DEF Assign
    <3>2. right.depth > left.depth
      BY <2>1, <2>3, <2>4, NothingFound DEF TooShortLived
    <3> QED
      BY <2>1, <2>3, <3>1, <3>2, FailVarInv DEF RefScope
  <2>5. CASE ~(v.op = "address" /\ TooShortLived(left, v))
    <3>1. /\ target' = [target EXCEPT ![left.id] = Referred(v)]
          /\ unchecked' = unchecked
               \cup (IF v.op = "value" THEN {"moved"} ELSE {})
               \cup (IF left.type = "inferred reference" THEN {"inferred"} ELSE {})
          /\ UNCHANGED <<m_declMap, depth, declared, error>>
          /\ error = NoError
      BY <1>2, <2>5 DEF Assign
    <3>2. Referred(v) \in 0..MaxDecls
      BY <1>2, <2>1, <2>2, ReferredIsVisible
    <3> HIDE DEF left
    <3>3. VarsOK'
      <4>1. target' \in [1..MaxDecls -> 0..MaxDecls]
        BY <2>1, <3>1, <3>2 DEF VarsOK
      <4>2. unchecked' \subseteq {"inferred", "moved"}
        BY <2>1, <3>1 DEF VarsOK
      <4> QED
        BY <2>1, <3>1, <4>1, <4>2 DEF VarsOK
    <3>4. NamesAreUnique' /\ IdsAreUnique' /\ RefusedWouldDangle'
      BY <3>1 DEF VarInv, NamesAreUnique, IdsAreUnique, RefusedWouldDangle
    <3>5. NewRefersToNothing'
      <4>1. left.id <= declared /\ declared \in Nat
        BY <2>1, VarTypes
      <4> SUFFICES ASSUME NEW id \in 1..MaxDecls, id > declared PROVE target'[id] = 0
        BY <3>1 DEF NewRefersToNothing
      <4>2. id # left.id /\ target[id] = 0
        BY <2>1, <4>1, VarTypes DEF VarInv, NewRefersToNothing
      <4> QED
        BY <2>1, <3>1, <4>2, VarTypes
    <3>6. RefsAreOutlived'
      <4> SUFFICES ASSUME unchecked' = {}, NEW r \in m_declMap, r.type \in References,
                          target'[r.id] # 0
                   PROVE  \E d \in m_declMap : d.id = target'[r.id] /\ d.depth <= r.depth
        BY <3>1 DEF RefsAreOutlived, Outlived
      <4>1. unchecked = {} /\ v.op = "address" /\ left.type = "reference"
        <5>1. unchecked = {} /\ v.op # "value" /\ left.type # "inferred reference"
          BY <3>1
        <5> QED
          BY <2>2, <5>1 DEF References, IsReference
      <4>2. CASE r.id = left.id
        <5>1. r = left
          BY <2>1, <4>2 DEF VarInv, IdsAreUnique
        <5>2. HasDecl(v.name, left.depth)
          BY <2>5, <4>1 DEF TooShortLived
        <5>3. PICK d \in m_declMap : d.name = v.name /\ d.depth <= left.depth
          BY <2>1, <5>2, FoundIsVisible
        <5>4. d = right
          BY <2>1, <2>3, <5>3 DEF NamesAreUnique
        <5>5. target'[r.id] = right.id
          BY <2>1, <2>2, <3>1, <4>1, <4>2 DEF Referred, VarsOK
        <5> QED
          BY <5>1, <5>3, <5>4, <5>5
      <4>3. CASE r.id # left.id
        <5>1. target'[r.id] = target[r.id]
          BY <2>1, <3>1, <4>3, VarTypes DEF VarsOK
        <5> QED
          BY <4>1, <5>1 DEF VarInv, RefsAreOutlived, Outlived
      <4> QED
        BY <4>2, <4>3
    <3> QED
      BY <3>3, <3>4, <3>5, <3>6 DEF VarInv
  <2> QED
    BY <2>4, <2>5
<1> QED
  BY <1>1, <1>2

LEMMA NextVarInv == ASSUME VarInv, [Next]_vars PROVE VarInv'
<1>1. ASSUME NEW params \in Params, BeginFunction(params) PROVE VarInv'
  BY <1>1, BeginFunctionVarInv
<1>2. ASSUME EndFunction \/ EndBlock PROVE VarInv'
  <2>1. depth \in 1..MaxDepth /\ depth' = depth - 1
    BY <1>2, VarTypes DEF EndFunction, EndBlock, VarInv
  <2> QED
    BY <1>2, <2>1, EndVarInv DEF EndFunction, EndBlock
<1>3. ASSUME BeginBlock PROVE VarInv'
  <2>1. depth' \in 0..MaxDepth /\ \A d \in m_declMap : d.depth <= depth'
    BY <1>3, VarTypes, AstBuilderAssumption DEF BeginBlock, VarInv
  <2> QED
    BY <1>3, <2>1 DEF BeginBlock, VarInv, VarsOK, NamesAreUnique, IdsAreUnique,
       NewRefersToNothing, RefsAreOutlived, Outlived, RefusedWouldDangle
<1>4. ASSUME NEW name \in Names, Use(name) PROVE VarInv'
  <2>1. CASE ~HasDecl(name, depth)
    BY <1>4, <2>1, FailVarInv, PlainKinds DEF Use
  <2>2. CASE HasDecl(name, depth)
    BY <1>4, <2>2, SameVarInv DEF Use
  <2> QED
    BY <2>1, <2>2
<1>5. ASSUME NEW name \in Names, NEW given \in {"none", "value", "reference"},
             NEW v \in Values, DeclareVar(name, given, v)
      PROVE  VarInv'
  BY <1>5, DeclareVarVarInv
<1>6. ASSUME NEW name \in Names, NEW v \in Values, Assign(name, v) PROVE VarInv'
  BY <1>6, AssignVarInv
<1>7. ASSUME UNCHANGED vars PROVE VarInv'
  BY <1>7, SameVarInv DEF vars
<1> QED
  BY <1>1, <1>2, <1>3, <1>4, <1>5, <1>6, <1>7 DEF Next

-----------------------------------------------------------------------------
(* Statements: the open bodies lie one after the other in the stack. *)

Statements == 1..MaxStatements
Bodies == [base : Nat, visited : Seq(Statements)]
End(body) == body.base + Len(body.visited)

StmtsOK(st, open) == st \in Seq(Statements) /\ open \in Seq(Bodies)

LaidOut(st, open) ==
  /\ Len(open) = 0 => Len(st) = 0
  /\ \A i \in 1..Len(open) :
       /\ i = 1 => open[i].base = 0
       /\ i = Len(open) => End(open[i]) = Len(st)
       /\ End(open[i]) <= Len(st)
       /\ \A k \in 1..Len(open[i].visited) : st[open[i].base + k] = open[i].visited[k]
  /\ \A i, j \in 1..Len(open) : i < j => End(open[i]) <= open[j].base
  /\ \A i, j \in 1..Len(open) : j = i + 1 => End(open[i]) = open[j].base

StmtInv ==
  /\ StmtsOK(stackStatements, bodies)
  /\ LaidOut(stackStatements, bodies)
  /\ depth \in Nat /\ Len(bodies) = depth
  /\ visited \in 0..MaxStatements

LEMMA BodyTypes ==
  ASSUME NEW b \in Bodies
  PROVE  /\ b.base \in Nat /\ b.visited \in Seq(Statements) /\ Len(b.visited) \in Nat
         /\ End(b) \in Nat /\ End(b) = b.base + Len(b.visited)
BY DEF Bodies, End

LEMMA OneFurther ==
  ASSUME NEW a \in Nat, NEW b \in Nat
  PROVE  /\ a + (b + 1) = (a + b) + 1
         /\ \A k \in 1..(b + 1) : k \in 1..b \/ k = b + 1
OBVIOUS

\* A statement that is pushed comes behind those of the innermost body.
LEMMA PushStmtInv ==
  ASSUME NEW st, NEW open, StmtsOK(st, open), LaidOut(st, open), Len(open) > 0,
         visited \in 0..MaxStatements, Push(st, open)
  PROVE  /\ StmtsOK(stackStatements', bodies') /\ LaidOut(stackStatements', bodies')
         /\ Len(bodies') = Len(open) /\ visited' \in 0..MaxStatements
<1> DEFINE n == Len(open)
           s == visited + 1
<1>1. /\ visited' = s /\ s \in Statements
      /\ stackStatements' = Append(st, s)
      /\ bodies' = [open EXCEPT ![n].visited = Append(@, s)]
  BY AstBuilderAssumption DEF Push, Statements
<1>2. /\ st \in Seq(Statements) /\ open \in Seq(Bodies) /\ n \in 1..n /\ n \in Nat
      /\ Len(st) \in Nat
  BY DEF StmtsOK
<1>3. \A i \in 1..n : /\ open[i] \in Bodies /\ open[i].base \in Nat
                      /\ open[i].visited \in Seq(Statements) /\ Len(open[i].visited) \in Nat
                      /\ End(open[i]) = open[i].base + Len(open[i].visited)
  BY <1>2, BodyTypes
<1> HIDE DEF n, s
<1>4. PICK b \in Bodies : /\ b.base = open[n].base /\ b.visited = Append(open[n].visited, s)
                          /\ bodies' = [open EXCEPT ![n] = b]
  <2>1. ASSUME NEW o \in Bodies
        PROVE  /\ [o EXCEPT !.visited = Append(@, s)] \in Bodies
               /\ [o EXCEPT !.visited = Append(@, s)].base = o.base
               /\ [o EXCEPT !.visited = Append(@, s)].visited = Append(o.visited, s)
    <3>1. Append(o.visited, s) \in Seq(Statements)
      BY <1>1, BodyTypes
    <3> QED
      BY <3>1 DEF Bodies
  <2>2. bodies' = [open EXCEPT ![n] = [open[n] EXCEPT !.visited = Append(@, s)]]
    BY <1>1
  <2> QED
    BY <1>2, <1>3, <2>1, <2>2
<1>5. /\ bodies' \in Seq(Bodies) /\ Len(bodies') = n
      /\ \A i \in 1..n : bodies'[i] = IF i = n THEN b ELSE open[i]
  BY <1>2, <1>4, ExceptSeq DEF n
<1>6. /\ \A i \in 1..n : i # n => bodies'[i] = open[i]
      /\ bodies'[n].base = open[n].base
      /\ bodies'[n].visited = Append(open[n].visited, s)
      /\ bodies'[n] \in Bodies
  BY <1>2, <1>4, <1>5
<1>7. /\ stackStatements' \in Seq(Statements) /\ Len(stackStatements') = Len(st) + 1
      /\ \A k \in 1..Len(st) : stackStatements'[k] = st[k]
      /\ stackStatements'[Len(st) + 1] = s
  BY <1>1, <1>2
<1>8. /\ Len(bodies'[n].visited) = Len(open[n].visited) + 1
      /\ \A k \in 1..Len(open[n].visited) : bodies'[n].visited[k] = open[n].visited[k]
      /\ bodies'[n].visited[Len(open[n].visited) + 1] = s
  BY <1>1, <1>2, <1>3, <1>6
<1>9. \A i \in 1..n : /\ bodies'[i].base = open[i].base
                      /\ i # n => End(bodies'[i]) = End(open[i])
  BY <1>6
<1>10. End(bodies'[n]) = Len(st) + 1
  <2>1. End(open[n]) = Len(st)
    BY <1>2 DEF LaidOut, n
  <2> QED
    <3>1. /\ Len(open[n].visited) \in Nat /\ open[n].base \in Nat
          /\ open[n].base + Len(open[n].visited) = Len(st)
      BY <1>2, <1>3, <2>1
    <3>2. End(bodies'[n]) = open[n].base + (Len(open[n].visited) + 1)
      BY <1>6, <1>8 DEF End
    <3> QED
      BY <1>2, <3>1, <3>2
<1>11. ASSUME NEW i \in 1..n
       PROVE  /\ i = 1 => bodies'[i].base = 0
              /\ i = n => End(bodies'[i]) = Len(stackStatements')
              /\ End(bodies'[i]) <= Len(stackStatements')
              /\ \A k \in 1..Len(bodies'[i].visited) :
                   stackStatements'[bodies'[i].base + k] = bodies'[i].visited[k]
  <2>1. /\ i = 1 => open[i].base = 0
        /\ i = n => End(open[i]) = Len(st)
        /\ End(open[i]) <= Len(st)
        /\ \A k \in 1..Len(open[i].visited) : st[open[i].base + k] = open[i].visited[k]
    BY <1>2 DEF LaidOut, n
  <2>2. /\ i = 1 => bodies'[i].base = 0
        /\ i = n => End(bodies'[i]) = Len(stackStatements')
        /\ End(bodies'[i]) <= Len(stackStatements')
    <3>1. End(open[i]) \in Nat /\ i \in Nat
      BY <1>3, BodyTypes
    <3> QED
      BY <1>2, <1>7, <1>9, <1>10, <2>1, <3>1
  <2>3. ASSUME NEW k \in 1..Len(bodies'[i].visited)
        PROVE  stackStatements'[bodies'[i].base + k] = bodies'[i].visited[k]
    <3>1. CASE i # n
      <4>1. bodies'[i] = open[i] /\ k \in 1..Len(open[i].visited)
        BY <1>6, <3>1
      <4>2. open[i].base + k \in 1..Len(st)
        BY <1>2, <1>3, <2>1, <4>1
      <4> QED
        BY <1>7, <2>1, <4>1, <4>2
    <3>2. CASE i = n /\ k \in 1..Len(open[i].visited)
      <4>1. open[i].base + k \in 1..Len(st)
        BY <1>2, <1>3, <2>1, <3>2
      <4> QED
        BY <1>7, <1>8, <1>9, <2>1, <3>2, <4>1
    <3>3. CASE i = n /\ k = Len(open[i].visited) + 1
      <4>1. bodies'[i].base + k = Len(st) + 1
        <5>1. /\ open[i].base \in Nat /\ Len(open[i].visited) \in Nat
              /\ open[i].base + Len(open[i].visited) = Len(st)
          BY <1>3, <2>1, <3>3
        <5>2. bodies'[i].base = open[i].base /\ k = Len(open[i].visited) + 1
          BY <1>9, <3>3
        <5>3. open[i].base + (Len(open[i].visited) + 1) = Len(st) + 1
          BY <5>1, OneFurther
        <5> QED
          BY <5>2, <5>3
      <4>2. bodies'[i].visited[k] = s
        BY <1>8, <3>3
      <4> QED
        BY <1>7, <4>1, <4>2
    <3> QED
      <4>1. CASE i = n
        <5>1. Len(open[n].visited) \in Nat /\ k \in 1..(Len(open[n].visited) + 1)
          BY <1>3, <1>8, <4>1
        <5>2. k \in 1..Len(open[i].visited) \/ k = Len(open[i].visited) + 1
          BY <4>1, <5>1, OneFurther
        <5> QED
          BY <3>2, <3>3, <4>1, <5>2
      <4> QED
        BY <3>1, <4>1
  <2> QED
    BY <2>2, <2>3
<1>12. ASSUME NEW i \in 1..n, NEW j \in 1..n, i < j
       PROVE  /\ End(bodies'[i]) <= bodies'[j].base
              /\ j = i + 1 => End(bodies'[i]) = bodies'[j].base
  <2>1. i # n
    BY <1>2, <1>12
  <2>2. /\ End(open[i]) <= open[j].base
        /\ j = i + 1 => End(open[i]) = open[j].base
    BY <1>12 DEF LaidOut, n
  <2> QED
    BY <1>9, <2>1, <2>2
<1>13. \A i, j \in 1..n : j = i + 1 => i < j
  BY <1>2
<1> QED
  <2>1. StmtsOK(stackStatements', bodies') /\ Len(bodies') = n
    BY <1>5, <1>7 DEF StmtsOK
  <2>2. visited' \in 0..MaxStatements
    BY <1>1, AstBuilderAssumption DEF Statements
  <2>3. LaidOut(stackStatements', bodies')
    BY <1>2, <1>11, <1>12, <1>13, <2>1 DEF LaidOut
  <2> QED
    BY <2>1, <2>2, <2>3 DEF n

\* Without the innermost body and its statements.
LEMMA PopLaidOut ==
  ASSUME NEW st, NEW open, StmtsOK(st, open), LaidOut(st, open), Len(open) > 1
  PROVE  LET n == Len(open)
             rest == SubSeq(open, 1, n - 1)
             left == SubSeq(st, 1, open[n].base)
         IN  StmtsOK(left, rest) /\ LaidOut(left, rest) /\ Len(rest) = n - 1
<1> DEFINE n == Len(open)
           rest == SubSeq(open, 1, n - 1)
           e == open[n].base
           left == SubSeq(st, 1, e)
<1>1. /\ st \in Seq(Statements) /\ open \in Seq(Bodies) /\ Len(st) \in Nat
      /\ n \in Nat /\ n > 1 /\ n \in 1..n
  BY DEF StmtsOK
<1>2. \A i \in 1..n : /\ open[i] \in Bodies /\ open[i].base \in Nat
                      /\ Len(open[i].visited) \in Nat /\ End(open[i]) \in Nat
                      /\ End(open[i]) = open[i].base + Len(open[i].visited)
  BY <1>1, BodyTypes
<1>3. e \in Nat /\ e <= Len(st)
  <2>1. End(open[n]) = Len(st)
    BY <1>1 DEF LaidOut
  <2> QED
    BY <1>1, <1>2, <2>1
<1>4. /\ rest \in Seq(Bodies) /\ Len(rest) = n - 1
      /\ \A i \in 1..(n - 1) : rest[i] = open[i]
  BY <1>1
<1>5. /\ left \in Seq(Statements) /\ Len(left) = e
      /\ \A k \in 1..e : left[k] = st[k]
  BY <1>1, <1>3
<1> HIDE DEF rest, left
<1>6. ASSUME NEW i \in 1..(n - 1)
      PROVE  /\ i = 1 => rest[i].base = 0
             /\ i = n - 1 => End(rest[i]) = Len(left)
             /\ End(rest[i]) <= Len(left)
             /\ \A k \in 1..Len(rest[i].visited) : left[rest[i].base + k] = rest[i].visited[k]
  <2>1. i \in 1..n /\ i < n /\ (i = n - 1 => n = i + 1) /\ rest[i] = open[i]
    BY <1>1, <1>4
  <2>2. /\ i = 1 => open[i].base = 0
        /\ n = i + 1 => End(open[i]) = e
        /\ End(open[i]) <= e
        /\ \A k \in 1..Len(open[i].visited) : st[open[i].base + k] = open[i].visited[k]
    BY <1>1, <2>1 DEF LaidOut
  <2>3. ASSUME NEW k \in 1..Len(open[i].visited)
        PROVE  left[open[i].base + k] = open[i].visited[k]
    <3>1. open[i].base + k \in 1..e
      <4>1. /\ open[i].base \in Nat /\ Len(open[i].visited) \in Nat
            /\ open[i].base + Len(open[i].visited) <= e
        BY <1>2, <2>1, <2>2
      <4> HIDE DEF e
      <4> QED
        BY <1>3, <4>1
    <3> QED
      BY <1>5, <2>2, <3>1
  <2> QED
    BY <1>5, <2>1, <2>2, <2>3
<1>7. ASSUME NEW i \in 1..(n - 1), NEW j \in 1..(n - 1)
      PROVE  /\ i < j => End(rest[i]) <= rest[j].base
             /\ j = i + 1 => End(rest[i]) = rest[j].base
  <2>1. i \in 1..n /\ j \in 1..n /\ rest[i] = open[i] /\ rest[j] = open[j]
    BY <1>1, <1>4
  <2> QED
    BY <2>1 DEF LaidOut
<1>8. Len(rest) # 0
  BY <1>1, <1>4
<1>9. StmtsOK(left, rest) /\ LaidOut(left, rest) /\ Len(rest) = n - 1
  <2> HIDE DEF n
  <2> QED
    BY <1>4, <1>5, <1>6, <1>7, <1>8 DEF StmtsOK, LaidOut
<1> QED
  BY <1>9 DEF rest, left

LEMMA InitStmtInv == ASSUME Init PROVE StmtInv
BY AstBuilderAssumption DEF Init, StmtInv, StmtsOK, LaidOut

\* Nothing that StmtInv speaks of has changed.
LEMMA SameStmtInv ==
  ASSUME StmtInv, UNCHANGED <<depth, stackStatements, bodies, visited>>
  PROVE  StmtInv'
BY DEF StmtInv, StmtsOK, LaidOut

LEMMA FailStmtInv == ASSUME StmtInv, NEW err, Fail(err) PROVE StmtInv'
BY SameStmtInv DEF Fail

LEMMA FunctionStmtInv ==
  ASSUME StmtInv, \/ \E params \in Params : BeginFunction(params)
                  \/ EndFunction
  PROVE  StmtInv'
<1>1. CASE Fail(Plain("duplicate"))
  BY <1>1, FailStmtInv
<1>2. CASE /\ depth = 0 /\ depth' = 1
           /\ bodies' = <<[base |-> Len(stackStatements), visited |-> <<>>]>>
           /\ UNCHANGED <<stackStatements, visited>>
  <2> DEFINE b == [base |-> Len(stackStatements), visited |-> <<>>]
  <2>1. Len(stackStatements) = 0 /\ stackStatements \in Seq(Statements)
    BY <1>2 DEF StmtInv, LaidOut, StmtsOK
  <2>2. b \in Bodies /\ b.base = 0 /\ Len(b.visited) = 0 /\ End(b) = 0
    BY <2>1 DEF Bodies, End
  <2> HIDE DEF b
  <2>3. bodies' = <<b>>
    BY <1>2 DEF b
  <2>4. bodies' \in Seq(Bodies) /\ Len(bodies') = 1 /\ bodies'[1] = b
    BY <2>2, <2>3
  <2>5. LaidOut(stackStatements, bodies')
    BY <2>1, <2>2, <2>4 DEF LaidOut
  <2> QED
    BY <1>2, <2>1, <2>4, <2>5 DEF StmtInv, StmtsOK
<1>3. CASE /\ depth = 1 /\ depth' = 0 /\ bodies' = <<>>
           /\ stackStatements' = SubSeq(stackStatements, 1, TakesOneMore(Body.base))
           /\ visited' = visited
  <2>1. stackStatements' = SubSeq(stackStatements, 1, 0)
    BY <1>3 DEF StmtInv, LaidOut, Body, TakesOneMore
  <2>2. stackStatements' = <<>>
    BY <2>1 DEF StmtInv, StmtsOK
  <2>3. StmtsOK(<<>>, <<>>) /\ LaidOut(<<>>, <<>>)
    BY EmptySeq DEF StmtsOK, LaidOut
  <2> QED
    BY <1>3, <2>2, <2>3 DEF StmtInv
<1> QED
  BY <1>1, <1>2, <1>3 DEF BeginFunction, EndFunction


LEMMA BlockStmtInv ==
  ASSUME StmtInv, BeginBlock \/ EndBlock
  PROVE  StmtInv'
<1>1. CASE BeginBlock
  <2> DEFINE b == [base |-> Len(stackStatements), visited |-> <<>>]
  <2>1. /\ StmtsOK(stackStatements, bodies) /\ LaidOut(stackStatements, bodies)
        /\ Len(bodies) = depth /\ depth \in Nat /\ depth > 0 /\ depth' = depth + 1
        /\ bodies' = Append(bodies, b)
        /\ UNCHANGED <<stackStatements, visited>>
    BY <1>1, AstBuilderAssumption DEF BeginBlock, StmtInv
  <2>2. /\ b \in Bodies /\ b.base = Len(stackStatements) /\ Len(b.visited) = 0
        /\ End(b) = Len(stackStatements) /\ Len(stackStatements) \in Nat
    BY <2>1 DEF Bodies, End, StmtsOK
  <2> HIDE DEF b
  <2>3. /\ bodies' \in Seq(Bodies) /\ Len(bodies') = depth + 1
        /\ \A i \in 1..depth : bodies'[i] = bodies[i]
        /\ bodies'[depth + 1] = b
    BY <2>1, <2>2 DEF StmtsOK
  <2>4. ASSUME NEW i \in 1..(depth + 1)
        PROVE  /\ i = 1 => bodies'[i].base = 0
               /\ i = depth + 1 => End(bodies'[i]) = Len(stackStatements)
               /\ End(bodies'[i]) <= Len(stackStatements)
               /\ \A k \in 1..Len(bodies'[i].visited) :
                    stackStatements[bodies'[i].base + k] = bodies'[i].visited[k]
    <3>1. CASE i = depth + 1
      BY <2>1, <2>2, <2>3, <3>1
    <3>2. CASE i \in 1..depth
      BY <2>1, <2>3, <3>2 DEF LaidOut
    <3> QED
      BY <2>1, <3>1, <3>2
  <2>5. ASSUME NEW i \in 1..(depth + 1), NEW j \in 1..(depth + 1), i < j
        PROVE  /\ End(bodies'[i]) <= bodies'[j].base
               /\ j = i + 1 => End(bodies'[i]) = bodies'[j].base
    <3>1. i \in 1..depth /\ bodies'[i] = bodies[i]
      BY <2>1, <2>3, <2>5
    <3>2. CASE j = depth + 1
      BY <2>1, <2>2, <2>3, <3>1, <3>2 DEF LaidOut
    <3>3. CASE j \in 1..depth
      BY <2>1, <2>3, <2>5, <3>1, <3>3 DEF LaidOut
    <3> QED
      BY <2>1, <3>2, <3>3
  <2>6. \A i, j \in 1..(depth + 1) : j = i + 1 => i < j
    BY <2>1
  <2>7. LaidOut(stackStatements, bodies')
    BY <2>1, <2>3, <2>4, <2>5, <2>6 DEF LaidOut
  <2> QED
    BY <2>1, <2>3, <2>7 DEF StmtInv, StmtsOK
<1>2. CASE EndBlock
  <2> DEFINE left == BlockLeaves(Body.base)
             rest == SubSeq(bodies, 1, depth - 1)
  <2>1. /\ StmtsOK(stackStatements, bodies) /\ LaidOut(stackStatements, bodies)
        /\ Len(bodies) = depth /\ depth \in Nat /\ depth > 1 /\ depth' = depth - 1
        /\ visited \in 0..MaxStatements
        /\ Push(left, rest)
    BY <1>2 DEF EndBlock, StmtInv
  <2>2. StmtsOK(left, rest) /\ LaidOut(left, rest) /\ Len(rest) = depth - 1
    BY <2>1, PopLaidOut DEF BlockLeaves, TakesFrom, Body
  <2> HIDE DEF left, rest
  <2>3. Len(rest) > 0
    BY <2>1, <2>2
  <2> QED
    BY <2>1, <2>2, <2>3, PushStmtInv DEF StmtInv
<1> QED
  BY <1>1, <1>2

LEMMA NextStmtInv == ASSUME StmtInv, [Next]_vars PROVE StmtInv'
<1>1. ASSUME depth > 0, depth' = depth, Push(stackStatements, bodies) PROVE StmtInv'
  BY <1>1, PushStmtInv DEF StmtInv
<1>2. ASSUME \/ \E params \in Params : BeginFunction(params)
             \/ EndFunction
      PROVE  StmtInv'
  BY <1>2, FunctionStmtInv
<1>3. ASSUME BeginBlock \/ EndBlock PROVE StmtInv'
  BY <1>3, BlockStmtInv
<1>4. ASSUME NEW name \in Names, Use(name) PROVE StmtInv'
  BY <1>1, <1>4, FailStmtInv DEF Use
<1>5. ASSUME NEW name \in Names, NEW given \in {"none", "value", "reference"},
             NEW v \in Values, DeclareVar(name, given, v)
      PROVE  StmtInv'
  BY <1>1, <1>5, FailStmtInv DEF DeclareVar
<1>6. ASSUME NEW name \in Names, NEW v \in Values, Assign(name, v) PROVE StmtInv'
  BY <1>1, <1>6, FailStmtInv DEF Assign
<1>7. ASSUME UNCHANGED vars PROVE StmtInv'
  BY <1>7, SameStmtInv DEF vars
<1> QED
  BY <1>2, <1>3, <1>4, <1>5, <1>6, <1>7 DEF Next

\* The innermost body ends with the stack, so its statements are the rest.
LEMMA TopGetsItsOwn == ASSUME StmtInv PROVE BodyGetsItsOwn
<1> SUFFICES ASSUME depth > 0
             PROVE  Body.visited = SubSeq(stackStatements, Body.base + 1, Len(stackStatements))
  <2>1. depth = 1 => TakesOneMore(Body.base) = Body.base
    BY DEF StmtInv, LaidOut, Body, TakesOneMore
  <2> QED
    BY <2>1 DEF BodyGetsItsOwn, FunctionStatements, BlockStatements, TakesFrom
<1> DEFINE own == SubSeq(stackStatements, Body.base + 1, Len(stackStatements))
           base == Body.base
           n == Len(Body.visited)
<1>1. /\ stackStatements \in Seq(Statements) /\ Len(stackStatements) \in Nat
      /\ depth \in 1..Len(bodies) /\ depth = Len(bodies) /\ bodies \in Seq(Bodies)
      /\ LaidOut(stackStatements, bodies)
  BY DEF StmtInv, StmtsOK
<1>2. /\ base \in Nat /\ n \in Nat /\ Body.visited \in Seq(Statements)
      /\ End(Body) = base + n
  BY <1>1, BodyTypes DEF Body
<1>3. /\ base + n = Len(stackStatements)
      /\ \A k \in 1..n : stackStatements[base + k] = Body.visited[k]
  BY <1>1, <1>2 DEF LaidOut, Body
<1>4. own \in Seq(Statements) /\ Len(own) = n
      /\ \A k \in 1..n : own[k] = stackStatements[base + k]
  <2> HIDE DEF base, n
  <2>1. \A k \in (base + 1)..Len(stackStatements) : stackStatements[k] \in Statements
    BY <1>1, <1>2
  <2>2. SubSeq(stackStatements, base + 1, Len(stackStatements)) \in Seq(Statements)
        /\ Len(SubSeq(stackStatements, base + 1, Len(stackStatements))) = n
        /\ \A k \in 1..n : SubSeq(stackStatements, base + 1, Len(stackStatements))[k]
                           = stackStatements[base + k]
    BY <1>1, <1>2, <1>3, <2>1, SubSeqProperties
  <2> QED
    BY <2>2 DEF base
<1> QED
  BY <1>2, <1>3, <1>4, SeqEqual

-----------------------------------------------------------------------------
(* Theorems. *)

\* The statements keep their invariant.
THEOREM StatementInvariant == Spec => []StmtInv
<1> QED
  BY InitStmtInv, NextStmtInv, PTL DEF Spec

\* Each body takes exactly its own statements from the common stack
\* (visit(STStmtListScoped), visit(STDeclFunction)).
THEOREM BodiesAreComplete == Spec => []BodyGetsItsOwn
<1> QED
  BY StatementInvariant, TopGetsItsOwn, PTL

\* The variables keep their invariant.
THEOREM VariableInvariant == Spec => []VarInv
<1> QED
  BY InitVarInv, NextVarInv, PTL DEF Spec

\* No name is visible twice (DeclScope::getDecl).
THEOREM NamesUnique == Spec => []NamesAreUnique
<1>1. VarInv => NamesAreUnique
  BY DEF VarInv
<1> QED
  BY <1>1, VariableInvariant, PTL

\* The check of visit(STStmtAssign) is enough for what it looks at: no
\* reference outlives its variable.
THEOREM ReferencesAreOutlived == Spec => []RefsAreOutlived
<1>1. VarInv => RefsAreOutlived
  BY DEF VarInv
<1> QED
  BY <1>1, VariableInvariant, PTL

\* What that check refuses is a variable that ends before the reference.
THEOREM RefusedForAReason == Spec => []RefusedWouldDangle
<1>1. VarInv => RefusedWouldDangle
  BY DEF VarInv
<1> QED
  BY <1>1, VariableInvariant, PTL

\* The types of the model are an invariant; variables belong to open scopes.
THEOREM TypeCorrect == Spec => []TypeOK
<1>1. VarInv /\ StmtInv => TypeOK
  BY DEF VarInv, VarsOK, StmtInv, StmtsOK, Statements, Bodies, TypeOK
<1> QED
  BY <1>1, VariableInvariant, StatementInvariant, PTL
=============================================================================
