---------------------------- MODULE TypeCheckProofs ----------------------------
(***************************************************************************)
(* The type pass is sound, for any types, aliases, members, results and    *)
(* variables: in a program without errors nothing that is immutable is     *)
(* written, and references refer to what their types say, except past the  *)
(* conversions that are not checked (Lax).                                 *)
(*                                                                         *)
(* The invariant relates what the pass knows of an expression or variable, *)
(* its qualified type, to the storage it lies in and refers to.  It holds  *)
(* for what cannot be split up and is kept by each way to build an         *)
(* expression of others.                                                   *)
(***************************************************************************)
EXTENDS TypeCheck, TLAPS

-----------------------------------------------------------------------------
(* The invariant. *)

\* Seen as a type, storage of another one: if one is a struct both are.
Fits(type, cell) ==
  Resolve(type) \in Structs \/ Resolve(cell.type) \in Structs => Resolve(type) = Resolve(cell.type)

\* Written only past a conversion that is not checked, if it is immutable.
Excused(spot) == spot.cell.frozen => spot.lax # {}

\* Not in a temporary, but past such a conversion.
Lasts(spot) == spot.cell.place = "temporary" => "temporary" \in spot.lax

\* A local struct with a reference is a variable that is no reference itself.
HolderIsVariable(cell) ==
  cell.place = "local" /\ IsHolder(cell.type) =>
    ~vars[cell.var].qt.reference /\ vars[cell.var].qt.type = cell.type

\* What a reference of a type refers to.
RefersWell(qt, to) ==
  Fits(qt.type, to.cell) /\ (qt.mutable => Excused(to)) /\ Lasts(to) /\ HolderIsVariable(to.cell)

\* What a value of a type refers to: something that may be written, as
\* members are declared to be mutable, or nothing.
HoldsWell(type, to) ==
  IF IsHolder(type) THEN Fits(Member[Resolve(type)], to.cell) /\ Excused(to) /\ Lasts(to)
  ELSE to = Nowhere

Sound(qt, to) == IF qt.reference THEN RefersWell(qt, to) ELSE HoldsWell(qt.type, to)

\* The variable whose reference an expression is: it is a reference of that
\* type, or a struct with such a member.
IsReferenceOf(qt, v) ==
  \/ v.qt.reference /\ v.qt.type = qt.type /\ v.qt.mutable = qt.mutable
  \/ ~v.qt.reference /\ IsHolder(v.qt.type) /\ Resolve(qt.type) = Member[Resolve(v.qt.type)]

\* Where an expression lies.
LiesWell(e) ==
  /\ ~e.qt.lvalue => e.at.cell.place # "local"
  /\ e.qt.lvalue /\ e.qt.mutable => Excused(e.at)
  /\ e.qt.lvalue /\ ~e.qt.reference =>
       Fits(e.qt.type, e.at.cell) /\ Lasts(e.at) /\ HolderIsVariable(e.at.cell)
  /\ e.qt.reference /\ e.at.cell.place = "local" => IsReferenceOf(e.qt, vars[e.at.cell.var])

\* Local storage is that of a variable.
Placed(spot) == spot \in Spots /\ (spot.cell.place = "local" => spot.cell.var \in 1..Len(vars))

Typed(e) == e \in Expressions /\ Placed(e.at) /\ Placed(e.to)
Good(e) == ~e.error /\ e.stop = "no" => Sound(e.qt, e.to) /\ LiesWell(e)

VariablesPlaced == \A i \in 1..Len(vars) : Placed(vars[i].to)
VariablesSound == ~rejected => \A i \in 1..Len(vars) : Sound(vars[i].qt, vars[i].to)

IInv == TypeOK /\ VariablesPlaced /\ VariablesSound /\ FrozenIsKept


\* What the lemmas assume of the variables.
Declared ==
  /\ vars \in Seq(Variables) /\ Len(vars) <= MaxVars
  /\ \A i \in 1..Len(vars) : vars[i].qt.lvalue
  /\ VariablesPlaced
AllSound == \A i \in 1..Len(vars) : Sound(vars[i].qt, vars[i].to)

-----------------------------------------------------------------------------
(* Types. *)

LEMMA Resolved ==
  /\ \A t \in Builtins \cup NoTypes : Resolve(t) = t /\ t \notin Structs
  /\ \A t \in Structs : Resolve(t) = t
  /\ \A t \in Types \cup NoTypes : Resolve(t) \in Builtins \cup Structs \cup NoTypes
BY TypeSystemAssumption DEF Resolve, Types, Aliases, Structs

\* The member of a plain struct is a value, that of a holder a plain struct.
LEMMA Members ==
  ASSUME NEW type
  PROVE  /\ Resolve(type) \in Plains =>
              Member[Resolve(type)] \in Types /\ ~IsHolder(Member[Resolve(type)])
         /\ IsHolder(type) =>
              /\ Member[Resolve(type)] \in Types /\ ~IsHolder(Member[Resolve(type)])
              /\ Resolve(Member[Resolve(type)]) = Member[Resolve(type)]
              /\ Member[Resolve(type)] \in Structs
<1>1. Resolve(type) \in Plains => Member[Resolve(type)] \in Builtins
  BY TypeSystemAssumption
<1>2. IsHolder(type) => Member[Resolve(type)] \in Plains
  BY TypeSystemAssumption DEF IsHolder
<1> QED BY <1>1, <1>2, Resolved, TypeSystemAssumption DEF IsHolder, Structs, Types

\* A conversion or a cast does not make a struct of anything else.
SameStruct(type, other) ==
  Resolve(type) \in Structs \/ Resolve(other) \in Structs => Resolve(type) = Resolve(other)

LEMMA ConversionsKeepStructs ==
  ASSUME NEW from \in Types, NEW to \in Types,
         IsCastableToAuto(from, to) \/ IsCastableToRequest(from, to)
  PROVE  SameStruct(from, to)
<1>1. CASE from = to
  BY <1>1 DEF SameStruct
<1>2. CASE from \in Builtins /\ Resolve(to) \in Builtins
  BY <1>2, Resolved DEF SameStruct
<1>3. CASE from \in Weak \cup Strong /\ AliasOf[from] = Resolve(to)
  BY <1>3 DEF SameStruct, Resolve, Aliases
<1>4. CASE from \in Weak /\ AliasOf[from] \in Builtins /\ Resolve(to) \in Builtins
  BY <1>4, Resolved DEF SameStruct, Resolve, Aliases
<1> QED
  BY <1>1, <1>2, <1>3, <1>4 DEF IsCastableToAuto, IsCastableToRequest, BuiltinToAuto

LEMMA FitsAfter ==
  ASSUME NEW from, NEW to, NEW cell, Fits(from, cell), SameStruct(from, to)
  PROVE  Fits(to, cell)
BY DEF Fits, SameStruct

LEMMA HoldsAfter ==
  ASSUME NEW from, NEW to, NEW spot, HoldsWell(from, spot), SameStruct(from, to)
  PROVE  HoldsWell(to, spot)
BY DEF HoldsWell, SameStruct, IsHolder, Structs

-----------------------------------------------------------------------------
(* Storage. *)

LEMMA NowhereIsPlaced == Placed(Nowhere)
BY TypeCheckAssumption DEF Placed, Nowhere, Spot, Spots, NoCell, Cell, NoTypes

LEMMA TemporaryIsPlaced ==
  ASSUME NEW type \in Types \cup NoTypes
  PROVE  Placed(Spot(Temporary(type), {}))
BY TypeCheckAssumption DEF Placed, Spot, Spots, Temporary, Cell

LEMMA CallersIsPlaced ==
  ASSUME NEW type \in Types \cup NoTypes, NEW frozen \in BOOLEAN
  PROVE  Placed(Spot(CallersCell(type, frozen), {}))
BY TypeCheckAssumption DEF Placed, Spot, Spots, CallersCell, Cell

LEMMA SpotIsPlaced ==
  ASSUME NEW spot, Placed(spot), NEW lax \in SUBSET Lax
  PROVE  Placed(Spot(spot.cell, spot.lax \cup lax))
BY DEF Placed, Spot, Spots

LEMMA MemberIsPlaced ==
  ASSUME NEW spot, Placed(spot), NEW type \in Types \cup NoTypes
  PROVE  /\ Placed(MemberAt(spot, type))
         /\ MemberAt(spot, type).lax = spot.lax
         /\ MemberAt(spot, type).cell.type = type
         /\ MemberAt(spot, type).cell.place = spot.cell.place
         /\ MemberAt(spot, type).cell.var = spot.cell.var
         /\ MemberAt(spot, type).cell.frozen = spot.cell.frozen
BY DEF Placed, MemberAt, Spots, Cell

\* What a struct holds is as its type says, wherever it lies.
LEMMA HeldIsSound ==
  ASSUME Declared, NEW spot, Placed(spot)
  PROVE  /\ Placed(Held(spot))
         /\ AllSound /\ HolderIsVariable(spot.cell) => HoldsWell(spot.cell.type, Held(spot))
<1>1. spot.cell.type \in Types \cup NoTypes
  BY DEF Placed, Spots, Cell
<1>2. CASE ~IsHolder(spot.cell.type)
  BY <1>2, NowhereIsPlaced DEF Held, HoldsWell
<1>3. CASE IsHolder(spot.cell.type) /\ spot.cell.place = "local"
  <2>1. Held(spot) = vars[spot.cell.var].to /\ spot.cell.var \in 1..Len(vars)
    BY <1>3 DEF Held, Placed
  <2>2. AllSound /\ HolderIsVariable(spot.cell) => HoldsWell(spot.cell.type, Held(spot))
    BY <1>3, <2>1 DEF AllSound, Sound, HolderIsVariable
  <2> QED BY <2>1, <2>2 DEF Declared, VariablesPlaced
<1>4. CASE IsHolder(spot.cell.type) /\ spot.cell.place # "local"
  <2> DEFINE member == Member[Resolve(spot.cell.type)]
  <2>1. Held(spot) = Spot(CallersCell(member, FALSE), {}) /\ member \in Types
    BY <1>4, Members DEF Held
  <2>2. Placed(Held(spot))
    BY <2>1, CallersIsPlaced
  <2>3. HoldsWell(spot.cell.type, Held(spot))
    BY <1>4, <2>1 DEF HoldsWell, Fits, Excused, Lasts, Spot, CallersCell
  <2> QED BY <2>2, <2>3
<1> QED BY <1>2, <1>3, <1>4

LEMMA OutsideIsSound ==
  ASSUME NEW qt \in QualTypes
  PROVE  Placed(FromOutside(qt)) /\ Sound(qt, FromOutside(qt))
<1>1. qt.type \in Types \cup NoTypes /\ qt.mutable \in BOOLEAN /\ qt.reference \in BOOLEAN
  BY DEF QualTypes
<1>2. CASE qt.type \in NoTypes
  <2>1. ~IsHolder(qt.type) /\ Resolve(qt.type) \notin Structs
    BY <1>2, Resolved DEF IsHolder, Structs
  <2>2. Resolve("void") \notin Structs
    BY Resolved DEF NoTypes
  <2> QED
    BY <1>2, <2>1, <2>2, NowhereIsPlaced
    DEF FromOutside, Sound, RefersWell, HoldsWell, Fits, Excused, Lasts, HolderIsVariable,
        Nowhere, Spot, NoCell
<1>3. CASE qt.type \notin NoTypes /\ qt.reference
  BY <1>1, <1>3, CallersIsPlaced
  DEF FromOutside, Sound, RefersWell, Fits, Excused, Lasts, HolderIsVariable, Spot, CallersCell
<1>4. CASE qt.type \notin NoTypes /\ ~qt.reference
  <2> DEFINE spot == Spot(CallersCell(qt.type, ~qt.mutable), {})
  <2>1. FromOutside(qt) = Held(spot)
    BY <1>1, <1>4 DEF FromOutside
  <2>2. CASE ~IsHolder(qt.type)
    BY <1>4, <2>1, <2>2, NowhereIsPlaced DEF Held, Sound, HoldsWell, Spot, CallersCell
  <2>3. CASE IsHolder(qt.type)
    <3>1. Held(spot) = Spot(CallersCell(Member[Resolve(qt.type)], FALSE), {})
      BY <2>3 DEF Held, Spot, CallersCell
    <3>2. HoldsWell(qt.type, Held(spot))
      BY <2>3, <3>1 DEF HoldsWell, Fits, Excused, Lasts, Spot, CallersCell
    <3>3. Placed(Held(spot))
      BY <2>3, <3>1, Members, CallersIsPlaced
    <3> QED BY <1>4, <2>1, <3>2, <3>3 DEF Sound
  <2> QED BY <2>2, <2>3
<1> QED BY <1>1, <1>2, <1>3, <1>4

-----------------------------------------------------------------------------
(* Expressions. *)

\* What is shown of every expression: its parts are of their kinds and, if the
\* variables are as their types say, so is the expression.
Right(e) == Typed(e) /\ (AllSound => Good(e))

LEMMA ConvertedIsPlaced ==
  ASSUME NEW e, Typed(e), NEW qt
  PROVE  Placed(Converted(e, qt))
<1>1. Placed(Spot(e.to.cell, e.to.lax \cup {"copiable"}))
  BY SpotIsPlaced DEF Typed, Lax
<1> QED BY <1>1 DEF Converted, Typed

LEMMA ConvertedIsSound ==
  ASSUME NEW e, NEW qt, Sound(e.qt, e.to),
         SameStruct(e.qt.type, qt.type), e.qt.reference = qt.reference
  PROVE  Sound(qt, Converted(e, qt))
<1>1. CASE qt.reference
  <2>1. /\ Fits(e.qt.type, e.to.cell) /\ (e.qt.mutable => Excused(e.to))
        /\ Lasts(e.to) /\ HolderIsVariable(e.to.cell)
    BY <1>1 DEF Sound, RefersWell
  <2>2. Converted(e, qt).cell = e.to.cell /\ e.to.lax \subseteq Converted(e, qt).lax
    BY DEF Converted, Spot
  <2>3. Fits(qt.type, Converted(e, qt).cell)
    BY <2>1, <2>2, FitsAfter
  <2>4. qt.mutable => Excused(Converted(e, qt))
    <3>1. qt.mutable /\ ~e.qt.mutable => Converted(e, qt).lax # {}
      BY <1>1 DEF Converted, Spot
    <3>2. qt.mutable /\ e.qt.mutable => Converted(e, qt) = e.to
      BY DEF Converted
    <3> QED BY <2>1, <3>1, <3>2 DEF Excused
  <2>5. Lasts(Converted(e, qt)) /\ HolderIsVariable(Converted(e, qt).cell)
    BY <2>1, <2>2 DEF Lasts, HolderIsVariable
  <2> QED BY <1>1, <2>3, <2>4, <2>5 DEF Sound, RefersWell
<1>2. CASE ~qt.reference
  <2>1. Converted(e, qt) = e.to /\ HoldsWell(e.qt.type, e.to)
    BY <1>2 DEF Converted, Sound
  <2> QED BY <1>2, <2>1, HoldsAfter DEF Sound
<1> QED BY <1>1, <1>2

\* A conversion that is reported neither as an error nor as a stop is sound.
LEMMA ConversionIsSound ==
  ASSUME NEW e, Typed(e), NEW qt \in QualTypes, Good(e), ~e.error,
         ConversionStop(e, qt) = "no", ~ConversionError(e, qt)
  PROVE  Sound(qt, Converted(e, qt))
<1>1. e.stop = "no" /\ StopOn(e.qt.type) = "no" /\ StopOn(qt.type) = "no"
  BY DEF ConversionStop
<1>2. Converts(e.qt, qt) /\ Sound(e.qt, e.to)
  BY <1>1 DEF ConversionError, Good
<1>3. e.qt.type \in Types /\ qt.type \in Types
  BY <1>1 DEF StopOn, Typed, Expressions, QualTypes, NoTypes
<1>4. SameStruct(e.qt.type, qt.type) /\ e.qt.reference = qt.reference
  BY <1>2, <1>3, ConversionsKeepStructs DEF Converts
<1> QED BY <1>2, <1>4, ConvertedIsSound

LEMMA StopKinds ==
  ASSUME NEW e, Typed(e), NEW qt
  PROVE  StopOn(qt.type) \in Stops /\ ConversionStop(e, qt) \in Stops
BY DEF StopOn, ConversionStop, Typed, Expressions, Stops

\* A value lies nowhere that lasts: only what it refers to is of interest.
LEMMA ValueIsRight ==
  ASSUME NEW qt \in QualTypes, NEW to, Placed(to), NEW error \in BOOLEAN, NEW on \in Stops,
         qt.lvalue => qt.reference,
         AllSound /\ ~error /\ on = "no" => Sound(qt, to)
  PROVE  Right(Value(qt, to, error, on))
<1> DEFINE v == Value(qt, to, error, on)
<1>1. v = [qt |-> qt, at |-> Spot(Temporary(qt.type), {}), to |-> to, error |-> error, stop |-> on]
  BY DEF Value, Expr
<1> HIDE DEF v
<1>2. Placed(Spot(Temporary(qt.type), {}))
  BY TemporaryIsPlaced DEF QualTypes
<1>3. Typed(v)
  BY <1>1, <1>2 DEF Typed, Expressions, Placed
<1>4. LiesWell(v)
  <2>1. ~v.at.cell.frozen /\ v.at.cell.place = "temporary" /\ v.qt = qt
    BY <1>1 DEF Spot, Temporary
  <2> QED BY <2>1 DEF LiesWell, Excused
<1>5. AllSound => Good(v)
  BY <1>1, <1>4 DEF Good
<1> QED BY <1>3, <1>5 DEF Right, v

LEMMA VarRefIsRight ==
  ASSUME Declared, NEW i \in 1..Len(vars)
  PROVE  Right(ExprVarRef(i))
<1> DEFINE e == ExprVarRef(i)
<1>1. e = [qt |-> vars[i].qt, at |-> Spot(LocalCell(i), {}), to |-> vars[i].to,
           error |-> FALSE, stop |-> "no"]
  BY DEF ExprVarRef, Expr
<1>2. vars[i].qt \in QualTypes /\ vars[i].to \in Spots /\ Placed(vars[i].to) /\ vars[i].qt.lvalue
  <2>1. vars[i] \in Variables
    BY DEF Declared
  <2> QED BY <2>1 DEF Declared, VariablesPlaced, Variables
<1>3. /\ LocalCell(i).place = "local" /\ LocalCell(i).var = i
      /\ LocalCell(i).type = vars[i].qt.type /\ LocalCell(i).frozen = ~vars[i].qt.mutable
  BY DEF LocalCell
<1>4. Placed(Spot(LocalCell(i), {}))
  BY <1>2, TypeCheckAssumption DEF Placed, Spot, Spots, LocalCell, Cell, QualTypes, Declared
<1>5. Typed(e)
  BY <1>1, <1>2, <1>4 DEF Typed, Expressions, Stops, Placed
<1>6. LiesWell(e)
  <2>1. e.qt = vars[i].qt /\ e.at.cell = LocalCell(i)
    BY <1>1 DEF Spot
  <2>2. e.qt.mutable => Excused(e.at)
    BY <1>3, <2>1 DEF Excused
  <2>3. Fits(e.qt.type, e.at.cell) /\ Lasts(e.at)
    BY <1>3, <2>1 DEF Fits, Lasts
  <2>4. ~e.qt.reference => HolderIsVariable(e.at.cell)
    BY <1>3, <2>1 DEF HolderIsVariable
  <2>5. e.qt.reference => IsReferenceOf(e.qt, vars[e.at.cell.var])
    BY <1>3, <2>1 DEF IsReferenceOf
  <2> HIDE DEF e
  <2> QED BY <1>2, <2>1, <2>2, <2>3, <2>4, <2>5 DEF LiesWell
<1>7. AllSound => Good(e)
  BY <1>1, <1>6 DEF AllSound, Good
<1> QED BY <1>5, <1>7 DEF Right

LEMMA FreshIsRight ==
  ASSUME NEW type \in Types \cup NoTypes, NEW error \in BOOLEAN, NEW on \in Stops,
         ~error => ~IsHolder(type)
  PROVE  Right(Value(Fresh(type), Nowhere, error, on))
<1>1. Fresh(type) \in QualTypes /\ Fresh(type).type = type
      /\ ~Fresh(type).lvalue /\ ~Fresh(type).reference
  BY DEF Fresh, QT, QualTypes
<1>2. ~error => Sound(Fresh(type), Nowhere)
  BY <1>1 DEF Sound, HoldsWell
<1> QED BY <1>1, <1>2, NowhereIsPlaced, ValueIsRight

LEMMA LiteralIsRight ==
  ASSUME NEW type \in Types, ~IsHolder(type)
  PROVE  Right(Literal(type))
BY FreshIsRight DEF Literal, Stops

LEMMA FnCallIsRight ==
  ASSUME NEW qt \in QualTypes
  PROVE  Right(ExprFnCall(qt))
<1> DEFINE rt == QT(qt.type, qt.mutable, qt.reference, FALSE)
<1>1. rt \in QualTypes /\ ~rt.lvalue /\ rt.type = qt.type
      /\ rt.reference = qt.reference /\ rt.mutable = qt.mutable
  BY DEF QualTypes, QT
<1> HIDE DEF rt
<1>2. Placed(FromOutside(qt)) /\ Sound(qt, FromOutside(qt))
  BY OutsideIsSound
<1>3. Sound(rt, FromOutside(qt))
  BY <1>1, <1>2 DEF Sound, RefersWell
<1>4. Right(Value(rt, FromOutside(qt), FALSE, "no"))
  BY <1>1, <1>2, <1>3, ValueIsRight DEF Stops
<1> QED BY <1>4 DEF ExprFnCall, rt

\* Where the struct of an expression lies: it may be written if the expression
\* is mutable, and if it is a variable it has the type of the expression.
LEMMA StorageIsSound ==
  ASSUME NEW e, Typed(e)
  PROVE  /\ Placed(Storage(e))
         /\ ~e.error /\ e.stop = "no" /\ Good(e) =>
              /\ e.qt.mutable => Excused(Storage(e))
              /\ Lasts(Storage(e))
              /\ Storage(e).cell.place = "local" =>
                   Fits(e.qt.type, Storage(e).cell) /\ HolderIsVariable(Storage(e).cell)
<1>1. CASE e.qt.reference
  BY <1>1 DEF Storage, Typed, Good, Sound, RefersWell
<1>2. CASE ~e.qt.reference /\ e.qt.lvalue
  BY <1>2 DEF Storage, Typed, Good, LiesWell
<1>3. CASE ~e.qt.reference /\ ~e.qt.lvalue
  <2>1. Storage(e) = Spot(e.at.cell, e.at.lax \cup {"temporary"})
    BY <1>3 DEF Storage
  <2>2. Placed(Storage(e))
    BY <2>1, SpotIsPlaced DEF Typed, Lax
  <2>3. Storage(e).cell = e.at.cell /\ "temporary" \in Storage(e).lax
    BY <2>1 DEF Spot
  <2>4. Excused(Storage(e)) /\ Lasts(Storage(e))
    BY <2>3 DEF Excused, Lasts
  <2>5. ~e.error /\ e.stop = "no" /\ Good(e) => Storage(e).cell.place # "local"
    BY <1>3, <2>3 DEF Good, LiesWell
  <2> QED BY <2>2, <2>4, <2>5
<1> QED BY <1>1, <1>2, <1>3

LEMMA ReferenceIsRight ==
  ASSUME NEW e, Right(e), e.stop = "no"
  PROVE  Right(Reference(e))
<1> DEFINE ref == Reference(e)
<1>1. /\ ref.qt = QT(e.qt.type, e.qt.mutable, TRUE, TRUE)
      /\ ref.at = Spot(Temporary(e.qt.type), {})
      /\ ref.to = IF e.qt.reference THEN e.to ELSE e.at
      /\ ref.error = (e.error \/ ReferenceError(e)) /\ ref.stop = "no"
  BY DEF Reference, Expr
<1>2. /\ ref.qt.type = e.qt.type /\ ref.qt.mutable = e.qt.mutable
      /\ ref.qt.reference /\ ref.qt.lvalue /\ ref.qt \in QualTypes
  BY <1>1 DEF QT, QualTypes, Right, Typed, Expressions
<1>3. Placed(ref.at) /\ Placed(ref.to)
  BY <1>1, TemporaryIsPlaced DEF Right, Typed, Expressions, QualTypes
<1>4. Typed(ref)
  <2>1. ref.at \in Spots /\ ref.to \in Spots /\ ref.error \in BOOLEAN
    BY <1>1, <1>3 DEF Placed, Right, Typed, Expressions, ReferenceError, QualTypes
  <2>2. ref \in Expressions
    BY <1>2, <2>1, <1>1 DEF Expressions, Stops, Reference, Expr
  <2> QED BY <1>3, <2>2 DEF Typed
<1>5. ASSUME AllSound, ~ref.error PROVE Sound(ref.qt, ref.to) /\ LiesWell(ref)
  <2>1. ~e.error /\ ~e.qt.reference /\ e.qt.lvalue
    BY <1>1, <1>5 DEF ReferenceError
  <2>2. LiesWell(e)
    BY <1>5, <2>1 DEF Right, Good
  <2>3. /\ e.qt.mutable => Excused(e.at)
        /\ Fits(e.qt.type, e.at.cell) /\ Lasts(e.at) /\ HolderIsVariable(e.at.cell)
    BY <2>1, <2>2 DEF LiesWell
  <2>4. ref.to = e.at
    BY <1>1, <2>1
  <2>5. ref.at.cell.place = "temporary" /\ ~ref.at.cell.frozen
    BY <1>1 DEF Spot, Temporary
  <2> HIDE DEF ref
  <2>6. Sound(ref.qt, ref.to)
    BY <1>2, <2>3, <2>4 DEF Sound, RefersWell
  <2>7. LiesWell(ref)
    BY <1>2, <2>5 DEF LiesWell, Excused
  <2> QED BY <2>6, <2>7
<1> QED BY <1>4, <1>5 DEF Right, Good

LEMMA DereferenceIsRight ==
  ASSUME Declared, NEW e, Right(e), e.stop = "no"
  PROVE  Right(Dereference(e))
<1> DEFINE val == Dereference(e)
<1>1. /\ val.qt = QT(e.qt.type, e.qt.mutable, FALSE, TRUE)
      /\ val.at = e.to /\ val.to = Held(e.to)
      /\ val.error = (e.error \/ ~e.qt.reference) /\ val.stop = "no"
  BY DEF Dereference, Expr
<1>2. /\ val.qt.type = e.qt.type /\ val.qt.mutable = e.qt.mutable
      /\ ~val.qt.reference /\ val.qt.lvalue /\ val.qt \in QualTypes
  BY <1>1 DEF QT, QualTypes, Right, Typed, Expressions
<1>3. Placed(val.at) /\ Placed(val.to)
  BY <1>1, HeldIsSound DEF Right, Typed
<1>4. Typed(val)
  <2>1. val.at \in Spots /\ val.to \in Spots /\ val.error \in BOOLEAN
    BY <1>1, <1>3 DEF Placed, Right, Typed, Expressions, QualTypes
  <2>2. val \in Expressions
    BY <1>2, <2>1, <1>1 DEF Expressions, Stops, Dereference, Expr
  <2> QED BY <1>3, <2>2 DEF Typed
<1>5. ASSUME AllSound, ~val.error PROVE Sound(val.qt, val.to) /\ LiesWell(val)
  <2>1. ~e.error /\ e.qt.reference
    BY <1>1, <1>5
  <2>2. RefersWell(e.qt, e.to)
    BY <1>5, <2>1 DEF Right, Good, Sound
  <2>3. /\ Fits(e.qt.type, e.to.cell) /\ (e.qt.mutable => Excused(e.to))
        /\ Lasts(e.to) /\ HolderIsVariable(e.to.cell)
    BY <2>2 DEF RefersWell
  <2>4. HoldsWell(e.to.cell.type, Held(e.to))
    BY <1>5, <2>3, HeldIsSound DEF Right, Typed
  <2>5. HoldsWell(e.qt.type, Held(e.to))
    <3>1. SameStruct(e.to.cell.type, e.qt.type)
      BY <2>3 DEF Fits, SameStruct
    <3> QED BY <2>4, <3>1, HoldsAfter
  <2> HIDE DEF val
  <2>6. Sound(val.qt, val.to)
    BY <1>1, <1>2, <2>5 DEF Sound
  <2>7. LiesWell(val)
    BY <1>1, <1>2, <2>3 DEF LiesWell
  <2> QED BY <2>6, <2>7
<1> QED BY <1>4, <1>5 DEF Right, Good

\* What is erroneous or stops the pass is right if its parts are of their kinds.
LEMMA ErroneousIsRight ==
  ASSUME NEW e, Typed(e), e.error \/ e.stop # "no"
  PROVE  Right(e)
BY DEF Right, Good

LEMMA ValueMemberIsRight ==
  ASSUME NEW e, Right(e), e.stop = "no", Resolve(e.qt.type) \in Plains
  PROVE  Right(ValueMember(e))
<1> DEFINE type == Member[Resolve(e.qt.type)]
           m == ValueMember(e)
<1>1. type \in Types /\ ~IsHolder(type)
  BY Members
<1> HIDE DEF type
<1>2. Typed(e)
  BY DEF Right
<1>3. e \in Expressions
  BY <1>2 DEF Typed
<1>4. m = [qt |-> QT(type, e.qt.mutable, FALSE, TRUE), at |-> MemberAt(Storage(e), type),
           to |-> Nowhere, error |-> e.error, stop |-> e.stop]
  BY DEF ValueMember, Expr, type
<1> HIDE DEF m
<1>5. /\ m.qt.type = type /\ m.qt.mutable = e.qt.mutable
      /\ ~m.qt.reference /\ m.qt.lvalue /\ m.qt \in QualTypes
  BY <1>1, <1>3, <1>4 DEF QT, QualTypes, Expressions
<1>6. /\ Placed(m.at) /\ m.at.lax = Storage(e).lax /\ m.at.cell.type = type
      /\ m.at.cell.place = Storage(e).cell.place /\ m.at.cell.frozen = Storage(e).cell.frozen
  BY <1>1, <1>2, <1>4, StorageIsSound, MemberIsPlaced
<1>7. Typed(m)
  BY <1>3, <1>4, <1>5, <1>6, NowhereIsPlaced DEF Typed, Expressions, Placed
<1>8. ASSUME AllSound, ~m.error PROVE Sound(m.qt, m.to) /\ LiesWell(m)
  <2>1. (e.qt.mutable => Excused(Storage(e))) /\ Lasts(Storage(e))
    BY <1>2, <1>4, <1>8, StorageIsSound DEF Right
  <2>2. (m.qt.mutable => Excused(m.at)) /\ Lasts(m.at)
    BY <1>5, <1>6, <2>1 DEF Excused, Lasts
  <2>3. Fits(m.qt.type, m.at.cell) /\ HolderIsVariable(m.at.cell)
    BY <1>1, <1>5, <1>6 DEF Fits, HolderIsVariable
  <2>4. Sound(m.qt, m.to)
    BY <1>1, <1>4, <1>5 DEF Sound, HoldsWell
  <2> QED BY <1>5, <2>2, <2>3, <2>4 DEF LiesWell
<1> QED BY <1>7, <1>8 DEF Right, Good, m

LEMMA ReferenceMemberIsRight ==
  ASSUME Declared, NEW e, Right(e), e.stop = "no", IsHolder(e.qt.type)
  PROVE  Right(ReferenceMember(e))
<1> DEFINE type == Member[Resolve(e.qt.type)]
           held == IF e.qt.reference THEN Held(e.to) ELSE e.to
           m == ReferenceMember(e)
<1>1. type \in Types /\ ~IsHolder(type) /\ Resolve(type) = type /\ type \in Structs
  BY Members
<1>2. Typed(e) /\ e \in Expressions
  BY DEF Right, Typed
<1>3. Placed(held)
  BY <1>2, HeldIsSound DEF Typed
<1>4. ASSUME AllSound, ~e.error PROVE HoldsWell(e.qt.type, held)
  <2>1. Sound(e.qt, e.to)
    BY <1>4 DEF Right, Good
  <2>2. CASE e.qt.reference
    <3>1. Fits(e.qt.type, e.to.cell) /\ HolderIsVariable(e.to.cell)
      BY <2>1, <2>2 DEF Sound, RefersWell
    <3>2. HoldsWell(e.to.cell.type, Held(e.to))
      BY <1>2, <1>4, <3>1, HeldIsSound DEF Typed
    <3>3. SameStruct(e.to.cell.type, e.qt.type)
      BY <3>1 DEF Fits, SameStruct
    <3> QED BY <2>2, <3>2, <3>3, HoldsAfter
  <2>3. CASE ~e.qt.reference
    BY <2>1, <2>3 DEF Sound
  <2> QED BY <2>2, <2>3
<1>5. m = [qt |-> QT(type, e.qt.mutable, TRUE, TRUE), at |-> MemberAt(Storage(e), type),
           to |-> held, error |-> e.error, stop |-> e.stop]
  BY DEF ReferenceMember, Expr
<1> HIDE DEF m, held
<1>6. /\ m.qt.type = type /\ m.qt.mutable = e.qt.mutable
      /\ m.qt.reference /\ m.qt.lvalue /\ m.qt \in QualTypes
  BY <1>1, <1>2, <1>5 DEF QT, QualTypes, Expressions
<1>7. /\ Placed(m.at) /\ m.at.lax = Storage(e).lax /\ m.at.cell.var = Storage(e).cell.var
      /\ m.at.cell.place = Storage(e).cell.place /\ m.at.cell.frozen = Storage(e).cell.frozen
  BY <1>1, <1>2, <1>5, StorageIsSound, MemberIsPlaced
<1>8. Typed(m)
  BY <1>2, <1>3, <1>5, <1>6, <1>7 DEF Typed, Expressions, Placed
<1>9. ASSUME AllSound, ~m.error PROVE Sound(m.qt, m.to) /\ LiesWell(m)
  <2>1. Good(e) /\ ~e.error
    BY <1>5, <1>9 DEF Right
  <2>2. Fits(type, held.cell) /\ Excused(held) /\ Lasts(held)
    BY <1>4, <1>9, <2>1 DEF HoldsWell
  <2>3. HolderIsVariable(held.cell)
    BY <1>1, <2>2 DEF Fits, HolderIsVariable, IsHolder
  <2>4. Sound(m.qt, m.to)
    BY <1>5, <1>6, <2>2, <2>3 DEF Sound, RefersWell
  <2>5. /\ e.qt.mutable => Excused(Storage(e))
        /\ Storage(e).cell.place = "local" =>
             Fits(e.qt.type, Storage(e).cell) /\ HolderIsVariable(Storage(e).cell)
    BY <1>2, <2>1, StorageIsSound
  <2>6. m.qt.mutable => Excused(m.at)
    BY <1>6, <1>7, <2>5 DEF Excused
  <2>7. ASSUME m.at.cell.place = "local" PROVE IsReferenceOf(m.qt, vars[m.at.cell.var])
    <3> DEFINE cell == Storage(e).cell
    <3>1. cell.place = "local" /\ Fits(e.qt.type, cell) /\ HolderIsVariable(cell)
      BY <1>7, <2>5, <2>7
    <3>2. Resolve(cell.type) = Resolve(e.qt.type) /\ IsHolder(cell.type)
      BY <3>1 DEF Fits, IsHolder, Structs
    <3>3. ~vars[cell.var].qt.reference /\ vars[cell.var].qt.type = cell.type
      BY <3>1, <3>2 DEF HolderIsVariable
    <3> HIDE DEF cell
    <3>4. m.at.cell.var = cell.var
      BY <1>7 DEF cell
    <3> QED BY <1>1, <1>6, <3>2, <3>3, <3>4 DEF IsReferenceOf
  <2> QED BY <1>6, <2>4, <2>6, <2>7 DEF LiesWell
<1> QED BY <1>8, <1>9 DEF Right, Good, m

LEMMA StructVarRefIsRight ==
  ASSUME Declared, NEW e, Right(e), e.stop = "no", NEW name
  PROVE  Right(ExprStructVarRef(e, name))
<1>1. Typed(e) /\ e \in Expressions
  BY DEF Right, Typed
<1>2. CASE e.qt.type \in NoTypes
  <2>1. ExprStructVarRef(e, name) = Expr(e.qt, e.at, e.to, e.error, StopOn(e.qt.type))
    BY <1>2, Resolved DEF ExprStructVarRef, Structs
  <2>2. StopOn(e.qt.type) \in Stops /\ StopOn(e.qt.type) # "no"
    BY <1>2 DEF StopOn, Stops, NoTypes
  <2>3. Typed(Expr(e.qt, e.at, e.to, e.error, StopOn(e.qt.type)))
    BY <1>1, <2>2 DEF Typed, Expressions, Expr
  <2> QED BY <2>1, <2>2, <2>3, ErroneousIsRight DEF Expr
<1>3. CASE e.qt.type \notin NoTypes /\ Resolve(e.qt.type) \notin Structs
  <2>1. ExprStructVarRef(e, name) = NotAStruct(e)
    BY <1>3 DEF ExprStructVarRef, Structs
  <2>2. Typed(NotAStruct(e))
    BY <1>1 DEF NotAStruct, Typed, Expressions, Expr, QT, QualTypes, NoTypes
  <2> QED BY <2>1, <2>2, ErroneousIsRight DEF NotAStruct, Expr
<1>4. CASE e.qt.type \notin NoTypes /\ Resolve(e.qt.type) \in Plains /\ name = "n"
  <2>1. ExprStructVarRef(e, name) = ValueMember(e)
    BY <1>4, TypeSystemAssumption DEF ExprStructVarRef, Structs
  <2> QED BY <1>4, <2>1, ValueMemberIsRight
<1>5. CASE e.qt.type \notin NoTypes /\ Resolve(e.qt.type) \in Holders /\ name = "r"
  <2>1. Resolve(e.qt.type) \in Structs /\ Resolve(e.qt.type) \notin Plains
    BY <1>5, TypeSystemAssumption DEF Structs
  <2>2. ExprStructVarRef(e, name) = ReferenceMember(e)
    BY <1>5, <2>1 DEF ExprStructVarRef
  <2> QED BY <1>5, <2>2, ReferenceMemberIsRight DEF IsHolder
<1>6. CASE /\ e.qt.type \notin NoTypes /\ Resolve(e.qt.type) \in Structs
           /\ ~(Resolve(e.qt.type) \in Plains /\ name = "n")
           /\ ~(Resolve(e.qt.type) \in Holders /\ name = "r")
  <2>1. ExprStructVarRef(e, name) = Expr(e.qt, e.at, e.to, TRUE, "null")
    BY <1>6 DEF ExprStructVarRef
  <2>2. Typed(Expr(e.qt, e.at, e.to, TRUE, "null"))
    BY <1>1 DEF Typed, Expressions, Expr, Stops
  <2> QED BY <2>1, <2>2, ErroneousIsRight DEF Expr
<1> QED BY <1>2, <1>3, <1>4, <1>5, <1>6

LEMMA StructInitIsRight ==
  ASSUME NEW type \in Types, IsHolder(type), NEW e, Right(e), e.stop = "no"
  PROVE  Right(ExprStructInit(type, e))
<1> DEFINE qt == MemberType(type)
           error == e.error \/ ConversionError(e, qt)
           on == ConversionStop(e, qt)
           to == Converted(e, qt)
<1>1. /\ qt \in QualTypes /\ qt.type = Member[Resolve(type)] /\ qt.mutable /\ qt.reference
  <2>1. Member[Resolve(type)] \in Types
    BY Members
  <2> QED BY <2>1 DEF MemberType, QT, QualTypes, IsHolder
<1> HIDE DEF qt
<1>2. Typed(e) /\ error \in BOOLEAN /\ on \in Stops
  BY StopKinds DEF Right, Typed, Expressions, ConversionError
<1>3. Placed(to)
  BY <1>2, ConvertedIsPlaced
<1>4. Fresh(type) \in QualTypes /\ ~Fresh(type).lvalue
      /\ ~Fresh(type).reference /\ Fresh(type).type = type
  BY DEF Fresh, QT, QualTypes
<1>5. ASSUME AllSound, ~error, on = "no" PROVE Sound(Fresh(type), to)
  <2>1. Sound(qt, to)
    BY <1>1, <1>2, <1>5, ConversionIsSound DEF Right
  <2>2. HoldsWell(type, to)
    BY <1>1, <2>1 DEF Sound, RefersWell, HoldsWell
  <2> QED BY <1>4, <2>2 DEF Sound
<1>6. Right(Value(Fresh(type), to, error, on))
  BY <1>2, <1>3, <1>4, <1>5, ValueIsRight
<1> QED BY <1>6 DEF ExprStructInit, qt

LEMMA CastIsRight ==
  ASSUME NEW e, Right(e), e.stop = "no", NEW type \in Types,
         NEW mutable \in BOOLEAN, NEW reference \in BOOLEAN
  PROVE  Right(ExprCast(e, Written(type, mutable, reference)))
<1> DEFINE qt == Written(type, mutable, reference)
           to == IF qt.reference THEN Converted(e, qt) ELSE Nowhere
           error == e.error \/ (e.qt.type \notin NoTypes /\ ~Casts(e.qt, qt))
           on == StopOn(e.qt.type)
<1>1. qt \in QualTypes /\ qt.type = type /\ qt.reference = reference /\ qt.lvalue = reference
  BY DEF Written, QT, QualTypes
<1> HIDE DEF qt
<1>2. Typed(e) /\ error \in BOOLEAN /\ on \in Stops
  BY StopKinds DEF Right, Typed, Expressions
<1>3. Placed(to)
  BY <1>2, ConvertedIsPlaced, NowhereIsPlaced
<1>4. ASSUME AllSound, ~error, on = "no" PROVE Sound(qt, to)
  <2>1. e.qt.type \in Types
    BY <1>2, <1>4 DEF StopOn, NoTypes, Typed, Expressions, QualTypes
  <2>2. e.qt.type \notin NoTypes
    BY <1>4 DEF StopOn, NoTypes
  <2>3. Casts(e.qt, qt) /\ ~e.error
    BY <1>4, <2>2
  <2>4. Sound(e.qt, e.to)
    BY <1>4, <2>3 DEF Right, Good
  <2>5. SameStruct(e.qt.type, qt.type)
    BY <1>1, <2>1, <2>3, ConversionsKeepStructs DEF Casts
  <2>6. CASE qt.reference
    <3>1. e.qt.reference
      BY <2>3, <2>6 DEF Casts
    <3>2. e.qt.reference = qt.reference
      BY <1>1, <1>2, <2>6, <3>1 DEF Typed, Expressions, QualTypes
    <3> QED BY <2>4, <2>5, <2>6, <3>2, ConvertedIsSound
  <2>7. CASE ~qt.reference
    <3>1. qt.type \in Builtins
      BY <2>3, <2>7 DEF Casts, IsTriviallyCopiable
    <3>2. ~IsHolder(qt.type)
      BY <3>1, Resolved DEF IsHolder, Structs
    <3> QED BY <2>7, <3>2 DEF Sound, HoldsWell
  <2> QED BY <2>6, <2>7
<1>5. Right(Value(qt, to, error, on))
  BY <1>1, <1>2, <1>3, <1>4, ValueIsRight
<1> QED BY <1>5 DEF ExprCast, qt

LEMMA BuiltinsHoldNothing ==
  ASSUME NEW type \in Builtins
  PROVE  ~IsHolder(type)
BY Resolved DEF IsHolder, Structs

LEMMA UnaryIsRight ==
  ASSUME NEW op \in {"~", "-", "!"}, NEW e, Right(e), e.stop = "no"
  PROVE  Right(ExprUnaryOperator(op, e))
<1> DEFINE type == e.qt.type
           error == e.error \/ ~OperandFits(op, type)
<1>1. type \in Types \cup NoTypes /\ StopOn(type) \in Stops /\ error \in BOOLEAN
  BY StopKinds DEF Right, Typed, Expressions, QualTypes
<1>2. ASSUME ~error PROVE type \in Builtins
  BY <1>2 DEF OperandFits, IsUnsigned, IsSigned, Builtins
<1>3. Right(Value(Fresh(type), Nowhere, error, StopOn(type)))
  BY <1>1, <1>2, BuiltinsHoldNothing, FreshIsRight
<1> QED BY <1>3 DEF ExprUnaryOperator, Operated

LEMMA BinaryIsRight ==
  ASSUME NEW op \in {"+", "<", "&", "and"}, NEW l, NEW r, Right(l), Right(r)
  PROVE  Right(ExprBinaryOperator(op, l, r))
<1> DEFINE type == ResultOf(op, l.qt.type)
           accepts == /\ OperandsFit(op, l.qt.type, r.qt.type)
                      /\ op \notin Connectives => ~ConversionError(r, l.qt)
           error == l.error \/ r.error \/ ~accepts
           on == ConversionStop(r, l.qt)
<1>1. l.qt.type \in Types \cup NoTypes
  BY DEF Right, Typed, Expressions, QualTypes
<1>2. type \in Types \cup NoTypes
  BY <1>1 DEF ResultOf, Types, Builtins
<1>3. on \in Stops /\ error \in BOOLEAN
  BY StopKinds DEF Right, Typed, Expressions
<1>4. ASSUME ~error PROVE type \in Builtins
  BY <1>4 DEF OperandsFit, IsUnsigned, Builtins, ResultOf
<1> HIDE DEF type, on, accepts
<1>5. Right(Value(Fresh(type), Nowhere, error, on))
  BY <1>2, <1>3, <1>4, BuiltinsHoldNothing, FreshIsRight
<1> QED BY <1>5 DEF ExprBinaryOperator, Operated, type, on, accepts

-----------------------------------------------------------------------------
(* The expressions of a statement. *)

AllRight(S) == \A e \in S : Right(e) /\ e.stop = "no"

LEMMA FollowingAreRight ==
  ASSUME NEW S, \A e \in S : Right(e)
  PROVE  AllRight(Following(S))
<1> SUFFICES ASSUME NEW e \in S, e.stop = "no"
             PROVE  LET f == IF e.error THEN Expr(e.qt, Nowhere, Nowhere, TRUE, "no") ELSE e
                    IN  Right(f) /\ f.stop = "no"
  BY DEF AllRight, Following
<1>1. Typed(e)
  BY DEF Right
<1>2. Typed(Expr(e.qt, Nowhere, Nowhere, TRUE, "no"))
  BY <1>1, NowhereIsPlaced DEF Typed, Expressions, Expr, Stops, Placed
<1>3. Right(Expr(e.qt, Nowhere, Nowhere, TRUE, "no"))
  BY <1>2, ErroneousIsRight DEF Expr
<1> QED BY <1>3 DEF Expr

LEMMA LeavesAreRight ==
  ASSUME Declared
  PROVE  AllRight(Leaves)
<1>1. ASSUME NEW i \in DOMAIN vars PROVE Right(ExprVarRef(i)) /\ ExprVarRef(i).stop = "no"
  <2>1. i \in 1..Len(vars)
    BY <1>1 DEF Declared
  <2> QED BY <2>1, VarRefIsRight DEF ExprVarRef, Expr
<1>2. ASSUME NEW t \in Named, Resolve(t) \notin Holders
      PROVE  Right(Literal(t)) /\ Literal(t).stop = "no"
  <2>1. t \in Types /\ ~IsHolder(t)
    BY <1>2, TypeSystemAssumption DEF Named, Types, IsHolder
  <2> QED BY <2>1, LiteralIsRight DEF Literal, Value, Expr
<1>3. ASSUME NEW qt \in Results PROVE Right(ExprFnCall(qt)) /\ ExprFnCall(qt).stop = "no"
  <2>1. qt \in QualTypes
    BY TypeCheckAssumption
  <2> QED BY <2>1, FnCallIsRight DEF ExprFnCall, Value, Expr
<1> QED BY <1>1, <1>2, <1>3 DEF AllRight, Leaves

LEMMA AccessesAreRight ==
  ASSUME Declared, NEW S, AllRight(S)
  PROVE  \A e \in Accesses(S) : Right(e)
BY ReferenceIsRight, DereferenceIsRight, StructVarRefIsRight DEF AllRight, Accesses

LEMMA InitsAreRight ==
  ASSUME NEW S, AllRight(S)
  PROVE  \A e \in Inits(S) : Right(e)
<1>1. \A t \in Named : t \in Types /\ (Resolve(t) \in Holders => IsHolder(t))
  BY TypeSystemAssumption DEF Named, Types, IsHolder
<1> QED BY <1>1, StructInitIsRight DEF AllRight, Inits

LEMMA ConversionsAreRight ==
  ASSUME NEW S, AllRight(S)
  PROVE  \A e \in Conversions(S) : Right(e)
<1>1. \A t \in Named : t \in Types
  BY TypeSystemAssumption DEF Named, Types
<1> QED BY <1>1, CastIsRight DEF AllRight, Conversions

LEMMA OperationsAreRight ==
  ASSUME NEW S, AllRight(S)
  PROVE  \A e \in Operations(S) : Right(e)
BY UnaryIsRight, BinaryIsRight DEF AllRight, Operations

LEMMA ExpressionsAreRight ==
  ASSUME Declared
  PROVE  (\A e \in Exprs : Right(e)) /\ (\A e \in Sources : Right(e))
<1>1. AllRight(Leaves)
  BY LeavesAreRight
<1>2. AllRight(Following(Accesses(Leaves)))
  BY <1>1, AccessesAreRight, FollowingAreRight
<1>3. AllRight(Simple)
  BY <1>1, <1>2 DEF AllRight, Simple
<1>4. AllRight(Following(Inits(Simple)))
  BY <1>3, InitsAreRight, FollowingAreRight
<1>5. AllRight(Compound)
  BY <1>3, <1>4 DEF AllRight, Compound
<1>6. \A e \in Exprs : Right(e)
  <2>1. \A e \in Compound : Right(e)
    BY <1>5 DEF AllRight
  <2>2. \A e \in Accesses(Compound) : Right(e)
    BY <1>5, AccessesAreRight
  <2>3. \A e \in Inits(Simple) : Right(e)
    BY <1>3, InitsAreRight
  <2>4. \A e \in Conversions(Simple) : Right(e)
    BY <1>3, ConversionsAreRight
  <2>5. \A e \in Operations(Leaves) : Right(e)
    BY <1>1, OperationsAreRight
  <2> QED BY <2>1, <2>2, <2>3, <2>4, <2>5 DEF Exprs
<1>7. \A e \in Sources : Right(e)
  <2>1. \A e \in {Reference(l) : l \in Leaves} : Right(e)
    BY <1>1, ReferenceIsRight DEF AllRight
  <2>2. AllRight(Following({Reference(l) : l \in Leaves}))
    BY <2>1, FollowingAreRight
  <2> QED BY <1>1, <2>2 DEF AllRight, Sources
<1> QED BY <1>6, <1>7

-----------------------------------------------------------------------------
(* Statements. *)

LEMMA IInvDeclares ==
  ASSUME IInv
  PROVE  Declared /\ (~rejected => AllSound)
BY DEF IInv, TypeOK, VariablesSound, Declared, AllSound

\* Variables keep their types: what was sound stays so.
LEMMA SoundStays ==
  ASSUME Declared, Len(vars') \in Nat, Len(vars) <= Len(vars'),
         \A i \in 1..Len(vars) : vars'[i].qt = vars[i].qt,
         NEW qt, NEW spot, Placed(spot)
  PROVE  Placed(spot)' /\ (Sound(qt, spot) => Sound(qt, spot)')
<1>1. Len(vars) \in Nat
  BY DEF Declared
<1>2. Placed(spot)'
  BY <1>1 DEF Placed
<1>3. HolderIsVariable(spot.cell) => HolderIsVariable(spot.cell)'
  BY DEF HolderIsVariable, Placed
<1>4. RefersWell(qt, spot) => RefersWell(qt, spot)'
  BY <1>3 DEF RefersWell
<1> QED BY <1>2, <1>4 DEF Sound

\* What a step must do to keep the invariant: what is new of the variables is
\* sound and what is written may be, if nothing is reported.
LEMMA StepKeepsIInv ==
  ASSUME IInv, rejected' \in BOOLEAN, rejected => rejected', stop' \in Stops,
         vars' \in Seq(Variables), Len(vars') <= MaxVars, Len(vars) <= Len(vars'),
         \A i \in 1..Len(vars') : vars'[i].qt.lvalue,
         \A i \in 1..Len(vars) : vars'[i].qt = vars[i].qt,
         \A i \in 1..Len(vars') :
           \/ i \in 1..Len(vars) /\ vars'[i] = vars[i]
           \/ /\ Placed(vars'[i].to)
              /\ ~rejected' => Sound(vars'[i].qt, vars'[i].to),
         NEW spots, Writes(spots), ~rejected' => \A s \in spots : Excused(s)
  PROVE  IInv'
<1>1. Declared /\ (~rejected => AllSound)
  BY IInvDeclares
<1>2. Len(vars) \in Nat /\ Len(vars') \in Nat
  BY <1>1 DEF Declared
<1>3. \A i \in 1..Len(vars') : Placed(vars'[i].to) /\ (~rejected' => Sound(vars'[i].qt, vars'[i].to))
  BY <1>1 DEF AllSound, Declared, VariablesPlaced
<1>4. VariablesPlaced' /\ VariablesSound'
  <2> SUFFICES ASSUME NEW i \in 1..Len(vars')
               PROVE  /\ Placed(vars[i].to)'
                      /\ ~rejected' => Sound(vars[i].qt, vars[i].to)'
    BY DEF VariablesPlaced, VariablesSound
  <2>1. PICK qt, spot : qt = vars'[i].qt /\ spot = vars'[i].to
    OBVIOUS
  <2>2. Placed(spot)' /\ (Sound(qt, spot) => Sound(qt, spot)')
    BY <1>1, <1>2, <1>3, <2>1, SoundStays
  <2> QED BY <1>3, <2>1, <2>2
<1>5. frozenWrites' \subseteq {"strict", "lax"} /\ FrozenIsKept'
  <2>1. frozenWrites \subseteq {"strict", "lax"} /\ (~rejected => "strict" \notin frozenWrites)
    BY DEF IInv, TypeOK, FrozenIsKept
  <2>2. CASE rejected'
    BY <2>2 DEF Writes, FrozenIsKept
  <2>3. CASE ~rejected'
    <3>1. \A s \in {t \in spots : t.cell.frozen} : s.lax # {}
      BY <2>3 DEF Excused
    <3>2. frozenWrites' \subseteq frozenWrites \cup {"lax"}
      BY <2>3, <3>1 DEF Writes
    <3> QED BY <2>1, <2>3, <3>2 DEF FrozenIsKept
  <2> QED BY <2>2, <2>3
<1>6. TypeOK'
  BY <1>2, <1>5 DEF TypeOK
<1> QED BY <1>4, <1>5, <1>6 DEF IInv

\* A step that leaves the variables alone.
LEMMA SameVariablesKeepIInv ==
  ASSUME IInv, NEW error \in BOOLEAN, NEW on \in Stops, Report(error, on), UNCHANGED vars,
         NEW spots, Writes(spots), ~rejected' => \A s \in spots : Excused(s)
  PROVE  IInv'
<1>1. rejected' \in BOOLEAN /\ (rejected => rejected') /\ stop' \in Stops
  BY DEF Report, IInv, TypeOK
<1>2. /\ vars' = vars /\ vars \in Seq(Variables) /\ Len(vars) <= MaxVars
      /\ \A i \in 1..Len(vars) : vars[i].qt.lvalue
  BY IInvDeclares DEF Declared
<1>3. Len(vars) \in Nat
  BY <1>2
<1> QED BY <1>1, <1>2, <1>3, StepKeepsIInv

LEMMA StopKeepsIInv ==
  ASSUME IInv, NEW e, Typed(e), NEW error \in BOOLEAN, NEW on \in Stops, StopsIn(e, error, on)
  PROVE  IInv'
<1>1. (e.error \/ error) \in BOOLEAN
  BY DEF Typed, Expressions
<1> QED BY <1>1, SameVariablesKeepIInv DEF StopsIn

\* A step that declares a variable.
LEMMA DeclarationKeepsIInv ==
  ASSUME IInv, NEW error \in BOOLEAN, Report(error, "no"), Writes({}), Len(vars) < MaxVars,
         NEW qt \in QualTypes, qt.lvalue, NEW to, Placed(to),
         ~rejected' => Sound(qt, to),
         vars' = Append(vars, [qt |-> qt, to |-> to])
  PROVE  IInv'
<1> DEFINE var == [qt |-> qt, to |-> to]
<1>1. rejected' \in BOOLEAN /\ (rejected => rejected') /\ stop' \in Stops
  BY DEF Report, IInv, TypeOK, Stops
<1>2. Declared
  BY IInvDeclares
<1>3. var \in Variables /\ var.qt = qt /\ var.to = to
  BY DEF Variables, Placed
<1> HIDE DEF var
<1>4. /\ vars' \in Seq(Variables) /\ Len(vars') = Len(vars) + 1 /\ Len(vars) \in Nat
      /\ \A i \in 1..Len(vars) : vars'[i] = vars[i]
      /\ vars'[Len(vars) + 1] = var
  BY <1>2, <1>3 DEF Declared, var
<1>5. Len(vars') <= MaxVars /\ Len(vars) <= Len(vars')
  BY <1>4, TypeCheckAssumption
<1>6. \A i \in 1..Len(vars') : i \in 1..Len(vars) \/ i = Len(vars) + 1
  BY <1>4
<1>7. \A i \in 1..Len(vars') : vars'[i].qt.lvalue
  BY <1>2, <1>3, <1>4, <1>6 DEF Declared
<1>8. \A i \in 1..Len(vars') :
        \/ i \in 1..Len(vars) /\ vars'[i] = vars[i]
        \/ /\ Placed(vars'[i].to)
           /\ ~rejected' => Sound(vars'[i].qt, vars'[i].to)
  BY <1>3, <1>4, <1>6
<1> QED BY <1>1, <1>4, <1>5, <1>7, <1>8, StepKeepsIInv

LEMMA DeclVarTypedKeepsIInv ==
  ASSUME IInv, NEW e, Right(e), NEW qt \in QualTypes, qt.lvalue, DeclVarTyped(e, qt)
  PROVE  IInv'
<1>1. Typed(e) /\ e.error \in BOOLEAN /\ ConversionStop(e, qt) \in Stops
  BY StopKinds DEF Right, Typed, Expressions
<1>2. CASE StopsIn(e, FALSE, ConversionStop(e, qt))
  BY <1>1, <1>2, StopKeepsIInv
<1>3. CASE ConversionStop(e, qt) = "no" /\ ~StopsIn(e, FALSE, ConversionStop(e, qt))
  <2>1. /\ Report(e.error \/ ConversionError(e, qt), "no") /\ Writes({}) /\ Len(vars) < MaxVars
        /\ vars' = Append(vars, [qt |-> qt, to |-> Converted(e, qt)])
    BY <1>3 DEF DeclVarTyped
  <2>2. (e.error \/ ConversionError(e, qt)) \in BOOLEAN
    BY DEF ConversionError
  <2>3. ~rejected' => Sound(qt, Converted(e, qt))
    <3>1. ~rejected' => ~e.error /\ ~ConversionError(e, qt) /\ ~rejected
      BY <2>1 DEF Report
    <3>2. ~rejected => Good(e)
      BY IInvDeclares DEF Right
    <3> QED BY <1>1, <1>3, <3>1, <3>2, ConversionIsSound
  <2>4. Placed(Converted(e, qt))
    BY <1>1, ConvertedIsPlaced
  <2> QED BY <2>1, <2>2, <2>3, <2>4, DeclarationKeepsIInv
<1> QED BY <1>2, <1>3 DEF DeclVarTyped

LEMMA DeclVarInferredKeepsIInv ==
  ASSUME IInv, NEW e, Right(e), NEW mutable \in BOOLEAN, DeclVarInferred(e, mutable)
  PROVE  IInv'
<1> DEFINE qt == InferredType(e, mutable)
           to == Inferred(e, mutable)
<1>1. Typed(e) /\ e.error \in BOOLEAN /\ e.stop \in Stops
  BY DEF Right, Typed, Expressions
<1>2. CASE StopsIn(e, FALSE, e.stop)
  BY <1>1, <1>2, StopKeepsIInv
<1>3. CASE e.stop = "no" /\ ~StopsIn(e, FALSE, e.stop)
  <2>1. /\ Report(e.error, "no") /\ Writes({}) /\ Len(vars) < MaxVars
        /\ vars' = Append(vars, [qt |-> qt, to |-> to])
    BY <1>3 DEF DeclVarInferred
  <2>2. /\ qt \in QualTypes /\ qt.lvalue /\ qt.type = e.qt.type /\ qt.mutable = mutable
        /\ qt.reference = e.qt.reference
    BY <1>1 DEF InferredType, QT, QualTypes, Typed, Expressions
  <2>3. Placed(to)
    <3>1. Placed(Spot(e.to.cell, e.to.lax \cup {"inferred"}))
      BY <1>1, SpotIsPlaced DEF Typed, Lax
    <3> QED BY <1>1, <3>1 DEF Inferred, Typed
  <2>4. ASSUME ~rejected' PROVE Sound(qt, to)
    <3>1. Sound(e.qt, e.to)
      BY <1>3, <2>1, <2>4, IInvDeclares DEF Report, Right, Good
    <3>2. CASE e.qt.reference
      <4>1. /\ Fits(e.qt.type, e.to.cell) /\ (e.qt.mutable => Excused(e.to))
            /\ Lasts(e.to) /\ HolderIsVariable(e.to.cell)
        BY <3>1, <3>2 DEF Sound, RefersWell
      <4>2. to.cell = e.to.cell /\ e.to.lax \subseteq to.lax
        BY DEF Inferred, Spot
      <4>3. mutable /\ ~e.qt.mutable => to.lax # {}
        BY <3>2 DEF Inferred, Spot
      <4> HIDE DEF qt, to
      <4>4. qt.mutable => Excused(to)
        BY <2>2, <4>1, <4>2, <4>3 DEF Excused
      <4>5. Lasts(to) /\ HolderIsVariable(to.cell) /\ Fits(qt.type, to.cell)
        BY <2>2, <4>1, <4>2 DEF Lasts, HolderIsVariable
      <4> QED BY <2>2, <3>2, <4>4, <4>5 DEF Sound, RefersWell
    <3>3. CASE ~e.qt.reference
      <4>1. to = e.to
        BY <3>3 DEF Inferred
      <4> HIDE DEF qt, to
      <4> QED BY <2>2, <3>1, <3>3, <4>1 DEF Sound
    <3> QED BY <3>2, <3>3
  <2> HIDE DEF qt, to
  <2> QED BY <1>1, <2>1, <2>2, <2>3, <2>4, DeclarationKeepsIInv
<1> QED BY <1>2, <1>3 DEF DeclVarInferred

\* The variable an assignment redirects still refers to what its type says.
LEMMA RedirectedIsSound ==
  ASSUME Declared, NEW l, Typed(l), l.qt.lvalue, l.qt.mutable, LiesWell(l),
         l.at.cell.place = "local", l.qt.reference \/ IsHolder(l.qt.type),
         NEW to, Sound(l.qt, to)
  PROVE  Sound(vars[l.at.cell.var].qt, to)
<1> DEFINE v == vars[l.at.cell.var]
<1>1. CASE l.qt.reference
  <2>1. /\ Fits(l.qt.type, to.cell) /\ Excused(to) /\ Lasts(to) /\ HolderIsVariable(to.cell)
    BY <1>1 DEF Sound, RefersWell
  <2>2. CASE v.qt.reference /\ v.qt.type = l.qt.type
    BY <2>1, <2>2 DEF Sound, RefersWell
  <2>3. CASE /\ ~v.qt.reference /\ IsHolder(v.qt.type)
             /\ Resolve(l.qt.type) = Member[Resolve(v.qt.type)]
    <3>1. Resolve(Member[Resolve(v.qt.type)]) = Resolve(l.qt.type)
      BY <2>3, Members
    <3>2. Fits(Member[Resolve(v.qt.type)], to.cell)
      BY <2>1, <3>1 DEF Fits
    <3> QED BY <2>1, <2>3, <3>2 DEF Sound, HoldsWell
  <2> QED BY <1>1, <2>2, <2>3 DEF LiesWell, IsReferenceOf
<1>2. CASE ~l.qt.reference /\ IsHolder(l.qt.type)
  <2>1. Fits(l.qt.type, l.at.cell) /\ HolderIsVariable(l.at.cell)
    BY <1>2 DEF LiesWell
  <2>2. Resolve(l.at.cell.type) = Resolve(l.qt.type) /\ IsHolder(l.at.cell.type)
    BY <1>2, <2>1 DEF Fits, IsHolder, Structs
  <2>3. ~v.qt.reference /\ v.qt.type = l.at.cell.type
    BY <2>1, <2>2 DEF HolderIsVariable
  <2>4. SameStruct(l.qt.type, v.qt.type)
    BY <2>2, <2>3 DEF SameStruct
  <2>5. HoldsWell(l.qt.type, to)
    BY <1>2 DEF Sound
  <2> HIDE DEF v
  <2>6. HoldsWell(v.qt.type, to)
    BY <2>4, <2>5, HoldsAfter
  <2> QED BY <2>3, <2>6 DEF Sound, v
<1> QED BY <1>1, <1>2

LEMMA AssignKeepsIInv ==
  ASSUME IInv, NEW l, Right(l), NEW r, Right(r), StmtAssign(l, r)
  PROVE  IInv'
<1> DEFINE error == l.error \/ AssignError(l) \/ ConversionError(r, l.qt)
           to == Converted(r, l.qt)
<1>1. /\ Typed(l) /\ l.error \in BOOLEAN /\ l.stop \in Stops /\ l.qt \in QualTypes
      /\ Typed(r) /\ r.error \in BOOLEAN /\ ConversionStop(r, l.qt) \in Stops
  BY StopKinds DEF Right, Typed, Expressions
<1>2. CASE StopsIn(l, FALSE, l.stop)
  BY <1>1, <1>2, StopKeepsIInv
<1>3. CASE StopsIn(r, l.error \/ (r.stop = "no" /\ ~l.qt.lvalue), ConversionStop(r, l.qt))
  <2>1. (l.error \/ (r.stop = "no" /\ ~l.qt.lvalue)) \in BOOLEAN
    OBVIOUS
  <2> QED BY <1>1, <1>3, <2>1, StopKeepsIInv
<1>4. ASSUME l.stop = "no", ConversionStop(r, l.qt) = "no", Report(r.error \/ error, "no"),
             vars' = IF rejected' THEN vars ELSE Redirected(l, r), Writes({l.at})
      PROVE  IInv'
  <2>1. Declared /\ (~rejected => AllSound)
    BY IInvDeclares
  <2>2. (r.error \/ error) \in BOOLEAN
    OBVIOUS
  <2>3. ASSUME ~rejected'
        PROVE  /\ ~r.error /\ ~l.error /\ l.qt.lvalue /\ l.qt.mutable
               /\ ~ConversionError(r, l.qt) /\ Good(l) /\ Good(r)
    BY <1>4, <2>1, <2>3 DEF Report, AssignError, Right
  <2>4. ~rejected' => LiesWell(l) /\ Excused(l.at)
    BY <1>4, <2>3 DEF Good, LiesWell
  <2>5. ~rejected' => Sound(l.qt, to)
    BY <1>1, <1>4, <2>3, ConversionIsSound
  <2>6. Placed(to)
    BY <1>1, ConvertedIsPlaced
  <2> HIDE DEF to, error
  <2>7. CASE UNCHANGED vars
    BY <1>4, <2>2, <2>4, <2>7, SameVariablesKeepIInv DEF Stops
  <2>8. CASE ~UNCHANGED vars
    <3> DEFINE k == l.at.cell.var
    <3>1. /\ ~rejected' /\ l.at.cell.place = "local" /\ (l.qt.reference \/ IsHolder(l.qt.type))
          /\ vars' = [vars EXCEPT ![k].to = to]
      BY <1>4, <2>8 DEF Redirected, to
    <3>2. k \in 1..Len(vars)
      BY <1>1, <3>1 DEF Typed, Placed
    <3> HIDE DEF k
    <3>3. vars \in Seq(Variables) /\ vars[k] \in Variables /\ Len(vars) \in Nat
      BY <2>1, <3>2 DEF Declared
    <3>4. /\ [vars[k] EXCEPT !.to = to] \in Variables
          /\ [vars[k] EXCEPT !.to = to].qt = vars[k].qt
          /\ [vars[k] EXCEPT !.to = to].to = to
      BY <2>6, <3>3 DEF Variables, Placed
    <3>5. /\ vars' \in Seq(Variables) /\ Len(vars') = Len(vars)
          /\ vars'[k].qt = vars[k].qt /\ vars'[k].to = to
          /\ \A i \in 1..Len(vars) : i # k => vars'[i] = vars[i]
      BY <3>1, <3>2, <3>3, <3>4
    <3>6. Sound(vars'[k].qt, vars'[k].to)
      BY <1>1, <2>1, <2>3, <2>4, <2>5, <3>1, <3>5, RedirectedIsSound DEF k
    <3>7. rejected' \in BOOLEAN /\ (rejected => rejected') /\ stop' \in Stops
      BY <1>4, <2>2 DEF Report, IInv, TypeOK, Stops
    <3>8. /\ \A i \in 1..Len(vars') : vars'[i].qt.lvalue
          /\ \A i \in 1..Len(vars) : vars'[i].qt = vars[i].qt
          /\ \A i \in 1..Len(vars') :
               \/ i \in 1..Len(vars) /\ vars'[i] = vars[i]
               \/ Placed(vars'[i].to) /\ (~rejected' => Sound(vars'[i].qt, vars'[i].to))
      BY <2>1, <2>6, <3>5, <3>6 DEF Declared
    <3>9. Len(vars') <= MaxVars /\ Len(vars) <= Len(vars')
      BY <2>1, <3>3, <3>5 DEF Declared
    <3> QED BY <1>4, <2>4, <3>5, <3>7, <3>8, <3>9, StepKeepsIInv
  <2> QED BY <2>7, <2>8
<1> QED BY <1>2, <1>3, <1>4 DEF StmtAssign

LEMMA HandKeepsIInv ==
  ASSUME IInv, NEW e, Right(e), NEW qt \in QualTypes, Hand(e, qt)
  PROVE  IInv'
<1>1. Typed(e) /\ e.error \in BOOLEAN /\ ConversionStop(e, qt) \in Stops
  BY StopKinds DEF Right, Typed, Expressions
<1>2. CASE StopsIn(e, FALSE, ConversionStop(e, qt))
  BY <1>1, <1>2, StopKeepsIInv
<1>3. CASE ConversionStop(e, qt) = "no" /\ ~StopsIn(e, FALSE, ConversionStop(e, qt))
  <2>1. /\ Report(e.error \/ ConversionError(e, qt), "no") /\ Writes(Lent(e, qt)) /\ UNCHANGED vars
    BY <1>3 DEF Hand
  <2>2. (e.error \/ ConversionError(e, qt)) \in BOOLEAN
    BY DEF ConversionError
  <2>3. ~rejected' => \A s \in Lent(e, qt) : Excused(s)
    <3>1. ~rejected' => ~e.error /\ ~ConversionError(e, qt) /\ ~rejected
      BY <2>1 DEF Report
    <3>2. ~rejected => Good(e)
      BY IInvDeclares DEF Right
    <3>3. ~rejected' => Sound(qt, Converted(e, qt))
      BY <1>1, <1>3, <3>1, <3>2, ConversionIsSound
    <3> QED BY <3>3 DEF Lent, Sound, RefersWell
  <2> QED BY <2>1, <2>2, <2>3, SameVariablesKeepIInv DEF Stops
<1> QED BY <1>2, <1>3 DEF Hand

LEMMA TypeFnCallKeepsIInv ==
  ASSUME IInv, NEW e, Right(e), NEW selfMutable \in BOOLEAN, ExprTypeFnCall(e, selfMutable)
  PROVE  IInv'
<1>1. Typed(e) /\ e.error \in BOOLEAN /\ e.stop \in Stops
  BY DEF Right, Typed, Expressions
<1>2. ASSUME NEW on, on = IF e.stop # "no" THEN e.stop
                          ELSE IF StopOn(e.qt.type) # "no" THEN StopOn(e.qt.type)
                          ELSE IF Resolve(e.qt.type) \in Plains THEN "no" ELSE "fatal",
             StopsIn(e, on = "fatal", on)
      PROVE  IInv'
  <2>1. on \in Stops /\ (on = "fatal") \in BOOLEAN
    BY <1>1, <1>2, StopKinds DEF Stops
  <2> QED BY <1>1, <1>2, <2>1, StopKeepsIInv
<1>3. ASSUME e.stop = "no", Report(e.error \/ ReceiverError(e, selfMutable), "no"),
             Writes(IF selfMutable THEN {Storage(e)} ELSE {}), UNCHANGED vars
      PROVE  IInv'
  <2>1. (e.error \/ ReceiverError(e, selfMutable)) \in BOOLEAN
    BY DEF ReceiverError
  <2>2. ~rejected' /\ selfMutable => Excused(Storage(e))
    <3>1. ~rejected' => ~e.error /\ Good(e) /\ (selfMutable => e.qt.mutable)
      BY <1>3, IInvDeclares DEF Report, ReceiverError, Right
    <3> QED BY <1>1, <1>3, <3>1, StorageIsSound
  <2>3. ~rejected' => \A s \in (IF selfMutable THEN {Storage(e)} ELSE {}) : Excused(s)
    BY <2>2
  <2> QED BY <1>3, <2>1, <2>3, SameVariablesKeepIInv DEF Stops
<1> QED BY <1>2, <1>3 DEF ExprTypeFnCall

LEMMA InitEstablishesIInv ==
  ASSUME Init
  PROVE  IInv
<1>1. rejected = FALSE /\ stop = "no" /\ frozenWrites = {}
  BY DEF Init
<1>2. CASE vars = <<>>
  <2>1. Len(vars) = 0 /\ vars \in Seq(Variables) /\ DOMAIN vars = {} /\ 1..Len(vars) = {}
    BY <1>2
  <2>2. TypeOK
    <3>1. Len(vars) <= MaxVars
      BY <2>1, TypeCheckAssumption
    <3> QED BY <1>1, <2>1, <3>1 DEF TypeOK, Stops
  <2>3. VariablesPlaced /\ VariablesSound
    BY <2>1 DEF VariablesPlaced, VariablesSound
  <2> QED BY <1>1, <2>2, <2>3 DEF IInv, FrozenIsKept
<1>3. ASSUME MaxVars > 0, NEW t \in Named, NEW m \in BOOLEAN, NEW r \in BOOLEAN,
             vars = <<[qt |-> QT(t, m, r, TRUE), to |-> FromOutside(Written(t, m, r))]>>
      PROVE  IInv
  <2> DEFINE qt == QT(t, m, r, TRUE)
             wt == Written(t, m, r)
             to == FromOutside(wt)
             var == [qt |-> qt, to |-> to]
  <2>1. /\ qt \in QualTypes /\ qt.lvalue /\ wt \in QualTypes /\ qt.type = wt.type
        /\ qt.mutable = wt.mutable /\ qt.reference = wt.reference
    BY TypeSystemAssumption DEF Named, Types, QT, QualTypes, Written
  <2> HIDE DEF qt, wt
  <2>2. Placed(to) /\ Sound(wt, to)
    BY <2>1, OutsideIsSound
  <2> HIDE DEF to
  <2>3. Sound(qt, to)
    BY <2>1, <2>2 DEF Sound, RefersWell
  <2>4. var \in Variables /\ var.qt = qt /\ var.to = to
    BY <2>1, <2>2 DEF Variables, Placed
  <2>5. vars = <<var>>
    BY <1>3 DEF qt, to, wt
  <2> HIDE DEF var
  <2>6. vars \in Seq(Variables) /\ Len(vars) = 1 /\ DOMAIN vars = {1} /\ vars[1] = var
    BY <2>4, <2>5
  <2>7. TypeOK
    <3>1. Len(vars) <= MaxVars
      BY <1>3, <2>6, TypeCheckAssumption
    <3>2. \A i \in DOMAIN vars : vars[i].qt.lvalue
      BY <2>1, <2>4, <2>6
    <3> QED BY <1>1, <2>6, <3>1, <3>2 DEF TypeOK, Stops
  <2>8. VariablesPlaced /\ VariablesSound
    BY <2>2, <2>3, <2>4, <2>6 DEF VariablesPlaced, VariablesSound
  <2> QED BY <1>1, <2>7, <2>8 DEF IInv, FrozenIsKept
<1> QED BY <1>2, <1>3 DEF Init

LEMMA NextKeepsIInv ==
  ASSUME IInv, [Next]_state
  PROVE  IInv'
<1>1. (\A e \in Exprs : Right(e)) /\ (\A e \in Sources : Right(e))
  BY IInvDeclares, ExpressionsAreRight
<1>2. \A t \in Named, m, r \in BOOLEAN : QT(t, m, r, TRUE) \in QualTypes /\ QT(t, m, r, TRUE).lvalue
  BY TypeSystemAssumption DEF Named, Types, QT, QualTypes
<1>3. CASE UNCHANGED state
  BY <1>3
  DEF state, IInv, TypeOK, VariablesPlaced, Placed, VariablesSound, Sound, RefersWell,
      HolderIsVariable, FrozenIsKept
<1>4. CASE DeclareTyped
  BY <1>1, <1>2, <1>4, DeclVarTypedKeepsIInv DEF DeclareTyped
<1>5. CASE DeclareInferred
  BY <1>1, <1>5, DeclVarInferredKeepsIInv DEF DeclareInferred
<1>6. CASE Assign
  BY <1>1, <1>6, AssignKeepsIInv DEF Assign
<1>7. CASE Pass
  BY <1>1, <1>2, <1>7, HandKeepsIInv DEF Pass, Argument
<1>8. CASE Return
  BY <1>1, <1>8, HandKeepsIInv, TypeCheckAssumption DEF Return, StmtReturn
<1>9. CASE CallOnType
  BY <1>1, <1>9, TypeFnCallKeepsIInv DEF CallOnType
<1>10. CASE CallMiscounted
  BY <1>10, SameVariablesKeepIInv DEF CallMiscounted, ArgumentCount, Stops
<1> QED
  BY <1>3, <1>4, <1>5, <1>6, <1>7, <1>8, <1>9, <1>10 DEF Next

-----------------------------------------------------------------------------
(* Theorems. *)

(* Always, in a program without errors: what each variable refers to is as   *)
(* its type says, and nothing immutable was written unexcused.               *)
THEOREM TypesInvariant == Spec => []IInv
<1>1. Init => IInv
  BY InitEstablishesIInv
<1>2. IInv /\ [Next]_state => IInv'
  BY NextKeepsIInv
<1> QED BY <1>1, <1>2, PTL DEF Spec

(* The pass keeps to its kinds and bounds; every variable is an l-value.     *)
THEOREM TypeCorrect == Spec => []TypeOK
<1>1. IInv => TypeOK
  BY DEF IInv
<1> QED BY <1>1, TypesInvariant, PTL

(* No program that the type pass accepts writes an immutable variable, or    *)
(* what stands behind an immutable reference, by assignment, through members *)
(* and references, in a type's function or a function it is lent to, but     *)
(* past one of the conversions the pass does not check.                      *)
THEOREM ImmutableIsNotWritten == Spec => []FrozenIsKept
<1>1. IInv => FrozenIsKept
  BY DEF IInv
<1> QED BY <1>1, TypesInvariant, PTL

(* Whatever is converted, cast or inferred on the way: what a variable that  *)
(* refers to a struct refers to is storage of that struct.                   *)
THEOREM ReferencesFit == Spec => []ReferencesToStructsFit
<1>1. ASSUME IInv PROVE ReferencesToStructsFit
  <2> SUFFICES ASSUME ~rejected, NEW i \in DOMAIN vars, vars[i].to # Nowhere
               PROVE  LET seen == IF IsHolder(vars[i].qt.type) /\ ~vars[i].qt.reference
                                  THEN Member[Resolve(vars[i].qt.type)] ELSE vars[i].qt.type
                          to == vars[i].to.cell.type
                      IN  Structs \cap {Resolve(seen), Resolve(to)} # {} => Resolve(to) = Resolve(seen)
    BY DEF ReferencesToStructsFit
  <2>1. Sound(vars[i].qt, vars[i].to)
    BY <1>1 DEF IInv, VariablesSound, TypeOK
  <2>2. CASE vars[i].qt.reference
    BY <2>1, <2>2 DEF Sound, RefersWell, Fits
  <2>3. CASE ~vars[i].qt.reference
    <3>1. IsHolder(vars[i].qt.type) /\ Fits(Member[Resolve(vars[i].qt.type)], vars[i].to.cell)
      BY <2>1, <2>3 DEF Sound, HoldsWell
    <3> QED BY <2>3, <3>1 DEF Fits
  <2> QED BY <2>2, <2>3
<1> QED BY <1>1, TypesInvariant, PTL

(* No variable refers to a temporary, but for members of temporaries, which  *)
(* the pass takes for l-values.                                              *)
THEOREM TemporariesAreNotReferredTo == Spec => []NoReferenceToTemporaries
<1>1. ASSUME IInv PROVE NoReferenceToTemporaries
  <2> SUFFICES ASSUME ~rejected, NEW i \in DOMAIN vars
               PROVE  Lasts(vars[i].to)
    BY DEF NoReferenceToTemporaries, Lasts
  <2>1. Sound(vars[i].qt, vars[i].to)
    BY <1>1 DEF IInv, VariablesSound, TypeOK
  <2> QED BY <2>1 DEF Sound, RefersWell, HoldsWell, Lasts, Nowhere, Spot, NoCell
<1> QED BY <1>1, TypesInvariant, PTL
================================================================================
