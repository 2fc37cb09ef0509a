------------------------------ MODULE TypeCheck ------------------------------
(***************************************************************************)
(* The type pass (AstVisitorExprType) over the body of one function.  The  *)
(* program is not fixed beforehand: each step chooses the next statement   *)
(* and the expressions in it.  An expression is represented by what the    *)
(* pass makes of it, its qualified type and its errors, together with what *)
(* it stands for when the program runs: the storage it lies in and the     *)
(* storage it refers to.  The pass never sees the latter.                  *)
(*                                                                         *)
(* What a called function stores in a struct that is lent to it is not     *)
(* followed; its own body is checked as this one is.                       *)
(***************************************************************************)
EXTENDS TypeSystem, Sequences

CONSTANTS
  Results,    \* the types of results that functions are declared with
  MaxVars     \* bound: the variables of the function, its parameter included

ASSUME TypeCheckAssumption == MaxVars \in Nat /\ Results \subseteq QualTypes

VARIABLES
  vars,           \* the variables that are declared, with their types and
                  \* what they refer to
  rejected,       \* whether the pass has reported an error
  stop,           \* why the pass does not go on: after a fatal error, or as it
                  \* uses the null type of an expression
  frozenWrites    \* history: how storage that is immutable was written

state == <<vars, rejected, stop, frozenWrites>>

(* Storage is a variable, a value of a caller behind a reference, or a       *)
(* temporary.  It is frozen if it was declared to be immutable.              *)
Cell == [place : {"none", "local", "caller", "temporary"}, var : 0..MaxVars,
         type : Types \cup NoTypes, frozen : BOOLEAN]

NoCell == [place |-> "none", var |-> 0, type |-> "void", frozen |-> FALSE]
Temporary(type) == [place |-> "temporary", var |-> 0, type |-> type, frozen |-> FALSE]
CallersCell(type, frozen) == [place |-> "caller", var |-> 0, type |-> type, frozen |-> frozen]

(* A spot is storage and the unchecked conversions on the way to it: a       *)
(* reference became mutable as its type was inferred, or as the type it      *)
(* refers to can be copied; or it is the member of a temporary that was      *)
(* taken for an l-value.                                                     *)
Lax == {"inferred", "copiable", "temporary"}
Spots == [cell : Cell, lax : SUBSET Lax]
Spot(cell, lax) == [cell |-> cell, lax |-> lax]
Nowhere == Spot(NoCell, {})

Stops == {"no", "fatal", "null", "void"}

\* A struct that is a holder refers to what its member refers to.
Variables == [qt : QualTypes, to : Spots]

Expressions == [qt : QualTypes, at : Spots, to : Spots, error : BOOLEAN, stop : Stops]

TypeOK ==
  /\ vars \in Seq(Variables) /\ Len(vars) <= MaxVars
  /\ \A i \in DOMAIN vars : vars[i].qt.lvalue
  /\ rejected \in BOOLEAN
  /\ stop \in Stops
  /\ frozenWrites \subseteq {"strict", "lax"}

LocalCell(i) ==
  [place |-> "local", var |-> i, type |-> vars[i].qt.type, frozen |-> ~vars[i].qt.mutable]

IsHolder(type) == Resolve(type) \in Holders

\* What the struct at a spot refers to.
Held(spot) ==
  IF ~IsHolder(spot.cell.type) THEN Nowhere
  ELSE IF spot.cell.place = "local" THEN vars[spot.cell.var].to
  ELSE Spot(CallersCell(Member[Resolve(spot.cell.type)], FALSE), {})

\* What comes from outside: a reference to a value of a caller, which is
\* immutable unless the reference says otherwise.
FromOutside(qt) ==
  IF qt.type \in NoTypes THEN Nowhere
  ELSE IF qt.reference THEN Spot(CallersCell(qt.type, ~qt.mutable), {})
  ELSE Held(Spot(CallersCell(qt.type, ~qt.mutable), {}))

-----------------------------------------------------------------------------
(* Expressions. *)

Expr(qt, at, to, error, on) == [qt |-> qt, at |-> at, to |-> to, error |-> error, stop |-> on]

Value(qt, to, error, on) == Expr(qt, Spot(Temporary(qt.type), {}), to, error, on)

StopOn(type) == IF type = "invalid" THEN "null" ELSE IF type = "void" THEN "void" ELSE "no"

\* What a conversion to a qualified type reports, and where it makes the
\* converted expression refer to.
ConversionError(e, qt) == StopOn(e.qt.type) = "no" /\ StopOn(qt.type) = "no" /\ ~Converts(e.qt, qt)
ConversionStop(e, qt) == IF e.stop # "no" THEN e.stop
                         ELSE IF StopOn(e.qt.type) # "no" THEN StopOn(e.qt.type)
                         ELSE StopOn(qt.type)
Converted(e, qt) ==
  IF e.qt.reference /\ qt.mutable /\ ~e.qt.mutable
  THEN Spot(e.to.cell, e.to.lax \cup {"copiable"})
  ELSE e.to

ExprVarRef(i) ==
  Expr(vars[i].qt, Spot(LocalCell(i), {}), vars[i].to, FALSE, "no")

\* Literals, and initialisers of plain structs.
Literal(type) == Value(Fresh(type), Nowhere, FALSE, "no")

\* Members are declared to be mutable; whether they are is up to the struct.
\* (Faulty variant: their type is as it is written.)
MemberTypeAsWritten(type) ==
  QT(Member[Resolve(type)], FALSE, Resolve(type) \in Holders, TRUE)
MemberType(type) ==
  QT(Member[Resolve(type)], TRUE, Resolve(type) \in Holders, TRUE)

ExprStructInit(type, e) ==
  Value(Fresh(type), Converted(e, MemberType(type)),
        e.error \/ ConversionError(e, MemberType(type)), ConversionStop(e, MemberType(type)))

\* The result of a call; visit(STDeclFunction) clears its l-value bit.
ExprFnCall(qt) ==
  Value(QT(qt.type, qt.mutable, qt.reference, FALSE), FromOutside(qt), FALSE, "no")

\* (Faulty variant: the operand need not be an l-value.)
ReferenceOfAny(e) == e.qt.reference
ReferenceError(e) == e.qt.reference \/ ~e.qt.lvalue

Reference(e) ==
  Expr(QT(e.qt.type, e.qt.mutable, TRUE, TRUE),
       Spot(Temporary(e.qt.type), {}), IF e.qt.reference THEN e.to ELSE e.at,
       e.error \/ ReferenceError(e), "no")

Dereference(e) ==
  Expr(QT(e.qt.type, e.qt.mutable, FALSE, TRUE), e.to, Held(e.to),
       e.error \/ ~e.qt.reference, "no")

\* Where the struct lies that an expression denotes or refers to.
Storage(e) ==
  IF e.qt.reference THEN e.to
  ELSE IF e.qt.lvalue THEN e.at ELSE Spot(e.at.cell, e.at.lax \cup {"temporary"})

\* A member is a part of the storage of its struct.
MemberAt(spot, type) == [spot EXCEPT !.cell.type = type]

NotAStruct(e) == Expr(QT("invalid", FALSE, FALSE, FALSE), e.at, e.to, TRUE, e.stop)

ValueMember(e) ==
  Expr(QT(Member[Resolve(e.qt.type)], e.qt.mutable, FALSE, TRUE),
       MemberAt(Storage(e), Member[Resolve(e.qt.type)]), Nowhere, e.error, e.stop)

ReferenceMember(e) ==
  Expr(QT(Member[Resolve(e.qt.type)], e.qt.mutable, TRUE, TRUE),
       MemberAt(Storage(e), Member[Resolve(e.qt.type)]),
       IF e.qt.reference THEN Held(e.to) ELSE e.to, e.error, e.stop)

\* The error for a member that does not exist does not end the pass, which
\* then uses the member.
ExprStructVarRef(e, name) ==
  CASE e.qt.type \in NoTypes -> Expr(e.qt, e.at, e.to, e.error, StopOn(e.qt.type))
    [] e.qt.type \notin NoTypes /\ Resolve(e.qt.type) \notin Structs -> NotAStruct(e)
    [] Resolve(e.qt.type) \in Plains /\ name = "n" -> ValueMember(e)
    [] Resolve(e.qt.type) \in Holders /\ name = "r" -> ReferenceMember(e)
    [] OTHER -> Expr(e.qt, e.at, e.to, TRUE, "null")

ExprCast(e, qt) ==
  Value(qt, IF qt.reference THEN Converted(e, qt) ELSE Nowhere,
        e.error \/ (e.qt.type \notin NoTypes /\ ~Casts(e.qt, qt)), StopOn(e.qt.type))

\* An operator on operands that it accepts gives a new value.
Operated(type, accepts, error, on) ==
  Value(Fresh(type), Nowhere, error \/ ~accepts, on)

ExprUnaryOperator(op, e) ==
  Operated(e.qt.type, OperandFits(op, e.qt.type), e.error, StopOn(e.qt.type))

ExprBinaryOperator(op, l, r) ==
  Operated(ResultOf(op, l.qt.type),
           /\ OperandsFit(op, l.qt.type, r.qt.type)
           /\ op \notin Connectives => ~ConversionError(r, l.qt),
           l.error \/ r.error, ConversionStop(r, l.qt))

-----------------------------------------------------------------------------
(* The expressions a statement is made of.  A stopped expression ends the    *)
(* pass and is in no other; where an erroneous one lies is of no interest.   *)
Following(S) ==
  {IF e.error THEN Expr(e.qt, Nowhere, Nowhere, TRUE, "no") ELSE e : e \in {x \in S : x.stop = "no"}}

Leaves ==
  {ExprVarRef(i) : i \in DOMAIN vars}
    \cup {Literal(t) : t \in {u \in Named : Resolve(u) \notin Holders}}
    \cup {ExprFnCall(qt) : qt \in Results}

Accesses(S) ==
  {Reference(e) : e \in S} \cup {Dereference(e) : e \in S}
    \cup {ExprStructVarRef(e, m) : e \in S, m \in {"n", "r"}}

Inits(S) == {ExprStructInit(t, e) : t \in {u \in Named : Resolve(u) \in Holders}, e \in S}

Conversions(S) == {ExprCast(e, Written(t, m, r)) : e \in S, t \in Named, m, r \in BOOLEAN}

Operations(S) ==
  {ExprUnaryOperator(op, e) : op \in {"~", "-", "!"}, e \in S}
    \cup {ExprBinaryOperator(op, l, r) : op \in {"+", "<", "&", "and"}, l, r \in S}

Sources == Leaves \cup Following({Reference(e) : e \in Leaves})
Simple == Leaves \cup Following(Accesses(Leaves))
Compound == Simple \cup Following(Inits(Simple))

Exprs == Compound \cup Accesses(Compound) \cup Inits(Simple) \cup Conversions(Simple) \cup Operations(Leaves)

-----------------------------------------------------------------------------
(* Statements.  Storage is written when the program runs, which it does only *)
(* if nothing was reported.                                                  *)
Writes(spots) ==
  frozenWrites' =
    IF rejected' THEN {}
    ELSE frozenWrites \cup {IF s.lax = {} THEN "strict" ELSE "lax" : s \in {t \in spots : t.cell.frozen}}

Report(error, on) == rejected' = (rejected \/ error) /\ stop' = on

\* The pass stops within a statement.
StopsIn(e, error, on) ==
  /\ on # "no"
  /\ Report(e.error \/ error, on)
  /\ Writes({})
  /\ UNCHANGED vars

\* A variable with a written type; var and let decide whether it is mutable.
DeclVarTyped(e, qt) ==
  /\ Len(vars) < MaxVars
  /\ \/ StopsIn(e, FALSE, ConversionStop(e, qt))
     \/ /\ ConversionStop(e, qt) = "no"
        /\ Report(e.error \/ ConversionError(e, qt), "no")
        /\ vars' = Append(vars, [qt |-> qt, to |-> Converted(e, qt)])
        /\ Writes({})

\* The type is that of the expression.  No conversion is checked: a reference
\* to something immutable becomes one to something mutable.
Inferred(e, mutable) ==
  IF e.qt.reference /\ mutable /\ ~e.qt.mutable
  THEN Spot(e.to.cell, e.to.lax \cup {"inferred"}) ELSE e.to

InferredType(e, mutable) == QT(e.qt.type, mutable, e.qt.reference, TRUE)

DeclVarInferred(e, mutable) ==
  /\ Len(vars) < MaxVars
  /\ \/ StopsIn(e, FALSE, e.stop)
     \/ /\ e.stop = "no"
        /\ Report(e.error, "no")
        /\ vars' = Append(vars, [qt |-> InferredType(e, mutable), to |-> Inferred(e, mutable)])
        /\ Writes({})

\* (Faulty variant: only values must be mutable to be assigned to.)
AssignErrorOfValue(l) == ~l.qt.lvalue \/ (~l.qt.mutable /\ ~l.qt.reference)
AssignError(l) == ~l.qt.lvalue \/ ~l.qt.mutable

\* What the variables refer to after an assignment to a reference or a holder.
Redirected(l, r) ==
  IF l.at.cell.place = "local" /\ (l.qt.reference \/ IsHolder(l.qt.type))
  THEN [vars EXCEPT ![l.at.cell.var].to = Converted(r, l.qt)]
  ELSE vars

StmtAssign(l, r) ==
  \/ StopsIn(l, FALSE, l.stop)
  \/ /\ l.stop = "no"
     /\ LET error == l.error \/ AssignError(l) \/ ConversionError(r, l.qt)
        IN  \/ StopsIn(r, l.error \/ (r.stop = "no" /\ ~l.qt.lvalue), ConversionStop(r, l.qt))
            \/ /\ ConversionStop(r, l.qt) = "no"
               /\ Report(r.error \/ error, "no")
               /\ vars' = IF rejected' THEN vars ELSE Redirected(l, r)
               /\ Writes({l.at})

\* What is lent or handed out through a mutable reference may be written.
Lent(e, qt) == IF qt.reference /\ qt.mutable THEN {Converted(e, qt)} ELSE {}

\* An argument, or the returned value, for which a qualified type is declared.
Hand(e, qt) ==
  \/ StopsIn(e, FALSE, ConversionStop(e, qt))
  \/ /\ ConversionStop(e, qt) = "no"
     /\ Report(e.error \/ ConversionError(e, qt), "no")
     /\ Writes(Lent(e, qt))
     /\ UNCHANGED vars

Argument(e, qt) == Hand(e, qt)
StmtReturn(e, qt) == Hand(e, qt)

\* A function of a type, on an expression.  Only plain structs have one.
\* (Faulty variant: the receiver's mutability is not looked at.)
ReceiverErrorNever(e, selfMutable) == FALSE
ReceiverError(e, selfMutable) == ~e.qt.mutable /\ selfMutable

ExprTypeFnCall(e, selfMutable) ==
  LET defined == Resolve(e.qt.type) \in Plains
      on == IF e.stop # "no" THEN e.stop
            ELSE IF StopOn(e.qt.type) # "no" THEN StopOn(e.qt.type)
            ELSE IF defined THEN "no" ELSE "fatal"
  IN  \/ StopsIn(e, on = "fatal", on)
      \/ /\ on = "no"
         /\ Report(e.error \/ ReceiverError(e, selfMutable), "no")
         /\ Writes(IF selfMutable THEN {Storage(e)} ELSE {})
         /\ UNCHANGED vars

\* A call with too many or too few arguments ends the pass.
ArgumentCount ==
  /\ Report(TRUE, "fatal")
  /\ Writes({})
  /\ UNCHANGED vars

Init ==
  /\ \/ vars = <<>>
     \/ /\ MaxVars > 0
        /\ \E t \in Named, m, r \in BOOLEAN :
             vars = <<[qt |-> QT(t, m, r, TRUE), to |-> FromOutside(Written(t, m, r))]>>
  /\ rejected = FALSE
  /\ stop = "no"
  /\ frozenWrites = {}

\* The pass goes on.
Going == stop = "no"

DeclareTyped ==
  Going /\ \E e \in Exprs : \E t \in Named, m, r \in BOOLEAN : DeclVarTyped(e, QT(t, m, r, TRUE))
DeclareInferred == Going /\ \E e \in Exprs : \E m \in BOOLEAN : DeclVarInferred(e, m)
Assign == Going /\ \E l \in Exprs : \E r \in Sources : StmtAssign(l, r)
Pass ==
  Going /\ \E e \in Exprs : \E t \in Named, m, r \in BOOLEAN : Argument(e, QT(t, m, r, TRUE))
Return == Going /\ \E e \in Exprs : \E qt \in Results : StmtReturn(e, qt)
CallOnType == Going /\ \E e \in Exprs : \E selfMutable \in BOOLEAN : ExprTypeFnCall(e, selfMutable)
CallMiscounted == Going /\ ArgumentCount

Next ==
  \/ DeclareTyped \/ DeclareInferred \/ Assign
  \/ Pass \/ Return \/ CallOnType \/ CallMiscounted

Spec == Init /\ [][Next]_state

-----------------------------------------------------------------------------
(* An immutable variable, and what stands behind an immutable reference, is  *)
(* never written in a program that the pass accepts, by assignment, through  *)
(* a reference or a member, by a type's function or by a function it is lent *)
(* to; except past one of the conversions the pass does not check (Lax).     *)
FrozenIsKept == ~rejected => "strict" \notin frozenWrites

(* A reference to a struct refers to storage of that struct, whatever was    *)
(* converted, cast or inferred on the way: its members are where the program *)
(* looks for them.                                                           *)
ReferencesToStructsFit ==
  ~rejected => \A i \in DOMAIN vars :
    LET refersTo == vars[i].to.cell.type
        seenAs == IF IsHolder(vars[i].qt.type) /\ ~vars[i].qt.reference
                  THEN Member[Resolve(vars[i].qt.type)] ELSE vars[i].qt.type
    IN  vars[i].to # Nowhere /\ Structs \cap {Resolve(seenAs), Resolve(refersTo)} # {}
          => Resolve(refersTo) = Resolve(seenAs)

(* No variable refers to a temporary (test LValueMakeRef), but for members   *)
(* of temporaries, which the pass takes for l-values.                        *)
NoReferenceToTemporaries ==
  ~rejected => \A i \in DOMAIN vars :
    vars[i].to.cell.place = "temporary" => "temporary" \in vars[i].to.lax
=============================================================================
