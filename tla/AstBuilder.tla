------------------------------ MODULE AstBuilder ------------------------------
(***************************************************************************)
(* How AstBuilder (astbuilder.cpp) turns a syntax tree into declarations,  *)
(* scopes and statements: which names are visible (DeclScope), which       *)
(* statements a body gets, and which variables references may be assigned. *)
(*                                                                         *)
(* The program that is built is not fixed beforehand: each step chooses    *)
(* the next statement, among those the type pass would accept.  Variables  *)
(* live in functions only; a scope's place is its depth, as there is one   *)
(* open scope of each depth.  The first error ends the pass (onError).     *)
(***************************************************************************)
EXTENDS Naturals, Sequences

CONSTANTS
  Names,           \* the names of variables
  MaxDepth,        \* bound: scopes that are open at once
  MaxDecls,        \* bound: variables that are declared in all
  MaxStatements    \* bound: statements that are visited in all

ASSUME AstBuilderAssumption ==
  MaxDepth \in Nat \ {0} /\ MaxDecls \in Nat /\ MaxStatements \in Nat

(* A variable is declared with a type, which is that of a value or of a      *)
(* reference, or takes the type of its first value.  Then the type is not    *)
(* known in this pass, even if that value is a reference.                    *)
Types == {"value", "reference", "inferred value", "inferred reference"}
References == {"reference", "inferred reference"}

VARIABLES
  m_declMap,         \* the variables of all open scopes
  depth,             \* the number of open scopes; 0 is outside of functions
  stackStatements,   \* statements that are not yet in a body
  bodies,            \* the open bodies, outermost first: where they begin in
                     \* stackStatements and, as history, what was visited
  target,            \* history: the variable a reference refers to; 0 for none
                     \* or one that outlives the function
  declared,          \* variables declared so far
  visited,           \* statements visited so far
  unchecked,         \* history: the ways references were assigned that the
                     \* pass does not look at
  error

vars == <<m_declMap, depth, stackStatements, bodies, target, declared, visited, unchecked, error>>

Decl == [name : Names, id : 1..MaxDecls, depth : 1..MaxDepth, type : Types]

NoError == [kind |-> "none"]
Plain(kind) == [kind |-> kind]
RefScope(left, right) == [kind |-> "reference scope", left |-> left, right |-> right]

TypeOK ==
  /\ \A d \in m_declMap : d \in Decl
  /\ depth \in 0..MaxDepth
  /\ \A d \in m_declMap : d.depth <= depth /\ d.id <= declared
  /\ stackStatements \in Seq(1..MaxStatements)
  /\ bodies \in Seq([base : Nat, visited : Seq(1..MaxStatements)])
  /\ Len(bodies) = depth
  /\ target \in [1..MaxDecls -> 0..MaxDecls]
  /\ declared \in 0..MaxDecls
  /\ visited \in 0..MaxStatements
  /\ unchecked \subseteq {"inferred", "moved"}
  /\ error.kind \in {"none", "duplicate", "undefined", "reference scope"}
  /\ error.kind = "reference scope" =>
       error = RefScope(error.left, error.right) /\ {error.left, error.right} \subseteq m_declMap

Init ==
  /\ m_declMap = {}
  /\ depth = 0
  /\ stackStatements = <<>>
  /\ bodies = <<>>
  /\ target = [id \in 1..MaxDecls |-> 0]
  /\ declared = 0
  /\ visited = 0
  /\ unchecked = {}
  /\ error = NoError

-----------------------------------------------------------------------------
(* DeclScope. *)

\* What getDecl finds from the scope of that depth on outwards: the innermost
\* declaration of the name.
Found(name, from) ==
  {d \in m_declMap : /\ d.name = name
                     /\ d.depth <= from
                     /\ \A e \in m_declMap :
                          e.name = name /\ e.depth <= from => e.depth <= d.depth}

HasDecl(name, from) == Found(name, from) # {}
GetDecl(name, from) == CHOOSE d \in Found(name, from) : TRUE

\* A declaration must not hide another.  (Faulty variant: only the scope
\* itself is searched.)
IsDuplicateHere(name) == \E d \in m_declMap : d.name = name /\ d.depth = depth
IsDuplicate(name) == HasDecl(name, depth)

\* Where the scope ends its names do.
NamesEnd == {d \in m_declMap : d.depth < depth}

-----------------------------------------------------------------------------
(* Statements. *)

Fail(err) ==
  /\ error' = err
  /\ UNCHANGED <<m_declMap, depth, stackStatements, bodies, target, declared, visited, unchecked>>

\* A statement is pushed; the innermost body visits it.
Push(statements, open) ==
  /\ visited < MaxStatements
  /\ visited' = visited + 1
  /\ stackStatements' = Append(statements, visited + 1)
  /\ bodies' = [open EXCEPT ![Len(open)].visited = Append(@, visited + 1)]

\* What a block takes from the stack, and what it leaves.  (Faulty variant:
\* the loop ends one statement later.)
TakesOneMore(base) == IF base = 0 THEN 0 ELSE base - 1
TakesFrom(base) == base

BlockStatements(base) ==
  SubSeq(stackStatements, TakesFrom(base) + 1, Len(stackStatements))
BlockLeaves(base) == SubSeq(stackStatements, 1, TakesFrom(base))

\* A function's loop does go on one further, but ends with the stack.
FunctionStatements(base) ==
  SubSeq(stackStatements, TakesOneMore(base) + 1, Len(stackStatements))

Body == bodies[depth]

-----------------------------------------------------------------------------
(* Functions and blocks. *)

\* The parameters of visit(STDeclFunction): names and declared types.
Params == UNION {[1..n -> [name : Names, type : {"value", "reference"}]] : n \in 0..2}

BeginFunction(params) ==
  /\ error = NoError
  /\ depth = 0
  /\ IF \E i, j \in 1..Len(params) : i # j /\ params[i].name = params[j].name
     THEN Fail(Plain("duplicate"))
     ELSE /\ declared + Len(params) <= MaxDecls
          /\ m_declMap' = {[name |-> params[i].name, id |-> declared + i, depth |-> 1,
                            type |-> params[i].type] : i \in 1..Len(params)}
          /\ declared' = declared + Len(params)
          /\ depth' = 1
          /\ bodies' = <<[base |-> Len(stackStatements), visited |-> <<>>]>>
          /\ UNCHANGED <<stackStatements, target, visited, unchecked, error>>

EndFunction ==
  /\ error = NoError
  /\ depth = 1
  /\ m_declMap' = NamesEnd
  /\ depth' = 0
  /\ stackStatements' = SubSeq(stackStatements, 1, TakesOneMore(Body.base))
  /\ bodies' = <<>>
  /\ UNCHANGED <<target, declared, visited, unchecked, error>>

\* visit(STStmtListScoped).
BeginBlock ==
  /\ error = NoError
  /\ depth \in 1..(MaxDepth - 1)
  /\ depth' = depth + 1
  /\ bodies' = Append(bodies, [base |-> Len(stackStatements), visited |-> <<>>])
  /\ UNCHANGED <<m_declMap, stackStatements, target, declared, visited, unchecked, error>>

EndBlock ==
  /\ error = NoError
  /\ depth > 1
  /\ m_declMap' = NamesEnd
  /\ depth' = depth - 1
  /\ Push(BlockLeaves(Body.base), SubSeq(bodies, 1, depth - 1))
  /\ UNCHANGED <<target, declared, unchecked, error>>

-----------------------------------------------------------------------------
(* Variables. *)

\* The first value of a variable, or the right side of an assignment: the
\* address of a variable, the value of a reference, or neither.
Values == {[op |-> "literal"]} \cup [op : {"address", "value"}, name : Names]

Undefined(v) == v.op # "literal" /\ ~HasDecl(v.name, depth)
IsReference(v) ==
  \/ v.op = "address"
  \/ v.op = "value" /\ GetDecl(v.name, depth).type \in References

\* The type pass refuses the address of a reference.
IsWellTyped(v) == v.op = "address" => GetDecl(v.name, depth).type \notin References

Referred(v) ==
  IF ~IsReference(v) THEN 0
  ELSE IF v.op = "address" THEN GetDecl(v.name, depth).id
  ELSE target[GetDecl(v.name, depth).id]

\* visit(STDeclVar): the value is looked at before the name is visible.
DeclareVar(name, given, v) ==
  /\ error = NoError
  /\ depth > 0
  /\ IF IsDuplicate(name) THEN Fail(Plain("duplicate"))
     ELSE IF Undefined(v) THEN Fail(Plain("undefined"))
     ELSE /\ IsWellTyped(v)
          /\ given # "none" => (given = "reference" <=> IsReference(v))
          /\ declared < MaxDecls
          /\ declared' = declared + 1
          /\ m_declMap' = m_declMap \cup
               {[name |-> name, id |-> declared + 1, depth |-> depth,
                 type |-> IF given # "none" THEN given
                          ELSE IF IsReference(v) THEN "inferred reference"
                          ELSE "inferred value"]}
          /\ target' = [target EXCEPT ![declared + 1] = Referred(v)]
          /\ Push(stackStatements, bodies)
          /\ UNCHANGED <<depth, unchecked, error>>

\* visit(STExprVarRef) in an expression statement.
Use(name) ==
  /\ error = NoError
  /\ depth > 0
  /\ IF ~HasDecl(name, depth) THEN Fail(Plain("undefined"))
     ELSE /\ Push(stackStatements, bodies)
          /\ UNCHANGED <<m_declMap, depth, target, declared, unchecked, error>>

\* The check of visit(STStmtAssign): from the scope of the reference, the
\* variable whose address is taken must be visible; for the address of a member see
\* Outlived of AstExpressions.  (Faulty variant: it is searched
\* from where the statement stands.)
TooShortLivedHere(left, v) == left.type = "reference" /\ ~HasDecl(v.name, depth)
TooShortLived(left, v) == left.type = "reference" /\ ~HasDecl(v.name, left.depth)

Assign(name, v) ==
  /\ error = NoError
  /\ depth > 0
  /\ v.op # "literal"
  /\ IF ~HasDecl(name, depth) \/ Undefined(v) THEN Fail(Plain("undefined"))
     ELSE LET left == GetDecl(name, depth) IN
       /\ left.type \in References
       /\ IsWellTyped(v) /\ IsReference(v)
       /\ IF v.op = "address" /\ TooShortLived(left, v)
          THEN Fail(RefScope(left, GetDecl(v.name, depth)))
          ELSE /\ target' = [target EXCEPT ![left.id] = Referred(v)]
               /\ unchecked' = unchecked
                    \cup (IF v.op = "value" THEN {"moved"} ELSE {})
                    \cup (IF left.type = "inferred reference" THEN {"inferred"} ELSE {})
               /\ Push(stackStatements, bodies)
               /\ UNCHANGED <<m_declMap, depth, declared, error>>

Next ==
  \/ \E params \in Params : BeginFunction(params)
  \/ EndFunction \/ BeginBlock \/ EndBlock
  \/ \E name \in Names :
       \/ Use(name)
       \/ \E v \in Values :
            \/ \E given \in {"none", "value", "reference"} : DeclareVar(name, given, v)
            \/ Assign(name, v)

Spec == Init /\ [][Next]_vars

-----------------------------------------------------------------------------
\* No name is visible twice: what a name means never depends on how far out
\* getDecl looks.
NamesAreUnique == \A d, e \in m_declMap : d.name = e.name => d = e

\* A body takes exactly the statements it contains from the common stack.
BodyGetsItsOwn ==
  depth > 0 =>
    Body.visited = IF depth = 1 THEN FunctionStatements(Body.base)
                   ELSE BlockStatements(Body.base)

\* The variable of a reference that is visible is visible where the reference
\* was declared.
Outlived ==
  \A r \in m_declMap :
    r.type \in References /\ target[r.id] # 0 =>
      \E d \in m_declMap : d.id = target[r.id] /\ d.depth <= r.depth

\* References do not outlive their variables, as far as the check goes: it
\* looks at addresses that are assigned to variables declared as references.
RefsAreOutlived == unchecked = {} => Outlived

\* The check refuses nothing that would be safe: although it compares names,
\* what it refuses is a variable that ends before the reference.
RefusedWouldDangle ==
  error.kind = "reference scope" => error.right.depth > error.left.depth
=============================================================================
