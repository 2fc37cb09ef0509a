------------------------------ MODULE MoveCheck ------------------------------
(***************************************************************************)
(* The last check of a module (AstVisitorMoveCheck, run by PassMove): a    *)
(* value that was given to a new owner must not be used again.  One        *)
(* visitor walks every function; it keeps a MoveState per variable of the  *)
(* open scopes and one EvalMoveState, saved and restored around each       *)
(* expression that changes it.                                             *)
(*                                                                         *)
(* The program is not fixed beforehand: each step chooses the next         *)
(* construct the walk meets among those the earlier passes let through, so *)
(* the behaviours range over all well-typed modules within the bounds.     *)
(***************************************************************************)
EXTENDS Naturals, Sequences, SequencesExt

CONSTANTS
  Vars,        \* variable declarations (DeclVar, DeclParamVar)
  Kind,        \* "copied", "owned" or "ref": how a variable's type is treated
  MaxScopes,   \* bound: function and statement list scopes open at once
  MaxFrames,   \* bound: visits of expressions underway at once
  MaxArgs      \* bound: arguments of a call, members of an initialiser

Kinds == {"copied", "owned", "ref"}

ASSUME MoveCheckAssumption ==
  /\ Kind \in [Vars -> Kinds]
  /\ MaxScopes \in Nat
  /\ MaxFrames \in Nat
  /\ MaxArgs \in Nat

VARIABLES
  pc,               \* "module", "body" or "jumped" (an error was reported)
  error,            \* the reported error
  m_activeScope,    \* the declarations of each open scope, innermost last
  m_moveMap,        \* MoveState of each declaration of the open scopes
  m_evalMoveState,  \* [enabled, root]: its fields that are ever read
  frames,           \* the visit methods underway below the current statement
  declared,         \* variables whose declaration has been visited
  gone,             \* history: owned variables whose value has a new owner
  unseen,           \* history: those given away where the visitor never looks
  overcautious      \* history: variables moved by a use that gives nothing away

walk == <<pc, error>>
ghosts == <<gone, unseen, overcautious>>
vars == <<walk, m_activeScope, m_moveMap, m_evalMoveState, frames, declared, ghosts>>

-----------------------------------------------------------------------------
(***************************************************************************)
(* An expression that is still to be visited, as the passes before this    *)
(* one constrain it: its type, whether it may be anything or has to be a   *)
(* place (an lvalue) or part of one, whether it is an argument, and        *)
(* whether its value gets a new owner.                                     *)
(***************************************************************************)
Expr == [type : Kinds, form : {"any", "place", "part"}, arg : BOOLEAN, taken : BOOLEAN]

Taken(t)    == [type |-> t, form |-> "any", arg |-> FALSE, taken |-> TRUE]
Argument(t) == [type |-> t, form |-> "any", arg |-> TRUE, taken |-> TRUE]
Looked(t)   == [type |-> t, form |-> "any", arg |-> FALSE, taken |-> FALSE]
Place(t)    == [type |-> t, form |-> "place", arg |-> FALSE, taken |-> FALSE]
Part(t)     == [type |-> t, form |-> "part", arg |-> FALSE, taken |-> FALSE]

EvalMoveState == [enabled : BOOLEAN, root : BOOLEAN]

Tracking   == [enabled |-> TRUE, root |-> TRUE]
Untracked  == [enabled |-> FALSE, root |-> TRUE]

(***************************************************************************)
(* A visit underway: the expressions it has yet to visit, the evaluation   *)
(* state it restores when they are done (EvalMoveStateScope), what it does *)
(* then, to which variables, and the expressions that come after.          *)
(***************************************************************************)
Endings == {"nothing", "member", "receiver", "left", "init"}

Frame == [pending : Seq(Expr), saved : EvalMoveState, then : Endings,
          of : Expr, targets : SUBSET Vars, later : Seq(Expr)]

\* What a frame's end needs besides is given by EXCEPT.
Visit(exprs, then) ==
  [pending |-> exprs, saved |-> m_evalMoveState, then |-> then,
   of |-> Looked("copied"), targets |-> {}, later |-> <<>>]

MoveState == [moved : BOOLEAN, where : {"garbage", "null", "reference"}]

Registered == DOMAIN m_moveMap

TypeOK ==
  /\ pc \in {"module", "body", "jumped"}
  /\ error \in {"none", "UseAfterMove", "StructVar", "FnCallRValue", "Dereference"}
  /\ pc = "jumped" <=> error # "none"
  /\ m_activeScope \in Seq(SUBSET Vars)
  /\ Registered \subseteq Vars
  /\ m_moveMap \in [Registered -> MoveState]
  /\ m_evalMoveState \in EvalMoveState
  /\ frames \in Seq(Frame)
  /\ declared \subseteq Vars
  /\ gone \subseteq Vars
  /\ unseen \subseteq Vars
  /\ overcautious \subseteq Vars

Init ==
  /\ pc = "module"
  /\ error = "none"
  /\ m_activeScope = <<>>
  /\ m_moveMap = [v \in {} |-> [moved |-> TRUE, where |-> "garbage"]]
  /\ m_evalMoveState = Untracked
  /\ frames = <<>>
  /\ declared = {}
  /\ gone = {}
  /\ unseen = {}
  /\ overcautious = {}

-----------------------------------------------------------------------------
(* Scopes. *)

InScope == UNION ToSet(m_activeScope)

\* DeclScopeGuard's constructor: what is not in the map yet is inserted;
\* MoveState's initialiser says moved, and leaves the place undefined.
RegisterDecls(params, locals) ==
  /\ m_activeScope' = Append(m_activeScope, params \cup locals)
  /\ m_moveMap' = [v \in Registered \cup params \cup locals |->
                     IF v \in Registered THEN m_moveMap[v]
                     ELSE [moved |-> v \in locals, where |-> "garbage"]]
  /\ declared' = declared \cup params

\* Its destructor.
ForgetDecls(dead) ==
  /\ m_activeScope' = Front(m_activeScope)
  /\ m_moveMap' = [v \in Registered \ dead |-> m_moveMap[v]]
  /\ declared' = declared \ dead
  /\ gone' = gone \ dead
  /\ unseen' = unseen \ dead
  /\ overcautious' = overcautious \ dead

BetweenStatements == pc = "body" /\ frames = <<>>

EnterFunction(params, locals) ==
  /\ pc = "module"
  /\ pc' = "body"
  /\ RegisterDecls(params, locals)
  /\ UNCHANGED <<error, m_evalMoveState, frames, ghosts>>

LeaveFunction ==
  /\ BetweenStatements
  /\ Len(m_activeScope) = 1
  /\ pc' = "module"
  /\ ForgetDecls(Last(m_activeScope))
  /\ UNCHANGED <<error, m_evalMoveState, frames>>

\* A name is never declared twice in the scopes that are open.
EnterList(locals) ==
  /\ BetweenStatements
  /\ Len(m_activeScope) < MaxScopes
  /\ locals \cap InScope = {}
  /\ RegisterDecls({}, locals)
  /\ UNCHANGED <<walk, m_evalMoveState, frames, ghosts>>

LeaveList ==
  /\ BetweenStatements
  /\ Len(m_activeScope) > 1
  /\ ForgetDecls(Last(m_activeScope))
  /\ UNCHANGED <<walk, m_evalMoveState, frames>>

-----------------------------------------------------------------------------
(* Statements: each opens the first frame. *)

Statement(frame, eval) ==
  /\ BetweenStatements
  /\ frames' = <<frame>>
  /\ m_evalMoveState' = eval
  /\ UNCHANGED <<walk, m_activeScope, m_moveMap, declared, ghosts>>

\* Faulty variant of SetState: a new value does not free the variable.
SetStateNot(vs) ==
  /\ declared' = declared \cup vs
  /\ gone' = gone \ vs
  /\ unseen' = unseen \ vs
  /\ overcautious' = overcautious \ vs
  /\ UNCHANGED m_moveMap

\* The current values of vs are their own again.
SetState(vs) ==
  /\ m_moveMap' = [v \in Registered |->
                     IF v \in vs THEN [moved |-> FALSE, where |-> "null"] ELSE m_moveMap[v]]
  /\ declared' = declared \cup vs
  /\ gone' = gone \ vs
  /\ unseen' = unseen \ vs
  /\ overcautious' = overcautious \ vs

NotYetDeclared(v) == v \in Last(m_activeScope) \ declared

DeclareVar(v) ==
  /\ BetweenStatements
  /\ NotYetDeclared(v)
  /\ Kind[v] # "ref"
  /\ Statement([Visit(<<Taken(Kind[v])>>, "init") EXCEPT !.targets = {v}], Tracking)

Owned == {v \in declared : Kind[v] = "owned"}

\* The initialiser of a reference is not visited, whatever it gives away.
DeclareRef(v, given) ==
  /\ BetweenStatements
  /\ NotYetDeclared(v)
  /\ Kind[v] = "ref"
  /\ m_moveMap' = [m_moveMap EXCEPT ![v] = [moved |-> FALSE, where |-> "null"]]
  /\ declared' = declared \cup {v}
  /\ gone' = gone \cup given
  /\ unseen' = unseen \cup given
  /\ UNCHANGED <<walk, m_activeScope, m_evalMoveState, frames, overcautious>>

Return(t) == Statement(Visit(<<Taken(t)>>, "nothing"), Tracking)

\* The left side is visited first, under the state at hand; then the right
\* side.  Only a plain variable is its own again afterwards.
AssignVar(v) ==
  /\ v \in declared
  /\ Statement([Visit(<<>>, "left") EXCEPT !.targets = {v}, !.later = <<Taken(Kind[v])>>],
               m_evalMoveState)

AssignPlace(t) ==
  Statement([Visit(<<Part(t)>>, "left") EXCEPT !.later = <<Taken(t)>>], m_evalMoveState)

ExprStatement(t) == Statement(Visit(<<Looked(t)>>, "nothing"), m_evalMoveState)

-----------------------------------------------------------------------------
(* Expressions. *)

\* The visit that is furthest in, and the expression it visits next.
Top == Last(frames)
Current == Head(Top.pending)

Visiting == pc = "body" /\ frames # <<>> /\ Top.pending # <<>>

\* The stack of visits once the current expression has been chosen, without
\* and with a visit of its own.
Chosen == [frames EXCEPT ![Len(frames)].pending = Tail(@)]

Leaf == frames' = Chosen /\ UNCHANGED m_evalMoveState

Descend(frame, eval) ==
  /\ Len(frames) < MaxFrames
  /\ frames' = Append(Chosen, frame)
  /\ m_evalMoveState' = eval

KeepVariables == UNCHANGED <<walk, m_activeScope, m_moveMap, declared, ghosts>>

\* onError: every error of this pass is fatal, and the jump leaves every visit
\* without restoring anything.
Report(e) ==
  /\ error' = e
  /\ pc' = "jumped"
  /\ frames' = <<>>
  /\ UNCHANGED <<m_activeScope, m_moveMap, m_evalMoveState, declared, ghosts>>

\* visit(ExprVarRef) takes notice of the reference.
Tracks(v) == Kind[v] # "ref" /\ m_evalMoveState.enabled

VarRef(v) ==
  /\ Visiting
  /\ v \in declared
  /\ Current.type = Kind[v]
  /\ Current.form # "part"

\* The value gets a new owner.
Gives(v) == Current.taken /\ Kind[v] = "owned"

VarRefUntracked(v) ==
  /\ VarRef(v)
  /\ ~Tracks(v)
  /\ Leaf
  /\ gone' = IF Gives(v) THEN gone \cup {v} ELSE gone
  /\ UNCHANGED <<walk, m_activeScope, m_moveMap, declared, unseen, overcautious>>

\* Faulty variant of the test: a variable can be given away twice.
IsFreeAlways(v) == m_moveMap[v].moved \in BOOLEAN
IsFree(v) == ~m_moveMap[v].moved

VarRefMoves(v) ==
  /\ VarRef(v)
  /\ Tracks(v)
  /\ IsFree(v)
  /\ Leaf
  /\ m_moveMap' = [m_moveMap EXCEPT ![v] = [moved |-> TRUE, where |-> "reference"]]
  /\ IF Gives(v)
     THEN gone' = gone \cup {v} /\ UNCHANGED overcautious
     ELSE overcautious' = overcautious \cup {v} /\ UNCHANGED gone
  /\ UNCHANGED <<walk, m_activeScope, declared, unseen>>

VarRefRefused(v) ==
  /\ VarRef(v)
  /\ Tracks(v)
  /\ ~IsFree(v)
  /\ Report("UseAfterMove")

\* Literals, and self, which the visitor does not track.
LeafExpr ==
  /\ Visiting
  /\ Current.form = "any" \/ Current.type # "copied"
  /\ Leaf
  /\ KeepVariables

\* A cast is not visited; the calls in its operand may give values away.  It
\* yields a copied value or a reference.
Cast(given) ==
  /\ Visiting
  /\ Current.type # "owned"
  /\ Current.form = "any"
  /\ Leaf
  /\ gone' = gone \cup given
  /\ unseen' = unseen \cup given
  /\ UNCHANGED <<walk, m_activeScope, m_moveMap, declared, overcautious>>

\* Operators never move a variable.
AddressOf(t) ==
  /\ Visiting
  /\ Current.type = "ref"
  /\ Current.form = "any"
  /\ t # "ref"
  /\ Descend(Visit(<<Place(t)>>, "nothing"), Untracked)
  /\ KeepVariables

Arithmetic(n) ==
  /\ Visiting
  /\ Current.type = "copied"
  /\ Current.form = "any"
  /\ Descend(Visit([i \in 1..n |-> Looked("copied")], "nothing"), Untracked)
  /\ KeepVariables

MovesFromReference == Current.type = "owned" /\ m_evalMoveState.enabled

Dereference ==
  /\ Visiting
  /\ Current.type # "ref"
  /\ ~MovesFromReference
  /\ Descend(Visit(<<Looked("ref")>>, "nothing"), Untracked)
  /\ KeepVariables

DereferenceRefused ==
  /\ Visiting
  /\ MovesFromReference
  /\ Report("Dereference")

\* The struct is visited under the state at hand, as no longer the root.
Member(t) ==
  /\ Visiting
  /\ t # "copied"
  /\ Descend([Visit(<<Looked(t)>>, "member") EXCEPT !.of = Current],
             [m_evalMoveState EXCEPT !.root = FALSE])
  /\ KeepVariables

Returned(e) == e.form = "any" /\ ~(e.arg /\ e.type = "owned")

Call(types) ==
  /\ Visiting
  /\ Returned(Current)
  /\ Descend(Visit([i \in DOMAIN types |-> Argument(types[i])], "nothing"), Tracking)
  /\ KeepVariables

\* A call on a value: first the receiver, under the state at hand; it is
\* passed by its address.
TypeCall(t, types) ==
  /\ Visiting
  /\ t # "copied"
  /\ Returned(Current)
  /\ Descend([Visit(<<Looked(t)>>, "receiver")
                EXCEPT !.later = [i \in DOMAIN types |-> Argument(types[i])]],
             m_evalMoveState)
  /\ KeepVariables

StructInit(types) ==
  /\ Visiting
  /\ Current.type = "owned"
  /\ Returned(Current)
  /\ Descend(Visit([i \in DOMAIN types |-> Taken(types[i])], "nothing"), Tracking)
  /\ KeepVariables

\* The caller finds an owned argument that is not an lvalue.
ArgumentRefused ==
  /\ Visiting
  /\ Current.arg
  /\ Current.type = "owned"
  /\ Report("FnCallRValue")

-----------------------------------------------------------------------------
(* The end of a visit. *)

Done(then) ==
  /\ pc = "body"
  /\ frames # <<>>
  /\ Top.pending = <<>>
  /\ Top.then = then

\* EvalMoveStateScope's destructor.
Restore == m_evalMoveState' = Top.saved

Leave == frames' = Front(frames) /\ Restore

EndPlain ==
  /\ Done("nothing")
  /\ Leave
  /\ KeepVariables

\* DeclVar, and the right side of an assignment.
EndInit ==
  /\ Done("init")
  /\ Leave
  /\ SetState(Top.targets)
  /\ UNCHANGED <<walk, m_activeScope>>

\* The left side of an assignment is done, or the receiver of a call: what
\* comes next is tracked.
EndLeft ==
  /\ Done("left")
  /\ frames' = [frames EXCEPT ![Len(frames)] =
                  [Top EXCEPT !.pending = Top.later, !.later = <<>>, !.then = "init"]]
  /\ m_evalMoveState' = Tracking
  /\ KeepVariables

EndReceiver ==
  /\ Done("receiver")
  /\ frames' = [frames EXCEPT ![Len(frames)] =
                  [Top EXCEPT !.pending = Top.later, !.later = <<>>, !.then = "nothing"]]
  /\ m_evalMoveState' = Tracking
  /\ KeepVariables

\* visit(ExprStructVarRef) decides after the struct was visited.  (Faulty
\* variant: before it restored the state.)
MovesMemberInside ==
  m_evalMoveState.root /\ m_evalMoveState.enabled /\ Top.of.type = "owned"
MovesMember == Top.saved.root /\ Top.saved.enabled /\ Top.of.type = "owned"

EndMember ==
  /\ Done("member")
  /\ ~MovesMember
  /\ Leave
  /\ KeepVariables

MemberRefused ==
  /\ Done("member")
  /\ MovesMember
  /\ Report("StructVar")

-----------------------------------------------------------------------------
ArgLists == UNION {[1..n -> Kinds] : n \in 0..MaxArgs}

Statements ==
  \/ \E v \in Vars : DeclareVar(v) \/ AssignVar(v)
  \/ \E v \in Vars, given \in SUBSET Owned : DeclareRef(v, given)
  \/ \E t \in Kinds : Return(t) \/ AssignPlace(t) \/ ExprStatement(t)

Expressions ==
  \/ \E v \in Vars : VarRefUntracked(v) \/ VarRefMoves(v) \/ VarRefRefused(v)
  \/ LeafExpr
  \/ \E given \in SUBSET Owned : Cast(given)
  \/ \E t \in Kinds : AddressOf(t) \/ Member(t)
  \/ \E n \in 1..2 : Arithmetic(n)
  \/ Dereference \/ DereferenceRefused
  \/ \E types \in ArgLists : Call(types) \/ StructInit(types)
  \/ \E t \in Kinds, types \in ArgLists : TypeCall(t, types)
  \/ ArgumentRefused

Ends == EndPlain \/ EndInit \/ EndLeft \/ EndReceiver \/ EndMember \/ MemberRefused

Scopes ==
  \/ \E params, locals \in SUBSET Vars :
       params \cap locals = {} /\ EnterFunction(params, locals)
  \/ \E locals \in SUBSET Vars : EnterList(locals)
  \/ LeaveFunction \/ LeaveList

Next == Scopes \/ Statements \/ Expressions \/ Ends

Spec == Init /\ [][Next]_vars

-----------------------------------------------------------------------------
\* The map holds exactly the declarations of the open scopes: a declaration
\* that is entered finds no state left by a closed scope (insert() would keep
\* it), and findState always finds one.
ScopesMatch == Registered = InScope /\ declared \subseteq InScope

\* A variable whose value has a new owner is never accepted where its value
\* would get another one, across statements, nested scopes and nested calls.
\* (Values given away where the visitor does not look are set apart.)
GivenAwayOnce ==
  \A v \in gone \ unseen :
    VarRef(v) /\ Current.taken => Tracks(v) /\ ~IsFree(v)

\* When a use is refused, the error can name the reference that moved the
\* variable: the pointer MoveState leaves undefined was set since, and so was
\* the flag it starts with.
MoveIsExplained ==
  \A v \in declared : m_moveMap[v].moved =>
    /\ m_moveMap[v].where = "reference"
    /\ v \in gone \cup overcautious

\* Neither a member of a struct nor what a reference refers to is accepted
\* where its value would get a new owner, however deep in other expressions.
PartsAreNeverTaken ==
  /\ Visiting /\ Current.taken /\ Current.type = "owned" => MovesFromReference
  /\ Done("member") /\ Top.of.taken /\ Top.of.type = "owned" => MovesMember

\* Between two statements nothing is tracked: every EvalMoveStateScope of the
\* statement before has restored what it found.
RestsUntracked == BetweenStatements => m_evalMoveState = Untracked

=============================================================================
