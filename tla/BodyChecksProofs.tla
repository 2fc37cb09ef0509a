-------------------------- MODULE BodyChecksProofs --------------------------
(***************************************************************************)
(* Two of the checks that walk the bodies of functions.                    *)
(*                                                                         *)
(* What the move check guarantees for any set of variables and any depth   *)
(* of scopes, visits and argument lists: whatever it visits, a value is    *)
(* given away at most once.  The property is not inductive.  IInv adds     *)
(* that every expression whose value gets a new owner will be visited      *)
(* under the tracking state: the state at hand for the visit furthest in,  *)
(* and for each visit further out the state that the visit it is waiting   *)
(* for restores (StateOf).                                                 *)
(*                                                                         *)
(* What the return check guarantees however deep statement lists nest:     *)
(* the verdict on a body that has a statement is that on its last one.     *)
(* FlagInv adds how the flag follows the list furthest in.                 *)
(***************************************************************************)
EXTENDS MoveCheck, FnReturnCheck, SequenceTheorems, TLAPS

\* The evaluation state under which the k-th visit of fs continues, when ev is
\* the state at hand.
StateOf(fs, ev, k) == IF k = Len(fs) THEN ev ELSE fs[k + 1].saved

\* The expressions of es whose value gets a new owner are visited under ev.
TakenUnder(es, ev) == \A j \in 1..Len(es) : es[j].taken => ev = Tracking

Tracked(fs, ev) ==
  \A k \in 1..Len(fs) :
    /\ TakenUnder(fs[k].pending, StateOf(fs, ev, k))
    /\ fs[k].then = "member" /\ fs[k].of.taken => fs[k].saved = Tracking

\* The outermost visit restores the state between two statements.
Rests(fs, ev) ==
  /\ fs = <<>> => ev = Untracked
  /\ fs # <<>> => fs[1].saved = Untracked

TargetsIn(fs, vs) == \A k \in 1..Len(fs) : fs[k].targets \subseteq vs

DistinctScopes ==
  \A i, j \in 1..Len(m_activeScope) : i # j => m_activeScope[i] \cap m_activeScope[j] = {}

ScopeInv ==
  /\ ScopesMatch
  /\ DistinctScopes
  /\ pc = "module" => m_activeScope = <<>>
  /\ pc = "body" => m_activeScope # <<>>
  /\ pc # "body" => frames = <<>>
  /\ TargetsIn(frames, InScope)

GoneIsMoved ==
  \A v \in gone : /\ v \in declared
                  /\ Kind[v] = "owned"
                  /\ v \in unseen \/ m_moveMap[v].moved = TRUE

IInv ==
  /\ TypeOK
  /\ ScopeInv
  /\ Tracked(frames, m_evalMoveState)
  /\ pc # "jumped" => Rests(frames, m_evalMoveState)
  /\ GoneIsMoved
  /\ MoveIsExplained

-----------------------------------------------------------------------------
(* The stack of visits. *)

LEMMA ExprTypes ==
  ASSUME NEW t \in Kinds
  PROVE  /\ Taken(t) \in Expr /\ Argument(t) \in Expr /\ Looked(t) \in Expr
         /\ Place(t) \in Expr /\ Part(t) \in Expr
         /\ Looked(t).taken = FALSE /\ Place(t).taken = FALSE /\ Part(t).taken = FALSE
  BY DEF Taken, Argument, Looked, Place, Part, Expr

LEMMA StateTypes == Tracking \in EvalMoveState /\ Untracked \in EvalMoveState
  BY DEF Tracking, Untracked, EvalMoveState

\* The stack with its top visit replaced.
ReplaceTop(fs, f) == [fs EXCEPT ![Len(fs)] = f]

LEMMA ReplaceTopType ==
  ASSUME NEW fs \in Seq(Frame), fs # <<>>, NEW f \in Frame
  PROVE  /\ ReplaceTop(fs, f) \in Seq(Frame)
         /\ Len(ReplaceTop(fs, f)) = Len(fs)
         /\ ReplaceTop(fs, f) # <<>>
         /\ Len(fs) \in Nat /\ Len(fs) > 0
         /\ \A k \in 1..Len(fs) :
              ReplaceTop(fs, f)[k] = IF k = Len(fs) THEN f ELSE fs[k]
  BY DEF ReplaceTop

\* The top visit goes on under a new state, or the same, with expressions
\* that may be visited under it.
LEMMA ReplaceTopTracked ==
  ASSUME NEW fs \in Seq(Frame), fs # <<>>, NEW f \in Frame,
         NEW ev, NEW new,
         Tracked(fs, ev),
         TakenUnder(f.pending, new),
         f.then = "member" /\ f.of.taken => f.saved = Tracking,
         f.saved = fs[Len(fs)].saved
  PROVE  Tracked(ReplaceTop(fs, f), new)
<1> DEFINE gs == ReplaceTop(fs, f)
<1>1. /\ gs \in Seq(Frame) /\ Len(gs) = Len(fs) /\ Len(fs) \in Nat /\ Len(fs) > 0
      /\ \A k \in 1..Len(fs) : gs[k] = IF k = Len(fs) THEN f ELSE fs[k]
  BY ReplaceTopType
<1> HIDE DEF gs
<1>2. SUFFICES ASSUME NEW k \in 1..Len(gs)
               PROVE  /\ TakenUnder(gs[k].pending, StateOf(gs, new, k))
                      /\ gs[k].then = "member" /\ gs[k].of.taken => gs[k].saved = Tracking
  BY DEF Tracked, gs
<1>3. CASE k = Len(fs)
  <2>1. gs[k] = f /\ StateOf(gs, new, k) = new
    BY <1>1, <1>3 DEF StateOf
  <2> QED BY <2>1
<1>4. CASE k # Len(fs)
  <2>1. gs[k] = fs[k] /\ k + 1 \in 1..Len(fs) /\ k \in 1..Len(fs)
    BY <1>1, <1>4
  <2>2. gs[k + 1].saved = fs[k + 1].saved
    BY <1>1, <2>1
  <2>3. StateOf(gs, new, k) = StateOf(fs, ev, k)
    BY <1>1, <1>4, <2>2 DEF StateOf
  <2> QED BY <2>1, <2>3 DEF Tracked
<1> QED BY <1>3, <1>4

\* A visit is opened: it will restore the state at hand.
LEMMA PushTracked ==
  ASSUME NEW fs \in Seq(Frame), NEW f \in Frame, NEW ev, NEW new,
         Tracked(fs, ev),
         f.saved = ev,
         TakenUnder(f.pending, new),
         f.then = "member" /\ f.of.taken => f.saved = Tracking
  PROVE  Tracked(Append(fs, f), new)
<1> DEFINE gs == Append(fs, f)
<1>1. /\ Len(gs) = Len(fs) + 1 /\ Len(fs) \in Nat
      /\ gs[Len(fs) + 1] = f
      /\ \A k \in 1..Len(fs) : gs[k] = fs[k]
  OBVIOUS
<1> HIDE DEF gs
<1>2. SUFFICES ASSUME NEW k \in 1..Len(gs)
               PROVE  /\ TakenUnder(gs[k].pending, StateOf(gs, new, k))
                      /\ gs[k].then = "member" /\ gs[k].of.taken => gs[k].saved = Tracking
  BY DEF Tracked, gs
<1>3. CASE k = Len(gs)
  <2>1. gs[k] = f /\ StateOf(gs, new, k) = new
    BY <1>1, <1>3 DEF StateOf
  <2> QED BY <2>1
<1>4. CASE k # Len(gs)
  <2>1. k \in 1..Len(fs) /\ gs[k] = fs[k]
    BY <1>1, <1>4
  <2>2. StateOf(gs, new, k) = StateOf(fs, ev, k)
    <3>1. CASE k = Len(fs)
      BY <1>1, <1>4, <3>1 DEF StateOf
    <3>2. CASE k # Len(fs)
      <4>1. k + 1 \in 1..Len(fs) BY <2>1, <3>2, <1>1
      <4>2. gs[k + 1] = fs[k + 1] BY <1>1, <4>1
      <4> QED BY <1>4, <3>2, <4>2 DEF StateOf
    <3> QED BY <3>1, <3>2
  <2> QED BY <2>1, <2>2 DEF Tracked
<1> QED BY <1>3, <1>4

LEMMA FrontFacts ==
  ASSUME NEW S, NEW s \in Seq(S), s # <<>>
  PROVE  /\ Front(s) \in Seq(S)
         /\ Len(s) \in Nat /\ Len(s) > 0
         /\ Len(Front(s)) = Len(s) - 1
         /\ \A k \in 1..Len(Front(s)) : Front(s)[k] = s[k]
         /\ Last(s) = s[Len(s)] /\ Last(s) \in S
<1> DEFINE n == Len(s) - 1
<1>1. Len(s) \in Nat /\ Len(s) > 0 /\ n \in Nat
  OBVIOUS
<1>2. \A i \in 1..n : s[i] \in S
  BY <1>1
<1>3. Last(s) = s[Len(s)] /\ Last(s) \in S /\ Front(s) = SubSeq(s, 1, n)
  BY <1>1 DEF Last, Front
<1>4. n = Len(s) - 1
  OBVIOUS
<1> HIDE DEF n
<1>5. /\ SubSeq(s, 1, n) \in Seq(S)
      /\ Len(SubSeq(s, 1, n)) = IF 1 <= n THEN n - 1 + 1 ELSE 0
      /\ \A i \in 1..(n - 1 + 1) : SubSeq(s, 1, n)[i] = s[1 + i - 1]
  BY <1>1, <1>2, SubSeqProperties
<1>6. Len(SubSeq(s, 1, n)) = n
  BY <1>1, <1>5
<1>7. \A i \in 1..n : SubSeq(s, 1, n)[i] = s[i]
  BY <1>1, <1>5
<1> QED BY <1>1, <1>3, <1>4, <1>5, <1>6, <1>7

\* A visit ends: the one below goes on under the state it restores.
LEMMA PopTracked ==
  ASSUME NEW fs \in Seq(Frame), fs # <<>>, NEW ev, Tracked(fs, ev)
  PROVE  /\ Front(fs) \in Seq(Frame)
         /\ Tracked(Front(fs), Last(fs).saved)
<1> DEFINE gs == Front(fs)
<1>1. /\ gs \in Seq(Frame) /\ Len(gs) = Len(fs) - 1 /\ Len(fs) \in Nat /\ Len(fs) > 0
      /\ \A k \in 1..Len(gs) : gs[k] = fs[k]
  BY FrontFacts
<1> HIDE DEF gs
<1>2. SUFFICES ASSUME NEW k \in 1..Len(gs)
               PROVE  /\ TakenUnder(gs[k].pending, StateOf(gs, Last(fs).saved, k))
                      /\ gs[k].then = "member" /\ gs[k].of.taken => gs[k].saved = Tracking
  BY <1>1 DEF Tracked, gs
<1>3. k \in 1..Len(fs) /\ k # Len(fs) /\ gs[k] = fs[k]
  BY <1>1
<1>4. StateOf(gs, Last(fs).saved, k) = StateOf(fs, ev, k)
  <2>1. CASE k = Len(gs)
    BY <1>1, <1>3, <2>1 DEF StateOf, Last
  <2>2. CASE k # Len(gs)
    <3>1. k + 1 \in 1..Len(gs) BY <1>1, <2>2
    <3> QED BY <1>1, <1>3, <2>2, <3>1 DEF StateOf
  <2> QED BY <2>1, <2>2
<1> QED BY <1>3, <1>4 DEF Tracked

-----------------------------------------------------------------------------
(* What a step does to the stack of visits, apart from the variables. *)

\* The part of IInv about the visits underway in a body.
Visits(fs, ev) ==
  /\ fs \in Seq(Frame)
  /\ ev \in EvalMoveState
  /\ Tracked(fs, ev)
  /\ Rests(fs, ev)
  /\ TargetsIn(fs, InScope)

LEMMA VisitsHere == IInv /\ pc = "body" => Visits(frames, m_evalMoveState)
  BY DEF IInv, TypeOK, ScopeInv, Visits

LEMMA TopFacts ==
  ASSUME Visits(frames, m_evalMoveState), frames # <<>>
  PROVE  /\ Len(frames) \in Nat /\ Len(frames) > 0
         /\ Top = frames[Len(frames)] /\ Top \in Frame
         /\ Top.pending \in Seq(Expr) /\ Top.later \in Seq(Expr)
         /\ Top.saved \in EvalMoveState /\ Top.of \in Expr
         /\ Top.targets \subseteq InScope
         /\ TakenUnder(Top.pending, m_evalMoveState)
         /\ Top.then = "member" /\ Top.of.taken => Top.saved = Tracking
<1>1. /\ Len(frames) \in Nat /\ Len(frames) > 0
      /\ Top = frames[Len(frames)] /\ Top \in Frame
  BY FrontFacts DEF Visits, Top
<1>2. Len(frames) \in 1..Len(frames)
  BY <1>1
<1>3. StateOf(frames, m_evalMoveState, Len(frames)) = m_evalMoveState
  BY DEF StateOf
<1> QED BY <1>1, <1>2, <1>3 DEF Visits, Tracked, TargetsIn, Frame

\* The stack with the top visit's next expression taken off, or with other
\* expressions to visit.
LEMMA TopReplaced ==
  ASSUME Visits(frames, m_evalMoveState), frames # <<>>,
         NEW f \in Frame, NEW new \in EvalMoveState,
         f.saved = Top.saved, f.targets = Top.targets,
         TakenUnder(f.pending, new),
         f.then = "member" /\ f.of.taken => f.saved = Tracking
  PROVE  Visits(ReplaceTop(frames, f), new) /\ ReplaceTop(frames, f) # <<>>
<1> DEFINE gs == ReplaceTop(frames, f)
<1>1. frames \in Seq(Frame) /\ Top = frames[Len(frames)]
  BY TopFacts DEF Visits
<1>2. /\ gs \in Seq(Frame) /\ Len(gs) = Len(frames) /\ Len(frames) \in Nat /\ Len(frames) > 0
      /\ gs # <<>>
      /\ \A k \in 1..Len(frames) : gs[k] = IF k = Len(frames) THEN f ELSE frames[k]
  BY <1>1, ReplaceTopType
<1>3. Tracked(gs, new)
  BY <1>1, ReplaceTopTracked DEF Visits
<1> HIDE DEF gs
<1>4. gs[1].saved = frames[1].saved
  BY <1>1, <1>2
<1>5. TargetsIn(gs, InScope)
  BY <1>1, <1>2 DEF TargetsIn, Visits
<1>6. Rests(gs, new)
  BY <1>2, <1>4 DEF Rests, Visits
<1> QED BY <1>2, <1>3, <1>5, <1>6 DEF Visits, gs

LEMMA ChosenFacts ==
  ASSUME Visits(frames, m_evalMoveState), Visiting
  PROVE  /\ Visits(Chosen, m_evalMoveState) /\ Chosen # <<>>
         /\ Current \in Expr
         /\ Current.taken => m_evalMoveState = Tracking
<1>1. /\ Top = frames[Len(frames)] /\ Top \in Frame /\ Top.pending \in Seq(Expr)
      /\ TakenUnder(Top.pending, m_evalMoveState)
      /\ Top.then = "member" /\ Top.of.taken => Top.saved = Tracking
      /\ frames # <<>> /\ Top.pending # <<>>
      /\ m_evalMoveState \in EvalMoveState
  BY TopFacts DEF Visiting, Visits
<1>2. /\ Current = Top.pending[1] /\ 1 \in 1..Len(Top.pending)
      /\ Current \in Expr
      /\ Tail(Top.pending) \in Seq(Expr)
      /\ Len(Tail(Top.pending)) = Len(Top.pending) - 1
      /\ Len(Top.pending) \in Nat
      /\ \A j \in 1..Len(Tail(Top.pending)) : Tail(Top.pending)[j] = Top.pending[j + 1]
  BY <1>1 DEF Current
<1>3. Current.taken => m_evalMoveState = Tracking
  BY <1>1, <1>2 DEF TakenUnder
<1>4. TakenUnder(Tail(Top.pending), m_evalMoveState)
  BY <1>1, <1>2 DEF TakenUnder
<1> DEFINE f == [Top EXCEPT !.pending = Tail(Top.pending)]
<1>5. f \in Frame /\ f.saved = Top.saved /\ f.targets = Top.targets
      /\ f.pending = Tail(Top.pending) /\ f.then = Top.then /\ f.of = Top.of
  BY <1>1, <1>2 DEF Frame
<1>6. Chosen = ReplaceTop(frames, f)
  BY <1>1 DEF Chosen, ReplaceTop
<1> HIDE DEF f
<1>7. Visits(ReplaceTop(frames, f), m_evalMoveState) /\ ReplaceTop(frames, f) # <<>>
  BY <1>1, <1>4, <1>5, TopReplaced
<1> QED BY <1>2, <1>3, <1>6, <1>7

LEMMA DescendFacts ==
  ASSUME Visits(frames, m_evalMoveState), Visiting,
         NEW f \in Frame, NEW ev \in EvalMoveState,
         f.saved = m_evalMoveState, f.targets = {},
         TakenUnder(f.pending, ev),
         f.then = "member" /\ f.of.taken => f.saved = Tracking
  PROVE  Visits(Append(Chosen, f), ev)
<1>1. Visits(Chosen, m_evalMoveState) /\ Chosen # <<>>
  BY ChosenFacts
<1> DEFINE gs == Append(Chosen, f)
<1>2. /\ gs \in Seq(Frame) /\ Len(gs) = Len(Chosen) + 1 /\ Len(Chosen) \in Nat
      /\ Len(Chosen) > 0 /\ gs # <<>>
      /\ gs[Len(Chosen) + 1] = f
      /\ \A k \in 1..Len(Chosen) : gs[k] = Chosen[k]
  BY <1>1 DEF Visits
<1>3. Tracked(gs, ev)
  BY <1>1, PushTracked DEF Visits
<1> HIDE DEF gs
<1>4. TargetsIn(gs, InScope)
  BY <1>1, <1>2 DEF Visits, TargetsIn
<1>5. Rests(gs, ev)
  BY <1>1, <1>2 DEF Visits, Rests
<1> QED BY <1>2, <1>3, <1>4, <1>5 DEF Visits, gs

LEMMA LeaveFacts ==
  ASSUME Visits(frames, m_evalMoveState), frames # <<>>
  PROVE  Visits(Front(frames), Top.saved)
<1>1. /\ frames \in Seq(Frame) /\ Len(frames) \in Nat /\ Len(frames) > 0
      /\ Top = frames[Len(frames)] /\ Top.saved \in EvalMoveState
  BY TopFacts DEF Visits
<1>2. /\ Front(frames) \in Seq(Frame)
      /\ Len(Front(frames)) = Len(frames) - 1
      /\ \A k \in 1..Len(Front(frames)) : Front(frames)[k] = frames[k]
  BY <1>1, FrontFacts
<1>3. Tracked(Front(frames), Top.saved)
  BY <1>1, PopTracked DEF Visits, Top
<1>4. TargetsIn(Front(frames), InScope)
  BY <1>1, <1>2 DEF Visits, TargetsIn
<1>5. Rests(Front(frames), Top.saved)
  <2>1. CASE Len(frames) = 1
    <3>1. Front(frames) = <<>>
      BY <1>1, <1>2, <2>1
    <3> QED BY <1>1, <2>1, <3>1 DEF Visits, Rests
  <2>2. CASE Len(frames) # 1
    <3>1. Front(frames) # <<>> /\ Front(frames)[1] = frames[1]
      BY <1>1, <1>2, <2>2
    <3> QED BY <1>1, <3>1 DEF Visits, Rests
  <2> QED BY <2>1, <2>2
<1> QED BY <1>1, <1>2, <1>3, <1>4, <1>5 DEF Visits

LEMMA VisitFacts ==
  ASSUME NEW es \in Seq(Expr), NEW then \in Endings, m_evalMoveState \in EvalMoveState
  PROVE  Visit(es, then) \in Frame
<1>1. Looked("copied") \in Expr
  BY ExprTypes DEF Kinds
<1>2. <<>> \in Seq(Expr)
  OBVIOUS
<1> QED BY <1>1, <1>2 DEF Visit, Frame

LEMMA VisitFields ==
  ASSUME NEW es, NEW then
  PROVE  /\ Visit(es, then).pending = es
         /\ Visit(es, then).saved = m_evalMoveState
         /\ Visit(es, then).then = then
         /\ Visit(es, then).targets = {}
  BY DEF Visit

LEMMA VisitOne ==
  ASSUME NEW e \in Expr, NEW then \in Endings, m_evalMoveState \in EvalMoveState
  PROVE  Visit(<<e>>, then) \in Frame
<1>1. <<e>> \in Seq(Expr)
  OBVIOUS
<1> QED BY <1>1, VisitFacts

LEMMA VisitNone ==
  ASSUME NEW then \in Endings, m_evalMoveState \in EvalMoveState
  PROVE  Visit(<<>>, then) \in Frame
<1>1. <<>> \in Seq(Expr)
  OBVIOUS
<1> QED BY <1>1, VisitFacts

LEMMA LastScope ==
  ASSUME m_activeScope \in Seq(SUBSET Vars), m_activeScope # <<>>
  PROVE  Last(m_activeScope) \subseteq InScope
<1>1. /\ Len(m_activeScope) \in Nat /\ Len(m_activeScope) > 0
      /\ Last(m_activeScope) = m_activeScope[Len(m_activeScope)]
  BY FrontFacts
<1>2. Len(m_activeScope) \in 1..Len(m_activeScope)
  BY <1>1
<1> QED BY <1>1, <1>2 DEF InScope, ToSet

LEMMA OneExpr ==
  ASSUME NEW e \in Expr, NEW ev, e.taken => ev = Tracking
  PROVE  <<e>> \in Seq(Expr) /\ TakenUnder(<<e>>, ev)
  BY DEF TakenUnder

LEMMA FirstVisit ==
  ASSUME IInv, BetweenStatements,
         NEW f \in Frame, NEW ev \in EvalMoveState,
         f.saved = m_evalMoveState, f.targets \subseteq InScope,
         TakenUnder(f.pending, ev), f.then # "member"
  PROVE  Visits(<<f>>, ev)
<1>1. m_evalMoveState = Untracked
  BY DEF IInv, Rests, BetweenStatements
<1>2. <<f>> \in Seq(Frame) /\ Len(<<f>>) = 1 /\ <<f>>[1] = f /\ <<f>> # <<>>
  OBVIOUS
<1>3. Tracked(<<f>>, ev)
  BY <1>2 DEF Tracked, StateOf
<1>4. Rests(<<f>>, ev) /\ TargetsIn(<<f>>, InScope)
  BY <1>1, <1>2 DEF Rests, TargetsIn
<1> QED BY <1>2, <1>3, <1>4 DEF Visits

-----------------------------------------------------------------------------
(* Steps within a body, by what they do to the variables. *)

LEMMA BodyStep ==
  ASSUME IInv, pc = "body", UNCHANGED <<walk, m_activeScope>>,
         Visits(frames', m_evalMoveState'),
         m_moveMap' \in [Registered -> MoveState],
         declared' \subseteq InScope,
         gone' \subseteq Vars, unseen' \subseteq Vars, overcautious' \subseteq Vars,
         GoneIsMoved', MoveIsExplained'
  PROVE  IInv'
<1>1. InScope' = InScope
  BY DEF InScope
<1>2. Registered' = Registered /\ Registered = InScope /\ InScope \subseteq Vars
  BY DEF Registered, IInv, ScopeInv, ScopesMatch, TypeOK
<1>3. TypeOK'
  BY <1>2 DEF TypeOK, IInv, Visits, walk
<1>4. ScopesMatch' /\ DistinctScopes'
  BY <1>1, <1>2 DEF ScopesMatch, DistinctScopes, IInv, ScopeInv
<1>5. ScopeInv'
  BY <1>1, <1>4 DEF ScopeInv, IInv, Visits, walk
<1> QED BY <1>3, <1>5 DEF IInv, Visits

LEMMA KeepStep ==
  ASSUME IInv, pc = "body", KeepVariables, Visits(frames', m_evalMoveState')
  PROVE  IInv'
<1>1. UNCHANGED <<walk, m_activeScope, m_moveMap, declared, gone, unseen, overcautious>>
  BY DEF KeepVariables, ghosts
<1>2. /\ m_moveMap' \in [Registered -> MoveState]
      /\ declared' \subseteq InScope
      /\ gone' \subseteq Vars /\ unseen' \subseteq Vars /\ overcautious' \subseteq Vars
  BY <1>1 DEF IInv, TypeOK, ScopeInv, ScopesMatch
<1>3. GoneIsMoved' /\ MoveIsExplained'
  BY <1>1 DEF IInv, GoneIsMoved, MoveIsExplained
<1> QED BY <1>1, <1>2, <1>3, BodyStep

LEMMA RefusedStep ==
  ASSUME IInv, pc = "body",
         NEW e \in {"UseAfterMove", "StructVar", "FnCallRValue", "Dereference"}, Report(e)
  PROVE  IInv'
<1>1. UNCHANGED <<m_activeScope, m_moveMap, m_evalMoveState, declared, gone, unseen, overcautious>>
      /\ pc' = "jumped" /\ error' = e /\ frames' = <<>>
  BY DEF Report, ghosts
<1>2. TypeOK'
  BY <1>1 DEF IInv, TypeOK, Registered
<1>3. InScope' = InScope /\ Registered' = Registered
  BY <1>1 DEF InScope, Registered
<1>4. ScopeInv'
  BY <1>1, <1>3 DEF IInv, ScopeInv, ScopesMatch, DistinctScopes, TargetsIn
<1>5. Tracked(frames', m_evalMoveState')
  BY <1>1 DEF Tracked
<1>6. GoneIsMoved' /\ MoveIsExplained'
  BY <1>1 DEF IInv, GoneIsMoved, MoveIsExplained
<1> QED BY <1>1, <1>2, <1>4, <1>5, <1>6 DEF IInv

\* Some owned variables are given away where the visitor does not look.
LEMMA UnseenStep ==
  ASSUME IInv, pc = "body", Visits(frames', m_evalMoveState'),
         UNCHANGED <<walk, m_activeScope, m_moveMap, declared, overcautious>>,
         NEW given \in SUBSET Owned, gone' = gone \cup given, unseen' = unseen \cup given
  PROVE  IInv'
<1>1. /\ m_moveMap' \in [Registered -> MoveState]
      /\ declared' \subseteq InScope /\ declared \subseteq Vars
      /\ gone' \subseteq Vars /\ unseen' \subseteq Vars /\ overcautious' \subseteq Vars
  BY DEF IInv, TypeOK, ScopeInv, ScopesMatch, Owned
<1>2. GoneIsMoved'
  BY DEF IInv, GoneIsMoved, Owned
<1>3. MoveIsExplained'
  BY DEF IInv, MoveIsExplained
<1> QED BY <1>1, <1>2, <1>3, BodyStep

\* The variables vs get values of their own.
LEMMA SetStep ==
  ASSUME IInv, pc = "body", Visits(frames', m_evalMoveState'),
         UNCHANGED <<walk, m_activeScope>>,
         NEW vs \in SUBSET InScope, SetState(vs)
  PROVE  IInv'
<1>1. /\ InScope = Registered /\ declared \subseteq InScope /\ InScope \subseteq Vars
      /\ m_moveMap \in [Registered -> MoveState]
  BY DEF IInv, TypeOK, ScopeInv, ScopesMatch
<1>2. [moved |-> FALSE, where |-> "null"] \in MoveState
  BY DEF MoveState
<1>3. /\ m_moveMap' \in [Registered -> MoveState]
      /\ \A v \in Registered \ vs : m_moveMap'[v] = m_moveMap[v]
      /\ \A v \in vs : m_moveMap'[v] = [moved |-> FALSE, where |-> "null"]
  BY <1>1, <1>2 DEF SetState
<1>4. /\ declared' \subseteq InScope
      /\ gone' \subseteq Vars /\ unseen' \subseteq Vars /\ overcautious' \subseteq Vars
  BY <1>1 DEF SetState, IInv, TypeOK
<1>5. GoneIsMoved'
  BY <1>1, <1>3 DEF IInv, GoneIsMoved, SetState
<1>6. MoveIsExplained'
  BY <1>1, <1>3 DEF IInv, MoveIsExplained, SetState
<1> QED BY <1>3, <1>4, <1>5, <1>6, BodyStep

-----------------------------------------------------------------------------
(* The actions. *)

LEMMA ScopeSteps ==
  ASSUME IInv, Scopes
  PROVE  IInv'
<1>1. ASSUME NEW params \in SUBSET Vars, NEW locals \in SUBSET Vars,
             params \cap locals = {}, pc = "body" \/ pc = "module", frames = <<>>,
             (params \cup locals) \cap InScope = {},
             RegisterDecls(params, locals), pc' = "body",
             UNCHANGED <<error, m_evalMoveState, frames, ghosts>>
      PROVE  IInv'
  <2>1. /\ InScope = Registered /\ declared \subseteq InScope /\ InScope \subseteq Vars
        /\ m_moveMap \in [Registered -> MoveState]
        /\ m_activeScope \in Seq(SUBSET Vars)
    BY <1>1 DEF IInv, TypeOK, ScopeInv, ScopesMatch
  <2> DEFINE new == params \cup locals
  <2>2. /\ m_activeScope' = Append(m_activeScope, new)
        /\ m_activeScope' \in Seq(SUBSET Vars)
        /\ Len(m_activeScope') = Len(m_activeScope) + 1
        /\ Len(m_activeScope) \in Nat
        /\ m_activeScope' # <<>>
        /\ m_activeScope'[Len(m_activeScope) + 1] = new
        /\ \A k \in 1..Len(m_activeScope) : m_activeScope'[k] = m_activeScope[k]
    BY <1>1, <2>1 DEF RegisterDecls
  <2>3. InScope' = InScope \cup new
    <3>1. InScope = UNION {m_activeScope[k] : k \in 1..Len(m_activeScope)}
      BY <2>1 DEF InScope, ToSet
    <3>2. InScope' = UNION {m_activeScope'[k] : k \in 1..Len(m_activeScope')}
      BY <2>2 DEF InScope, ToSet
    <3> QED BY <2>2, <3>1, <3>2
  <2>4. /\ Registered' = Registered \cup new
        /\ m_moveMap' \in [Registered' -> MoveState]
        /\ \A v \in Registered : m_moveMap'[v] = m_moveMap[v]
        /\ \A v \in params : m_moveMap'[v].moved = FALSE
    <3> DEFINE start(v) == [moved |-> v \in locals, where |-> "garbage"]
    <3>1. \A v : start(v) \in MoveState
      <4>1. \A v : (v \in locals) \in BOOLEAN
        OBVIOUS
      <4> QED BY <4>1 DEF MoveState
    <3>2. \A v \in params : start(v).moved = FALSE
      <4>1. \A v \in params : (v \in locals) = FALSE
        BY <1>1
      <4> QED BY <4>1
    <3>3. m_moveMap' = [v \in Registered \cup params \cup locals |->
                          IF v \in Registered THEN m_moveMap[v] ELSE start(v)]
      BY <1>1 DEF RegisterDecls
    <3> HIDE DEF start
    <3>4. Registered \cap params = {}
      BY <1>1, <2>1
    <3> QED BY <2>1, <3>1, <3>2, <3>3, <3>4 DEF Registered
  <2>5. /\ declared' = declared \cup params
        /\ UNCHANGED <<error, m_evalMoveState, frames, gone, unseen, overcautious>>
    BY <1>1 DEF RegisterDecls, ghosts
  <2>6. TypeOK'
    BY <1>1, <2>1, <2>2, <2>4, <2>5 DEF IInv, TypeOK
  <2>7. ScopesMatch'
    BY <2>1, <2>3, <2>4, <2>5 DEF ScopesMatch
  <2>8. DistinctScopes'
    <3>1. \A k \in 1..Len(m_activeScope) : m_activeScope[k] \subseteq InScope
      BY <2>1 DEF InScope, ToSet
    <3> QED BY <1>1, <2>2, <3>1 DEF DistinctScopes, IInv, ScopeInv
  <2>9. ScopeInv'
    BY <1>1, <2>2, <2>5, <2>7, <2>8 DEF ScopeInv, TargetsIn
  <2>10. Tracked(frames', m_evalMoveState') /\ Rests(frames', m_evalMoveState')
    BY <1>1, <2>5 DEF IInv
  <2>11. GoneIsMoved'
    BY <2>1, <2>4, <2>5 DEF IInv, GoneIsMoved
  <2>12. MoveIsExplained'
    BY <2>1, <2>4, <2>5 DEF IInv, MoveIsExplained
  <2> QED BY <2>6, <2>9, <2>10, <2>11, <2>12 DEF IInv
<1>2. ASSUME BetweenStatements, m_activeScope # <<>>, ForgetDecls(Last(m_activeScope)),
             UNCHANGED <<error, m_evalMoveState, frames>>,
             \/ pc' = "module" /\ Len(m_activeScope) = 1
             \/ pc' = "body" /\ Len(m_activeScope) > 1
      PROVE  IInv'
  <2> DEFINE dead == Last(m_activeScope)
             n == Len(m_activeScope)
  <2>1. /\ InScope = Registered /\ declared \subseteq InScope /\ InScope \subseteq Vars
        /\ m_moveMap \in [Registered -> MoveState]
        /\ m_activeScope \in Seq(SUBSET Vars)
        /\ DistinctScopes
    BY DEF IInv, TypeOK, ScopeInv, ScopesMatch
  <2>2. /\ m_activeScope' = Front(m_activeScope)
        /\ m_activeScope' \in Seq(SUBSET Vars)
        /\ n \in Nat /\ n > 0
        /\ Len(m_activeScope') = n - 1
        /\ dead = m_activeScope[n]
        /\ \A k \in 1..(n - 1) : m_activeScope'[k] = m_activeScope[k]
    BY <1>2, <2>1, FrontFacts DEF ForgetDecls
  <2>3. InScope' = InScope \ dead
    <3>1. InScope = UNION {m_activeScope[k] : k \in 1..n}
      BY <2>1 DEF InScope, ToSet
    <3>2. InScope' = UNION {m_activeScope'[k] : k \in 1..(n - 1)}
      BY <2>2 DEF InScope, ToSet
    <3>3. \A k \in 1..(n - 1) : m_activeScope[k] \cap dead = {}
      BY <2>1, <2>2 DEF DistinctScopes
    <3>4. 1..n = (1..(n - 1)) \cup {n}
      BY <2>2
    <3> QED BY <2>2, <3>1, <3>2, <3>3, <3>4
  <2>4. /\ Registered' = Registered \ dead
        /\ m_moveMap' \in [Registered' -> MoveState]
        /\ \A v \in Registered' : m_moveMap'[v] = m_moveMap[v]
    BY <1>2, <2>1 DEF ForgetDecls, Registered
  <2>5. /\ declared' = declared \ dead /\ gone' = gone \ dead /\ unseen' = unseen \ dead
        /\ overcautious' = overcautious \ dead
        /\ UNCHANGED <<error, m_evalMoveState, frames>>
        /\ frames = <<>> /\ pc = "body"
    BY <1>2 DEF ForgetDecls, BetweenStatements
  <2>6. TypeOK'
    BY <1>2, <2>1, <2>2, <2>4, <2>5 DEF IInv, TypeOK
  <2>7. ScopesMatch'
    BY <2>1, <2>3, <2>4, <2>5 DEF ScopesMatch
  <2>8. DistinctScopes'
    BY <2>1, <2>2 DEF DistinctScopes
  <2>9. ScopeInv'
    <3>1. pc' = "module" => m_activeScope' = <<>>
      BY <1>2, <2>2
    <3>2. pc' = "body" => m_activeScope' # <<>>
      BY <1>2, <2>2
    <3> QED BY <2>5, <2>7, <2>8, <3>1, <3>2 DEF ScopeInv, TargetsIn
  <2>10. Tracked(frames', m_evalMoveState') /\ Rests(frames', m_evalMoveState')
    BY <2>5 DEF IInv
  <2>11. GoneIsMoved'
    BY <2>1, <2>4, <2>5 DEF IInv, GoneIsMoved
  <2>12. MoveIsExplained'
    BY <2>1, <2>4, <2>5 DEF IInv, MoveIsExplained
  <2> QED BY <2>6, <2>9, <2>10, <2>11, <2>12 DEF IInv
<1>3. ASSUME NEW params \in SUBSET Vars, NEW locals \in SUBSET Vars,
             params \cap locals = {}, EnterFunction(params, locals)
      PROVE  IInv'
  <2>1. InScope = {} /\ frames = <<>> /\ pc = "module"
    BY <1>3 DEF EnterFunction, IInv, ScopeInv, InScope, ToSet
  <2> QED BY <1>1, <1>3, <2>1 DEF EnterFunction
<1>4. ASSUME NEW locals \in SUBSET Vars, EnterList(locals)
      PROVE  IInv'
  <2>1. UNCHANGED <<error, m_evalMoveState, frames, ghosts>> /\ pc = "body" /\ pc' = "body"
        /\ frames = <<>> /\ RegisterDecls({}, locals) /\ locals \cap InScope = {}
    BY <1>4 DEF EnterList, BetweenStatements, walk
  <2> QED BY <1>1, <2>1
<1>5. CASE LeaveFunction
  <2>1. m_activeScope # <<>>
    BY <1>5 DEF LeaveFunction, IInv, ScopeInv, BetweenStatements
  <2> QED BY <1>2, <1>5, <2>1 DEF LeaveFunction
<1>6. CASE LeaveList
  <2>1. m_activeScope # <<>> /\ pc = "body" /\ pc' = pc /\ error' = error
    BY <1>6 DEF LeaveList, IInv, ScopeInv, BetweenStatements, walk
  <2> QED BY <1>2, <1>6, <2>1 DEF LeaveList
<1> QED BY <1>3, <1>4, <1>5, <1>6 DEF Scopes

LEMMA StatementSteps ==
  ASSUME IInv, Statements
  PROVE  IInv'
<1>1. /\ InScope = Registered /\ declared \subseteq InScope /\ InScope \subseteq Vars
      /\ m_evalMoveState \in EvalMoveState
  BY DEF IInv, TypeOK, ScopeInv, ScopesMatch
<1>2. ASSUME NEW f \in Frame, NEW ev \in EvalMoveState, Statement(f, ev),
             f.saved = m_evalMoveState, f.targets \subseteq InScope,
             TakenUnder(f.pending, ev), f.then # "member"
      PROVE  IInv'
  <2>1. BetweenStatements /\ frames' = <<f>> /\ m_evalMoveState' = ev /\ KeepVariables
    BY <1>2 DEF Statement, KeepVariables
  <2>2. Visits(frames', m_evalMoveState')
    BY <1>2, <2>1, FirstVisit
  <2> QED BY <2>1, <2>2, KeepStep DEF BetweenStatements
<1>3. ASSUME NEW v \in Vars, DeclareVar(v)
      PROVE  IInv'
  <2> DEFINE f == [Visit(<<Taken(Kind[v])>>, "init") EXCEPT !.targets = {v}]
  <2>1. v \in InScope
    <3>1. m_activeScope # <<>>
      BY <1>3 DEF DeclareVar, BetweenStatements, IInv, ScopeInv
    <3>2. Last(m_activeScope) \subseteq InScope
      BY <3>1, LastScope DEF IInv, TypeOK
    <3> QED BY <1>3, <3>2 DEF DeclareVar, NotYetDeclared
  <2>2. Taken(Kind[v]) \in Expr
    BY ExprTypes, MoveCheckAssumption
  <2>3. f \in Frame /\ f.saved = m_evalMoveState /\ f.targets = {v} /\ f.then = "init"
        /\ f.pending = <<Taken(Kind[v])>>
    <3> DEFINE g == Visit(<<Taken(Kind[v])>>, "init")
    <3>1. g \in Frame /\ g.saved = m_evalMoveState /\ g.then = "init"
          /\ g.pending = <<Taken(Kind[v])>>
      BY <1>1, <2>2, VisitOne DEF Endings, Visit
    <3> HIDE DEF g
    <3>2. [g EXCEPT !.targets = {v}] \in Frame
      BY <3>1 DEF Frame
    <3> QED BY <3>1, <3>2 DEF Frame, g
  <2>4. TakenUnder(f.pending, Tracking)
    BY <2>2, <2>3, OneExpr
  <2>5. Statement(f, Tracking)
    BY <1>3 DEF DeclareVar
  <2> HIDE DEF f
  <2> QED BY <1>2, <2>1, <2>3, <2>4, <2>5, StateTypes
<1>4. ASSUME NEW v \in Vars, AssignVar(v)
      PROVE  IInv'
  <2> DEFINE f == [Visit(<<>>, "left") EXCEPT !.targets = {v}, !.later = <<Taken(Kind[v])>>]
  <2>1. v \in InScope
    BY <1>1, <1>4 DEF AssignVar
  <2>2. Taken(Kind[v]) \in Expr
    BY ExprTypes, MoveCheckAssumption
  <2>3. f \in Frame /\ f.saved = m_evalMoveState /\ f.targets = {v} /\ f.then = "left"
        /\ f.pending = <<>>
    <3> DEFINE g == Visit(<<>>, "left")
               es == <<Taken(Kind[v])>>
    <3>1. es \in Seq(Expr)
      BY <2>2
    <3>2. g \in Frame /\ g.saved = m_evalMoveState /\ g.then = "left" /\ g.pending = <<>>
      BY <1>1, VisitNone DEF Endings, Visit
    <3> HIDE DEF g, es
    <3>3. [g EXCEPT !.targets = {v}, !.later = es] \in Frame
      BY <3>1, <3>2 DEF Frame
    <3> QED BY <3>2, <3>3 DEF Frame, g, es
  <2>4. TakenUnder(f.pending, m_evalMoveState)
    BY <2>3 DEF TakenUnder
  <2>5. Statement(f, m_evalMoveState)
    BY <1>4 DEF AssignVar
  <2> HIDE DEF f
  <2> QED BY <1>1, <1>2, <2>1, <2>3, <2>4, <2>5
<1>5. ASSUME NEW v \in Vars, NEW given \in SUBSET Owned, DeclareRef(v, given)
      PROVE  IInv'
  <2>1. /\ pc = "body" /\ frames = <<>> /\ v \in InScope /\ Kind[v] = "ref"
        /\ v \notin declared
    <3>1. m_activeScope # <<>>
      BY <1>5 DEF DeclareRef, BetweenStatements, IInv, ScopeInv
    <3>2. Last(m_activeScope) \subseteq InScope
      BY <3>1, LastScope DEF IInv, TypeOK
    <3> QED BY <1>5, <3>2 DEF DeclareRef, NotYetDeclared, BetweenStatements
  <2>2. UNCHANGED <<walk, m_activeScope, m_evalMoveState, frames, overcautious>>
        /\ m_moveMap' = [m_moveMap EXCEPT ![v] = [moved |-> FALSE, where |-> "null"]]
        /\ declared' = declared \cup {v} /\ gone' = gone \cup given
        /\ unseen' = unseen \cup given
    BY <1>5 DEF DeclareRef
  <2>3. Visits(frames', m_evalMoveState')
    BY <2>1, <2>2, VisitsHere
  <2>4. m_moveMap \in [Registered -> MoveState] /\ m_moveMap' \in [Registered -> MoveState]
    BY <2>2 DEF IInv, TypeOK, MoveState
  <2>5. /\ declared' \subseteq InScope
        /\ gone' \subseteq Vars /\ unseen' \subseteq Vars /\ overcautious' \subseteq Vars
    BY <1>1, <2>1, <2>2 DEF IInv, TypeOK, Owned
  <2>6. GoneIsMoved'
    BY <1>1, <2>1, <2>2, <2>4 DEF IInv, GoneIsMoved, Owned
  <2>7. MoveIsExplained'
    BY <1>1, <2>1, <2>2, <2>4 DEF IInv, MoveIsExplained
  <2> QED BY <2>1, <2>2, <2>3, <2>4, <2>5, <2>6, <2>7, BodyStep
<1>6. ASSUME NEW t \in Kinds, Return(t)
      PROVE  IInv'
  <2> DEFINE f == Visit(<<Taken(t)>>, "nothing")
  <2>1. f \in Frame /\ f.saved = m_evalMoveState /\ f.targets = {} /\ f.then = "nothing"
        /\ f.pending = <<Taken(t)>>
    BY <1>1, ExprTypes, VisitOne DEF Endings, Visit
  <2>2. TakenUnder(f.pending, Tracking)
    BY <2>1, ExprTypes, OneExpr
  <2>3. Statement(f, Tracking)
    BY <1>6 DEF Return
  <2> HIDE DEF f
  <2> QED BY <1>2, <2>1, <2>2, <2>3, StateTypes
<1>7. ASSUME NEW t \in Kinds, AssignPlace(t)
      PROVE  IInv'
  <2> DEFINE f == [Visit(<<Part(t)>>, "left") EXCEPT !.later = <<Taken(t)>>]
  <2>1. f \in Frame /\ f.saved = m_evalMoveState /\ f.targets = {} /\ f.then = "left"
        /\ f.pending = <<Part(t)>>
    <3> DEFINE g == Visit(<<Part(t)>>, "left")
               es == <<Taken(t)>>
    <3>1. g \in Frame /\ g.saved = m_evalMoveState /\ g.then = "left"
          /\ g.pending = <<Part(t)>> /\ g.targets = {}
      BY <1>1, ExprTypes, VisitOne DEF Endings, Visit
    <3>2. es \in Seq(Expr)
      <4>1. Taken(t) \in Expr
        BY ExprTypes
      <4> QED BY <4>1
    <3> HIDE DEF g, es
    <3>3. [g EXCEPT !.later = es] \in Frame
      BY <3>1, <3>2 DEF Frame
    <3> QED BY <3>1, <3>3 DEF Frame, g, es
  <2>2. TakenUnder(f.pending, m_evalMoveState)
    BY <2>1, ExprTypes, OneExpr
  <2>3. Statement(f, m_evalMoveState)
    BY <1>7 DEF AssignPlace
  <2> HIDE DEF f
  <2> QED BY <1>1, <1>2, <2>1, <2>2, <2>3
<1>8. ASSUME NEW t \in Kinds, ExprStatement(t)
      PROVE  IInv'
  <2> DEFINE f == Visit(<<Looked(t)>>, "nothing")
  <2>1. f \in Frame /\ f.saved = m_evalMoveState /\ f.targets = {} /\ f.then = "nothing"
        /\ f.pending = <<Looked(t)>>
    BY <1>1, ExprTypes, VisitOne DEF Endings, Visit
  <2>2. TakenUnder(f.pending, m_evalMoveState)
    BY <2>1, ExprTypes, OneExpr
  <2>3. Statement(f, m_evalMoveState)
    BY <1>8 DEF ExprStatement
  <2> HIDE DEF f
  <2> QED BY <1>1, <1>2, <2>1, <2>2, <2>3
<1> QED BY <1>3, <1>4, <1>5, <1>6, <1>7, <1>8 DEF Statements

\* An expression that only opens a visit of its own.
LEMMA DescendStep ==
  ASSUME IInv, Visiting, KeepVariables,
         NEW f \in Frame, NEW ev \in EvalMoveState, Descend(f, ev),
         f.saved = m_evalMoveState, f.targets = {}, TakenUnder(f.pending, ev),
         f.then = "member" /\ f.of.taken => f.saved = Tracking
  PROVE  IInv'
<1>1. pc = "body" /\ Visits(frames, m_evalMoveState)
  BY VisitsHere DEF Visiting
<1>2. frames' = Append(Chosen, f) /\ m_evalMoveState' = ev
  BY DEF Descend
<1>3. Visits(frames', m_evalMoveState')
  BY <1>1, <1>2, DescendFacts
<1> QED BY <1>1, <1>3, KeepStep

LEMMA ArgsAreSeq ==
  \A n \in Nat : \A es : es \in [1..n -> Expr] => es \in Seq(Expr) /\ Len(es) = n
  OBVIOUS

LEMMA ArgListFacts ==
  ASSUME NEW types \in ArgLists
  PROVE  \E n \in Nat : types \in [1..n -> Kinds]
  BY MoveCheckAssumption DEF ArgLists

LEMMA VarRefSteps ==
  ASSUME IInv, NEW v \in Vars, VarRefUntracked(v) \/ VarRefMoves(v) \/ VarRefRefused(v)
  PROVE  IInv'
<1>1. /\ pc = "body" /\ Visits(frames, m_evalMoveState) /\ Visiting /\ v \in declared
      /\ Current.type = Kind[v]
  BY VisitsHere DEF VarRefUntracked, VarRefMoves, VarRefRefused, VarRef, Visiting
<1>2. /\ Visits(Chosen, m_evalMoveState)
      /\ Current.taken => m_evalMoveState = Tracking
  BY <1>1, ChosenFacts
<1>3. /\ InScope = Registered /\ declared \subseteq InScope
      /\ m_moveMap \in [Registered -> MoveState]
      /\ gone \subseteq Vars /\ unseen \subseteq Vars /\ overcautious \subseteq Vars
  BY DEF IInv, TypeOK, ScopeInv, ScopesMatch
<1>4. CASE VarRefUntracked(v)
  <2>1. ~Gives(v)
    <3>1. Gives(v) => Tracks(v)
      BY <1>2 DEF Gives, Tracks, Tracking
    <3> QED BY <1>4, <3>1 DEF VarRefUntracked
  <2>2. /\ frames' = Chosen /\ m_evalMoveState' = m_evalMoveState
        /\ KeepVariables
    BY <1>4, <2>1 DEF VarRefUntracked, Leaf, KeepVariables, ghosts
  <2> QED BY <1>1, <1>2, <2>2, KeepStep
<1>5. CASE VarRefMoves(v)
  <2>1. /\ frames' = Chosen /\ m_evalMoveState' = m_evalMoveState
        /\ UNCHANGED <<walk, m_activeScope, declared, unseen>>
        /\ m_moveMap' = [m_moveMap EXCEPT ![v] = [moved |-> TRUE, where |-> "reference"]]
        /\ \/ Kind[v] = "owned" /\ gone' = gone \cup {v} /\ overcautious' = overcautious
           \/ gone' = gone /\ overcautious' = overcautious \cup {v}
    BY <1>5 DEF VarRefMoves, Leaf, Gives
  <2>2. Visits(frames', m_evalMoveState')
    BY <1>2, <2>1
  <2>3. m_moveMap' \in [Registered -> MoveState]
    BY <1>3, <2>1 DEF MoveState
  <2>4. /\ m_moveMap'[v].moved = TRUE /\ m_moveMap'[v].where = "reference"
        /\ \A w \in Registered \ {v} : m_moveMap'[w] = m_moveMap[w]
    BY <1>1, <1>3, <2>1
  <2>5. GoneIsMoved'
    BY <1>1, <1>3, <2>1, <2>4 DEF IInv, GoneIsMoved
  <2>6. MoveIsExplained'
    BY <1>1, <1>3, <2>1, <2>4 DEF IInv, MoveIsExplained
  <2>7. gone' \subseteq Vars /\ overcautious' \subseteq Vars /\ unseen' \subseteq Vars
        /\ declared' \subseteq InScope
    BY <1>3, <2>1
  <2> QED BY <1>1, <2>1, <2>2, <2>3, <2>5, <2>6, <2>7, BodyStep
<1>6. CASE VarRefRefused(v)
  BY <1>1, <1>6, RefusedStep DEF VarRefRefused
<1> QED BY <1>4, <1>5, <1>6

LEMMA OperatorSteps ==
  ASSUME IInv, \/ \E t \in Kinds : AddressOf(t) \/ Member(t)
               \/ \E n \in 1..2 : Arithmetic(n)
               \/ Dereference
  PROVE  IInv'
<1>1. m_evalMoveState \in EvalMoveState /\ Untracked \in EvalMoveState
  BY StateTypes DEF IInv, TypeOK
<1>2. ASSUME NEW t \in Kinds, AddressOf(t)
      PROVE  IInv'
  <2> DEFINE f == Visit(<<Place(t)>>, "nothing")
  <2>1. f \in Frame /\ f.saved = m_evalMoveState /\ f.targets = {} /\ f.then = "nothing"
        /\ f.pending = <<Place(t)>>
    BY <1>1, ExprTypes, VisitOne DEF Endings, Visit
  <2>2. TakenUnder(f.pending, Untracked)
    BY <2>1, ExprTypes, OneExpr
  <2>3. Visiting /\ KeepVariables /\ Descend(f, Untracked)
    BY <1>2 DEF AddressOf
  <2> HIDE DEF f
  <2> QED BY <1>1, <2>1, <2>2, <2>3, DescendStep
<1>3. ASSUME NEW t \in Kinds, Member(t)
      PROVE  IInv'
  <2> DEFINE g == Visit(<<Looked(t)>>, "member")
             f == [g EXCEPT !.of = Current]
             ev == [m_evalMoveState EXCEPT !.root = FALSE]
  <2>1. Visiting /\ KeepVariables /\ Descend(f, ev)
    BY <1>3 DEF Member
  <2>2. Current \in Expr /\ (Current.taken => m_evalMoveState = Tracking)
    BY <2>1, VisitsHere, ChosenFacts DEF Visiting
  <2>3. g \in Frame /\ g.saved = m_evalMoveState /\ g.targets = {} /\ g.then = "member"
        /\ g.pending = <<Looked(t)>>
    BY <1>1, ExprTypes, VisitOne DEF Endings, Visit
  <2> HIDE DEF g
  <2>4. f \in Frame /\ f.saved = m_evalMoveState /\ f.targets = {} /\ f.then = "member"
        /\ f.pending = <<Looked(t)>> /\ f.of = Current
    BY <2>2, <2>3 DEF Frame
  <2>5. TakenUnder(f.pending, ev)
    BY <2>4, ExprTypes, OneExpr
  <2>6. ev \in EvalMoveState
    BY <1>1 DEF EvalMoveState
  <2>7. f.then = "member" /\ f.of.taken => f.saved = Tracking
    BY <2>2, <2>4
  <2> HIDE DEF f, ev
  <2> QED BY <2>1, <2>4, <2>5, <2>6, <2>7, DescendStep
<1>4. ASSUME NEW n \in 1..2, Arithmetic(n)
      PROVE  IInv'
  <2> DEFINE es == [i \in 1..n |-> Looked("copied")]
             f == Visit(es, "nothing")
  <2>1. Looked("copied") \in Expr /\ Looked("copied").taken = FALSE
    BY ExprTypes DEF Kinds
  <2>2. es \in Seq(Expr) /\ Len(es) = n /\ \A i \in 1..n : es[i] = Looked("copied")
    <3>1. n \in Nat /\ es \in [1..n -> Expr]
      BY <2>1
    <3> QED BY <3>1, ArgsAreSeq
  <2>3. TakenUnder(es, Untracked)
    BY <2>1, <2>2 DEF TakenUnder
  <2>4. Visiting /\ KeepVariables /\ Descend(f, Untracked)
    BY <1>4 DEF Arithmetic
  <2> HIDE DEF es
  <2>5. f \in Frame /\ f.saved = m_evalMoveState /\ f.targets = {} /\ f.then = "nothing"
        /\ f.pending = es
    <3>1. "nothing" \in Endings
      BY DEF Endings
    <3> QED BY <1>1, <2>2, <3>1, VisitFacts, VisitFields
  <2> HIDE DEF f
  <2> QED BY <1>1, <2>3, <2>4, <2>5, DescendStep
<1>5. CASE Dereference
  <2> DEFINE f == Visit(<<Looked("ref")>>, "nothing")
  <2>1. "ref" \in Kinds
    BY DEF Kinds
  <2>2. f \in Frame /\ f.saved = m_evalMoveState /\ f.targets = {} /\ f.then = "nothing"
        /\ f.pending = <<Looked("ref")>>
    BY <1>1, <2>1, ExprTypes, VisitOne DEF Endings, Visit
  <2>3. TakenUnder(f.pending, Untracked)
    BY <2>1, <2>2, ExprTypes, OneExpr
  <2>4. Visiting /\ KeepVariables /\ Descend(f, Untracked)
    BY <1>5 DEF Dereference
  <2> HIDE DEF f
  <2> QED BY <1>1, <2>2, <2>3, <2>4, DescendStep
<1> QED BY <1>2, <1>3, <1>4, <1>5

LEMMA CallSteps ==
  ASSUME IInv, \/ \E types \in ArgLists : Call(types) \/ StructInit(types)
               \/ \E t \in Kinds, types \in ArgLists : TypeCall(t, types)
  PROVE  IInv'
<1>1. m_evalMoveState \in EvalMoveState /\ Tracking \in EvalMoveState /\ "nothing" \in Endings
      /\ "receiver" \in Endings
  BY StateTypes DEF IInv, TypeOK, Endings
<1>2. ASSUME NEW es \in Seq(Expr), Visiting, KeepVariables,
             Descend(Visit(es, "nothing"), Tracking)
      PROVE  IInv'
  <2> DEFINE f == Visit(es, "nothing")
  <2>1. f \in Frame /\ f.saved = m_evalMoveState /\ f.targets = {} /\ f.then = "nothing"
        /\ f.pending = es
    BY <1>1, VisitFacts, VisitFields
  <2>2. TakenUnder(f.pending, Tracking)
    BY DEF TakenUnder
  <2>3. Visiting /\ KeepVariables /\ Descend(f, Tracking)
    BY <1>2
  <2> HIDE DEF f
  <2> QED BY <1>1, <2>1, <2>2, <2>3, DescendStep
<1>3. ASSUME NEW types \in ArgLists
      PROVE  /\ [i \in DOMAIN types |-> Argument(types[i])] \in Seq(Expr)
             /\ [i \in DOMAIN types |-> Taken(types[i])] \in Seq(Expr)
  <2>1. PICK n \in Nat : types \in [1..n -> Kinds]
    BY ArgListFacts
  <2>2. \A i \in 1..n : Argument(types[i]) \in Expr /\ Taken(types[i]) \in Expr
    BY <2>1, ExprTypes
  <2>3. /\ [i \in DOMAIN types |-> Argument(types[i])] \in [1..n -> Expr]
        /\ [i \in DOMAIN types |-> Taken(types[i])] \in [1..n -> Expr]
    BY <2>1, <2>2
  <2> QED BY <2>3, ArgsAreSeq
<1>4. ASSUME NEW types \in ArgLists, Call(types)
      PROVE  IInv'
  BY <1>2, <1>3, <1>4 DEF Call
<1>5. ASSUME NEW types \in ArgLists, StructInit(types)
      PROVE  IInv'
  BY <1>2, <1>3, <1>5 DEF StructInit
<1>6. ASSUME NEW t \in Kinds, NEW types \in ArgLists, TypeCall(t, types)
      PROVE  IInv'
  <2> DEFINE es == [i \in DOMAIN types |-> Argument(types[i])]
             g == Visit(<<Looked(t)>>, "receiver")
             f == [g EXCEPT !.later = es]
  <2>1. Visiting /\ KeepVariables /\ Descend(f, m_evalMoveState)
    BY <1>6 DEF TypeCall
  <2>2. es \in Seq(Expr)
    BY <1>3
  <2>3. g \in Frame /\ g.saved = m_evalMoveState /\ g.targets = {} /\ g.then = "receiver"
        /\ g.pending = <<Looked(t)>>
    BY <1>1, ExprTypes, VisitOne DEF Visit
  <2> HIDE DEF es, g
  <2>4. f \in Frame /\ f.saved = m_evalMoveState /\ f.targets = {} /\ f.then = "receiver"
        /\ f.pending = <<Looked(t)>>
    BY <2>2, <2>3 DEF Frame
  <2>5. TakenUnder(f.pending, m_evalMoveState)
    BY <2>4, ExprTypes, OneExpr
  <2> HIDE DEF f
  <2> QED BY <1>1, <2>1, <2>4, <2>5, DescendStep
<1> QED BY <1>4, <1>5, <1>6

LEMMA ExpressionSteps ==
  ASSUME IInv, Expressions
  PROVE  IInv'
<1>1. CASE LeafExpr
  <2>1. Visits(frames, m_evalMoveState) /\ Visiting
    BY <1>1, VisitsHere DEF LeafExpr, Visiting
  <2>2. Visits(Chosen, m_evalMoveState) /\ pc = "body"
    BY <2>1, ChosenFacts DEF Visiting
  <2> QED BY <1>1, <2>2, KeepStep DEF LeafExpr, Leaf
<1>2. ASSUME NEW given \in SUBSET Owned, Cast(given)
      PROVE  IInv'
  <2>1. Visits(frames, m_evalMoveState) /\ Visiting
    BY <1>2, VisitsHere DEF Cast, Visiting
  <2>2. Visits(Chosen, m_evalMoveState) /\ pc = "body"
    BY <2>1, ChosenFacts DEF Visiting
  <2> QED BY <1>2, <2>2, UnseenStep DEF Cast, Leaf
<1>3. CASE DereferenceRefused
  BY <1>3, RefusedStep DEF DereferenceRefused, Visiting
<1>4. CASE ArgumentRefused
  BY <1>4, RefusedStep DEF ArgumentRefused, Visiting
<1> QED BY <1>1, <1>2, <1>3, <1>4, VarRefSteps, OperatorSteps, CallSteps DEF Expressions

LEMMA EndSteps ==
  ASSUME IInv, Ends
  PROVE  IInv'
<1>1. /\ pc = "body" /\ frames # <<>> /\ Visits(frames, m_evalMoveState)
  BY VisitsHere DEF Ends, EndPlain, EndInit, EndLeft, EndReceiver, EndMember, MemberRefused, Done
<1>2. /\ Top \in Frame /\ Top.later \in Seq(Expr) /\ Top.targets \subseteq InScope
      /\ Top = frames[Len(frames)]
  BY <1>1, TopFacts
<1>3. Visits(Front(frames), Top.saved)
  BY <1>1, LeaveFacts
<1>4. CASE EndPlain \/ EndMember
  BY <1>1, <1>3, <1>4, KeepStep DEF EndPlain, EndMember, Leave, Restore
<1>5. CASE EndInit
  BY <1>1, <1>2, <1>3, <1>5, SetStep DEF EndInit, Leave, Restore
<1>6. CASE EndLeft \/ EndReceiver
  <2>1. PICK then \in {"init", "nothing"} :
          /\ frames' = [frames EXCEPT ![Len(frames)] =
                          [Top EXCEPT !.pending = Top.later, !.later = <<>>, !.then = then]]
          /\ m_evalMoveState' = Tracking
          /\ KeepVariables
    BY <1>6 DEF EndLeft, EndReceiver
  <2> DEFINE f == [Top EXCEPT !.pending = Top.later, !.later = <<>>, !.then = then]
  <2>2. /\ f \in Frame /\ f.saved = Top.saved /\ f.targets = Top.targets
        /\ f.pending = Top.later /\ f.then = then
    <3>1. <<>> \in Seq(Expr) /\ then \in Endings
      BY DEF Endings
    <3> QED BY <1>2, <3>1 DEF Frame
  <2>3. TakenUnder(f.pending, Tracking)
    BY DEF TakenUnder
  <2>4. frames' = ReplaceTop(frames, f)
    BY <2>1 DEF ReplaceTop
  <2> HIDE DEF f
  <2>5. Visits(frames', m_evalMoveState')
    BY <1>1, <2>1, <2>2, <2>3, <2>4, StateTypes, TopReplaced
  <2> QED BY <1>1, <2>1, <2>5, KeepStep
<1>7. CASE MemberRefused
  BY <1>1, <1>7, RefusedStep DEF MemberRefused
<1> QED BY <1>4, <1>5, <1>6, <1>7 DEF Ends

-----------------------------------------------------------------------------
(* The invariant and what follows from it. *)

LEMMA InitIInv == Init => IInv
<1> SUFFICES ASSUME Init PROVE IInv
  OBVIOUS
<1>1. Registered = {} /\ InScope = {}
  BY DEF Init, Registered, InScope, ToSet
<1>2. TypeOK
  <2>1. m_activeScope \in Seq(SUBSET Vars) /\ frames \in Seq(Frame)
    BY DEF Init
  <2>2. m_moveMap \in [Registered -> MoveState]
    BY <1>1 DEF Init
  <2> QED BY <1>1, <2>1, <2>2, StateTypes DEF Init, TypeOK
<1>3. ScopeInv
  BY <1>1 DEF Init, ScopeInv, ScopesMatch, DistinctScopes, TargetsIn
<1>4. Tracked(frames, m_evalMoveState) /\ Rests(frames, m_evalMoveState)
  BY DEF Init, Tracked, Rests
<1> QED BY <1>2, <1>3, <1>4 DEF Init, IInv, GoneIsMoved, MoveIsExplained

LEMMA StutterStep ==
  ASSUME IInv, UNCHANGED vars
  PROVE  IInv'
<1> USE DEF vars, walk, ghosts
<1>1. TypeOK'
  BY DEF IInv, TypeOK, Registered
<1>2. ScopeInv'
  BY DEF IInv, ScopeInv, ScopesMatch, DistinctScopes, TargetsIn, Registered, InScope
<1> QED BY <1>1, <1>2 DEF IInv, GoneIsMoved, MoveIsExplained

\* Every step of the walk preserves the strengthened invariant.
THEOREM IInvHolds == Spec => []IInv
<1>1. IInv /\ [Next]_vars => IInv'
  BY ScopeSteps, StatementSteps, ExpressionSteps, EndSteps, StutterStep DEF Next
<1> QED BY <1>1, InitIInv, PTL DEF Spec

\* No state of the walk leaves its types: no frame, no map entry and no error
\* code but those of the source, and the walk stops exactly when it reports.
THEOREM TypeCorrect == Spec => []TypeOK
<1>1. IInv => TypeOK
  BY DEF IInv
<1> QED BY <1>1, IInvHolds, PTL

\* findState always finds an entry and insert() never meets a stale one: the
\* map's domain is the union of the open scopes.
THEOREM ScopesSound == Spec => []ScopesMatch
<1>1. IInv => ScopesMatch
  BY DEF IInv, ScopeInv
<1> QED BY <1>1, IInvHolds, PTL

\* What the pass is for: in all programs, however deeply nested, a value is
\* given away once at most where the visitor looks.
THEOREM GivenAwayOnceSound == Spec => []GivenAwayOnce
<1>1. IInv => GivenAwayOnce
  <2> SUFFICES ASSUME IInv, NEW v \in gone \ unseen, VarRef(v), Current.taken
               PROVE  Tracks(v) /\ ~IsFree(v)
    BY DEF GivenAwayOnce
  <2>1. Visiting /\ Visits(frames, m_evalMoveState)
    BY VisitsHere DEF VarRef, Visiting
  <2>2. m_evalMoveState = Tracking
    BY <2>1, ChosenFacts
  <2>3. Kind[v] = "owned" /\ m_moveMap[v].moved = TRUE
    BY DEF IInv, GoneIsMoved
  <2> QED BY <2>2, <2>3 DEF Tracks, IsFree, Tracking
<1> QED BY <1>1, IInvHolds, PTL

\* The error a refused use reports always has a reference to name.
THEOREM MoveExplained == Spec => []MoveIsExplained
<1>1. IInv => MoveIsExplained
  BY DEF IInv
<1> QED BY <1>1, IInvHolds, PTL

\* Members and what references refer to keep their values.
THEOREM PartsSound == Spec => []PartsAreNeverTaken
<1>1. IInv => PartsAreNeverTaken
  <2> SUFFICES ASSUME IInv PROVE PartsAreNeverTaken
    OBVIOUS
  <2>1. Visiting /\ Current.taken => m_evalMoveState = Tracking
    BY VisitsHere, ChosenFacts DEF Visiting
  <2>2. Done("member") /\ Top.of.taken => Top.saved = Tracking
    BY VisitsHere, TopFacts DEF Done
  <2> QED BY <2>1, <2>2 DEF PartsAreNeverTaken, MovesFromReference, MovesMember, Tracking
<1> QED BY <1>1, IInvHolds, PTL

\* Statements start from the state the visitor was created with.
THEOREM RestsSound == Spec => []RestsUntracked
<1>1. IInv => RestsUntracked
  BY DEF IInv, Rests, RestsUntracked, BetweenStatements
<1> QED BY <1>1, IInvHolds, PTL

-----------------------------------------------------------------------------
(* The return check. *)

\* The flag mirrors the innermost list's ending once that list has had a
\* statement; a nested list that is still empty was entered with the flag
\* cleared.  Only the outermost empty list may hold a stale flag.
FlagTracksEnding ==
  place \in {"body", "jumped"} =>
    IF lists[Depth] = "empty"
    THEN Depth > 1 => m_hasReturnStmt = FALSE
    ELSE m_hasReturnStmt = TRUE <=> lists[Depth] = "returns"

\* A list that encloses another one has had a statement, whose ending is
\* decided when the nested list is left.  The flag is set before any function
\* was accepted only by a statement of the current body.
StaleOnlyAfterAccept ==
  checked = FALSE /\ (lists = <<>> \/ lists = <<"empty">>) =>
    m_hasReturnStmt = FALSE

FlagInv == ReturnsTypeOK /\ FlagTracksEnding /\ StaleOnlyAfterAccept

\* Replacing the last element of a non-empty list keeps its length and every
\* other element.
LEMMA EndsWithProps ==
  ASSUME NEW ls \in Seq(ListEndings), ls # <<>>, NEW e \in ListEndings
  PROVE  /\ EndsWith(ls, e) \in Seq(ListEndings)
         /\ Len(EndsWith(ls, e)) = Len(ls)
         /\ EndsWith(ls, e)[Len(ls)] = e
         /\ EndsWith(ls, e) # <<>>
BY DEF EndsWith

\* The walk keeps its state in the types it declares and the flag in step
\* with the innermost list.
LEMMA FlagInductive ==
  /\ ReturnsInit => FlagInv
  /\ FlagInv /\ [ReturnsNext]_returnsVars => FlagInv'
<1>1. ReturnsInit => FlagInv
  <2> SUFFICES ASSUME ReturnsInit PROVE FlagInv
    OBVIOUS
  <2>1. ReturnsTypeOK
    <3>1. <<>> \in Seq(ListEndings) /\ Len(<<>>) <= MaxDepth
      BY MaxDepthAssumption
    <3> QED BY <3>1 DEF ReturnsInit, ReturnsTypeOK
  <2>2. FlagTracksEnding
    BY DEF ReturnsInit, FlagTracksEnding
  <2>3. StaleOnlyAfterAccept
    BY DEF ReturnsInit, StaleOnlyAfterAccept
  <2> QED BY <2>1, <2>2, <2>3 DEF FlagInv
<1>2. FlagInv /\ [ReturnsNext]_returnsVars => FlagInv'
  <2> SUFFICES ASSUME FlagInv, [ReturnsNext]_returnsVars PROVE FlagInv'
    OBVIOUS
  <2>1. CASE StartBody
    BY <2>1, MaxDepthAssumption DEF StartBody, FlagInv, ReturnsTypeOK, FlagTracksEnding,
                StaleOnlyAfterAccept, ListEndings, Depth
  <2>2. CASE VisitReturn
    <3>1. "returns" \in ListEndings
      BY DEF ListEndings
    <3>2. lists \in Seq(ListEndings) /\ lists # <<>> /\ lists' = EndsWith(lists, "returns")
      BY <2>2 DEF VisitReturn, FlagInv, ReturnsTypeOK
    <3>3. /\ lists' \in Seq(ListEndings) /\ Len(lists') = Len(lists)
          /\ lists'[Len(lists)] = "returns" /\ lists' # <<>>
      BY <3>1, <3>2, EndsWithProps
    <3>4. ReturnsTypeOK' /\ FlagTracksEnding'
      BY <2>2, <3>3
         DEF VisitReturn, FlagInv, ReturnsTypeOK, FlagTracksEnding, Depth
    <3>5. lists' # <<"empty">>
      BY <3>3
    <3> QED BY <3>3, <3>4, <3>5 DEF FlagInv, StaleOnlyAfterAccept
  <2>3. CASE VisitOther
    <3>1. "falls" \in ListEndings
      BY DEF ListEndings
    <3>2. lists \in Seq(ListEndings) /\ lists # <<>>
          /\ lists' = EndsWith(lists, "falls")
      BY <2>3 DEF VisitOther, FlagInv, ReturnsTypeOK
    <3>3. /\ lists' \in Seq(ListEndings) /\ Len(lists') = Len(lists)
          /\ lists'[Len(lists)] = "falls" /\ lists' # <<>>
      BY <3>1, <3>2, EndsWithProps
    <3>4. ReturnsTypeOK'
      BY <2>3, <3>3 DEF VisitOther, FlagInv, ReturnsTypeOK
    <3>5. FlagTracksEnding'
      BY <2>3, <3>3 DEF VisitOther, FlagTracksEnding, Depth
    <3>6. StaleOnlyAfterAccept'
      BY <2>3, <3>3 DEF VisitOther, StaleOnlyAfterAccept
    <3> QED BY <3>4, <3>5, <3>6 DEF FlagInv
  <2>4. CASE StartList
    <3>1. /\ lists' = Append(lists, "empty") /\ lists \in Seq(ListEndings)
          /\ lists # <<>> /\ "empty" \in ListEndings
      BY <2>4 DEF StartList, FlagInv, ReturnsTypeOK, ListEndings
    <3>2. /\ lists' \in Seq(ListEndings) /\ Len(lists') = Len(lists) + 1
          /\ lists'[Len(lists')] = "empty" /\ Len(lists') > 1
          /\ lists' # <<>> /\ Len(lists) \in Nat
      BY <3>1
    <3>3. ReturnsTypeOK'
      <4>1. /\ place' = "body" /\ checked' \in BOOLEAN
            /\ m_hasReturnStmt' \in BOOLEAN /\ Len(lists) < MaxDepth
        BY <2>4 DEF StartList, FlagInv, ReturnsTypeOK, Depth
      <4>2. Len(lists') <= MaxDepth
        BY MaxDepthAssumption, <3>2, <4>1
      <4> QED BY <3>2, <4>1, <4>2 DEF ReturnsTypeOK
    <3>4. FlagTracksEnding'
      BY <2>4, <3>2 DEF StartList, FlagTracksEnding, Depth
    <3>5. StaleOnlyAfterAccept'
      BY <2>4, <3>2 DEF StartList, StaleOnlyAfterAccept
    <3> QED BY <3>3, <3>4, <3>5 DEF FlagInv
  <2>5. CASE EndList
    <3> DEFINE outer == SubSeq(lists, 1, Depth - 1)
               e == IF lists[Depth] = "empty" THEN "falls" ELSE lists[Depth]
    <3>1. /\ lists \in Seq(ListEndings) /\ Depth \in Nat /\ Depth > 1
          /\ Depth <= MaxDepth /\ place = "body" /\ Depth = Len(lists)
      BY <2>5 DEF EndList, FlagInv, ReturnsTypeOK, Depth
    <3>2. lists[Depth] \in ListEndings /\ e \in ListEndings /\ e # "empty"
      BY <3>1 DEF ListEndings
    <3>3. outer \in Seq(ListEndings) /\ Len(outer) = Depth - 1 /\ outer # <<>>
      <4>1. \A i \in 1..(Depth - 1) : lists[i] \in ListEndings
        BY <3>1
      <4>2. Depth - 1 \in Int /\ 1 \in Int /\ 1 <= Depth - 1
        BY <3>1
      <4>3. outer \in Seq(ListEndings) /\ Len(outer) = (Depth - 1) - 1 + 1
        BY <4>1, <4>2, SubSeqProperties
      <4>4. Len(outer) = Depth - 1
        BY <3>1, <4>3
      <4> HIDE DEF outer
      <4>5. outer # <<>>
        BY <3>1, <4>4
      <4> QED BY <4>3, <4>4, <4>5
    <3>4. lists' = EndsWith(outer, e)
      BY <2>5 DEF EndList
    <3> HIDE DEF outer, e
    <3>5. /\ lists' \in Seq(ListEndings) /\ Len(lists') = Depth - 1
          /\ lists'[Depth - 1] = e /\ lists' # <<>>
      BY <3>2, <3>3, <3>4, EndsWithProps
    <3>6. m_hasReturnStmt = TRUE <=> e = "returns"
      BY <3>1 DEF e, FlagInv, FlagTracksEnding, ReturnsTypeOK
    <3>7. ReturnsTypeOK'
      BY MaxDepthAssumption, <2>5, <3>1, <3>5 DEF EndList, FlagInv, ReturnsTypeOK
    <3>8. FlagTracksEnding'
      BY <2>5, <3>2, <3>5, <3>6 DEF EndList, FlagTracksEnding, Depth
    <3>9. StaleOnlyAfterAccept'
      <4>1. lists' # <<"empty">>
        BY <3>1, <3>2, <3>5
      <4> QED BY <3>5, <4>1 DEF StaleOnlyAfterAccept
    <3> QED BY <3>7, <3>8, <3>9 DEF FlagInv
  <2>6. CASE Accept
    BY <2>6, MaxDepthAssumption DEF Accept, EndOfBody, FlagInv, ReturnsTypeOK, FlagTracksEnding,
                StaleOnlyAfterAccept
  <2>7. CASE Reject
    BY <2>7 DEF Reject, EndOfBody, FlagInv, ReturnsTypeOK, FlagTracksEnding,
                StaleOnlyAfterAccept, Depth
  <2>8. CASE UNCHANGED returnsVars
    BY <2>8 DEF returnsVars, FlagInv, ReturnsTypeOK, FlagTracksEnding, StaleOnlyAfterAccept,
                Depth
  <2> QED BY <2>1, <2>2, <2>3, <2>4, <2>5, <2>6, <2>7, <2>8 DEF ReturnsNext
<1> QED BY <1>1, <1>2

\* The walk keeps its state in the types it declares.
THEOREM FlagTypeCorrect == ReturnsSpec => []ReturnsTypeOK
<1>1. FlagInv => ReturnsTypeOK
  BY DEF FlagInv
<1> QED BY <1>1, FlagInductive, PTL DEF ReturnsSpec

\* Every body with at least one statement is accepted exactly when its last
\* statement returns, whatever the functions before it left in the flag.
THEOREM VerdictSound == ReturnsSpec => []VerdictFollowsLastStatement
<1>1. FlagInv => VerdictFollowsLastStatement
  BY DEF FlagInv, ReturnsTypeOK, FlagTracksEnding, VerdictFollowsLastStatement,
         EndOfBody, Depth
<1> QED BY <1>1, FlagInductive, PTL DEF ReturnsSpec

\* The first valued function with an empty body is always rejected.
THEOREM FirstEmptySound == ReturnsSpec => []FirstEmptyBodyIsRejected
<1>1. FlagInv => FirstEmptyBodyIsRejected
  BY DEF FlagInv, StaleOnlyAfterAccept, FirstEmptyBodyIsRejected, EndOfBody
<1> QED BY <1>1, FlagInductive, PTL DEF ReturnsSpec
==============================================================================
