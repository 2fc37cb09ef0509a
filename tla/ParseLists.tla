------------------------------ MODULE ParseLists ------------------------------
(***************************************************************************)
(* How the parser collects lists (ParseList in stparser.h, and the rules   *)
(* of stparserimpl.lemon that use it): the arguments of a call, the        *)
(* statements of a body, parameters, members.  All lists of a kind that    *)
(* are being read at a time share one vector; what the grammar passes      *)
(* around is a Range of places in it.  A node takes its range out of the   *)
(* vector when it is created, which is when its list is complete.          *)
(*                                                                         *)
(* Lists nest: the items of a call's arguments contain other calls.  The   *)
(* source that is parsed is not fixed beforehand: each step chooses the    *)
(* next reduction, among all the grammar allows and some it does not (a    *)
(* call read inside another need not become an item of it).  Parser shows  *)
(* that what the automaton does to each of its vectors is a step of this   *)
(* module.                                                                 *)
(***************************************************************************)
EXTENDS Naturals, Sequences, SequencesExt

VARIABLES
  m_list,     \* the shared vector; an item is a number, its place in the text
  open,       \* the lists that are being read, outermost first: the range
              \* the grammar holds and, as history, the items really read
  mixed       \* history: an inner list that starts with a comma was read, or
              \* lists were given up

vars == <<m_list, open, mixed>>

PlaceRange == [begin : Nat, end : Nat]

OpenList == [range : PlaceRange, items : Seq(Nat)]

TypeOK ==
  /\ m_list \in Seq(Nat)
  /\ open \in Seq(OpenList)
  /\ mixed \in BOOLEAN

Init ==
  /\ m_list = <<>>
  /\ open = <<>>
  /\ mixed = FALSE

Top == Last(open)

\* The vector has one more item.
Read ==
  /\ m_list' # <<>>
  /\ Last(m_list') \in Nat
  /\ m_list' = Append(m_list, Last(m_list'))

\* ParseList::add of the first item: a new list.
First ==
  /\ Read
  /\ open' = Append(open, [range |-> [begin |-> Len(m_list), end |-> Len(m_list) + 1],
                           items |-> <<Last(m_list')>>])
  /\ UNCHANGED mixed

\* getRangeEmpty: the rules for a list without items.
Empty ==
  /\ open' = Append(open, [range |-> [begin |-> 0, end |-> 0], items |-> <<>>])
  /\ UNCHANGED <<m_list, mixed>>

\* ParseList::add to a range.
Add(range) == [range EXCEPT !.end = Len(m_list) + 1]

\* Another item, which may have contained whole lists.  After the empty list
\* the grammar reads a comma too.
Another ==
  /\ open # <<>>
  /\ Read
  /\ open' = [open EXCEPT ![Len(open)] = [range |-> Add(Top.range),
                                          items |-> Append(Top.items, Last(m_list'))]]
  /\ mixed' = (mixed \/ (Top.items = <<>> /\ m_list # <<>>))

\* The guard of moveRange; when it fails the node gets no items.
Movable(range) ==
  range.begin < Len(m_list) /\ range.end > range.begin /\ range.end <= Len(m_list)

Moved(range) ==
  IF Movable(range) THEN SubSeq(m_list, range.begin + 1, range.end) ELSE <<>>

\* What is left in the vector.
Kept(range) ==
  IF Movable(range)
  THEN SubSeq(m_list, 1, range.begin) \o SubSeq(m_list, range.end + 1, Len(m_list))
  ELSE m_list

\* The node is created.
Close ==
  /\ open # <<>>
  /\ m_list' = Kept(Top.range)
  /\ open' = Front(open)
  /\ UNCHANGED mixed

\* The stack of the automaton overflows: the ranges on it are lost, the items
\* stay in the vector.
GiveUp ==
  /\ open' = <<>>
  /\ mixed' = TRUE
  /\ UNCHANGED m_list

Next == First \/ Empty \/ Another \/ Close \/ GiveUp

Spec == Init /\ [][Next]_vars

-----------------------------------------------------------------------------
\* However lists nest and whatever was read between two of its items, a node
\* gets exactly the items of its list, in their order.  (Unless a list inside
\* another one starts with a comma: its range then begins at the bottom of
\* the vector and takes the items of the lists around it.)
ListGetsItsOwn ==
  ~mixed /\ open # <<>> => Moved(Top.range) = Top.items

\* When no list is open, no item is left behind for the next one to find.
NothingIsLeft == ~mixed /\ open = <<>> => m_list = <<>>
=============================================================================
