---------------------------- MODULE FnReturnCheck ----------------------------
(***************************************************************************)
(* The fourth check a module goes through: every function that declares a  *)
(* return type must end in a return statement (ReturnCheckVisitor, run by  *)
(* PassFnRet).  One visitor walks all the functions of a module and keeps  *)
(* a single flag, m_hasReturnStmt, which it carries from one function to   *)
(* the next.                                                               *)
(*                                                                         *)
(* The module being compiled is not fixed beforehand: each step chooses    *)
(* the next construct the walk meets, so the behaviours range over every   *)
(* module whose statement lists nest at most MaxDepth deep.                *)
(*                                                                         *)
(* The specification's own parts carry the check's name (ReturnsSpec), as  *)
(* BodyChecksProofs extends two such walks.                                *)
(***************************************************************************)
EXTENDS Naturals, Sequences

CONSTANT MaxDepth     \* bound: statement lists open at once in one function

ASSUME MaxDepthAssumption == MaxDepth \in Nat \ {0}

VARIABLES
  place,            \* where the walk is: "module", "body" or "jumped"
  m_hasReturnStmt,  \* the visitor's only state
  lists,            \* history: how each open statement list ends so far,
                    \* the function's body first
  checked           \* history: an earlier function of the module passed

returnsVars == <<place, m_hasReturnStmt, lists, checked>>

(***************************************************************************)
(* What a list of statements is known to do when control reaches its end:  *)
(*   "empty"   no statement was met yet                                    *)
(*   "falls"   its last statement does not return                          *)
(*   "returns" its last statement is a return, `return;` included          *)
(* A nested list stands in its parent for what its own last statement does.*)
(***************************************************************************)
ListEndings == {"empty", "falls", "returns"}

Depth == Len(lists)

\* The innermost open list with its ending replaced.
EndsWith(ls, e) == [ls EXCEPT ![Len(ls)] = e]

ReturnsTypeOK ==
  /\ place \in {"module", "body", "jumped"}
  /\ m_hasReturnStmt \in BOOLEAN
  /\ lists \in Seq(ListEndings)
  /\ Len(lists) <= MaxDepth
  /\ checked \in BOOLEAN
  /\ place = "module" => lists = <<>>
  /\ place \in {"body", "jumped"} => lists # <<>>

ReturnsInit ==
  /\ place = "module"
  /\ m_hasReturnStmt = FALSE
  /\ lists = <<>>
  /\ checked = FALSE

\* A function with a return type; one without is neither walked nor judged,
\* which changes nothing.  Nothing is reset here: the flag is only cleared
\* before each statement, so an empty body leaves it as it was.
StartBody ==
  /\ place = "module"
  /\ place' = "body"
  /\ lists' = <<"empty">>
  /\ UNCHANGED <<m_hasReturnStmt, checked>>

\* The loops over a body and over a nested list clear the flag before they
\* resolve a statement; StmtReturn then sets it, every other statement
\* leaves it cleared.
VisitReturn ==
  /\ place = "body"
  /\ m_hasReturnStmt' = TRUE
  /\ lists' = EndsWith(lists, "returns")
  /\ UNCHANGED <<place, checked>>

\* Faulty variant: a statement that does not return keeps the flag.
VisitOtherKeepsFlag ==
  /\ place = "body"
  /\ lists' = EndsWith(lists, "falls")
  /\ UNCHANGED <<place, m_hasReturnStmt, checked>>

VisitOther ==
  /\ place = "body"
  /\ m_hasReturnStmt' = FALSE
  /\ lists' = EndsWith(lists, "falls")
  /\ UNCHANGED <<place, checked>>

StartList ==
  /\ place = "body"
  /\ Depth < MaxDepth
  /\ m_hasReturnStmt' = FALSE
  /\ lists' = Append(lists, "empty")
  /\ UNCHANGED <<place, checked>>

\* The end of a nested list: the flag keeps what its last statement left.
EndList ==
  /\ place = "body"
  /\ Depth > 1
  /\ lists' = LET outer == SubSeq(lists, 1, Depth - 1)
                  e == lists[Depth]
              IN EndsWith(outer, IF e = "empty" THEN "falls" ELSE e)
  /\ UNCHANGED <<place, m_hasReturnStmt, checked>>

\* The verdict on the function whose body was walked.
EndOfBody(hasReturn) ==
  /\ place = "body"
  /\ Depth = 1
  /\ m_hasReturnStmt = hasReturn

Accept ==
  /\ EndOfBody(TRUE)
  /\ place' = "module"
  /\ lists' = <<>>
  /\ checked' = TRUE
  /\ UNCHANGED m_hasReturnStmt

\* ErrorFnNotAllStmtReturn is reported and the walk is left by a jump.
Reject ==
  /\ EndOfBody(FALSE)
  /\ place' = "jumped"
  /\ UNCHANGED <<m_hasReturnStmt, lists, checked>>

ReturnsNext ==
  \/ StartBody
  \/ VisitReturn
  \/ VisitOther
  \/ StartList
  \/ EndList
  \/ Accept
  \/ Reject

ReturnsSpec == ReturnsInit /\ [][ReturnsNext]_returnsVars

-----------------------------------------------------------------------------
(***************************************************************************)
(* EndOfBody(TRUE) describes the states in which a body may end and be     *)
(* accepted, EndOfBody(FALSE) those in which it would be rejected.         *)
(***************************************************************************)

\* A body with at least one statement is judged by its last statement,
\* however deeply nested lists put it there and whatever an earlier function
\* left in the flag.
VerdictFollowsLastStatement ==
  lists # <<>> /\ lists[1] # "empty" =>
    /\ EndOfBody(TRUE) => lists[1] = "returns"
    /\ EndOfBody(FALSE) => lists[1] # "returns"

\* The first valued function of a module is rejected when its body is empty
\* (the case the unit test FnReturnEmptyBody tries).
FirstEmptyBodyIsRejected ==
  ~checked /\ lists = <<"empty">> => ~EndOfBody(TRUE)
=============================================================================
