-------------------------------- MODULE Region --------------------------------
(***************************************************************************)
(* What an arena promises: each block it hands out is in one page, apart   *)
(* from every other, and stays its owner's until all are released at once. *)
(***************************************************************************)
EXTENDS Naturals

CONSTANT PageSize

VARIABLE held   \* the blocks that are handed out

Block == [page : Nat \ {0}, from : Nat, size : Nat \ {0}]

End(b) == b.from + b.size

Apart(b, c) ==
  \/ b.page # c.page
  \/ End(b) <= c.from
  \/ End(c) <= b.from

Init == held = {}

Take(b) ==
  /\ b \in Block
  /\ End(b) <= PageSize
  /\ \A c \in held : Apart(b, c)
  /\ held' = held \cup {b}

ReleaseAll == held' = {}

Next == ReleaseAll \/ \E b \in held' : Take(b)

Spec == Init /\ [][Next]_held
=============================================================================
