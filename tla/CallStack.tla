-------------------------------- MODULE CallStack --------------------------------
(* What the stack of the virtual machine promises: a sequence of frames, each *)
(* an interval of words.  A frame is opened behind the last one, takes        *)
(* arguments, is entered with the place to go back to, and is left for that   *)
(* place; leaving it finds the frame below as it was.                         *)
EXTENDS Integers, Sequences

CONSTANT Words            \* the words of the stack are 1 .. Words, a natural number

VARIABLES frames,         \* the frames, innermost last: first word, size, return place
          pc              \* where the machine is; 0 is nowhere

Frame == [base : Int, size : Int, back : Int]
EndOf(f) == f.base + f.size
Last == frames[Len(frames)]

Init == frames = <<>> /\ pc = 0

Below == SubSeq(frames, 1, Len(frames) - 1)

Newest == frames'[Len(frames')]

\* A frame may be opened while the one below still takes arguments.
Open ==
  /\ frames' # <<>> /\ frames' = Append(frames, Newest) /\ Newest \in Frame
  /\ Newest.base >= 1 /\ Newest.size >= 0 /\ EndOf(Newest) <= Words + 1 /\ Newest.back = 0
  /\ frames # <<>> => Newest.base > EndOf(Last)

Push ==
  /\ frames # <<>> /\ EndOf(Last) <= Words
  /\ frames' = [frames EXCEPT ![Len(frames)].size = @ + 1]

\* The frame gets the size the function needs; it goes back behind the call, or nowhere.
Enter ==
  /\ frames # <<>> /\ frames' # <<>> /\ frames' = Append(Below, Newest) /\ Newest \in Frame
  /\ Newest.base = Last.base /\ Newest.size >= 0 /\ EndOf(Newest) <= Words + 1
  /\ Newest.back \in {pc + 1, 0}

\* A frame is left for its return place, for behind the call when the call is a single
\* step, or because the machine stops.
Leave ==
  /\ frames # <<>>
  /\ pc' \in {Last.back, pc + 1, 0}
  /\ Len(frames) = 1 /\ Last.back = 0 => pc' = 0
  /\ frames' = Below

Next == Open \/ Push \/ Enter \/ Leave

\* Steps that do not touch the stack may take the machine anywhere.
Spec == Init /\ [][Next]_frames

\* No two frames share a word, and each lies within the stack.
Disjoint ==
  /\ \A i \in DOMAIN frames : frames[i].base >= 1 /\ EndOf(frames[i]) <= Words + 1
  /\ \A i, j \in DOMAIN frames : i < j => EndOf(frames[i]) < frames[j].base
================================================================================
