-------------------------- MODULE ProcessUnixProofs --------------------------
(***************************************************************************)
(* For pipes of any capacity, any input and any output: the status tells   *)
(* the truth about the launch, the caller gets all of the output, and what *)
(* stays open behind a run is known for every way out of it.               *)
(*                                                                         *)
(* The first rests on the child's copy of the control pipe: as long as the *)
(* child lives the parent cannot see the end of that pipe, so what it sees *)
(* was decided by the child before.  The second counts units: none is lost *)
(* between the input, the program and the output.                          *)
(***************************************************************************)
EXTENDS ProcessUnix, Integers, TLAPS

\* Places of the parent before the fork, and between the fork and the answer.
Preparing == pc \in {"run", "control_pipe", "output_pipe", "input_pipe", "fork"}
Launching == pc \in {"adopt", "feed", "close_control", "await"}
Lives == child \in {"forked", "failed", "running"}

-----------------------------------------------------------------------------
(* The invariant. *)

\* Where the parent is and what became of the child.
Places ==
  /\ Preparing => child = "none"
  /\ Launching => child \in {"forked", "failed", "running", "exited"}
  /\ Preparing \/ Launching => status = "none"
  /\ pc = "drain" => status = "Ok"
  /\ status = "Ok" => child \in {"exited", "reaped"}
  /\ pc \in {"returned", "join", "done"} => status # "none"
  /\ status = "FailedInputSupply" => child # "none"
  /\ status \in {"FailedArgumentCount", "FailedOutputRedirect", "FailedInputRedirect"} =>
       child = "none"

\* A child that has failed says so before it exits, and nobody else does.
ControlTellsFailure ==
  /\ child = "failed" => ~job.exec
  /\ child = "running" => job.exec
  /\ child \in {"exited", "reaped"} => (Empty("control") <=> job.exec)
  /\ ~Empty("control") => ~job.exec /\ child \notin {"none", "forked", "running"}

\* Before the fork the parent holds both ends of the pipes made so far.
HoldsBoth(pipes) ==
  \A p \in Pipes : /\ readers[p] = IF p \in pipes THEN {"parent"} ELSE {}
                   /\ writers[p] = IF p \in pipes THEN {"parent"} ELSE {}

PipesMade ==
  /\ pc \in {"run", "control_pipe"} => HoldsBoth({})
  /\ pc = "output_pipe" => HoldsBoth({"control"})
  /\ pc = "input_pipe" => HoldsBoth(Wanted \ {"input"})
  /\ pc = "fork" => HoldsBoth(Wanted)

\* What a return before there is a child leaves behind.
PipesLeft ==
  child = "none" =>
    /\ status = "FailedArgumentCount" => HoldsBoth({})
    /\ status = "FailedOutputRedirect" =>
         HoldsBoth({}) \/ (job.output /\ HoldsBoth({"control"}))
    /\ status = "FailedInputRedirect" => HoldsBoth(Wanted \ {"input"})
    /\ status = "FailedLaunch" => HoldsBoth(Wanted)

\* The ends a living child holds on to.
ChildEnds ==
  Lives => /\ "child" \in writers["control"]
           /\ job.input => "child" \in readers["input"]

\* Until when the parent of a child can hold an end; the control pipe is held
\* until it is asked, for ever if the feeding fails.
ParentEnds ==
  child # "none" =>
    /\ "parent" \in readers["input"] \cup writers["output"] => pc = "adopt"
    /\ "parent" \in writers["input"] => job.input /\ pc \in {"adopt", "feed"}
    /\ "parent" \in writers["control"] <=>
         pc \in {"adopt", "feed", "close_control"} \/ status = "FailedInputSupply"
    /\ "parent" \in readers["control"] <=> Launching \/ status = "FailedInputSupply"
    /\ "parent" \in readers["output"] => pc # "done"

\* While the parent feeds the child it holds the input; it lets go of it when
\* all was fed or nobody reads it.
InputIsFed ==
  /\ pc \in {"adopt", "feed"} /\ job.input => "parent" \in writers["input"]
  /\ Lives /\ job.input => "parent" \in writers["input"] \/ fed = job.inSize

\* Units on their way, from the input through the program to the caller.
UnitsAreKept ==
  /\ child \in {"none", "forked"} => buf["output"] = 0 /\ received = 0 /\ buf["input"] = fed
  /\ child = "running" /\ job.output =>
       received + buf["output"] + held =
         IF job.program = "echo" THEN fed - buf["input"] ELSE job.outSize
  /\ child \in {"exited", "reaped"} /\ job.exec /\ job.output =>
       received + buf["output"] = Written(job)

\* Who knows what, who holds what, and what is on its way.
Verdict == Places /\ ControlTellsFailure /\ StatusTruthful
Ends == PipesMade /\ PipesLeft /\ ChildEnds /\ ParentEnds
Units == InputIsFed /\ UnitsAreKept /\ OutputComplete

IInv == TypeOK /\ Verdict /\ Ends /\ Units

-----------------------------------------------------------------------------
(* The steps. *)

USE ProcessAssumption
    DEF IInv, Verdict, Ends, Units, Preparing, Launching, Lives, Pipes, Procs

LEMMA CheckArgumentsStep == ASSUME IInv, CheckArguments PROVE IInv'
<1> USE DEF CheckArguments, Return, pipeVars
<1>1. TypeOK'
  BY DEF TypeOK, Statuses, ParentPlaces
<1>2. Verdict'
  BY DEF Places, ControlTellsFailure, StatusTruthful, Empty
<1>3. Ends'
  BY DEF PipesMade, PipesLeft, ChildEnds, ParentEnds, HoldsBoth, Places, Wanted
<1>4. Units'
  BY DEF InputIsFed, UnitsAreKept, OutputComplete
<1> QED BY <1>1, <1>2, <1>3, <1>4

LEMMA MakeControlPipeStep == ASSUME IInv, MakeControlPipe PROVE IInv'
<1> USE DEF MakeControlPipe, MakePipe, Return
<1>1. TypeOK'
  BY DEF TypeOK, Statuses, ParentPlaces
<1>2. Verdict'
  BY DEF Places, ControlTellsFailure, StatusTruthful, Empty
<1>3. Ends'
  BY DEF PipesMade, PipesLeft, ChildEnds, ParentEnds, TypeOK, Places, HoldsBoth
<1>4. Units'
  BY DEF InputIsFed, UnitsAreKept, OutputComplete, TypeOK
<1> QED BY <1>1, <1>2, <1>3, <1>4

LEMMA MakeOutputPipeStep == ASSUME IInv, MakeOutputPipe PROVE IInv'
<1> USE DEF MakeOutputPipe, MakePipe, Return
<1>1. TypeOK'
  BY DEF TypeOK, Statuses, ParentPlaces
<1>2. Verdict'
  BY DEF Places, ControlTellsFailure, StatusTruthful, Empty
<1>3. Ends'
  BY DEF PipesMade, PipesLeft, ChildEnds, ParentEnds, TypeOK, Places, HoldsBoth,
         Wanted
<1>4. Units'
  BY DEF InputIsFed, UnitsAreKept, OutputComplete, TypeOK
<1> QED BY <1>1, <1>2, <1>3, <1>4

LEMMA MakeInputPipeStep == ASSUME IInv, MakeInputPipe PROVE IInv'
<1> USE DEF MakeInputPipe, MakePipe, Return
<1>1. TypeOK'
  BY DEF TypeOK, Statuses, ParentPlaces
<1>2. Verdict'
  BY DEF Places, ControlTellsFailure, StatusTruthful, Empty
<1>3. Ends'
  BY DEF PipesMade, PipesLeft, ChildEnds, ParentEnds, TypeOK, Places, HoldsBoth,
         Wanted
<1>4. Units'
  BY DEF InputIsFed, UnitsAreKept, OutputComplete, TypeOK
<1> QED BY <1>1, <1>2, <1>3, <1>4

LEMMA ForkStep == ASSUME IInv, Fork PROVE IInv'
<1> USE DEF Fork, Return
<1>1. TypeOK'
  BY DEF TypeOK, Statuses, ParentPlaces
<1>2. Verdict'
  BY DEF Places, ControlTellsFailure, StatusTruthful, Empty
<1>3. Ends'
  BY DEF PipesMade, PipesLeft, ChildEnds, ParentEnds, Places, HoldsBoth, Wanted
<1>4. Units'
  BY DEF InputIsFed, UnitsAreKept, OutputComplete, Places, PipesMade,
         HoldsBoth, Wanted
<1> QED BY <1>1, <1>2, <1>3, <1>4

LEMMA AdoptStep == ASSUME IInv, Adopt PROVE IInv'
<1> USE DEF Adopt, Close, ParentCloses
<1>1. TypeOK'
  BY DEF TypeOK, ParentPlaces
<1>2. Verdict'
  BY DEF Places, ControlTellsFailure, StatusTruthful, Empty
<1>3. Ends'
  <2>1. /\ pc = "adopt" /\ child # "none" /\ child' = child
        /\ pc' = IF job.input THEN "feed" ELSE "close_control"
        /\ \A p \in Pipes : readers'[p] = IF p = "input" THEN readers[p] \ {"parent"} ELSE readers[p]
        /\ \A p \in Pipes : writers'[p] = IF p = "output" THEN writers[p] \ {"parent"} ELSE writers[p]
    BY DEF Places
  <2>2. PipesMade'
    BY <2>1 DEF PipesMade
  <2>5. PipesLeft'
    BY <2>1 DEF PipesLeft
  <2>3. ChildEnds'
    BY <2>1 DEF ChildEnds
  <2>4. ParentEnds'
    BY <2>1 DEF ParentEnds
  <2> QED BY <2>2, <2>3, <2>4, <2>5
<1>4. Units'
  BY DEF InputIsFed, UnitsAreKept, OutputComplete
<1> QED BY <1>1, <1>2, <1>3, <1>4

LEMMA FeedStep == ASSUME IInv, Feed PROVE IInv'
<1> USE DEF Feed, MoreInput, Full
<1>1. TypeOK'
  BY DEF TypeOK, SoundJobs, Jobs
<1>2. Verdict'
  BY DEF Places, ControlTellsFailure, StatusTruthful, Empty
<1>3. Ends'
  BY DEF PipesMade, PipesLeft, ChildEnds, ParentEnds, Places
<1>4. Units'
  BY DEF InputIsFed, UnitsAreKept, OutputComplete, TypeOK
<1> QED BY <1>1, <1>2, <1>3, <1>4

LEMMA FeedBrokenStep == ASSUME IInv, FeedBroken PROVE IInv'
<1> USE DEF FeedBroken, MoreInput, Close, AllEnds, WriteEnd, Return
<1>1. TypeOK'
  BY DEF TypeOK, Statuses, ParentPlaces
<1>2. Verdict'
  BY DEF Places, ControlTellsFailure, StatusTruthful, Empty
<1>3. Ends'
  BY DEF PipesMade, PipesLeft, ChildEnds, ParentEnds, Places
<1>4. Units'
  BY DEF InputIsFed, UnitsAreKept, OutputComplete, ChildEnds
<1> QED BY <1>1, <1>2, <1>3, <1>4

LEMMA FeedEndStep == ASSUME IInv, FeedEnd PROVE IInv'
<1> USE DEF FeedEnd, MoreInput, Close, WriteEnd
<1>1. TypeOK'
  BY DEF TypeOK, ParentPlaces
<1>2. Verdict'
  BY DEF Places, ControlTellsFailure, StatusTruthful, Empty
<1>3. Ends'
  BY DEF PipesMade, PipesLeft, ChildEnds, ParentEnds, Places
<1>4. Units'
  BY DEF InputIsFed, UnitsAreKept, OutputComplete, TypeOK, SoundJobs, Jobs
<1> QED BY <1>1, <1>2, <1>3, <1>4

LEMMA CloseControlStep == ASSUME IInv, CloseControl PROVE IInv'
<1> USE DEF CloseControl, Close, WriteEnd
<1>1. TypeOK'
  BY DEF TypeOK, ParentPlaces
<1>2. Verdict'
  BY DEF Places, ControlTellsFailure, StatusTruthful, Empty
<1>3. Ends'
  BY DEF PipesMade, PipesLeft, ChildEnds, ParentEnds, Places
<1>4. Units'
  BY DEF InputIsFed, UnitsAreKept, OutputComplete
<1> QED BY <1>1, <1>2, <1>3, <1>4

LEMMA AwaitLaunchStep == ASSUME IInv, AwaitLaunch PROVE IInv'
<1> USE DEF AwaitLaunch, Close, ReadEnd, Return, AtEnd, Empty
<1>1. TypeOK'
  BY DEF TypeOK, Statuses, ParentPlaces
<1>2. Verdict'
  BY DEF Places, ControlTellsFailure, StatusTruthful, ChildEnds
<1>3. Ends'
  BY DEF PipesMade, PipesLeft, ChildEnds, ParentEnds, Places
<1>4. Units'
  BY DEF InputIsFed, UnitsAreKept, OutputComplete
<1> QED BY <1>1, <1>2, <1>3, <1>4

LEMMA CollectStep == ASSUME IInv, Collect PROVE IInv'
<1> USE DEF Collect, DropOutput
<1>1. TypeOK'
  BY DEF TypeOK, ParentPlaces
<1>2. Verdict'
  BY DEF Places, ControlTellsFailure, StatusTruthful, Empty
<1>3. Ends'
  <2>1. child = "none" => status # "Ok" /\ readers' = readers /\ writers' = writers
    BY DEF Places
  <2>2. PipesLeft'
    BY <2>1 DEF PipesLeft, HoldsBoth, Wanted
  <2>3. PipesMade' /\ ChildEnds' /\ ParentEnds'
    BY DEF PipesMade, ChildEnds, ParentEnds, TypeOK, Places
  <2> QED BY <2>2, <2>3
<1>4. Units'
  BY DEF InputIsFed, UnitsAreKept, OutputComplete
<1> QED BY <1>1, <1>2, <1>3, <1>4

LEMMA DrainStep == ASSUME IInv, Drain PROVE IInv'
<1> USE DEF Drain, Empty
<1>1. TypeOK'
  BY DEF TypeOK
<1>2. Verdict'
  BY DEF Places, ControlTellsFailure, StatusTruthful
<1>3. Ends'
  <2>1. child = "none" => status # "Ok" /\ readers' = readers /\ writers' = writers
    BY DEF Places
  <2>2. PipesLeft'
    BY <2>1 DEF PipesLeft, HoldsBoth, Wanted
  <2>3. PipesMade' /\ ChildEnds' /\ ParentEnds'
    BY DEF PipesMade, ChildEnds, ParentEnds, TypeOK, Places
  <2> QED BY <2>2, <2>3
<1>4. Units'
  BY DEF InputIsFed, UnitsAreKept, OutputComplete, TypeOK
<1> QED BY <1>1, <1>2, <1>3, <1>4

LEMMA DrainEndStep == ASSUME IInv, DrainEnd PROVE IInv'
<1> USE DEF DrainEnd, AtEnd, Empty, pipeVars
<1>1. TypeOK'
  BY DEF TypeOK, ParentPlaces
<1>2. Verdict'
  BY DEF Places, ControlTellsFailure, StatusTruthful
<1>3. Ends'
  <2>1. child = "none" => status # "Ok" /\ readers' = readers /\ writers' = writers
    BY DEF Places
  <2>2. PipesLeft'
    BY <2>1 DEF PipesLeft, HoldsBoth, Wanted
  <2>3. PipesMade' /\ ChildEnds' /\ ParentEnds'
    BY DEF PipesMade, ChildEnds, ParentEnds, TypeOK, Places
  <2> QED BY <2>2, <2>3
<1>4. Units'
  BY DEF InputIsFed, UnitsAreKept, OutputComplete, TypeOK, Places,
         StatusTruthful
<1> QED BY <1>1, <1>2, <1>3, <1>4

LEMMA JoinStep == ASSUME IInv, Join PROVE IInv'
<1> USE DEF Join, DropOutput
<1>1. TypeOK'
  BY DEF TypeOK, ParentPlaces
<1>2. Verdict'
  BY DEF Places, ControlTellsFailure, StatusTruthful, Empty
<1>3. Ends'
  <2>1. child = "none" => status # "Ok" /\ readers' = readers /\ writers' = writers
    BY DEF Places
  <2>2. PipesLeft'
    BY <2>1 DEF PipesLeft, HoldsBoth, Wanted
  <2>3. PipesMade' /\ ChildEnds' /\ ParentEnds'
    BY DEF PipesMade, ChildEnds, ParentEnds, TypeOK, Places
  <2> QED BY <2>2, <2>3
<1>4. Units'
  BY DEF InputIsFed, UnitsAreKept, OutputComplete
<1> QED BY <1>1, <1>2, <1>3, <1>4

LEMMA LaunchStep == ASSUME IInv, Launch PROVE IInv'
<1> USE DEF Launch, Close, ChildCloses
<1>1. TypeOK'
  BY DEF TypeOK, SoundJobs, Jobs
<1>2. Verdict'
  BY DEF Places, ControlTellsFailure, StatusTruthful, Empty
<1>3. Ends'
  BY DEF PipesMade, PipesLeft, ChildEnds, ParentEnds, Places
<1>4. Units'
  <2>1. /\ job' = job /\ pc' = pc /\ status' = status /\ buf' = buf /\ fed' = fed
        /\ received' = received /\ child = "forked" /\ child' \in {"running", "failed"}
        /\ held' = IF job.program = "emit" THEN job.outSize ELSE 0
        /\ writers' = [p \in Pipes |-> IF p = "input" THEN writers[p] \ {"child"} ELSE writers[p]]
    OBVIOUS
  <2>2. InputIsFed'
    BY <2>1 DEF InputIsFed
  <2>3. UnitsAreKept'
    <3>1. /\ buf["output"] = 0 /\ received = 0 /\ buf["input"] = fed
          /\ fed \in Nat /\ job.outSize \in Nat /\ job.program \in {"emit", "echo"}
      BY <2>1 DEF UnitsAreKept, TypeOK, SoundJobs, Jobs
    <3> QED BY <2>1, <3>1 DEF UnitsAreKept
  <2>4. OutputComplete'
    BY <2>1 DEF OutputComplete, Places
  <2> QED BY <2>2, <2>3, <2>4
<1> QED BY <1>1, <1>2, <1>3, <1>4

LEMMA ReportFailureStep == ASSUME IInv, ReportFailure PROVE IInv'
<1> USE DEF ReportFailure, Empty
<1>1. TypeOK'
  BY DEF TypeOK
<1>2. Verdict'
  BY DEF Places, ControlTellsFailure, StatusTruthful
<1>3. Ends'
  BY DEF PipesMade, PipesLeft, ChildEnds, ParentEnds, Places
<1>4. Units'
  BY DEF InputIsFed, UnitsAreKept, OutputComplete
<1> QED BY <1>1, <1>2, <1>3, <1>4

LEMMA FailureExitStep == ASSUME IInv, FailureExit PROVE IInv'
<1> USE DEF FailureExit, Exit, Close, AllEnds, Empty
<1>1. TypeOK'
  BY DEF TypeOK
<1>2. Verdict'
  BY DEF Places, ControlTellsFailure, StatusTruthful
<1>3. Ends'
  BY DEF PipesMade, PipesLeft, ChildEnds, ParentEnds, Places
<1>4. Units'
  BY DEF InputIsFed, UnitsAreKept, OutputComplete, ControlTellsFailure
<1> QED BY <1>1, <1>2, <1>3, <1>4

LEMMA ProgramReadStep == ASSUME IInv, ProgramRead PROVE IInv'
<1> USE DEF ProgramRead, Empty
<1>1. TypeOK'
  BY DEF TypeOK
<1>2. Verdict'
  BY DEF Places, ControlTellsFailure, StatusTruthful
<1>3. Ends'
  BY DEF PipesMade, PipesLeft, ChildEnds, ParentEnds, Places
<1>4. Units'
  BY DEF InputIsFed, UnitsAreKept, OutputComplete, TypeOK
<1> QED BY <1>1, <1>2, <1>3, <1>4

LEMMA ProgramWriteStep == ASSUME IInv, ProgramWrite PROVE IInv'
<1> USE DEF ProgramWrite, Full
<1>1. TypeOK'
  BY DEF TypeOK
<1>2. Verdict'
  BY DEF Places, ControlTellsFailure, StatusTruthful, Empty
<1>3. Ends'
  BY DEF PipesMade, PipesLeft, ChildEnds, ParentEnds, Places
<1>4. Units'
  BY DEF InputIsFed, UnitsAreKept, OutputComplete, TypeOK
<1> QED BY <1>1, <1>2, <1>3, <1>4

LEMMA ProgramExitStep == ASSUME IInv, ProgramExit PROVE IInv'
<1> USE DEF ProgramExit, Exit, Close, AllEnds, AtEnd, Empty
<1>1. TypeOK'
  BY DEF TypeOK
<1>2. Verdict'
  BY DEF Places, ControlTellsFailure, StatusTruthful
<1>3. Ends'
  BY DEF PipesMade, PipesLeft, ChildEnds, ParentEnds, Places
<1>4. Units'
  BY DEF InputIsFed, UnitsAreKept, OutputComplete, TypeOK, Written, SoundJobs
<1> QED BY <1>1, <1>2, <1>3, <1>4

-----------------------------------------------------------------------------
(* The theorems. *)

LEMMA InitHolds == Init => IInv
<1> SUFFICES ASSUME Init PROVE IInv
  OBVIOUS
<1> USE DEF Init
<1>1. TypeOK
  <2>1. 0 \in 0..PipeCapacity /\ job.inSize \in Nat
    BY DEF SoundJobs, Jobs
  <2> QED BY <2>1 DEF TypeOK, ParentPlaces, Statuses
<1>2. Verdict
  BY DEF Places, ControlTellsFailure, StatusTruthful, Empty
<1>3. Ends
  BY DEF PipesMade, PipesLeft, HoldsBoth, ChildEnds, ParentEnds
<1>4. Units
  BY DEF InputIsFed, UnitsAreKept, OutputComplete
<1> QED BY <1>1, <1>2, <1>3, <1>4

LEMMA NothingStep == ASSUME IInv, UNCHANGED vars PROVE IInv'
<1> USE DEF vars
<1>1. TypeOK'
  BY DEF TypeOK
<1>2. Verdict'
  BY DEF Places, ControlTellsFailure, StatusTruthful, Empty
<1>3. Ends'
  BY DEF PipesMade, PipesLeft, HoldsBoth, Wanted, ChildEnds, ParentEnds
<1>4. Units'
  BY DEF InputIsFed, UnitsAreKept, OutputComplete
<1> QED BY <1>1, <1>2, <1>3, <1>4

LEMMA StepHolds == IInv /\ [Next]_vars => IInv'
<1> SUFFICES ASSUME IInv, [Next]_vars PROVE IInv'
  OBVIOUS
<1>1. CASE Parent
  BY <1>1, CheckArgumentsStep, MakeControlPipeStep, MakeOutputPipeStep,
     MakeInputPipeStep, ForkStep, AdoptStep, FeedStep, FeedBrokenStep,
     FeedEndStep, CloseControlStep, AwaitLaunchStep, CollectStep, DrainStep,
     DrainEndStep, JoinStep
     DEF Parent
<1>2. CASE Child
  BY <1>2, LaunchStep, ReportFailureStep, FailureExitStep, ProgramReadStep,
     ProgramWriteStep, ProgramExitStep
     DEF Child
<1>3. CASE UNCHANGED vars
  BY <1>3, NothingStep
<1> QED BY <1>1, <1>2, <1>3 DEF Next

\* The invariant holds for pipes of any capacity, any input and any output.
THEOREM ProcessInvariant == Spec => []IInv
BY InitHolds, StepHolds, PTL DEF Spec

\* Parent and child stay where the model places them, and no pipe holds more
\* than its capacity.
THEOREM TypeCorrect == Spec => []TypeOK
<1>1. IInv => TypeOK
  OBVIOUS
<1> QED BY <1>1, ProcessInvariant, PTL

\* Although the child races the parent, Ok is only returned when execv worked
\* and FailedLaunch only when there is no child or execv failed.
THEOREM StatusIsTruthful == Spec => []StatusTruthful
<1>1. IInv => StatusTruthful
  OBVIOUS
<1> QED BY <1>1, ProcessInvariant, PTL

\* No run of a child is reported to be underway before the child has exited:
\* the child's copy of the control pipe stays open across execv, so execute()
\* waits for the end of the child instead of the start of its program.
OkAfterExit == status = "Ok" => child \in {"exited", "reaped"}

THEOREM OkComesAfterExit == Spec => []OkAfterExit
<1>1. IInv => OkAfterExit
  BY DEF Places, OkAfterExit
<1> QED BY <1>1, ProcessInvariant, PTL

\* Who read the output of a successful run to its end has all of it, and an
\* echoing child saw all of its input.
THEOREM OutputIsComplete == Spec => []OutputComplete
<1>1. IInv => OutputComplete
  OBVIOUS
<1> QED BY <1>1, ProcessInvariant, PTL

\* On every way out of a run it is known which pipes stay open in the parent:
\* none after a launch that worked or is known to have failed, the pipes made so
\* far after a return before there is a child, the control pipe when the child
\* could not be fed.
THEOREM OnlyFailuresLeavePipes == Spec => []OnlyFailuresLeak
<1>1. IInv => OnlyFailuresLeak
  <2> SUFFICES ASSUME IInv, pc = "done" PROVE OnlyFailuresLeak
    BY DEF OnlyFailuresLeak
  <2>1. CASE child = "none"
    <3>1. ASSUME NEW pipes, HoldsBoth(pipes) PROVE HeldByParent(pipes)
      BY <3>1 DEF HoldsBoth, HeldByParent
    <3> QED BY <2>1, <3>1 DEF PipesLeft, Places, OnlyFailuresLeak
  <2>2. CASE child # "none"
    <3>1. /\ status = "FailedInputSupply" => HeldByParent({"control"})
          /\ status # "FailedInputSupply" => HeldByParent({})
      BY <2>2 DEF ParentEnds, HeldByParent
    <3> QED BY <2>2, <3>1 DEF Places, OnlyFailuresLeak
  <2> QED BY <2>1, <2>2
<1> QED BY <1>1, ProcessInvariant, PTL
=============================================================================
