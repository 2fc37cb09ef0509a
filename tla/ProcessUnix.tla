----------------------------- MODULE ProcessUnix -----------------------------
(***************************************************************************)
(* Running a child process: Process::run, ProcessUnix::execute and         *)
(* joinImpl, with the caller's side (BackendC::execute reads the child's   *)
(* output to its end, then joins).  The C backend runs the C compiler this *)
(* way.                                                                    *)
(*                                                                         *)
(* Parent and child are two processes that share up to three pipes: one    *)
(* feeds the child's input, one returns its output and a control pipe      *)
(* tells the parent whether execv worked.  A pipe holds a bounded amount,  *)
(* a write blocks while it is full, a read blocks while it is empty and    *)
(* somebody may still write to it.  Amounts are counted in units of the    *)
(* 512-byte buffer both sides copy with; the bytes themselves are left out.*)
(***************************************************************************)
EXTENDS Naturals

CONSTANTS
  PipeCapacity,   \* units a pipe holds before a write blocks
  MaxInput,       \* bound: units the caller supplies as input
  MaxOutput,      \* bound: units the child program writes
  ProgramBuffer   \* units the echoing child holds between reading and writing

ASSUME ProcessAssumption ==
  /\ PipeCapacity \in Nat \ {0}
  /\ MaxInput \in Nat
  /\ MaxOutput \in Nat
  /\ ProgramBuffer \in Nat \ {0}

Pipes == {"control", "output", "input"}
Procs == {"parent", "child"}

(***************************************************************************)
(* What is asked for and what the environment answers.  "emit" stands for  *)
(* a compiler: it writes its messages and never reads its input.  "echo"   *)
(* is tests/process/redirect.cpp.                                          *)
(***************************************************************************)
Jobs == [argsFit    : BOOLEAN,        \* at most MaxArgCount() arguments
         input      : BOOLEAN,        \* args.input is given
         inSize     : 0..MaxInput,
         output     : BOOLEAN,        \* args.captureOutput
         outSize    : 0..MaxOutput,   \* what "emit" writes
         program    : {"emit", "echo"},
         exec       : BOOLEAN,        \* execv will succeed
         sigpipe    : BOOLEAN]        \* SIGPIPE kills the parent (the default)

\* How much the child program writes in all.
Written(j) == IF j.program = "echo" THEN j.inSize ELSE j.outSize

\* Jobs that make sense: sizes only where they are used, and no echo of an
\* input that is not there.
SoundJobs == {j \in Jobs : /\ ~j.input => j.inSize = 0 /\ j.program = "emit"
                           /\ j.program = "echo" => j.outSize = 0
                           /\ Written(j) <= MaxOutput}

VARIABLES
  job,        \* the request, fixed at the start
  pc,         \* where the parent is
  status,     \* result.status
  child,      \* the child's life: none, forked, failed, running, exited, reaped
  readers,    \* per pipe, the processes that hold its read end
  writers,    \* per pipe, the processes that hold its write end
  buf,        \* per pipe, the units in transit
  fed,        \* units written to the input pipe
  held,       \* units the child program is ready to write
  received    \* units the caller read from the output pipe

vars == <<job, pc, status, child, readers, writers, buf, fed, held, received>>
pipeVars == <<readers, writers, buf>>

Statuses == {"none", "Ok", "FailedArgumentCount", "FailedInputRedirect",
             "FailedOutputRedirect", "FailedInputSupply", "FailedLaunch"}

ParentPlaces == {"run", "control_pipe", "output_pipe", "input_pipe", "fork",
                 "adopt", "feed", "close_control", "await", "returned",
                 "drain", "join", "done", "killed"}

TypeOK ==
  /\ job \in SoundJobs
  /\ pc \in ParentPlaces
  /\ status \in Statuses
  /\ child \in {"none", "forked", "failed", "running", "exited", "reaped"}
  /\ readers \in [Pipes -> SUBSET Procs]
  /\ writers \in [Pipes -> SUBSET Procs]
  /\ buf \in [Pipes -> 0..PipeCapacity]
  /\ fed \in 0..job.inSize
  /\ held \in Nat
  /\ received \in Nat

Init ==
  /\ job \in SoundJobs
  /\ pc = "run"
  /\ status = "none"
  /\ child = "none"
  /\ readers = [p \in Pipes |-> {}]
  /\ writers = [p \in Pipes |-> {}]
  /\ buf = [p \in Pipes |-> 0]
  /\ fed = 0
  /\ held = 0
  /\ received = 0

-----------------------------------------------------------------------------
(* The kernel's side of a pipe. *)

Full(p)  == buf[p] = PipeCapacity
Empty(p) == buf[p] = 0

\* A read returns 0.  (Faulty variant: as soon as the pipe runs dry.)
AtEndWhenDry(p) == Empty(p)
AtEnd(p) == Empty(p) /\ writers[p] = {}

\* Process q gives up some of its ends: ends.read of the read ends, ends.write
\* of the write ends.
Close(q, ends) ==
  /\ readers' = [p \in Pipes |-> IF p \in ends.read THEN readers[p] \ {q} ELSE readers[p]]
  /\ writers' = [p \in Pipes |-> IF p \in ends.write THEN writers[p] \ {q} ELSE writers[p]]

AllEnds == [read |-> Pipes, write |-> Pipes]
ReadEnd(p) == [read |-> {p}, write |-> {}]
WriteEnd(p) == [read |-> {}, write |-> {p}]

\* What each process closes of the pipes it has no use for.  (Faulty variant:
\* one end too few.)
ParentClosesTooLittle == WriteEnd("output")
ParentCloses == [read |-> {"input"}, write |-> {"output"}]

ChildClosesTooLittle == [read |-> {"output", "control"}, write |-> {}]
ChildCloses == [read |-> {"output", "control"}, write |-> {"input"}]

Return(s) == pc' = "returned" /\ status' = s

-----------------------------------------------------------------------------
(* The parent: Process::run and ProcessUnix::execute. *)

CheckArguments ==
  /\ pc = "run"
  /\ IF job.argsFit
     THEN pc' = "control_pipe" /\ UNCHANGED status
     ELSE Return("FailedArgumentCount")
  /\ UNCHANGED <<job, child, pipeVars, fed, held, received>>

\* pipe(): both ends in the parent, or an early return that leaves the pipes
\* made before it open.
MakePipe(here, p, wanted, failure, next) ==
  /\ pc = here
  /\ \/ /\ ~wanted
        /\ pc' = next
        /\ UNCHANGED <<status, readers, writers>>
     \/ /\ wanted
        /\ pc' = next
        /\ readers' = [readers EXCEPT ![p] = {"parent"}]
        /\ writers' = [writers EXCEPT ![p] = {"parent"}]
        /\ UNCHANGED status
     \/ /\ wanted
        /\ Return(failure)
        /\ UNCHANGED <<readers, writers>>
  /\ UNCHANGED <<job, child, buf, fed, held, received>>

MakeControlPipe ==
  MakePipe("control_pipe", "control", TRUE, "FailedOutputRedirect", "output_pipe")
MakeOutputPipe ==
  MakePipe("output_pipe", "output", job.output, "FailedOutputRedirect", "input_pipe")
MakeInputPipe ==
  MakePipe("input_pipe", "input", job.input, "FailedInputRedirect", "fork")

\* fork(): the child inherits every end the parent holds.
Fork ==
  /\ pc = "fork"
  /\ \/ /\ pc' = "adopt"
        /\ child' = "forked"
        /\ readers' = [p \in Pipes |-> IF readers[p] = {} THEN {} ELSE Procs]
        /\ writers' = [p \in Pipes |-> IF writers[p] = {} THEN {} ELSE Procs]
        /\ UNCHANGED status
     \/ /\ Return("FailedLaunch")
        /\ UNCHANGED <<child, readers, writers>>
  /\ UNCHANGED <<job, buf, fed, held, received>>

\* The parent keeps the read end of the output and the write end of the input.
Adopt ==
  /\ pc = "adopt"
  /\ Close("parent", ParentCloses)
  /\ pc' = IF job.input THEN "feed" ELSE "close_control"
  /\ UNCHANGED <<job, status, child, buf, fed, held, received>>

\* The input stream has another block.
MoreInput == fed < job.inSize

\* One turn of the copy loop.  Writing to a pipe nobody reads raises SIGPIPE;
\* where that is ignored, write() fails and execute() returns early.
Feed ==
  /\ pc = "feed"
  /\ MoreInput
  /\ readers["input"] # {}
  /\ ~Full("input")
  /\ buf' = [buf EXCEPT !["input"] = @ + 1]
  /\ fed' = fed + 1
  /\ UNCHANGED <<job, pc, status, child, readers, writers, held, received>>

FeedBroken ==
  /\ pc = "feed"
  /\ MoreInput
  /\ readers["input"] = {}
  /\ IF job.sigpipe
     THEN /\ pc' = "killed"
          /\ Close("parent", AllEnds)
          /\ UNCHANGED status
     ELSE /\ Close("parent", WriteEnd("input"))
          /\ Return("FailedInputSupply")
  /\ UNCHANGED <<job, child, buf, fed, held, received>>

FeedEnd ==
  /\ pc = "feed"
  /\ ~MoreInput
  /\ Close("parent", WriteEnd("input"))
  /\ pc' = "close_control"
  /\ UNCHANGED <<job, status, child, buf, fed, held, received>>

CloseControl ==
  /\ pc = "close_control"
  /\ Close("parent", WriteEnd("control"))
  /\ pc' = "await"
  /\ UNCHANGED <<job, status, child, buf, fed, held, received>>

\* read() on the control pipe: data means execv failed, the end of the pipe
\* means the child is underway.
AwaitLaunch ==
  /\ pc = "await"
  /\ \/ ~Empty("control") /\ Return("FailedLaunch")
     \/ AtEnd("control") /\ Return("Ok")
  /\ Close("parent", ReadEnd("control"))
  /\ UNCHANGED <<job, child, buf, fed, held, received>>

-----------------------------------------------------------------------------
(* The caller, after run() returned: BackendC::execute. *)

\* result.output goes away and closes the end it reads from; there is such a
\* stream only once there is a child.
DropOutput ==
  /\ readers' = IF child = "none" THEN readers
                ELSE [readers EXCEPT !["output"] = @ \ {"parent"}]
  /\ UNCHANGED writers

\* A failed run is given up: the output stream is destroyed, then the Process.
\* Otherwise the output is read to its end.
Collect ==
  /\ pc = "returned"
  /\ \/ status = "Ok" /\ pc' = "drain" /\ UNCHANGED <<readers, writers>>
     \/ status # "Ok" /\ pc' = "join" /\ DropOutput
  /\ UNCHANGED <<job, status, child, buf, fed, held, received>>

Drain ==
  /\ pc = "drain"
  /\ job.output
  /\ ~Empty("output")
  /\ buf' = [buf EXCEPT !["output"] = @ - 1]
  /\ received' = received + 1
  /\ UNCHANGED <<job, pc, status, child, readers, writers, fed, held>>

DrainEnd ==
  /\ pc = "drain"
  /\ job.output => AtEnd("output")
  /\ pc' = "join"
  /\ UNCHANGED <<job, status, child, pipeVars, fed, held, received>>

\* join() or the destructor: waitpid() unless there is no child; the output
\* stream goes out of scope afterwards.
Join ==
  /\ pc = "join"
  /\ child \in {"none", "exited"}
  /\ child' = IF child = "exited" THEN "reaped" ELSE child
  /\ DropOutput
  /\ pc' = "done"
  /\ UNCHANGED <<job, status, buf, fed, held, received>>

-----------------------------------------------------------------------------
(* The child: its branch of execute(), then the program it became. *)

Exit ==
  /\ child' = "exited"
  /\ Close("child", AllEnds)

\* Redirections, then execv.  The copies on the standard descriptors make the
\* child keep the read end of its input and the write end of its output; the
\* write end of the control pipe stays open across execv.
Launch ==
  /\ child = "forked"
  /\ Close("child", ChildCloses)
  /\ child' = IF job.exec THEN "running" ELSE "failed"
  /\ held' = IF job.program = "emit" THEN job.outSize ELSE 0
  /\ UNCHANGED <<job, pc, status, buf, fed, received>>

\* execv came back: "err" goes to the control pipe, then the child exits.
ReportFailure ==
  /\ child = "failed"
  /\ Empty("control")
  /\ buf' = [buf EXCEPT !["control"] = 1]
  /\ UNCHANGED <<job, pc, status, child, readers, writers, fed, held, received>>

FailureExit ==
  /\ child = "failed"
  /\ ~Empty("control")
  /\ Exit
  /\ UNCHANGED <<job, pc, status, buf, fed, held, received>>

ProgramRead ==
  /\ child = "running"
  /\ job.program = "echo"
  /\ held < ProgramBuffer
  /\ ~Empty("input")
  /\ buf' = [buf EXCEPT !["input"] = @ - 1]
  /\ held' = held + 1
  /\ UNCHANGED <<job, pc, status, child, readers, writers, fed, received>>

\* Without a captured output the standard streams are closed and what the
\* program writes is lost.
ProgramWrite ==
  /\ child = "running"
  /\ held > 0
  /\ job.output => ~Full("output")
  /\ buf' = IF job.output THEN [buf EXCEPT !["output"] = @ + 1] ELSE buf
  /\ held' = held - 1
  /\ UNCHANGED <<job, pc, status, child, readers, writers, fed, received>>

ProgramExit ==
  /\ child = "running"
  /\ held = 0
  /\ job.program = "echo" => AtEnd("input")
  /\ Exit
  /\ UNCHANGED <<job, pc, status, buf, fed, held, received>>

-----------------------------------------------------------------------------
Parent ==
  \/ CheckArguments \/ MakeControlPipe \/ MakeOutputPipe \/ MakeInputPipe
  \/ Fork \/ Adopt \/ Feed \/ FeedBroken \/ FeedEnd
  \/ CloseControl \/ AwaitLaunch
  \/ Collect \/ Drain \/ DrainEnd \/ Join

Child ==
  \/ Launch \/ ReportFailure \/ FailureExit
  \/ ProgramRead \/ ProgramWrite \/ ProgramExit

Over == pc \in {"done", "killed"} /\ child \in {"none", "exited", "reaped"}

Next == Parent \/ Child \/ (Over /\ UNCHANGED vars)

\* Each of the two processes is scheduled again and again while it can run.
Spec == Init /\ [][Next]_vars /\ WF_vars(Parent) /\ WF_vars(Child)

-----------------------------------------------------------------------------
\* The status tells the truth about the launch, although the child races the
\* parent: Ok only if execv worked, FailedLaunch only if it did not.
StatusTruthful ==
  /\ status = "Ok" => job.exec /\ child \in {"running", "exited", "reaped"}
  /\ status = "FailedLaunch" => (child = "none" \/ ~job.exec)

\* When the caller of a successful run has read its output to the end, it has
\* all of it, and an echoing child saw all of its input.
OutputComplete ==
  pc \in {"join", "done"} /\ status = "Ok" /\ job.output =>
    received = Written(job)

\* Which descriptors a run leaves open in the parent, on every way out: none when
\* it launched the child or learned that execv failed.  A return before there is
\* a child leaves both ends of the pipes made so far, one from the feeding of
\* the child both ends of the control pipe.
Wanted == {"control"} \cup (IF job.output THEN {"output"} ELSE {})
                      \cup (IF job.input THEN {"input"} ELSE {})
HeldByParent(pipes) ==
  \A p \in Pipes : /\ "parent" \in readers[p] <=> p \in pipes
                   /\ "parent" \in writers[p] <=> p \in pipes

OnlyFailuresLeak ==
  pc = "done" =>
    /\ status \in {"Ok", "FailedArgumentCount"} => HeldByParent({})
    /\ status = "FailedOutputRedirect" =>
         HeldByParent({}) \/ (job.output /\ HeldByParent({"control"}))
    /\ status = "FailedInputRedirect" => HeldByParent(Wanted \ {"input"})
    /\ status = "FailedLaunch" => HeldByParent(IF child = "none" THEN Wanted ELSE {})
    /\ status = "FailedInputSupply" => HeldByParent({"control"})

\* run(), the reading of the output and join() all come to an end.
RunEnds == <>(pc \in {"done", "killed"})
=============================================================================
