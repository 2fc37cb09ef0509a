# A verification project for the YAL compiler

YAL is a small ahead-of-time compiler written in C++17: it reads one module, checks it in four passes, writes C and
runs the C compiler on the result. This directory holds TLA+ models of the parts of it whose correctness is hard to
test, and of the earlier compiler with a virtual machine that is kept beside it; the TLC configurations that check the models on small
instances; and proofs, checked by TLAPS, of main properties for every value of the constants. `PROJECT.json`
lists components, runs, mutants, hazards, theorems, and the source lines of every definition.

Contents: [1 The system](#1-the-system), [2 Modules](#2-modules-and-how-they-follow-the-code),
[3 Runs](#3-runs-bounds-fairness), [4 Proofs](#4-proofs), [5 What was found](#5-what-was-found),
[6 What is not modelled](#6-what-is-not-modelled), [7 What could come next](#7-what-could-come-next).

To check a module: `tlc -config AstBuilder.cfg MCAstBuilder.tla`; to check proofs: `tlapm AstBuilderProofs.tla`.

## 1 The system

What is built is `lib/core` (memory, streams, processes, strings), `lib/frontend` (lexer to move check), `lib/backend-c`
(C emission) and the driver `src/yalc/main_yalc.cpp`. Everything in `lib/yal`, `lib/yalvm`, `lib/parser`, `src/yale`,
`src/yaldisass` and `src/yalc/main.cpp` belongs to an earlier compiler with a virtual machine and is left out of the
build (`lib/CMakeLists.txt`), but is complete and has tests of its own (`tests/execution_tests`).

```
            SourceManager --> Lexer --> Parser (lemon grammar, STParser)
                                           | syntax tree, in the arena of STContext
 Frontend::compile   PassParser -> PassDecl -> PassFnRet -> PassType -> PassMove
   (per module)                      | imports: ModuleManager, TypeContext
                                     | AstBuilder: scopes, declarations, AST in the arena of ASTContext
                                           v
                       BackendC: CTypeCache, C source --> Process --> the C compiler (child process)

 earlier compiler    tree -> SymbolTreeBuilder -> ByteCodeGenerator -> file -> yalvm (frames, objects, natives)
```

The compiler is a single thread; its one concurrent partner is the child process that compiles the generated C. What
makes it hard is elsewhere: state of visitors that outlives the construct it belongs to, stacks and vectors that nested
constructs share, identities (type ids, module names) that are reassigned when modules import each other, windows and
tables that are right only together, and passes that each check one step of a property nobody checks as a whole.

| Component | State it keeps | Operations | Works with | What makes it correct |
|---|---|---|---|---|
| Lexer (`lexer`) | a buffer with pointers relative to it, lines and columns | scan, refill | the stream; the parser | tokens are those of the rules wherever they lie in the buffer |
| Parser (`parser`) | lemon's stack, one vector per kind of list | parse: shift, reduce, fail | the lexer; the arena | the verdict and the tree are the grammar's; a node gets its items |
| Arena (`util/allocator`) | pages, the page in use, destructors | allocate, construct, reset | every context owns one | blocks are apart; objects die once, before their memory |
| Modules, types and names (`modulemanager`, `frontend`, `module`, `types/typecontext`) | modules, imports, type lists, the ids of shared types, the error flag | compile pass by pass, declare, import, resolve, clear | PassDecl calls ModuleManager; CTypeCache indexes by type id | types stay distinguishable, names mean what they say, nothing rests on a failed module |
| Name resolution, expressions (`passes/decl/astbuilder`, `ast/declscope`) | open scopes, stacks of statements and expressions | visits of the syntax tree | DeclScope, Module | one meaning per name, each body its own statements, references do not outlive variables |
| Return check (`passes/fnret`) | one flag for all functions of a module | visits of functions, lists, statements | ErrorReporter; left by `longjmp` | the verdict depends on a function's own last statement |
| Type system, type pass (`types`, `passes/type`) | the types of expressions | visits of the AST; convertibility | runs before the move pass | what is immutable stays so, references fit what they refer to |
| Move check (`passes/move`) | a MoveState per variable in scope, one EvalMoveState that visits save and restore | one visit per kind of node, scope guards | runs last, on well-typed programs | no value gets two owners; a refusal can name the earlier move |
| C backend (`lib/backend-c`) | C names of the types of a module | look up, write | Module, Process | every type its own name; C reads what was meant |
| Child processes (`os/process`, `os/unix/processunix`) | pid, three pipes, the status | `run`, `join`, destructor; the child's half of `fork` | the kernel, the child, BackendC | a true status, all output read, descriptors left only by failures, an end |
| Symbol tree, bytecode (`lib/yal`) | scopes, temporaries, registers, jumps | build, generate, write | the machine | the program's meaning; each object released once |
| Virtual machine (`lib/yalvm`) | one stack of frames, globals, reference-counted objects | create, acquire, push, execute, release, destroy | the file, the host | frames stay apart, nothing leaks, results reach the caller |

The hazards that follow from this, each with its line and the properties that would catch it, are in `PROJECT.json`.

## 2 Modules and how they follow the code

None of the models of passes is given a fixed program to compile. Where a pass walks a tree, each step of the model
chooses the next construct the walk meets among those that the passes before it let through; the behaviours therefore range
over all programs within the bounds. Variables that the code does not have are called history in the module's declarations:
they record what the code did so that a property can speak of it, and no action that models code reads them
to decide anything the code decides. A faulty variant of a definition, written next to it, is what the mutants use.

### Frontend

**LexerTables**, **Lexer** (`lexer_re2c.cpp`, `lexer.cpp`). The automaton re2c generated, label by label, and the
buffer it reads through: `fill` moves what was read of the current token to the front, so all places are
relative to a window that moves. One step visits one label. **LexicalRules** is the reference: the rules of `lexer_re2c.in`
read as longest matches, without automaton or buffer.

**ParserTables**, **ParserRules**, **SyntaxTree**, **Parser** (`stparserimpl.cpp/.lemon`, `stparser.cpp/.h`, `parser/st*`). Lemon's tables
number by number, the actions of all rules, and the machine: one step is one turn of its loop or one call of the lexer. The text is chosen
while it is read. **Grammar** is the reference: the rules and precedences of the grammar file, read by recursive
descent. **ParseLists** says how lists that nest share one vector; `Parser` shows, by INSTANCE for each vector, that the
automaton keeps to it.

**AllocatorStack**, **Region** (`allocatorstack.cpp/.h`, `stdallocatorwrapperstack.h`). `Region` is what an arena
promises: blocks inside a page, apart from each other, until all are released. `AllocatorStack` is the code: pages with
offsets, the active page, the list of destructors, with both kinds of owners, the contexts that construct objects and
vectors, and ModuleManager, which destroys its modules itself and reuses the arena.

**ModuleRegistry** (`modulemanager.cpp`, `frontend.cpp`, `passdecl.cpp`, `module.cpp`, `typecontext.cpp`, `type.cpp`, `stringref.cpp`,
`errorreporter.cpp`, `ctype.cpp`). The modules of one process. `m_typeId` is the id inside each shared Type object, which every
registration overwrites. What a pass finds wrong is a choice, what then happens is not: early exits, the flag that `clear()` leaves set,
the failed module that stays registered. A written name is a sequence of parts and is resolved the way the search in
its text goes, in both passes, for types and for the functions that an `impl` adds to types; what the search finds behind the
end of the text is a choice.

**AstBuilder** (`astbuilder.cpp`, `declscope.cpp`, `declmodule.cpp`). Scopes are depths, as one scope of each depth
is open at a time. Statements of all bodies being built lie on one stack; `bodies` holds the bases. `TooShortLived` is the
check that a reference assigned to is not declared further out than the variable, stated as the code has it: by names, for declared reference
types and addresses only. `target` is what each reference would refer to at run time, `unchecked` which assignments
the check does not look at. **AstExpressions** (`astbuilder.cpp` with `astvisitorexprtype.cpp`, `strconversions`) builds the
statements of a function node by node with the types the type pass gives them.

**FnReturnCheck** (`returncheckvisitor.cpp`, `passfnret.cpp`). `m_hasReturnStmt` is the visitor's only member.
Entering a function clears nothing; each statement of a list clears the flag first and `StmtReturn` sets it. `lists`
remembers how each open list really ends. `Reject` is the `longjmp`.

**TypeSystem** (`types/*.cpp`, `qualtype.h`) holds the types, `resolve`, the automatic and requested conversions, and
qualified types with mutable, reference and l-value bits. **TypeCheck** (`astvisitorexprtype.cpp`) is the type pass over
one function body. An expression is a record of what the pass computes (its qualified type, whether something was reported, whether
the pass stops) and of what it will be at run time: the spot it lies in (`at`) and the spot it refers to (`to`). The pass never
reads the latter two; the properties compare them. A `lax` set on a spot names the unchecked conversions on the way
to it, so the properties hold for all other ways and say exactly where the gaps are.

**MoveCheck** (`astvisitormovecheck.cpp/.h`, `passmove.cpp`). `m_activeScope`, `m_moveMap` and `m_evalMoveState` are the
members of the class. `frames` is the C++ call stack below a statement: one record per visit underway, with the expressions
it has still to visit and the evaluation state its `EvalMoveStateScope` will restore. An expression yet to be visited
carries what the type pass guarantees of it and whether its value is going to have a new owner. `gone` is history: variables
whose value has a new owner. `unseen` marks what is given away inside casts and initialisers of references, which the visitor does not visit.

### Backend

**CSource** (`astvisitorcsource.cpp`, `ctypegen.cpp`, `ctypebuiltin.cpp`) writes the C text of what AstExpressions built, as a
sequence of pieces. **CExpressions** is the reference, external to the code: how a C compiler reads that text, and what was meant.
The widths of the integer types are parameters; the run scales them down.

**ProcessUnix** (`process.cpp`, `processunix.cpp`, `bytestreamunixfd.cpp`, `backendc.cpp` for the caller). Parent and
child are two processes. The parent's place `pc` goes through `execute` in the order of the code: argument count, three
`pipe()` calls each of which may fail and return early, `fork`, closing of ends, the copy loop for the input, the read
on the control pipe; then the caller reads the output and joins. The child redirects, calls `execv`, and becomes one of
two programs, one that only writes (a compiler) and one that echoes (`tests/process/redirect.cpp`). A pipe is a number of
512-byte units with sets of holders of its ends, from which blocking, end of file and SIGPIPE follow. That the child's
copy of the control pipe survives `execv` is what the code does: no descriptor is marked close-on-exec.

### The earlier compiler

**SymbolTree**, **ByteCodeGenerator**, **RegisterAllocator**, **BinaryFile** (`lib/yal/symbols`, `lib/yal/bytecode`) are
operators from a program's tree to the file: names and types, a temporary for every intermediate result, flags that decide who
releases each object, registers, jumps, the layout of the file. **YalVm** (`lib/yalvm`, `src/yale/main.cpp`) is the machine that loads and
runs it: one block of memory for frames and globals, reference-counted objects, calls, natives, and a host that may
run out of stack or memory anywhere. **Meaning** is the reference: what a program prints, without registers, jumps or counts.
**MCBytecode** puts them together. **CallStack** is what the machine's stack promises; `YalVm` is shown to implement it with the refinement
`frames <- Frames`. **RegisterPool** puts the allocator in the hands of the generator, in any order; **RegisterSet** is what it promises, a set of
registers each of which is held once, and a PROPERTY of its run.

### Properties

| Module | Property | In words |
|---|---|---|
| LexicalRules, Lexer | TokensAreLongest | the tokens are the longest matches of the rules, and lie where the rules find them |
| | PositionsAreTrue | lines are those of the text, columns too as long as the window has not moved in a line; lexemes are what stands there; tokens follow each other |
| | ReadsInsideBuffer | each character a label looks at is in the buffer, and is the next of the text or a zero behind its end, before a refill and after it |
| Parser | VerdictIsTheGrammars, ModuleIsTheGrammars | errors, nodes and source places are those of the grammar |
| | ListsSpec | each vector of the parser behaves as ParseLists says |
| AllocatorStack | RegionSpec | it implements `Region` |
| | LivesInMemory, DestroyedOnce, AllDestroyed | objects die once, before their memory, and all |
| ModuleRegistry | TypeIdsDistinct, CTypeIsItsOwn | no two types a module knows share an id; each has its own C name |
| | KnownIsClosed, ReturnedOnReturned | what a type mentions is known wherever it is; a returned module imports returned modules only |
| | NamesMeanWhatTheySay | a name with a module in front finds the declaration of that module, except as section 5 says |
| AstBuilder | NamesAreUnique, BodyGetsItsOwn | one meaning per name; the right statements per body |
| | RefsAreOutlived | references do not dangle as far as the check looks |
| FnReturnCheck | VerdictFollowsLastStatement | a non-empty body is accepted iff its last statement, however nested, is a return |
| TypeCheck | FrozenIsKept | immutable storage is never written in an accepted program, except past the three `lax` conversions |
| | ReferencesToStructsFit, NoReferenceToTemporaries | a reference to a struct refers to that struct, and to no temporary, members of temporaries excepted |
| MoveCheck | GivenAwayOnce, PartsAreNeverTaken | a value that has a new owner is never accepted where it would get another; members and referents are never given away |
| | MoveIsExplained | a variable marked as moved has the reference the error message dereferences |
| CExpressions | CReadsTheSame, CTypesFit | C reads an expression as it was meant, with types that fit |
| | LiteralsKeepTheirValue, ConversionsSaturate | a literal in range is written with its value; a cast between integers saturates |
| ProcessUnix | StatusTruthful, OutputComplete | `Ok` only after a successful `execv`, `FailedLaunch` only without one; all output arrives |
| | OnlyFailuresLeak, RunEnds | on each way out exactly the descriptors named stay open, none after `Ok` or a failed `execv`; every run comes to an end |
| MCBytecode, YalVm | PrintsWhatProgramMeans, NothingLeaks, NeverUndefined | the machine prints what the program means, destroys what it creates, and never leaves defined behaviour |
| | CallStackSpec, ResultReachesCaller, EveryProgramEnds | it implements `CallStack`; a call's result arrives; it stops |
| RegisterPool | RegisterSetSpec | it implements `RegisterSet` |

## 3 Runs, bounds, fairness

| Run | Configuration | Bounds, and why they are enough | States |
|---|---|---|---|
| `lexer` | Lexer.cfg | a buffer of 16 characters for 1024 and 9,588 texts: every pair of pieces that may grow together or be taken apart, behind a lead of any length, so that each piece lies anywhere in the buffer; size_t counts modulo 1000, which only the not yet set offset reaches | 448,483 |
| `parser` | Parser.cfg | nine sessions, each all texts of up to 10 chosen tokens in a context (operators, calls, literals, statements, parameters, types, declarations, impl): each pair of precedences meets, each rule is reduced, every token is tried behind every beginning; a stack of 20 for 100 | 719,402 |
| `arena` | AllocatorStack.cfg | pages of 4 words, blocks of 1 to 3, 5 blocks and 5 elements between resets: pages left part empty in every way, several pages, vectors that outgrow a page | 55,569 |
| `modules` | ModuleRegistry.cfg | three sources, three modules, seven declarations, of which a module has as many as fit with all imports in five; the name of one module is also that of a struct, one has another length: chains and diamonds of imports, after failures and out of order, names found too early or in the wrong module | 524,053 |
| `ast_builder` | AstBuilder.cfg | three names (symmetric: they are only compared), three scopes, three variables, five statements: a name inner, same or outer to a reference, reused in a following scope | |
| `fnret` | FnReturnCheck.cfg | four lists deep: a return can be nested, followed by others in each list around it, and overridden; any number of functions | 245 |
| `types` | TypeCheck.cfg | a builtin, a struct, a struct with a reference to it and a derived type; two variables, four results; any number of statements with expressions up to three operators deep. What follows the first error is not explored (CONSTRAINT), as the properties speak of accepted programs | |
| `move` | MoveCheck.cfg | one variable each of an owned, a copied and a reference type; two scopes, visits two deep, two arguments: gifts by two arguments of one call, by a nested call, across scopes | |
| `c_source` | CSource.cfg | statements of two to six nodes in sessions that each try one kind of expressions; integers of 2, 3, 4 and 6 bits for 8 to 64 and literals of up to four digits of base 4: every pair of operators nests, every pair of types is cast, literals reach and pass every limit | 597,126 |
| `process` | ProcessUnix.cfg | pipes of 2 units, input up to 3 (more than a pipe), output up to 2 (fits): every pipe can be empty, part full, full; every system call may fail | 6,194 |
| `bytecode` | Bytecode.cfg | 288 bodies, pairs from a menu of statements; a stack of 48 words that overflows in some, memory that may run out at any allocation, jumps limited to 24 for the 16 bits of the code so that some are refused, 32-bit words | 51,406 |
| `registers` | RegisterPool.cfg | four registers and three variables: the pool runs out, and every order of the free list comes up | 13,015 |

All runs but `process`, `bytecode` and `registers` say CHECK_DEADLOCK FALSE: a walk ends at a fatal error or when its text is
read, an owner is destroyed, a crash ends the compiler (`modules`), and the bounded runs end where their items are used up. A finished
process run stutters explicitly, so a state in which parent and child both hang would be reported.

Constants named Max… are bounds of the models; `PipeCapacity`, `PageSize`, `ProgramBuffer`, `kMaxBufferSize`, `StackDepth`,
`StackWords`, `MaxJump`, `Bits`, `LateBackend` and the type constants are parameters of the system. `LateBackend` allows a module to
be translated after others were compiled; it is FALSE in the run, as the driver compiles one module and translates it at
once (section 5 says what would happen otherwise).

Fairness is assumed in two specifications. `ProcessUnix`: weak fairness of `Parent` and of `Child`, since the operating system schedules
both processes again and again while they can run. It is what `RunEnds` needs; a step that blocks is not enabled, so
nothing is assumed of a process that waits. The programs that are run end when they have written their output; for a
child that does not, `join` has no timeout. `MCBytecode`: weak fairness of `Proceed`, the one next step of a single-threaded
machine, for `EveryProgramEnds`. All other properties are safety properties.

Each property of a run is paired with a mutant: a form of one definition with a plausible bug (a flag not
cleared, a guard dropped, the wrong end closed), with which TLC finds the property violated.

## 4 Proofs

Proofs are in modules of their own. BodyChecksProofs, MachineProofs and NodeStorageProofs are about two modules each: the first
extends both, the others extend one and instantiate one. The properties are seldom inductive; the invariants that are:

- **LexerProofs**: for any texts and any size of the buffer. The window holds the text from the token on without a gap, and zeros behind its end
  (`Window`), which a refill keeps. Each label has as many characters ahead as those from it to the next refill may step over: `Ahead` gives the number, and that
  the whole automaton keeps to it is a fact about its table, proved label by label (`AutomatonOk`). Where the automaton has read on
  behind the end of a token, the mark that `yy75` gives back to lies inside the token (`Behind`, `MarkIn`). These are `LexerInvariant`, from which `TypeCorrect` and
  `ReadsInside` follow. On top of it, `PlacesOk` counts lines: no label steps over a newline but the two that count it (`Stays`, `LineEnds`), so the lines counted
  are those up to the token (`Counted`), and offsets in the window are off by the same from the text and from the beginning of the line until the window
  moves. This is `PositionsSound`. It needs that no place in a text is out of the reach of `size_t`.
- **BodyChecksProofs**, on the return check: `TypeOK /\ FlagTracksEnding /\ StaleOnlyAfterAccept`. The flag agrees with how the
  innermost list that has a statement ends (`VerdictSound`), and a set flag over an empty body needs an earlier accepted function (`FirstEmptySound`).
- **BodyChecksProofs**, on the move check: `Tracked` ties each frame's pending expressions to the evaluation state in which they will be visited (what is
  taken is visited while tracking), through frames of any depth; `Rests` follows the saved states down the stack to the one at its
  bottom; `GoneIsMoved` says that what was given away in view is marked in the map. From these follow `GivenAwayOnce`,
  `MoveIsExplained`, `PartsAreNeverTaken`, that the map is that of the open scopes and that each statement leaves the evaluation
  state as it found it (`ScopesSound`, `RestsSound`), for any depth of scopes and expressions.
- **NodeStorageProofs**, on lists: unless an inner list began with a comma, the open lists lie on top of each other in the vector, each
  beginning where the one below ends, and the part of each is exactly the items read (`ListsAreLaidOut`). Hence `NodesGetTheirLists` and
  `VectorIsEmptied` for any nesting; that each vector of the parser is one of these is `ListsSpec`, which the run checks.
- **NodeStorageProofs**, on the arena: the blocks of a page lie below its offset, the active page exists, and the objects alive are exactly
  those whose destructors the reset underway has still to call. It gives `ImplementsRegion` (every step of the arena is a step of
  Region or a stutter) and the three properties on destruction.
- **AstBuilderProofs**: `VarInv` (ids and names are unique among the visible, and what a reference refers to
  was declared no further in) and, independent of it, an invariant of the statements (bases are ordered, and between two bases lie the statements
  the body has visited). All three properties follow for any names, depth and number of statements, and that the check refuses nothing
  that would not dangle (`RefusedForAReason`).
- **MachineProofs**: for the registers, the free list threaded through the pool is a sequence without repetition, apart from all registers in use
  (`Partition`); every step of the pool is then one of RegisterSet (`ImplementsRegisterSet`), and the declared count covers every
  register that was handed out (`CountIsEnough`). For the frames, `Stacked`: they have no negative size and lie one behind the other
  (`FramesNeverOverlap`, for a stack of any size). That the machine takes CallStack's steps is checked by `bytecode`.
- **ModuleRegistryProofs**: for any sources, modules and declarations. The ids of shared types are told apart by two facts: a module is imported with all of
  its types or none (`AllOrNone`), so the types of one module are always renumbered together, by their places in one list (`IdsDiffer`); and the list of the
  latest module was written last, so its places are the current ids (`PlacesAreCurrent`). Around them: modules differ in their names, lists hold what is
  declared and nothing twice, what a declaration mentions is known where it is known (`MentionsAreKnown`), the passes leave the modules they have not reached alone
  (`Progress`, `Emission`). This gives `IdsAreDistinct`, `CTypesAreTheirOwn` under the assumption that no module is translated late, as in the driver,
  `LookupsAreUnique` (the assertion of `registerType`), `KnownAreClosed` and `ReturnedIsSound`.
- **ProcessUnixProofs**: for pipes of any capacity, any input and any output. Who holds which end is fixed by the places of the two processes
  (`PipesMade`, `PipesLeft`, `ChildEnds`, `ParentEnds`): as long as the child lives it holds the control pipe, so whatever the parent learns from that pipe was decided before
  (`ControlTellsFailure`), which gives `StatusIsTruthful`. Units are counted on their way from the input through the program to the caller (`UnitsAreKept`),
  which gives `OutputIsComplete`; `ParentEnds` and `PipesLeft` give `OnlyFailuresLeavePipes`. The same invariant shows `OkComesAfterExit`: `run()` never returns Ok before the child
  has exited, the reason why a long output blocks for ever (section 5).

- **TypeCheckProofs**: for any builtin types, structs, aliases, declared results and number of variables. A type is the pass's word on an expression; the invariant
  says when the word is true (`Sound`, `LiesWell`). A reference refers to storage that fits its type (`Fits`: if either is a struct, both resolve to the same), may be written if
  the reference is mutable unless an unchecked conversion lies on the way (`Excused`), and is no temporary (`Lasts`); a struct with a reference holds one of its member's type; a local
  struct with a reference is a variable that is no reference itself (`HolderIsVariable`). There is one lemma for every way to build an expression: if the parts are
  as their types say, so is the whole, or the pass reports it (`ExpressionsAreRight`). The lemmas do not ask how deep the parts are, so the bound on the depth of expressions in the runs is
  none of the argument's. For the statements, `RedirectedIsSound` is the case that needs the relation of an l-value to the variable it is part of (`IsReferenceOf`):
  a reference, or the member of a struct, that is assigned to still refers to what its variable's type says. Hence `ImmutableIsNotWritten`, `ReferencesFit` and `TemporariesAreNotReferredTo`.

Every one of these invariants was first checked by TLC on the instance of its run. The assumptions are those the modules name: bounds are natural
numbers, texts have a length that `size_t` can count, capacities, page sizes and depths positive, object sizes at most a page, `Kind` a function into the three kinds, declarations of the four kinds whose type is one that is written or none,
aliases of values and structs, members of plain structs values and those of holders plain structs. Nothing else is taken on trust.

Only model-checked:

- Liveness (`RunEnds`, `EveryProgramEnds`) and `ResultReachesCaller`: the prover does not do fairness, and the machine's module reaches recursive operators.
- `TokensAreLongest`, the parser, expressions, C emission, generator and machine: their references (LexicalRules, Grammar, CExpressions, Meaning) are
  recursive over texts and trees, and what a recursion computes for every input needs induction over data. `ConversionsSaturate` and
  `LiteralsKeepTheirValue` are about powers and the values of digits, which are recursions as well.
- `CallStackSpec`: a step of the machine is one of CallStack only for programs the generator writes, and both are recursive.
- `ListsSpec`: that the automaton keeps to ParseLists needs, for every state of lemon's tables, what lies on the stack below it.
- `NamesMeanWhatTheySay`: the search for a name goes by text, and the prover knows nothing of cutting and joining strings.

## 5 What was found

No run of the project is expected to fail: where the code does not keep what one would expect, the model has it as the code does, and the property says
which case it leaves out. These are the cases, by part; those marked * were tried with the compiler itself.

Frontend:

- Names: `resolveType` compares a module's name with itself (`typecontext.cpp:218`). With `import a`, where `a` has a function `f`, `S::f()` of the own struct S calls `a::f`*;
  a name such as `cc::S()` next to an imported one-letter module reads behind the text and crashes*; without imports `Bogus::f()` calls the own `f`*. Functions that an
  `impl a::S` in another module adds to a struct are never found by name*. An impl before the import resolves differently in the second pass. `findFirstOf` reads past
  the text (`stringref.cpp:188`).
- Lexer: a comment or lexeme longer than the 1024-character buffer ends the text silently, with exit code 0*; columns and offsets after a refill are off by twice what was kept
  (`lexer.cpp:38`); a zero byte in the text ends it or swallows characters; `a-5` is read as `a`, `-5`; `i64`, `u64` and suffixed 64-bit literals match no rule.
- Parser: the stack of 100 overflows without a report (93 open `{` compile silently to less)*; an inner list that starts with a comma takes items of the lists around it (`stparser.h:68`):
  `f(a, g(, b))` is read as `f(g(a, b))`; `a < b < c` is a syntax error; `x as bool . y` is `(x as bool).y`; tokens of signed types reach the
  grammar as unsigned ones although the literal keeps its own.
- Arena: a block larger than a page is refused (`allocatorstack.cpp:74-76`), so 513 declarations or statements end the compiler; a failed `malloc` is not noticed (`:133`).
- Return check: an empty function with a result passes when an earlier one ended in a return, since the flag is cleared only before statements (`returncheckvisitor.cpp:56`; the
  unit test tries the first function only). A bare `return;` satisfies it (`:116`), and crashes AstBuilder (`astbuilder.cpp:554-572`)*.
- References: the lifetime check does not look at variables with inferred types (`astbuilder.cpp:639`), nor at values of other references.
- Type pass: `let s: Foo; var r = &s;` infers a mutable reference (`astvisitorexprtype.cpp:140`); references to builtins become mutable as builtins are trivially copiable
  (`:684`); `&make().n` takes a member of a temporary for an l-value; a struct does not convert to a weak alias of itself; an undefined member (`:444`)
  and the missing result of a call are used although they are null; `var x: Foo = f();` is refused unless the result is declared `mut`.
- Literals: signed literals that wrap around to a small negative number are accepted (`18446744073709551615i8` is `-1`)*; `Foo{a: 1, a: 2}` is accepted and leaves b unset*;
  decimal literals are always refused.
- Move check: values given away in a call inside a cast, or in the initialiser of a reference, are not noticed (`astvisitormovecheck.cpp:417`, `:191`); operands and receivers are
  visited untracked (`:303`, `:412`), so moved variables can be read there; calling a method on a struct variable moves it.
- Modules: the error flag outlives a compilation (`errorreporter.cpp:76`); a module translated after a later compilation has imported it finds wrong C names (`ctype.cpp:107`), which is what
  `LateBackend` stands for; source handles restart (`sourcemanager.cpp:47`).

Backend:

- Parentheses are not written: `(a + b) * c` becomes `a + b * c`*, `(a + a) as u16` becomes `((const yal_u16 )a + a)`*, `- -5i8` becomes `--5`*. `CReadsTheSame` shows that nothing else is misread.
- Operators on references compare or negate pointers, methods with `self` by value get an address, `&mk().n` and assigned references do not fit: the gaps of `CTypesFit`, most of them C errors*.
- `x as bool` keeps values from 2 to 255, casts without a conversion function cut off bits; a one-letter function can get the C name of a module's prefix; struct typedefs follow source order.
- Child processes: the read that waits for the launch (`processunix.cpp:159`) lasts until the child exits (`OkComesAfterExit`); with an output longer than a pipe both wait for ever. The `process` run therefore
  assumes outputs that fit. A child that is gone while its input is supplied kills the compiler by SIGPIPE (`:145`); `processArgs[512]` has no bound check (`:55`); `close()` keeps the descriptor (`bytestreamunixfd.cpp:107`).
- Descriptors leak in the parent: a failing `pipe` or `fork` returns with both ends of every pipe made before (`processunix.cpp:71`, `:76`, `:83`), as `result.output` is set only behind `fork` (`:128`); a return
  because the input cannot be written leaves both ends of the control pipe (`:146-149`). `OnlyFailuresLeak` says so, for each status, and that nothing else stays open.

The earlier compiler, where `meant.wrong`, `misread`, `leaks` and `undef` of MCBytecode name the bodies that are left out of a property:

- An interpreted call within an argument gets registers of the frame that is still being filled; a global that is cached in a loop body is taken to be cached behind the loop;
  `a and b or c` in a condition jumps past c; nested conditions retarget jumps of outer ones.
- A return from a nested scope releases only the objects of the innermost one; assigning an object parameter releases the caller's reference; `a = a` releases before it acquires; temporaries that a short
  circuit skips are released unset, those of a loop's condition leak.
- Running out of registers is silent (0xFF); a full allocator refuses even a variable that has a register; `LOAD_REF` temporaries keep theirs.
- The machine takes the capacity of arrays in bytes, lets ARRAY_PUT_64 run on into PUT_OBJ, accepts function index `n_functions`, does not count pushed arguments, does not clear globals, pops one
  frame after an error, negates the wrong register, reads upper halves that are stale, and leaves division by zero and large shifts to C.
- An assignment leaves its register only to an expression or an `if` around it (`bytecodegenerator.cpp:744`). Printed, passed as an argument (`parser.y:237`, `:296` set no parent), as the condition of a `while`,
  an initialiser or returned it leaves none, and the instruction takes the register an earlier statement left, or 0xFF (an assertion in debug builds): `x; print(g = 4);` prints x.
- Compound assignment of objects emits an unknown instruction; `>>` is logical; `JUMP_FALSE` reads its distance unsigned; `static_size` wraps at 16 bits.

## 6 What is not modelled

- AST records, visitors, printers, search, formatting, logging, options: data and text. Source files, strings, memory and file streams: bytes copied from one place to another; the streams that matter are part of
  Lexer and ProcessUnix.
- AstBuilder leaves structs (also the address of a member, `astbuilder.cpp:655-670`, in the check of lifetimes), aliases, `impl` and `self`, calls, casts and literals to AstExpressions and ModuleRegistry. AstExpressions leaves out decimal literals beyond their failure, structs with
  several members and what follows a first error. TypeCheck leaves out static calls, structs with several members, aliases of aliases, and what a called function stores in a struct lent to it.
- C emission: comments, include lines, the order of declarations in a file, floating point.
- AllocatorStack: `malloc` failure and alignment; moving an arena is declared but never defined.
- The Win32 process class; `processArgs` and the standard streams of an exit handler in a child whose `execv` failed.
- The earlier compiler: numbers other than 32 bits wide, explicit variable types, custom types, failures of `malloc` inside arrays, the overflow exceptions of backward jumps and object counts, truncated files, its
  lexer and grammar (generated by flex and bison).
- Vendored and generated code.

## 7 What could come next

1. The machine's steps as steps of CallStack, once its instructions are written without recursion.
2. The growth of MemoryStream (`memorystream.cpp:238`), handles of SourceManager composed with ModuleRegistry, the order of C declarations.
