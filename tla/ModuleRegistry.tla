---------------------------- MODULE ModuleRegistry ----------------------------
(***************************************************************************)
(* The modules of one run of the compiler: ModuleManager creates them,     *)
(* Frontend::compile takes each through the passes, one declaration can    *)
(* import another module, and BackendC translates the result.              *)
(*                                                                         *)
(* Modules share types.  A Type object carries one TypeId, whose second    *)
(* part is its place in a module's list of types; importing a module       *)
(* registers its types in the importer's list and gives the shared objects *)
(* their place there.  CTypeCache finds a type's C name by that place.     *)
(*                                                                         *)
(* Declarations name types as they are written, "S" or "a::S"; what such a *)
(* name finds depends on the imports and on its length, so text is text    *)
(* here: a name is the sequence of its parts, and Text joins them.         *)
(***************************************************************************)
EXTENDS Naturals, Sequences, FiniteSets, SequencesExt

CONSTANTS
  Sources,      \* what can be compiled (SourceItem)
  ModuleName,   \* the module name of each, made from its path
  MaxModules,   \* bound: modules created
  MaxTypes,     \* bound: types declared in one module
  MaxSize,      \* bound: modules and declarations together
  Declarations, \* what can be declared: its kind, its name, the type it names
  Written,      \* the names that a module may try to resolve
  LateBackend   \* may a module be translated after others were compiled?

ASSUME ModuleRegistryAssumption ==
  /\ MaxModules \in Nat
  /\ MaxTypes \in Nat
  /\ MaxSize \in Nat
  /\ LateBackend \in BOOLEAN
  /\ \A s, t \in Sources : (ModuleName[s] = ModuleName[t]) \in BOOLEAN
  /\ \A d \in Declarations :
       /\ d.kind \in {"struct", "weak", "strong", "function"}
       /\ d.of \in Written \cup {<<>>}

VARIABLES
  m_modules,          \* the source of each module; its id is its place (Module::Id)
  m_importedModules,  \* the modules each has imported
  m_typeList,         \* the types registered by each, after the builtin ones
  m_typeId,           \* the TypeId of every type
  decl,               \* the declaration of each
  target,             \* the type its declaration names, as the first pass found it
  m_typeFunctions,    \* the functions added to each
  mentions,           \* the types each type's declaration may mention
  stage,              \* "idle", or what is being done with the latest module
  m_hasErrors,        \* the flag of the one ErrorReporter
  returned,           \* modules that compile() returned to its caller
  emitting,           \* the module that is being translated, or 0
  m_ctypes            \* the types CTypeCache holds a C name for

declarations == <<decl, target, m_typeFunctions, mentions>>
modules == <<m_modules, m_importedModules, m_typeList, m_typeId, declarations>>
backend == <<emitting, m_ctypes>>
vars == <<modules, stage, m_hasErrors, returned, backend>>

Ids == 1..MaxModules
Types == Ids \X (1..MaxTypes)
DeclaredIn(t) == t[1]

\* Outcomes of looking for a type that are none.
NoType == <<>>
Crash == <<0>>
NoDeclaration == [kind |-> "none", name |-> "", of |-> <<>>]

\* The builtin types come first in every module's list.
BuiltinTypes == 11

TypeId == [module : 0..MaxModules, index : Nat]
kIvalid == [module |-> 0, index |-> 0]

Compiled == 1..Len(m_modules)
Current == Len(m_modules)
Declared == {t \in Types : decl[t] # NoDeclaration}
Size == Current + Cardinality(Declared)

TypeOK ==
  /\ m_modules \in Seq(Sources)
  /\ Current <= MaxModules
  /\ m_importedModules \in [Ids -> Seq(Ids)]
  /\ m_typeList \in [Ids -> Seq(Types)]
  /\ m_typeId \in [Types -> TypeId]
  /\ decl \in [Types -> Declarations \cup {NoDeclaration}]
  /\ target \in [Types -> Types \cup {NoType}]
  /\ m_typeFunctions \in [Types -> SUBSET Types]
  /\ mentions \in [Types -> SUBSET Types]
  /\ stage \in {"idle", "parse", "declare", "build", "check", "emit", "crashed"}
  /\ m_hasErrors \in BOOLEAN
  /\ returned \subseteq Compiled
  /\ emitting \in 0..Current
  /\ m_ctypes \in Seq(Types)

Init ==
  /\ m_modules = <<>>
  /\ m_importedModules = [m \in Ids |-> <<>>]
  /\ m_typeList = [m \in Ids |-> <<>>]
  /\ m_typeId = [t \in Types |-> kIvalid]
  /\ decl = [t \in Types |-> NoDeclaration]
  /\ target = [t \in Types |-> NoType]
  /\ m_typeFunctions = [t \in Types |-> {}]
  /\ mentions = [t \in Types |-> {}]
  /\ stage = "idle"
  /\ m_hasErrors = FALSE
  /\ returned = {}
  /\ emitting = 0
  /\ m_ctypes = <<>>

-----------------------------------------------------------------------------
(* Types and their ids. *)

Known(m) == ToSet(m_typeList[m])

NameOf(m) == ModuleName[m_modules[m]]

\* Types are told apart by name, name of the target and name of the module,
\* not by object.
Identifier(name, of, module) ==
  <<name, IF of = NoType THEN "" ELSE decl[of].name, module>>

IsFunction(t) == decl[t].kind = "function"
OwnIdentifier(t) ==
  Identifier(decl[t].name, IF IsFunction(t) THEN target[t] ELSE NoType, NameOf(DeclaredIn(t)))

HasType(m, identifier) == \E u \in Known(m) : OwnIdentifier(u) = identifier
GetByIdentifier(m, identifier) ==
  IF HasType(m, identifier)
  THEN CHOOSE u \in Known(m) : OwnIdentifier(u) = identifier ELSE NoType

PlaceIn(list, t) == CHOOSE i \in 1..Len(list) : list[i] = t

\* Faulty variants: the counter stays; or the type keeps its former id.
RegisterAtOnce(m, types) ==
  /\ m_typeList' = [m_typeList EXCEPT ![m] = @ \o types]
  /\ m_typeId' = [t \in Types |->
       IF t \in ToSet(types)
       THEN [module |-> DeclaredIn(t), index |-> BuiltinTypes + Len(m_typeList[m])]
       ELSE m_typeId[t]]
RegisterOnlyNew(m, types) ==
  /\ m_typeList' = [m_typeList EXCEPT ![m] = @ \o types]
  /\ m_typeId' = [t \in Types |->
       IF t \in ToSet(types) /\ m_typeId[t] = kIvalid
       THEN [module |-> DeclaredIn(t), index |-> BuiltinTypes + PlaceIn(m_typeList[m] \o types, t) - 1]
       ELSE m_typeId[t]]

\* registerType for each of types: a type's id changes even when another
\* module has declared it.
Register(m, types) ==
  /\ m_typeList' = [m_typeList EXCEPT ![m] = @ \o types]
  /\ m_typeId' = [t \in Types |->
       IF t \in ToSet(types)
       THEN [module |-> DeclaredIn(t), index |-> BuiltinTypes + PlaceIn(m_typeList[m] \o types, t) - 1]
       ELSE m_typeId[t]]

\* What m has to take over from x.  (Faulty variant: not what x itself has
\* imported.)
MissingOwn(m, x) == {t \in Known(x) : ~HasType(m, OwnIdentifier(t)) /\ DeclaredIn(t) = x}
Missing(m, x) == {t \in Known(x) : ~HasType(m, OwnIdentifier(t))}

\* Some of the types of a list in the order they have there.
InOrder(list, some) ==
  {s \in [1..Cardinality(some) -> some] :
     /\ ToSet(s) = some
     /\ \A i, j \in DOMAIN s : i < j => PlaceIn(list, s[i]) < PlaceIn(list, s[j])}

IsImported(m, x) == x \in ToSet(m_importedModules[m])

-----------------------------------------------------------------------------
(* What a name finds. *)

\* Structs can have functions, and so can aliases of them.
IsFunctionTargetable[t \in Types] ==
  \/ decl[t].kind = "struct"
  \/ decl[t].kind \in {"weak", "strong"} /\ IsFunctionTargetable[target[t]]

\* The name is looked up with the module of the type: a function that another
\* module added is never found.
AddedTo(t, name) ==
  {f \in m_typeFunctions[t] : OwnIdentifier(f) = Identifier(name, t, NameOf(DeclaredIn(t)))}

\* A strong alias has functions of its own, then those of what it stands for.
GetFunctionWithName(type, name) ==
  LET function[t \in Types] ==
        IF AddedTo(t, name) # {} THEN CHOOSE f \in AddedTo(t, name) : TRUE
        ELSE IF decl[t].kind = "struct" THEN NoType
        ELSE function[target[t]]
  IN IF IsFunctionTargetable[type] THEN function[type] ELSE NoType

Text(parts) ==
  FoldLeft(LAMBDA text, part : IF text = "" THEN part ELSE text \o "::" \o part, "", parts)

\* StringRef::findFirstOf and subStr; offsets begin at 0.  The search goes on
\* for a whole length from wherever it starts: does it find a colon in the
\* memory behind the text?
Npos == 100
FindFirstOf(text, start, behind) ==
  LET colons == {i \in start .. Len(text) - 1 : SubSeq(text, i + 1, i + 1) = ":"} IN
    IF start >= Len(text) THEN Npos
    ELSE IF colons # {} THEN Min(colons)
    ELSE IF behind /\ start > 0 THEN Len(text) ELSE Npos
SubStr(text, from, to) == SubSeq(text, from + 1, IF to > Len(text) THEN Len(text) ELSE to)

\* Part by part, until one of them names a type; behind a part are two colons.
Search(m, module, text, start, behind) ==
  LET from[offset \in 0 .. Len(text) + 2] ==
        LET loc == FindFirstOf(text, offset, behind)
            found == GetByIdentifier(m, Identifier(SubStr(text, offset, loc), NoType, module))
        IN IF loc = Npos THEN [offset |-> offset, loc |-> loc, type |-> NoType]
           ELSE IF found # NoType
           THEN [offset |-> loc + 2, type |-> found,
                 loc |-> FindFirstOf(text, loc + 2, behind)]
           ELSE from[loc + 2]
  IN from[start]

\* The module that "::" is taken to refer to is the first one imported, whatever
\* stands there: its name is compared with itself.  (Faulty variant: the last.)
SearchedLast(m) ==
  NameOf(IF m_importedModules[m] = <<>> THEN m ELSE Last(m_importedModules[m]))
Searched(m) ==
  NameOf(IF m_importedModules[m] = <<>> THEN m ELSE Head(m_importedModules[m]))

\* TypeContext::resolveType.  Names without "::" are the module's own.
ResolveType(m, written, behind) ==
  LET text == Text(written)
      extern == m_importedModules[m] # <<>>
      module == Searched(m)
      offset == IF extern THEN Len(module) + 2 ELSE 0
      s == Search(m, module, text, offset, behind)
      last == SubStr(text, s.offset, Len(text))
  IN IF Len(written) = 1
     THEN GetByIdentifier(m, Identifier(text, NoType, NameOf(m)))
     ELSE IF extern /\ offset >= Len(text) THEN NoType
     ELSE IF s.type = NoType /\ s.offset < Len(text)
     THEN GetByIdentifier(m, Identifier(last, NoType, module))
     ELSE IF s.loc # Npos THEN NoType
     ELSE IF s.type = NoType THEN Crash
     ELSE GetFunctionWithName(s.type, last)

-----------------------------------------------------------------------------
(* Frontend::compile, pass by pass. *)

\* No module has the name.
NameIsFree(s) == \A m \in Compiled : ModuleName[m_modules[m]] # ModuleName[s]

\* Otherwise compile() returns nullptr and changes nothing.
Compile(s) ==
  /\ stage = "idle"
  /\ Current < MaxModules /\ Size < MaxSize
  /\ s \notin ToSet(m_modules)
  /\ NameIsFree(s)
  /\ m_modules' = Append(m_modules, s)
  /\ stage' = "parse"
  /\ UNCHANGED <<m_importedModules, m_typeList, m_typeId, declarations, m_hasErrors, returned, backend>>

\* The result is nullptr if the reporter has ever seen an error.
Exit(hasErrors) ==
  /\ stage' = "idle"
  /\ m_hasErrors' = hasErrors
  /\ returned' = IF hasErrors THEN returned ELSE returned \cup {Current}

\* A pass reports an error and compile() gives up.
PassFails ==
  /\ stage \in {"parse", "check"}
  /\ Exit(TRUE)
  /\ UNCHANGED <<modules, backend>>

\* Nothing is read while the reporter has errors.
PassParser ==
  /\ stage = "parse"
  /\ IF m_hasErrors
     THEN Exit(m_hasErrors)
     ELSE stage' = "declare" /\ UNCHANGED <<m_hasErrors, returned>>
  /\ UNCHANGED <<modules, backend>>

\* Why STPreDeclVisitor refuses d, when the type that it names is of.
Refused(d, of) ==
  \/ d.of # <<>> /\ of = NoType
  \/ d.kind \in {"weak", "strong"} /\ of # NoType /\ IsFunction(of)
  \/ d.kind = "function" /\ of # NoType
       /\ (decl[of].kind = "weak" \/ ~IsFunctionTargetable[of])
  \/ HasType(Current, Identifier(d.name, IF d.kind = "function" THEN of ELSE NoType, NameOf(Current)))

\* The declarations after one that is refused are still visited.  A function
\* whose name the target already has is registered, but not added.
Declare(t, d, behind) ==
  LET of == IF d.of = <<>> THEN NoType ELSE ResolveType(Current, d.of, behind)
      isAdded == d.kind = "function" /\ of # NoType /\ GetFunctionWithName(of, d.name) = NoType
  IN /\ stage = "declare"
     /\ Size < MaxSize
     /\ DeclaredIn(t) = Current
     /\ t \notin Declared
     /\ \A k \in 1 .. t[2] - 1 : <<Current, k>> \in Declared
     /\ of \in Declared \cup {NoType}
     /\ ~Refused(d, of)
     /\ Register(Current, <<t>>)
     /\ decl' = [decl EXCEPT ![t] = d]
     /\ target' = [target EXCEPT ![t] = of]
     /\ m_typeFunctions' = IF isAdded THEN [m_typeFunctions EXCEPT ![of] = @ \cup {t}]
                           ELSE m_typeFunctions
     /\ m_hasErrors' = (m_hasErrors \/ (d.kind = "function" /\ of # NoType /\ ~isAdded))
     /\ UNCHANGED <<m_modules, m_importedModules, mentions, stage, returned, backend>>

DeclareRefused(d, behind) ==
  LET of == IF d.of = <<>> THEN NoType ELSE ResolveType(Current, d.of, behind) IN
    /\ stage = "declare"
    /\ of \in Declared \cup {NoType}
    /\ Refused(d, of)
    /\ m_hasErrors' = TRUE
    /\ UNCHANGED <<modules, stage, returned, backend>>

\* Nothing was found and nothing of the name is left: the missing type is used.
Crashes(d, behind) ==
  /\ stage \in {"declare", "build"}
  /\ d.of # <<>>
  /\ stage = "build" => \E t \in Declared : DeclaredIn(t) = Current /\ decl[t] = d
  /\ ResolveType(Current, d.of, behind) = Crash
  /\ stage' = "crashed"
  /\ UNCHANGED <<modules, m_hasErrors, returned, backend>>

\* There is no module of the name.
ImportFails ==
  /\ stage = "declare"
  /\ m_hasErrors' = TRUE
  /\ UNCHANGED <<modules, stage, returned, backend>>

\* The module is found by its name, however its own compilation ended.
Import(x) ==
  /\ stage = "declare"
  /\ x \in Compiled
  /\ ~IsImported(Current, x)
  /\ \E new \in InOrder(m_typeList[x], Missing(Current, x)) : Register(Current, new)
  /\ m_importedModules' = [m_importedModules EXCEPT ![Current] = Append(@, x)]
  /\ UNCHANGED <<m_modules, declarations, stage, m_hasErrors, returned, backend>>

EndDeclare ==
  /\ stage = "declare"
  /\ IF m_hasErrors
     THEN Exit(m_hasErrors)
     ELSE stage' = "build" /\ UNCHANGED <<m_hasErrors, returned>>
  /\ UNCHANGED <<modules, backend>>

\* The types that the declarations name are looked for once more, now that
\* everything is declared and imported.
FoundAgain(declared, behind) ==
  {ResolveType(Current, decl[t].of, behind) : t \in {u \in declared : decl[u].of # <<>>}}

\* Bodies and members can name any of the types the module knows, also when one
\* of them is refused.
AstBuilder(behind) ==
  LET declared == {t \in Declared : DeclaredIn(t) = Current}
      again == FoundAgain(declared, behind)
  IN /\ stage = "build"
     /\ Crash \notin again
     /\ mentions' = [t \in Types |-> IF t \in declared THEN Known(Current) ELSE mentions[t]]
     /\ \/ Exit(TRUE)
        \/ NoType \notin again /\ stage' = "check" /\ UNCHANGED <<m_hasErrors, returned>>
     /\ UNCHANGED <<m_modules, m_importedModules, m_typeList, m_typeId, decl, target, m_typeFunctions, backend>>

\* The return, type and move checks.
PassChecks ==
  /\ stage = "check"
  /\ Exit(m_hasErrors)
  /\ UNCHANGED <<modules, backend>>

-----------------------------------------------------------------------------
(* Around the compilations. *)

\* ErrorReporter::clear.  (Faulty variant: it resets the flag as well.)
ClearErrorsAll == stage = "idle" /\ m_hasErrors' = FALSE
ClearErrors == stage = "idle" /\ m_hasErrors' = m_hasErrors

ErrorsCleared ==
  /\ ClearErrors
  /\ UNCHANGED <<modules, stage, returned, backend>>

\* ModuleManager::clear destroys every module and its types.
ClearModules ==
  /\ stage = "idle"
  /\ m_modules' = <<>>
  /\ m_importedModules' = [m \in Ids |-> <<>>]
  /\ m_typeList' = [m \in Ids |-> <<>>]
  /\ m_typeId' = [t \in Types |-> kIvalid]
  /\ decl' = [t \in Types |-> NoDeclaration]
  /\ target' = [t \in Types |-> NoType]
  /\ m_typeFunctions' = [t \in Types |-> {}]
  /\ mentions' = [t \in Types |-> {}]
  /\ returned' = {}
  /\ UNCHANGED <<stage, m_hasErrors, backend>>

\* CTypeCache::init: one C name per type, in the order of the list.
EmitC(m) ==
  /\ stage = "idle"
  /\ m \in returned
  /\ m = Current \/ LateBackend
  /\ stage' = "emit"
  /\ emitting' = m
  /\ m_ctypes' = m_typeList[m]
  /\ UNCHANGED <<modules, m_hasErrors, returned>>

EmitEnds(failed) ==
  /\ stage = "emit"
  /\ stage' = "idle"
  /\ emitting' = 0
  /\ m_ctypes' = <<>>
  /\ m_hasErrors' = (m_hasErrors \/ failed)
  /\ UNCHANGED <<modules, returned>>

Next ==
  \/ \E s \in Sources : Compile(s)
  \/ PassFails \/ PassParser
  \/ \E d \in Declarations : \E behind \in IF Len(d.of) > 1 THEN BOOLEAN ELSE {FALSE} :
       \/ \E t \in Types : Declare(t, d, behind)
       \/ DeclareRefused(d, behind)
       \/ Crashes(d, behind)
  \/ ImportFails \/ EndDeclare
  \/ \E x \in Ids : Import(x)
  \/ \E behind \in BOOLEAN : AstBuilder(behind)
  \/ PassChecks
  \/ ErrorsCleared \/ ClearModules
  \/ \E m \in Ids : EmitC(m)
  \/ \E failed \in BOOLEAN : EmitEnds(failed)

Spec == Init /\ [][Next]_vars

-----------------------------------------------------------------------------
\* isCastableTo takes two types with equal ids for the same type: the types a
\* module knows keep different ids, however often they are renumbered by the
\* modules that import them.
TypeIdsDistinct ==
  \A m \in Compiled : \A t, u \in Known(m) : t # u => m_typeId[t] # m_typeId[u]

\* CTypeCache::getCType.
GetCType(t) ==
  LET i == m_typeId[t].index IN
    IF i < BuiltinTypes + Len(m_ctypes) /\ i >= BuiltinTypes
    THEN {m_ctypes[i - BuiltinTypes + 1]} ELSE {}

\* While a module is translated, every type it knows is found under its own
\* C name, not under that of another type and not outside the cache.
CTypeIsItsOwn ==
  emitting # 0 => \A t \in Known(emitting) : GetCType(t) = {t}

\* A module that knows a type knows what the type's declaration may mention,
\* through any chain of imports.
KnownIsClosed ==
  \A m \in Compiled : \A t \in Known(m) : mentions[t] \subseteq Known(m)

\* A module is returned as compiled only when everything it imports was,
\* although modules whose compilation failed can be found and imported.
ReturnedOnReturned ==
  \A m \in returned : ToSet(m_importedModules[m]) \subseteq returned \cup {m}

\* What a name says: a type or function of the module it begins with if that is
\* imported, of the module itself if not.
Meaning(m, written) ==
  LET named == {x \in ToSet(m_importedModules[m]) : NameOf(x) = written[1]}
      module == IF named # {} /\ Len(written) > 1 THEN written[1] ELSE NameOf(m)
      parts == IF named # {} /\ Len(written) > 1 THEN Tail(written) ELSE written
      type == GetByIdentifier(m, Identifier(parts[1], NoType, module))
  IN IF Len(parts) > 2 THEN NoType
     ELSE IF Len(parts) = 1 \/ type = NoType THEN type
     ELSE GetFunctionWithName(type, parts[2])

\* A qualified name that means something is never taken for something else: in
\* a module without imports, and if it begins with the first module that is
\* imported.  (Behind other imports it is.)
NamesMeanWhatTheySay ==
  \A m \in Compiled, written \in {w \in Written : Len(w) > 1} :
    LET imported == m_importedModules[m]
        meant == Meaning(m, written)
    IN /\ imported = <<>> \/ NameOf(Head(imported)) = written[1]
       /\ meant # NoType
       => \A behind \in BOOLEAN : ResolveType(m, written, behind) \in {meant, NoType, Crash}
=============================================================================
