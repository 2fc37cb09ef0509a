--------------------------- MODULE MCModuleRegistry ---------------------------
(* Three sources: the name of one is longer than the others, and the name of *)
(* one is also the name of a struct.                                         *)
EXTENDS ModuleRegistry

MCSources == {"a", "S", "cc"}
MCModuleName == [s \in MCSources |-> s]
MCMaxModules == 3
MCMaxTypes == 3
MCMaxSize == 5

Declaration(kind, name, of) == [kind |-> kind, name |-> name, of |-> of]
MCDeclarations ==
  {Declaration("struct", "S", <<>>), Declaration("function", "f", <<>>),
   Declaration("function", "f", <<"S">>), Declaration("function", "f", <<"a", "S">>),
   Declaration("function", "f", <<"T">>),
   Declaration("weak", "T", <<"S">>), Declaration("strong", "T", <<"a", "S">>)}
MCWritten ==
  {<<"S">>, <<"T">>, <<"a", "S">>, <<"S", "f">>, <<"T", "f">>, <<"a", "f">>,
   <<"a", "S", "f">>}
=============================================================================
