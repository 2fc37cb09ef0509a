------------------------------- MODULE RegisterSet -------------------------------
(* What a register allocator promises: it hands out registers nobody else     *)
(* has, the same one again to a variable that has one, and refuses only when  *)
(* all are in use.                                                            *)
CONSTANTS Registers, Keys, Refusal

VARIABLES named,    \* the registers of variables, by key
          temps,    \* the temporaries that are held
          answer    \* what the last request returned

InUse == {named[k] : k \in DOMAIN named} \cup temps

Init == named = [k \in {} |-> Refusal] /\ temps = {} /\ answer = Refusal

With(k, r) == [j \in DOMAIN named \cup {k} |-> IF j = k THEN r ELSE named[j]]
Without(k) == [j \in DOMAIN named \ {k} |-> named[j]]

Name == \E k \in Keys \ DOMAIN named, r \in Registers \ InUse :
          named' = With(k, r) /\ answer' = r /\ UNCHANGED temps
NameAgain == \E k \in DOMAIN named : answer' = named[k] /\ UNCHANGED <<named, temps>>
Lend == \E r \in Registers \ InUse : temps' = temps \cup {r} /\ answer' = r /\ UNCHANGED named
Refuse == Registers \subseteq InUse /\ answer' = Refusal /\ UNCHANGED <<named, temps>>
TakeBack == \/ \E k \in DOMAIN named : named' = Without(k) /\ UNCHANGED <<temps, answer>>
            \/ \E r \in temps : temps' = temps \ {r} /\ UNCHANGED <<named, answer>>
Clear == named' = [k \in {} |-> Refusal] /\ temps' = {} /\ UNCHANGED answer

Next == Name \/ NameAgain \/ Lend \/ Refuse \/ TakeBack \/ Clear

Spec == Init /\ [][Next]_<<named, temps, answer>>
================================================================================
