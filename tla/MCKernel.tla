------------------------------- MODULE MCKernel --------------------------------
(***************************************************************************)
(* Values for checking KernelHost: every graph of declared requirements    *)
(* over three capabilities, asked for as declared, in every installation;  *)
(* and every graph of what is asked for beside some that are declared.     *)
(***************************************************************************)
EXTENDS KernelHost

Edges == {e \in Caps \X Caps : e[1] # e[2]}
Graph(E) == [c \in Caps |-> {d \in Caps : <<c, d>> \in E}]

Installation(S, E, F, flaw) ==
  [installed |-> S, requires |-> Graph(E), asks |-> Graph(F), flawed |-> flaw]

Declared   == {Installation(S, E, E, FALSE) : S \in SUBSET Caps, E \in SUBSET Edges}
Undeclared == {Installation(Caps, E, F, FALSE) :
                 E \in SUBSET {<<1, 2>>, <<2, 3>>, <<3, 1>>},
                 F \in SUBSET Edges}
Odd        == {Installation(Caps, {<<2, 2>>}, {<<2, 2>>}, FALSE),
               Installation(Caps, {}, {<<2, 2>>}, FALSE),
               Installation(Caps, {}, {}, TRUE)}

Installations == Declared \cup Undeclared \cup Odd
=============================================================================
