---------------------------- MODULE DeclaredCell ----------------------------
(***************************************************************************)
(* What the base_was role promises for a whole cell, whatever number of     *)
(* plays run at the same time and however many of them fail: the cell is a  *)
(* set of named objects per document, and a play adds all the objects its   *)
(* YAML declares in one step or none of them. Optional objects (the shared  *)
(* library, which needs a file on the host) may or may not come along.      *)
(***************************************************************************)
CONSTANTS
  Servers,   \* the plays
  Docs,      \* the documents of the cell
  Before,    \* Before[d]: keys of the objects before the first play
  Declares,  \* Declares[s][d]: keys of the objects play s declares in d
  Optional   \* Optional[s][d]: keys play s may add beside them

VARIABLE cell

Init == cell = Before

Apply(s) ==
  /\ cell' = [d \in Docs |-> cell'[d]]
  /\ \A d \in Docs :
       /\ cell[d] \union Declares[s][d] \subseteq cell'[d]
       /\ cell'[d] \subseteq cell[d] \union Declares[s][d] \union Optional[s][d]

Next == \E s \in Servers : Apply(s)

Spec == Init /\ [][Next]_cell
=============================================================================
