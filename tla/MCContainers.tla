----------------------------- MODULE MCContainers -----------------------------
(***************************************************************************)
(* The containers of src/common, for TLC: intrusive lists, a red-black     *)
(* tree, a ternary search tree, and an event emitter on top of one.  They  *)
(* share nothing; a behaviour is one of one of them, and mode says which.  *)
(***************************************************************************)
EXTENDS EvEmitter, DList, RBTree, TLC

VARIABLE mode

ASSUME NodesAssumption /\ RbAssumption

(* Two nodes share the middle key.                                         *)
MCKey == [n \in RbNodes |-> IF n <= 4 THEN n ELSE n - 1]

(* The empty name, a name that is a prefix of another, and one beside them.*)
MCKeys == {<<>>, <<1>>, <<2>>, <<1, 1>>}

MCInit ==
    /\ mode \in {"lists", "redblack", "search", "emitter"}
    /\ Init /\ RbInit /\ EmitterInit

MCNext ==
    \/ mode = "lists" /\ Next /\ UNCHANGED <<mode, rbVars, treeVars, emitterVars>>
    \/ mode = "redblack" /\ RbNext /\ UNCHANGED <<mode, vars, treeVars, emitterVars>>
    \/ mode = "search" /\ TreeNext /\ UNCHANGED <<mode, vars, rbVars, emitterVars>>
    \/ mode = "emitter" /\ EmitterNext /\ UNCHANGED <<mode, vars, rbVars>>

MCSpec == MCInit /\ [][MCNext]_<<mode, vars, rbVars, treeVars, emitterVars>>

Symmetric == Permutations(Entries) \cup Permutations(Callbacks) \cup Permutations(Values)

=============================================================================
