------------------------------ MODULE ItemTools ------------------------------
(***************************************************************************)
(* The parts of src/items that work on data alone, each of them a machine  *)
(* of its own: lists of items and their filters (ItemLists), the tasks in  *)
(* a note (Checklists) and the second request after conflicts              *)
(* (ConflictRefs).  They share no state, so that a behaviour uses one.     *)
(***************************************************************************)
EXTENDS ItemLists, Checklists, ConflictRefs

VARIABLE tool  \* what this behaviour is about

toolVars == <<tool, listVars, checklistVars, conflictVars>>

NoLists == items = <<>> /\ steps = 0

NoConflicts == /\ pushed = <<>> /\ conflicts = <<>> /\ refReMap = <<>> /\ resolved = <<>>
               /\ next = 1
               /\ outcome = "duplicates"

Init == \/ tool = "lists" /\ ListInit /\ ChecklistInit /\ NoConflicts
        \/ tool \in {"tasks", "groups"} /\ NoLists /\ ChecklistInit /\ NoConflicts
        \/ tool = "conflicts" /\ NoLists /\ ChecklistInit /\ ConflictInit

Next == /\ UNCHANGED tool
        /\ \/ tool = "lists" /\ ListNext /\ UNCHANGED <<checklistVars, conflictVars>>
           \/ tool = "tasks" /\ TaskNext /\ UNCHANGED <<listVars, conflictVars>>
           \/ tool = "groups" /\ GroupNext /\ UNCHANGED <<listVars, conflictVars>>
           \/ tool = "conflicts" /\ ConflictNext /\ UNCHANGED <<listVars, checklistVars>>

Spec == Init /\ [][Next]_toolVars

=============================================================================
