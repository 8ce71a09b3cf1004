---------------------------- MODULE PermissionTable ----------------------------
(***************************************************************************)
(* The checkboxes of the token form: what OperationPermissionTable shows   *)
(* under its filters, and what its bulk buttons do to the selection.       *)
(***************************************************************************)
EXTENDS FiniteSets

CONSTANTS
    Operations,
    MethodOf,      \* the method of each operation
    GroupOf        \* the first segment of its path

ASSUME PermissionTableAssumption ==
    /\ DOMAIN MethodOf = Operations
    /\ DOMAIN GroupOf = Operations

MethodFilters == {MethodOf[o] : o \in Operations} \cup {"all"}

(* filteredOperations: found are those the search matches.                 *)
FilteredOperations(operations, method, found) ==
    {o \in operations \cap found : method = "all" \/ MethodOf[o] = method}

(* What one bulk button is about: a group of the filtered operations, or   *)
(* the operations of one method's tab.                                     *)
GroupViews(operations) ==
    {{o \in FilteredOperations(operations, method, found) : GroupOf[o] = group} :
        method \in MethodFilters, found \in SUBSET operations,
        group \in {GroupOf[o] : o \in operations}}
MethodViews(operations) ==
    {{o \in operations : MethodOf[o] = method} : method \in {MethodOf[o] : o \in operations}}
Views(operations) == (GroupViews(operations) \cup MethodViews(operations)) \ {{}}

ToggleEach(selected, ids) == (selected \ ids) \cup (ids \ selected)

AllSelected(selected, view) == view \subseteq selected

(* toggleAll and toggleGroup: those that are not yet as they should be.    *)
ToggleAll(selected, view, select) ==
    ToggleEach(selected, {o \in view : (o \in selected) # select})

(* What the buttons say: select all, or deselect all, of the view.         *)
BulkReference(selected, view, select) ==
    IF select THEN selected \cup view ELSE selected \ view
=============================================================================
