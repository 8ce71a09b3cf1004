------------------------ MODULE PermissionTableProofs ------------------------
(***************************************************************************)
(* The bulk buttons of OperationPermissionTable, for every set of          *)
(* operations.  The buttons toggle one operation after the other, only     *)
(* those that differ (toggleAll, toggleGroup), and the table passes every  *)
(* toggle to TokenForm's toggleOperation, which flips it.                  *)
(***************************************************************************)
EXTENDS PermissionTable, TLAPS

(* A bulk button ticks, or unticks, all the operations it is about, and    *)
(* the flips never leave one the other way round.                          *)
THEOREM BulkTogglesTheView ==
    ASSUME NEW selected, NEW view, NEW select \in BOOLEAN
    PROVE  ToggleAll(selected, view, select) = BulkReference(selected, view, select)
BY DEF ToggleAll, ToggleEach, BulkReference

(* After its button the view is all selected, or none of it is; pressing   *)
(* the button again, which now says the opposite, is offered.              *)
THEOREM BulkSettlesTheView ==
    ASSUME NEW selected, NEW view, NEW select \in BOOLEAN
    PROVE  LET after == ToggleAll(selected, view, select)
           IN IF select THEN AllSelected(after, view) ELSE after \cap view = {}
<1>1. ToggleAll(selected, view, select) = BulkReference(selected, view, select)
  BY BulkTogglesTheView
<1>2. CASE select
  BY <1>1, <1>2 DEF BulkReference, AllSelected
<1>3. CASE ~select
  BY <1>1, <1>3 DEF BulkReference
<1>4. QED
  BY <1>2, <1>3

(* What the filters hide is never ticked or unticked by a bulk button: an  *)
(* operation of another method, group or search keeps its box.             *)
THEOREM HiddenOperationsKeepTheirBox ==
    ASSUME NEW operations \in SUBSET Operations,
           NEW selected, NEW view \in Views(operations), NEW select \in BOOLEAN
    PROVE  /\ view \subseteq operations
           /\ ToggleAll(selected, view, select) \ view = selected \ view
<1>1. view \subseteq operations
  <2>1. CASE view \in GroupViews(operations)
    BY <2>1 DEF GroupViews, FilteredOperations
  <2>2. CASE view \in MethodViews(operations)
    BY <2>2 DEF MethodViews
  <2>3. QED
    BY <2>1, <2>2 DEF Views
<1>2. ToggleAll(selected, view, select) \ view = selected \ view
  BY BulkTogglesTheView DEF BulkReference
<1>3. QED
  BY <1>1, <1>2
=============================================================================
