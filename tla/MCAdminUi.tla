------------------------------ MODULE MCAdminUi ------------------------------
(* Small instances of AdminUi for TLC.                                     *)
EXTENDS AdminUi

CONSTANTS t1, t2, o1, bare, u1, u2, get, pets

MCMethodOf == o1 :> get
MCGroupOf == o1 :> pets

(* bare is u1 without the slash that HttpUrl gives it.                     *)
MCNormalized == [target \in Targets |-> IF target = bare THEN u1 ELSE target]
MCSpecs == {Operations, {}}

MCVisit(pages, targets, events) ==
    [pages |-> pages, targets |-> targets, events |-> events]

(* The token pages next to their list; the dashboard by itself, with URLs  *)
(* spelled in two ways, and next to the pages that share its queries.      *)
MCVisits ==
    {MCVisit({<<"tokens">>, <<"tokens", "new">>}, {u1}, 2),
     MCVisit({<<"tokens">>, <<"edit", t1>>}, {u1}, 2),
     MCVisit({<<"dashboard">>}, {u1, u2}, 2),
     MCVisit({<<"dashboard">>}, {bare, u1, u2}, 1),
     MCVisit({<<"dashboard">>, <<"snapshots">>}, {u1}, 1),
     MCVisit({<<"dashboard">>, <<"operations", "active">>}, {u1, u2}, 1)}

MCSwitchAndEdit == {MCVisit({<<"dashboard">>, <<"edit", t1>>}, {u1, u2}, 2)}
MCOneSave == {MCVisit({<<"dashboard">>}, {bare, u1}, 1)}
=============================================================================
