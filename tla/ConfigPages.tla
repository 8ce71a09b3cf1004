----------------------------- MODULE ConfigPages -----------------------------
(***************************************************************************)
(* DashboardPage's ConfigForm: saving the backend's URLs, with a warning   *)
(* when that wipes the permissions, and the refresh of the schema that     *)
(* follows, with a notice when it changed the operations.                  *)
(***************************************************************************)
EXTENDS AdminPages

OnForm == page = <<"dashboard">> /\ view # None
ConfigData == Data(client, <<"backendConfig">>)

(* Neither modal is over the form.                                         *)
FormFree == OnForm /\ ~view.dialog /\ ~view.notice

TypeTarget(target) ==
    /\ FormFree /\ view.target # target
    /\ SetView([view EXCEPT !.target = target])

(* The typed URLs are compared with the stored ones as they are spelled.   *)
UrlChanged == ConfigData # None /\ view.target # ConfigData.target

(* Nothing that the tab has asked for, before a reload or since, is open.  *)
NothingOpen == CallsOf(client) = {} /\ received = {}

(* The body says also whether there was a warning, and whether it was sent *)
(* from a page at rest that shows the URLs the server has.                 *)
Save(warned) ==
    /\ ~\E call \in Mutating(client) \cup received : call.path = <<"refresh", "save">>
    /\ Submit("PUT", <<"backendConfig">>,
              <<view.target, warned, NothingOpen /\ <<"backendConfig">> \notin unseen>>,
              [view EXCEPT !.saving = TRUE, !.dialog = FALSE])

(* handleSubmit.                                                           *)
AskSwitch ==
    /\ FormFree /\ ~view.saving
    /\ UrlChanged
    /\ SetView([view EXCEPT !.dialog = TRUE])

SubmitConfig ==
    /\ FormFree /\ ~view.saving /\ view.target # None
    /\ ~UrlChanged
    /\ Save(FALSE)

ConfirmSwitch == OnForm /\ view.dialog /\ Save(TRUE)
CancelSwitch == OnForm /\ view.dialog /\ SetView([view EXCEPT !.dialog = FALSE])

SubmitRefresh ==
    /\ FormFree /\ view.refreshing = {} /\ ConfigData # None
    /\ Submit("POST", <<"refresh", "button">>, None, [view EXCEPT !.refreshing = {"button"}])

CloseNotice == OnForm /\ view.notice /\ SetView([view EXCEPT !.notice = FALSE])

(***************************************************************************)
(* Answers                                                                 *)
(***************************************************************************)

SaveWaits == OnForm /\ view.saving

InvalidateBackend(c) ==
    InvalidateOn(InvalidateOn(InvalidateOn(c, <<"backendConfig">>), <<"operations">>), <<"tokens">>)

SendRefresh(c) == Send(c, Call("POST", <<"refresh", "save">>, None, None))

SavedView == IF SaveWaits THEN [view EXCEPT !.saving = FALSE, !.refreshing = @ \cup {"save"}] ELSE view

IsSaved(a) == a.ok /\ a.call.method = "PUT"

(* Mutant of Saved: nothing is fetched again.                              *)
SavedSilently(a, c) ==
    /\ IsSaved(a)
    /\ Render(c, page, IF SaveWaits THEN [view EXCEPT !.saving = FALSE] ELSE view)

(* Mutant of Saved: the schema waits for the button.                       *)
SavedWithoutRefresh(a, c) ==
    /\ IsSaved(a)
    /\ Render(InvalidateBackend(c), page,
              IF SaveWaits THEN [view EXCEPT !.saving = FALSE] ELSE view)

Saved(a, c) == IsSaved(a) /\ Render(SendRefresh(InvalidateBackend(c)), page, SavedView)

(* The notice is for the instance of the form that asked.                  *)
RefreshEnded(kind, notice) ==
    IF OnForm /\ kind \in view.refreshing
    THEN [view EXCEPT !.refreshing = @ \ {kind}, !.notice = @ \/ notice] ELSE view

Refreshed(a, c) ==
    /\ a.ok /\ a.call.path[1] = "refresh"
    /\ Render(InvalidateOn(InvalidateOn(InvalidateOn(c, <<"backendConfig">>),
                                        <<"schemaSnapshots">>), <<"operations">>),
              page, RefreshEnded(a.call.path[2], a.data))

ConfigCallFailed(a, c) ==
    /\ ~a.ok
    /\ \/ /\ a.call.method = "PUT"
          /\ Render(c, page, IF SaveWaits THEN [view EXCEPT !.saving = FALSE] ELSE view)
       \/ /\ a.call.path[1] = "refresh"
          /\ Render(c, page, RefreshEnded(a.call.path[2], FALSE))

ConfigVisitor ==
    \/ \E target \in visits.targets : TypeTarget(target)
    \/ AskSwitch
    \/ SubmitConfig
    \/ ConfirmSwitch
    \/ CancelSwitch
    \/ SubmitRefresh
    \/ CloseNotice

ConfigAnswered(a, c) ==
    \/ Saved(a, c)
    \/ Refreshed(a, c)
    \/ ConfigCallFailed(a, c)
=============================================================================
