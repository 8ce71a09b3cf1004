------------------------------ MODULE TokenPages ------------------------------
(***************************************************************************)
(* TokensPage and TokenEditPage: revoking and deleting in the list, the    *)
(* form that issues or updates a token, and the dialog that shows a new    *)
(* token's value once.                                                     *)
(***************************************************************************)
EXTENDS AdminPages

OnTokens == page = <<"tokens">>
Rows == Data(client, <<"tokens">>)
Row(t) == OnTokens /\ Rows # None /\ t \in DOMAIN Rows

(* The button of a row that is not revoked opens the dialog.               *)
AskRevoke(t) ==
    /\ Row(t) /\ Rows[t] = "live"
    /\ view.confirm = None
    /\ SetView([view EXCEPT !.confirm = t])

(* Mutant of CancelRevoke: the button stays enabled.                       *)
CancelRevokeAnyTime ==
    /\ OnTokens /\ view.confirm # None
    /\ SetView([view EXCEPT !.confirm = None])

(* Neither button works while the revocation it asked for is pending.      *)
CancelRevoke ==
    /\ OnTokens
    /\ view.confirm # None /\ view.revoking # view.confirm
    /\ SetView([view EXCEPT !.confirm = None])

ConfirmRevoke ==
    /\ OnTokens
    /\ view.confirm # None /\ view.revoking # view.confirm
    /\ Submit("POST", <<"revoke", view.confirm>>, None,
              [view EXCEPT !.revoking = view.confirm])

(* Mutant of HandleDelete: the button is on every row.                     *)
HandleDeleteOfAny(t) ==
    /\ Row(t)
    /\ view.confirm = None /\ ~view.deleting
    /\ Submit("DELETE", <<"token", t>>, None, [view EXCEPT !.deleting = TRUE])

(* Delete is the button of a revoked row, window.confirm its question.     *)
HandleDelete(t) ==
    /\ Row(t) /\ Rows[t] = "revoked"
    /\ view.confirm = None /\ ~view.deleting
    /\ Submit("DELETE", <<"token", t>>, None, [view EXCEPT !.deleting = TRUE])

(* The form, unless it is under the dialog.                                *)
Editing == IsForm(page) /\ view # None /\ view.issued = None
Edited == page[2]

Checkboxes == {p[1] : p \in Data(client, <<"operations", "all">>)}
Offered == Editing /\ Data(client, <<"operations", "all">>) # None

ToggleOperation(o) ==
    /\ Offered /\ o \in Checkboxes
    /\ SetView([view EXCEPT !.selected = ToggleEach(@, {o})])

ToggleBulk ==
    /\ Offered
    /\ \E v \in Views(Checkboxes) :
        SetView([view EXCEPT !.selected = ToggleAll(@, v, ~AllSelected(@, v))])

(* handleSubmit: the whole selection is sent.                              *)
SubmitForm ==
    /\ Editing /\ ~view.saving
    /\ IF page = <<"tokens", "new">>
       THEN Submit("POST", <<"tokens">>, <<view.selected>>, [view EXCEPT !.saving = TRUE])
       ELSE Submit("PATCH", <<"token", Edited>>, <<view.selected>>, [view EXCEPT !.saving = TRUE])

CancelForm == Editing /\ Go(<<"tokens">>)

(* TokenValueDialog's close button.                                        *)
CloseValue ==
    /\ IsForm(page) /\ view # None /\ view.issued # None
    /\ Go(<<"tokens">>)

(***************************************************************************)
(* Answers.  A callback sets the state of the component it came from,      *)
(* which is the one that waits, if any.                                    *)
(***************************************************************************)

(* setConfirmTarget(null) and isPending.                                   *)
RevokeEnded(t, confirm) ==
    IF OnTokens /\ view.revoking = t
    THEN [view EXCEPT !.revoking = None, !.confirm = confirm] ELSE view

DeleteEnded ==
    IF OnTokens /\ view.deleting THEN [view EXCEPT !.deleting = FALSE] ELSE view

FormWaits(call) ==
    /\ view # None
    /\ \/ page = <<"tokens", "new">> /\ call.method = "POST"
       \/ page[1] = "edit" /\ call.path = <<"token", Edited>>
    /\ view.saving

FormEnded(call, issued) ==
    IF FormWaits(call) THEN [view EXCEPT !.saving = FALSE, !.issued = issued] ELSE view

(* Mutant of Revoked: the list is not fetched again.                       *)
RevokedSilently(a, c) ==
    /\ a.ok /\ a.call.method = "POST" /\ a.call.path[1] = "revoke"
    /\ Render(c, page, RevokeEnded(a.call.path[2], None))

Revoked(a, c) ==
    /\ a.ok /\ a.call.method = "POST" /\ a.call.path[1] = "revoke"
    /\ Render(InvalidateOn(c, <<"tokens">>), page, RevokeEnded(a.call.path[2], None))

Deleted(a, c) ==
    /\ a.ok /\ a.call.method = "DELETE"
    /\ Render(InvalidateOn(c, <<"tokens">>), page, DeleteEnded)

Created(a, c) ==
    /\ a.ok /\ a.call.method = "POST" /\ a.call.path = <<"tokens">>
    /\ Render(InvalidateOn(c, <<"tokens">>), page, FormEnded(a.call, a.data))

(* navigate('/tokens'), wherever the visitor is by now.                    *)
Updated(a, c) ==
    /\ a.ok /\ a.call.method = "PATCH"
    /\ Render(InvalidateOn(c, <<"tokens">>), <<"tokens">>, FormEnded(a.call, None))

TokenCallFailed(a, c) ==
    /\ ~a.ok
    /\ \/ /\ a.call.method = "POST" /\ a.call.path[1] = "revoke"
          /\ Render(c, page, RevokeEnded(a.call.path[2],
                                         IF OnTokens THEN view.confirm ELSE None))
       \/ /\ a.call.method = "DELETE"
          /\ Render(c, page, DeleteEnded)
       \/ /\ \/ a.call.method = "POST" /\ a.call.path = <<"tokens">>
             \/ a.call.method = "PATCH"
          /\ Render(c, page, FormEnded(a.call, None))

TokenVisitor ==
    \/ \E t \in Tokens : AskRevoke(t) \/ HandleDelete(t)
    \/ CancelRevoke
    \/ ConfirmRevoke
    \/ \E o \in Operations : ToggleOperation(o)
    \/ ToggleBulk
    \/ SubmitForm
    \/ CancelForm
    \/ CloseValue

TokenAnswered(a, c) ==
    \/ Revoked(a, c)
    \/ Deleted(a, c)
    \/ Created(a, c)
    \/ Updated(a, c)
    \/ TokenCallFailed(a, c)
=============================================================================
