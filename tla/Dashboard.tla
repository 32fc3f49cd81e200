------------------------------ MODULE Dashboard -------------------------------
(* The detail panel of the dashboard, app/static/app.js: which endpoint is    *)
(* selected, and the refreshes under way.  Each handler runs to its next      *)
(* await; refreshes started by clicks and by the timer overlap, and their     *)
(* responses arrive in any order.  A refresh reads state.selectedId and       *)
(* state.page anew for each of its requests.  A 401 leaves the page and is    *)
(* not modelled; nor are the list, the alerts and the forms, which end in a   *)
(* refresh.                                                                   *)
EXTENDS Integers

CONSTANTS Ids,         \* endpoints
          MaxPage,     \* bound: pages of a history
          Loads,       \* bound: refreshes under way at a time
          MaxClicks,   \* bound: what the user does
          MaxFailures  \* bound: requests that fail though the API is there

ASSUME BoundsAssumption ==
  MaxPage \in Nat \ {0} /\ MaxClicks \in Nat /\ MaxFailures \in Nat

CONSTANT None  \* null
ASSUME NoneAssumption == None \notin Ids

VARIABLES
  existing,  \* endpoints the API knows
  selected,  \* state.selectedId
  page,      \* state.page
  panel,     \* what the detail panel shows
  load,      \* each refresh: where it is, and what it has asked for
  timer,     \* asked (for the user), on or off
  clicks, failures

vars == <<existing, selected, page, panel, load, timer, clicks, failures>>

MaybeId == Ids \cup {None}
Panel == [shown : BOOLEAN, error : BOOLEAN, title : MaybeId, rows : MaybeId,
          page : 0..MaxPage]

\* title is the endpoint of the first response, id and page are those of the
\* request under way, live says that the endpoint existed when it was sent.
Load == [step : {"idle", "list", "detail", "history", "delete"}, title : MaybeId,
         id : MaybeId, page : 0..MaxPage, live : BOOLEAN]

Idle == [step |-> "idle", title |-> None, id |-> None, page |-> 0, live |-> FALSE]
Listing == [Idle EXCEPT !.step = "list"]

\* The request for the details of e, sent in a state with selection e.
Detailing(e) == [Idle EXCEPT !.step = "detail", !.id = e, !.live = e \in existing]

Init ==
  /\ existing = Ids
  /\ selected \in MaybeId            \* bootFromPath
  /\ page = 1
  /\ panel = [shown |-> FALSE, error |-> FALSE, title |-> None, rows |-> None, page |-> 0]
  /\ load = [l \in Loads |-> Idle]
  /\ timer = "asked" /\ clicks = 0 /\ failures = 0

Becomes(l, new) == load' = [load EXCEPT ![l] = new]

Fails == failures < MaxFailures /\ failures' = failures + 1

-----------------------------------------------------------------------------
(* Refreshes. *)

\* loadAll, by the timer, the button, or at the end of a form.
Refresh(l) ==
  /\ load[l].step = "idle"
  /\ Becomes(l, Listing)
  /\ UNCHANGED <<existing, selected, page, panel, timer, clicks, failures>>

TimerFires == timer = "on" /\ \E l \in Loads : Refresh(l)

\* The refresh at boot, and those of the user; once the timer is on, they are
\* steps like its own.
UserRefreshes == timer # "on" /\ \E l \in Loads : Refresh(l)

\* startTimer follows the first answer to /api/auth/me, if it is a good one.
StartTimer ==
  /\ timer = "asked"
  /\ \/ timer' = "on" /\ failures' = failures
     \/ timer' = "off" /\ Fails
  /\ UNCHANGED <<existing, selected, page, panel, load, clicks>>

ListOnly(l) == Becomes(l, Idle)
ListAndDetails(l) ==
  Becomes(l, IF selected = None THEN Idle ELSE Detailing(selected))

\* loadEndpoints goes on to loadDetails, if an endpoint is selected by now.
ListAnswered(l) ==
  /\ load[l].step = "list"
  /\ \/ ListAndDetails(l) /\ failures' = failures
     \/ Becomes(l, Idle) /\ Fails
  /\ UNCHANGED <<existing, selected, page, panel, timer, clicks>>

\* A request about an endpoint is answered from a moment in which it existed.
Answered(l) == load[l].live

\* Or it was gone, or the request fails: "catch" shows the error in the panel.
ErrorHidden == UNCHANGED panel
ErrorShown == panel' = [panel EXCEPT !.shown = TRUE, !.error = TRUE]

LoadFails(l) ==
  /\ load[l].step \in {"detail", "history"}
  /\ IF load[l].id \in existing THEN Fails ELSE failures' = failures
  /\ ErrorShown
  /\ Becomes(l, Idle)
  /\ UNCHANGED <<existing, selected, page, timer, clicks>>

\* The first response; the second request reads the selection again, which may
\* be another one by now, or null.
DetailAnswered(l) ==
  /\ load[l].step = "detail" /\ Answered(l)
  /\ Becomes(l, [step |-> "history", title |-> load[l].id, id |-> selected,
                 page |-> page, live |-> selected \in existing])
  /\ UNCHANGED <<existing, selected, page, panel, timer, clicks, failures>>

\* The second response: both are rendered.
HistoryAnswered(l) ==
  /\ load[l].step = "history" /\ Answered(l)
  /\ panel' = [shown |-> TRUE, error |-> FALSE, title |-> load[l].title,
               rows |-> load[l].id, page |-> load[l].page]
  /\ Becomes(l, Idle)
  /\ UNCHANGED <<existing, selected, page, timer, clicks, failures>>

-----------------------------------------------------------------------------
(* The user, in this tab and elsewhere. *)

Click == clicks < MaxClicks /\ clicks' = clicks + 1

\* A click that ends in loadDetails; without a selection that hides the panel.
ShowDetails(l, e) ==
  /\ load[l].step = "idle"
  /\ IF e = None
     THEN panel' = [panel EXCEPT !.shown = FALSE] /\ load' = load
     ELSE Becomes(l, Detailing(e)) /\ panel' = panel

\* "Details" of a row; the list may still show an endpoint that is gone.
Select(l, e) ==
  /\ Click
  /\ selected' = e /\ page' = 1
  /\ ShowDetails(l, e)
  /\ UNCHANGED <<existing, timer, failures>>

PrevAlways == TRUE
PrevAllowed == page > 1

Prev(l) ==
  /\ Click
  /\ panel.shown /\ PrevAllowed
  /\ page' = page - 1
  /\ ShowDetails(l, selected)
  /\ UNCHANGED <<existing, selected, timer, failures>>

\* The button is disabled by the rendered response only: page may run ahead.
NextPage(l) ==
  /\ Click
  /\ panel.shown
  /\ page < MaxPage
  /\ page' = page + 1
  /\ ShowDetails(l, selected)
  /\ UNCHANGED <<existing, selected, timer, failures>>

Hide == panel' = [panel EXCEPT !.shown = FALSE]

Close ==
  /\ Click
  /\ selected' = None
  /\ Hide
  /\ UNCHANGED <<existing, page, load, timer, failures>>

\* DELETE is sent and handled.
Delete(l, e) ==
  /\ Click
  /\ load[l].step = "idle" /\ e \in existing
  /\ existing' = existing \ {e}
  /\ Becomes(l, [Idle EXCEPT !.step = "delete", !.id = e])
  /\ UNCHANGED <<selected, page, panel, timer, failures>>

\* Its answer; then loadEndpoints.
DeleteAnswered(l) ==
  /\ load[l].step = "delete"
  /\ IF selected = load[l].id THEN selected' = None /\ Hide
                              ELSE UNCHANGED <<selected, panel>>
  /\ Becomes(l, Listing)
  /\ UNCHANGED <<existing, page, timer, clicks, failures>>

\* Another tab deletes an endpoint.
DeletedElsewhere(e) ==
  /\ Click
  /\ e \in existing
  /\ existing' = existing \ {e}
  /\ UNCHANGED <<selected, page, panel, load, timer, failures>>

Response(l) == \/ ListAnswered(l) \/ LoadFails(l) \/ DetailAnswered(l)
               \/ HistoryAnswered(l) \/ DeleteAnswered(l)

UserActs == \/ UserRefreshes \/ Close
            \/ \E l \in Loads : Prev(l) \/ NextPage(l)
            \/ \E l \in Loads, e \in Ids : Select(l, e) \/ Delete(l, e)
            \/ \E e \in Ids : DeletedElsewhere(e)

Next == TimerFires \/ StartTimer \/ UserActs \/ \E l \in Loads : Response(l)

Spec == Init /\ [][Next]_vars

\* Every request is answered or fails, and setInterval keeps firing.
Fairness == WF_vars(TimerFires) /\ \A l \in Loads : WF_vars(Response(l))

FairSpec == Spec /\ Fairness

-----------------------------------------------------------------------------
(* Properties. *)

\* The type of every variable: page never falls below 1.
TypeOK ==
  /\ existing \subseteq Ids /\ selected \in MaybeId /\ page \in 1..MaxPage
  /\ panel \in Panel /\ load \in [Loads -> Load]
  /\ timer \in {"asked", "on", "off"} /\ clicks \in Nat /\ failures \in Nat

Shows(e, p) == panel = [shown |-> TRUE, error |-> FALSE, title |-> e, rows |-> e, page |-> p]

\* Responses out of order may show one endpoint's title over another's history,
\* or the selection before this one.  Once the user settles on an endpoint and
\* a page, the panel settles on them too, and stays there.
PanelSettles ==
  \A e \in Ids, p \in 1..MaxPage :
    <>[](timer = "on" /\ selected = e /\ page = p /\ e \in existing) => <>[]Shows(e, p)

\* If the endpoint on show is deleted elsewhere, the panel comes to say so.
DeletionSettles ==
  \A e \in Ids :
    <>[](timer = "on" /\ selected = e /\ e \notin existing) => <>[](panel.shown /\ panel.error)
=============================================================================
