--------------------------- MODULE Dashboard_proofs ---------------------------
(* What holds of the detail panel however many refreshes overlap, in whatever *)
(* order their responses come, for any endpoints and any number of pages.     *)
EXTENDS Dashboard, TLAPS

\* A refresh asks for the details of an endpoint, never of null; its second
\* request may be for null, but then it is not answered.
Asking ==
  \A l \in Loads :
    /\ load[l].live => load[l].id \in Ids
    /\ load[l].step = "detail" => load[l].id \in Ids
    /\ load[l].step = "history" => load[l].title \in Ids /\ load[l].page >= 1

\* What the panel shows without an error are two answers of the API: the
\* details of an endpoint, and a page of the results of an endpoint.  Closing
\* the panel between the two requests never renders a half of one.
Rendered ==
  panel.shown /\ ~panel.error =>
    panel.title \in Ids /\ panel.rows \in Ids /\ panel.page >= 1

IInv == TypeOK /\ Asking /\ Rendered

LEMMA IdlesAreLoads ==
  /\ Idle \in Load /\ Listing \in Load
  /\ Idle.step = "idle" /\ ~Idle.live /\ Listing.step = "list" /\ ~Listing.live
<1>1. 0 \in 0..MaxPage
  BY BoundsAssumption
<1>2. /\ Idle.step = "idle" /\ Idle.title = None /\ Idle.id = None /\ Idle.page = 0
      /\ Idle.live = FALSE
  BY DEF Idle
<1>3. Idle \in Load
  BY <1>1 DEF Idle, Load, MaybeId
<1>4. Listing \in Load /\ Listing.step = "list" /\ Listing.live = FALSE
  BY <1>2, <1>3 DEF Listing, Load
<1> QED
  BY <1>2, <1>3, <1>4

LEMMA DetailingIsLoad ==
  ASSUME TypeOK, NEW e \in Ids
  PROVE  Detailing(e) \in Load /\ Detailing(e).step = "detail" /\ Detailing(e).id = e
<1> DEFINE b == e \in existing
<1>1. Detailing(e) = [Idle EXCEPT !.step = "detail", !.id = e, !.live = b]
  BY DEF Detailing
<1>2. b \in BOOLEAN
  OBVIOUS
<1> HIDE DEF b
<1> QED
  BY <1>1, <1>2, IdlesAreLoads DEF Load, MaybeId

\* One refresh goes on; the others are where they were.
LEMMA BecomesKeeps ==
  ASSUME TypeOK, Asking, NEW l \in Loads, NEW new \in Load, Becomes(l, new),
         new.live => new.id \in Ids,
         new.step = "detail" => new.id \in Ids,
         new.step = "history" => new.title \in Ids /\ new.page >= 1
  PROVE  load' \in [Loads -> Load] /\ Asking'
BY DEF TypeOK, Asking, Becomes

LEMMA InitInv == Init => IInv
<1> SUFFICES ASSUME Init PROVE IInv
  OBVIOUS
<1>1. TypeOK
  BY IdlesAreLoads, BoundsAssumption DEF Init, TypeOK, Panel, MaybeId
<1>2. Asking /\ Rendered
  BY IdlesAreLoads DEF Init, Asking, Rendered
<1> QED
  BY <1>1, <1>2 DEF IInv

LEMMA ClickTypes ==
  ASSUME TypeOK, UNCHANGED clicks \/ Click
  PROVE  clicks' \in Nat
BY DEF TypeOK, Click

LEMMA FailTypes ==
  ASSUME TypeOK, UNCHANGED failures \/ Fails
  PROVE  failures' \in Nat
BY DEF TypeOK, Fails

LEMMA RefreshInv ==
  ASSUME IInv, NEW l \in Loads, Refresh(l)
  PROVE  IInv'
<1>1. load' \in [Loads -> Load] /\ Asking'
  BY IdlesAreLoads, BecomesKeeps DEF IInv, Refresh
<1> QED
  BY <1>1 DEF IInv, TypeOK, Rendered, Refresh

LEMMA StartTimerInv == ASSUME IInv, StartTimer PROVE IInv'
<1>1. failures' \in Nat
  BY FailTypes DEF IInv, StartTimer
<1> QED
  BY <1>1 DEF IInv, TypeOK, Asking, Rendered, StartTimer

\* The panel with an error, or hidden, renders nothing.
LEMMA PanelStep ==
  ASSUME IInv, UNCHANGED panel \/ ErrorShown \/ Hide
  PROVE  panel' \in Panel /\ Rendered'
<1>1. panel \in Panel
  BY DEF IInv, TypeOK
<1>2. CASE UNCHANGED panel
  BY <1>1, <1>2 DEF IInv, Rendered
<1>3. CASE ErrorShown
  BY <1>1, <1>3 DEF ErrorShown, Panel, Rendered
<1>4. CASE Hide
  BY <1>1, <1>4 DEF Hide, Panel, Rendered
<1> QED
  BY <1>2, <1>3, <1>4

LEMMA ResponseInv ==
  ASSUME IInv, NEW l \in Loads, Response(l)
  PROVE  IInv'
<1>0. /\ load[l] \in Load /\ page \in 1..MaxPage /\ selected \in MaybeId
      /\ existing \subseteq Ids /\ panel \in Panel
  BY DEF IInv, TypeOK
<1>1. CASE ListAnswered(l)
  <2>1. failures' \in Nat
    BY <1>1, FailTypes DEF IInv, ListAnswered
  <2>2. \/ Becomes(l, Idle)
        \/ selected \in Ids /\ Becomes(l, Detailing(selected))
    BY <1>0, <1>1 DEF ListAnswered, ListAndDetails, MaybeId
  <2>3. load' \in [Loads -> Load] /\ Asking'
    BY <2>2, IdlesAreLoads, DetailingIsLoad, BecomesKeeps DEF IInv
  <2> QED
    BY <1>1, <2>1, <2>3 DEF ListAnswered, IInv, TypeOK, Rendered
<1>2. CASE LoadFails(l)
  <2>1. failures' \in Nat
    BY <1>2, FailTypes DEF IInv, LoadFails
  <2>2. load' \in [Loads -> Load] /\ Asking'
    BY <1>2, IdlesAreLoads, BecomesKeeps DEF IInv, LoadFails
  <2>3. panel' \in Panel /\ Rendered'
    BY <1>2, PanelStep DEF LoadFails
  <2> QED
    BY <1>2, <2>1, <2>2, <2>3 DEF LoadFails, IInv, TypeOK
<1>3. CASE DetailAnswered(l)
  <2> DEFINE new == [step |-> "history", title |-> load[l].id, id |-> selected,
                     page |-> page, live |-> selected \in existing]
  <2>1. load[l].id \in Ids
    BY <1>3 DEF DetailAnswered, IInv, Asking
  <2>2. /\ new \in Load /\ new.title \in Ids /\ new.page >= 1 /\ new.step = "history"
        /\ new.live => new.id \in Ids
    <3>1. /\ page \in 0..MaxPage /\ page >= 1 /\ (selected \in existing) \in BOOLEAN
          /\ load[l].id \in MaybeId
      BY <1>0, <2>1, BoundsAssumption DEF MaybeId
    <3>2. new \in Load
      BY <1>0, <3>1 DEF Load
    <3> QED
      BY <1>0, <2>1, <3>1, <3>2
  <2>3. Becomes(l, new)
    BY <1>3 DEF DetailAnswered
  <2> HIDE DEF new
  <2>4. load' \in [Loads -> Load] /\ Asking'
    BY <2>2, <2>3, BecomesKeeps DEF IInv
  <2> QED
    BY <1>3, <2>4 DEF DetailAnswered, IInv, TypeOK, Rendered
<1>4. CASE HistoryAnswered(l)
  <2>1. load[l].title \in Ids /\ load[l].id \in Ids /\ load[l].page >= 1
    BY <1>4 DEF HistoryAnswered, Answered, IInv, Asking
  <2>2. panel' \in Panel /\ Rendered'
    BY <1>0, <1>4, <2>1 DEF HistoryAnswered, Panel, Load, Rendered, MaybeId
  <2>3. load' \in [Loads -> Load] /\ Asking'
    BY <1>4, IdlesAreLoads, BecomesKeeps DEF IInv, HistoryAnswered
  <2> QED
    BY <1>4, <2>2, <2>3 DEF HistoryAnswered, IInv, TypeOK
<1>5. CASE DeleteAnswered(l)
  <2>1. load' \in [Loads -> Load] /\ Asking'
    BY <1>5, IdlesAreLoads, BecomesKeeps DEF IInv, DeleteAnswered
  <2>2. panel' \in Panel /\ Rendered' /\ selected' \in MaybeId
    BY <1>0, <1>5, PanelStep DEF DeleteAnswered, MaybeId
  <2> QED
    BY <1>5, <2>1, <2>2 DEF DeleteAnswered, IInv, TypeOK
<1> QED
  BY <1>1, <1>2, <1>3, <1>4, <1>5 DEF Response

\* A click that ends in loadDetails.
LEMMA ShowDetailsKeeps ==
  ASSUME IInv, NEW l \in Loads, NEW e \in MaybeId, ShowDetails(l, e)
  PROVE  /\ load' \in [Loads -> Load] /\ Asking'
         /\ panel' \in Panel /\ Rendered'
<1>1. CASE e = None
  <2>1. load' = load /\ Hide
    BY <1>1 DEF ShowDetails, Hide
  <2> QED
    BY <2>1, PanelStep DEF IInv, TypeOK, Asking
<1>2. CASE e # None
  <2>1. Becomes(l, Detailing(e)) /\ panel' = panel /\ e \in Ids
    BY <1>2 DEF ShowDetails, MaybeId
  <2> QED
    BY <2>1, DetailingIsLoad, BecomesKeeps, PanelStep DEF IInv
<1> QED
  BY <1>1, <1>2

LEMMA UserInv ==
  ASSUME IInv, UserActs
  PROVE  IInv'
<1>1. CASE UserRefreshes
  BY <1>1, RefreshInv DEF UserRefreshes
<1>2. CASE Close
  BY <1>2, ClickTypes, PanelStep DEF Close, IInv, TypeOK, Asking, MaybeId
<1>3. ASSUME NEW l \in Loads, Prev(l) \/ NextPage(l) PROVE IInv'
  <2>1. page' \in 1..MaxPage
    BY <1>3, BoundsAssumption DEF Prev, PrevAllowed, NextPage, IInv, TypeOK
  <2>2. clicks' \in Nat /\ selected \in MaybeId /\ ShowDetails(l, selected)
    BY <1>3, ClickTypes DEF Prev, NextPage, IInv, TypeOK
  <2>3. load' \in [Loads -> Load] /\ Asking' /\ panel' \in Panel /\ Rendered'
    BY <2>2, ShowDetailsKeeps
  <2> QED
    BY <1>3, <2>1, <2>2, <2>3 DEF Prev, NextPage, IInv, TypeOK
<1>4. ASSUME NEW l \in Loads, NEW e \in Ids, Select(l, e) PROVE IInv'
  <2>1. clicks' \in Nat /\ e \in MaybeId /\ ShowDetails(l, e)
    BY <1>4, ClickTypes DEF Select, IInv, MaybeId
  <2>2. load' \in [Loads -> Load] /\ Asking' /\ panel' \in Panel /\ Rendered'
    BY <2>1, ShowDetailsKeeps
  <2> QED
    BY <1>4, <2>1, <2>2, BoundsAssumption DEF Select, IInv, TypeOK
<1>5. ASSUME NEW l \in Loads, NEW e \in Ids, Delete(l, e) PROVE IInv'
  <2> DEFINE new == [Idle EXCEPT !.step = "delete", !.id = e]
  <2>1. new \in Load /\ new.step = "delete" /\ ~new.live
    BY IdlesAreLoads DEF Idle, Load, MaybeId
  <2>2. Becomes(l, new)
    BY <1>5 DEF Delete
  <2> HIDE DEF new
  <2>3. load' \in [Loads -> Load] /\ Asking'
    BY <2>1, <2>2, BecomesKeeps DEF IInv
  <2> QED
    BY <1>5, <2>3, ClickTypes DEF Delete, IInv, TypeOK, Rendered
<1>6. ASSUME NEW e \in Ids, DeletedElsewhere(e) PROVE IInv'
  BY <1>6, ClickTypes DEF DeletedElsewhere, IInv, TypeOK, Asking, Rendered
<1> QED
  BY <1>1, <1>2, <1>3, <1>4, <1>5, <1>6 DEF UserActs

LEMMA StepInv == IInv /\ [Next]_vars => IInv'
<1> SUFFICES ASSUME IInv, [Next]_vars PROVE IInv'
  OBVIOUS
<1>1. CASE UNCHANGED vars
  BY <1>1 DEF vars, IInv, TypeOK, Asking, Rendered
<1>2. CASE TimerFires
  BY <1>2, RefreshInv DEF TimerFires
<1> QED
  BY <1>1, <1>2, StartTimerInv, UserInv, ResponseInv DEF Next

LEMMA Invariant == Spec => []IInv
<1>1. Init => IInv
  BY InitInv
<1>2. IInv /\ [Next]_vars => IInv'
  BY StepInv
<1> QED
  BY <1>1, <1>2, PTL DEF Spec

\* Every variable keeps its type; the page never falls below 1.
THEOREM TypeCorrect == Spec => []TypeOK
<1>1. IInv => TypeOK
  BY DEF IInv
<1> QED
  BY <1>1, Invariant, PTL

\* Overlapping refreshes and a selection that goes away between two requests
\* never put the results of null, or page 0, into the panel.
THEOREM PanelIsReal == Spec => []Rendered
<1>1. IInv => Rendered
  BY DEF IInv
<1> QED
  BY <1>1, Invariant, PTL
=============================================================================
