---------------------------- MODULE ScreensProofs ----------------------------
(***************************************************************************)
(* What the screens show is what was asked last, for any periods,          *)
(* selections and positions, any number of requests under way, failures    *)
(* and corrections.                                                        *)
(*                                                                         *)
(* The invariant that carries it ties the closures to the components: a    *)
(* request that is not cancelled asks what its hook depends on now, and a  *)
(* reading of a history asked for after a report is at least as recent as  *)
(* the correction reported.                                                *)
(***************************************************************************)
EXTENDS Screens, TLAPS

Questions == [about : Periods \cup Objects \cup {Whole, None}, filters : Filters \cup {"summary", "lifecycle"},
              page : Nat]

Kinds == {"nothing", "available", "unavailable", "found", "unknown", "supported", "unsupported"}
Results == {"none", "sent", "done", "half", "refused"}

Holds == [of : Questions, kind : Kinds, at : Nat]
HookStates == [dep : Questions, shown : Holds, loading : BOOLEAN, failed : BOOLEAN]
Requests == [hook : Hooks, dep : Questions, live : BOOLEAN, since : Nat]
Posts == [object : Objects \cup {None}, form : Events \cup {None}, result : Results, at : Nat,
          attached : BOOLEAN]
Details == [object : Objects \cup {None}, tab : {"none", "summary", "lifecycle"}, row : BOOLEAN,
            nonce : Nat, forms : SUBSET Events, saving : SUBSET (Events \cup {None}),
            banner : Results, told : Nat, outcome : Results]
Views == [Lists -> [filters : Filters, page : Nat]]

\* The type of the state.
ScreensTypeOK ==
    /\ nav \in {"operations", "dashboards", "positions"}
    /\ period \in Periods
    /\ view \in Views
    /\ detail \in Details
    /\ hook \in [Hooks -> HookStates]
    /\ wire \subseteq Requests
    /\ posts \subseteq Posts
    /\ recorded \in Nat /\ rejected \in Nat /\ unavailable \in Nat

\* A hook's question is the one its component's state asks; the list of movements may also
\* be unmounted.
Following(hk) ==
    \A h \in Hooks : hk[h].dep = Asked[h] \/ (h = "movements" /\ hk[h].dep = Idle)

\* A request that is not cancelled asks what its hook depends on, and waits.
Closures(hk, w) == \A q \in w : q.live => q.dep = hk[q.hook].dep

\* What a hook holds, unless it is waiting or its request failed, is about its question.
Settled(hk) ==
    \A h \in Hooks : /\ hk[h].dep # Idle /\ ~hk[h].loading /\ ~hk[h].failed
                            => hk[h].shown.of = hk[h].dep
                     /\ hk[h].failed => rejected > 0

\* The corrections told of are recorded, and a history held or on its way has them.
Read(hk, w) ==
    /\ hk["lifecycle"].shown.kind = "found" => detail.told <= hk["lifecycle"].shown.at
    /\ \A q \in w : q.live /\ q.hook = "lifecycle" => detail.told <= q.since

Reports == detail.told <= recorded /\ \A p \in posts : p.at <= recorded

\* Only a history corrects: the forms, and the corrections it still waits for.
Attached ==
    /\ detail.forms # {} => detail.tab = "lifecycle"
    /\ \A p \in posts : p.attached /\ p.form # None => detail.tab = "lifecycle"

\* The pages that exist.
Pages == rejected = 0 => \A l \in Lists : view[l].page <= PagesOf[view[l].filters]

ScreensInv ==
    /\ ScreensTypeOK
    /\ Following(hook) /\ Closures(hook, wire) /\ Settled(hook)
    /\ Read(hook, wire) /\ Reports /\ Attached /\ Pages
-----------------------------------------------------------------------------
(* Rendering. *)

LEMMA IdleIsAQuestion == Idle \in Questions /\ Nothing \in Holds
<1>1. Idle \in Questions
  BY ScreensAssumption DEF Idle, Questions, Ask
<1>2. Nothing.of = Idle /\ Nothing.kind \in Kinds /\ Nothing.at \in Nat
  BY DEF Nothing, Kinds
<1> QED
  BY <1>1, <1>2 DEF Holds, Nothing

LEMMA AskedType ==
    ASSUME nav' \in {"operations", "dashboards", "positions"}, period' \in Periods,
           view' \in Views, detail' \in Details
    PROVE  Asked' \in [Hooks -> Questions]
<1>1. /\ useDashboard' \in Questions /\ useBookExposure' \in Questions
      /\ usePositionsPage' \in Questions /\ useMovementsPage' \in Questions
  BY ScreensAssumption, IdleIsAQuestion
  DEF useDashboard, useBookExposure, usePositionsPage, useMovementsPage, Window, Ask, Questions,
      Views, Lists
<1>2. useObjectLifecycle' \in Questions
  BY ScreensAssumption, IdleIsAQuestion DEF useObjectLifecycle, Ask, Questions, Details
<1>3. positionActions' \in Questions
  BY ScreensAssumption, IdleIsAQuestion DEF positionActions, Ask, Questions, Details
<1> QED
  BY <1>1, <1>2, <1>3 DEF Asked, Hooks, Lists

\* What a render does to one hook: it keeps its state, or runs the effect of a new question.
LEMMA RenderHooks ==
    ASSUME NEW seen \in [Hooks -> HookStates], NEW rest \in SUBSET Requests,
           recorded \in Nat, Asked' \in [Hooks -> Questions], Render(seen, rest)
    PROVE  /\ hook' \in [Hooks -> HookStates]
           /\ wire' \subseteq Requests
           /\ \A h \in Hooks : hook'[h] = seen[h] \/ hook'[h] = Effect(h, hook'[h].dep, seen[h])
           /\ \A h \in Hooks : \/ hook'[h].dep = Asked'[h]
                               \/ h = "movements" /\ hook'[h].dep = Idle
           /\ \A h \in Hooks : hook'[h].dep = seen[h].dep => hook'[h] = seen[h]
           /\ \A q \in wire' : q.live =>
                 \/ q \in rest /\ hook'[q.hook] = seen[q.hook]
                 \/ /\ q.dep = hook'[q.hook].dep
                    /\ q.hook = "lifecycle" => q.since = recorded
<1> DEFINE drawn == /\ seen["overview"].shown.kind = "available"
                    /\ seen["overview"].dep = Asked'["overview"]
           dep(h) == IF h = "movements" /\ ~drawn THEN Idle ELSE Asked'[h]
           moved == {h \in Hooks : dep(h) # seen[h].dep}
           kept(q) == IF q.hook \in moved THEN [q EXCEPT !.live = FALSE] ELSE q
           asked(h) == [hook |-> h, dep |-> dep(h), live |-> TRUE,
                        since |-> IF h = "lifecycle" THEN recorded ELSE 0]
<1>1. /\ hook' = [h \in Hooks |-> IF h \in moved THEN Effect(h, dep(h), seen[h]) ELSE seen[h]]
      /\ wire' = {kept(q) : q \in rest} \cup {asked(h) : h \in {g \in moved : dep(g) # Idle}}
  BY DEF Render
<1>2. \A h \in Hooks : dep(h) \in Questions
  BY IdleIsAQuestion
<1>3. \A h \in Hooks : Effect(h, dep(h), seen[h]) \in HookStates /\ Effect(h, dep(h), seen[h]).dep = dep(h)
  BY <1>2, IdleIsAQuestion DEF Effect, HookStates
<1> HIDE DEF dep, moved
<1>4. hook' \in [Hooks -> HookStates]
  BY <1>1, <1>3
<1>5. \A q \in rest : kept(q) \in Requests
  BY DEF Requests
<1>6. \A h \in Hooks : asked(h) \in Requests
  BY <1>2 DEF Requests
<1>7. moved \subseteq Hooks
  BY DEF moved
<1>8. wire' \subseteq Requests
  BY <1>1, <1>5, <1>6, <1>7
<1>9. \A h \in Hooks : hook'[h] = IF h \in moved THEN Effect(h, dep(h), seen[h]) ELSE seen[h]
  BY <1>1
<1>10. \A h \in Hooks : hook'[h].dep = dep(h)
  BY <1>9, <1>3 DEF moved
<1>11. \A h \in Hooks : hook'[h] = seen[h] \/ hook'[h] = Effect(h, hook'[h].dep, seen[h])
  BY <1>9, <1>10
<1>12. \A h \in Hooks : hook'[h].dep = Asked'[h] \/ (h = "movements" /\ hook'[h].dep = Idle)
  BY <1>10 DEF dep
<1>13. \A h \in Hooks : hook'[h].dep = seen[h].dep => hook'[h] = seen[h]
  BY <1>9, <1>10 DEF moved
<1>14. ASSUME NEW q \in wire', q.live
       PROVE  \/ q \in rest /\ hook'[q.hook] = seen[q.hook]
              \/ q.dep = hook'[q.hook].dep /\ (q.hook = "lifecycle" => q.since = recorded)
  <2>1. CASE \E r \in rest : q = kept(r)
    <3>1. PICK r \in rest : q = kept(r)
      BY <2>1
    <3>2. r \in Requests
      OBVIOUS
    <3>3. r.hook \notin moved
      BY <1>14, <3>1, <3>2 DEF Requests
    <3>4. r.hook \in Hooks
      BY <3>2 DEF Requests
    <3>5. q = r
      BY <3>1, <3>3
    <3> QED
      BY <3>3, <3>4, <3>5, <1>9
  <2>2. CASE \E h \in {g \in moved : dep(g) # Idle} : q = asked(h)
    BY <2>2, <1>7, <1>10
  <2> QED
    BY <2>1, <2>2, <1>1
<1> QED
  BY <1>4, <1>8, <1>11, <1>12, <1>13, <1>14

\* A render keeps the parts of the invariant that speak of hooks and requests.
LEMMA RenderKeeps ==
    ASSUME NEW seen \in [Hooks -> HookStates], NEW rest \in SUBSET Requests,
           recorded \in Nat, recorded' = recorded, rejected' = rejected,
           Asked' \in [Hooks -> Questions], Render(seen, rest),
           Closures(seen, rest), Settled(seen),
           detail' \in Details, detail'.told <= recorded,
           \/ detail'.told = detail.told /\ Read(seen, rest)
           \/ detail'.told = 0
           \/ Asked'["lifecycle"] # seen["lifecycle"].dep
    PROVE  /\ hook' \in [Hooks -> HookStates] /\ wire' \subseteq Requests
           /\ Following(hook)' /\ Closures(hook, wire)' /\ Settled(hook)' /\ Read(hook, wire)'
<1>1. /\ hook' \in [Hooks -> HookStates]
      /\ wire' \subseteq Requests
      /\ \A h \in Hooks : hook'[h] = seen[h] \/ hook'[h] = Effect(h, hook'[h].dep, seen[h])
      /\ \A h \in Hooks : \/ hook'[h].dep = Asked'[h]
                          \/ h = "movements" /\ hook'[h].dep = Idle
      /\ \A h \in Hooks : hook'[h].dep = seen[h].dep => hook'[h] = seen[h]
      /\ \A q \in wire' : q.live =>
            \/ q \in rest /\ hook'[q.hook] = seen[q.hook]
            \/ /\ q.dep = hook'[q.hook].dep
               /\ q.hook = "lifecycle" => q.since = recorded
  BY RenderHooks
<1>2. Following(hook)'
  BY <1>1 DEF Following
<1>3. Closures(hook, wire)'
  BY <1>1 DEF Closures
<1>4. \A h \in Hooks : hook'[h] = seen[h] \/ (hook'[h].loading = (hook'[h].dep # Idle) /\ ~hook'[h].failed)
  BY <1>1 DEF Effect
<1>5. Settled(hook)'
  BY <1>1, <1>4 DEF Settled, HookStates
<1>6. "lifecycle" \in Hooks
  BY DEF Hooks
<1>7. hook'["lifecycle"] = seen["lifecycle"] \/ hook'["lifecycle"].shown = Nothing
  BY <1>1, <1>6 DEF Effect
<1>8. Nothing.kind # "found"
  BY DEF Nothing
<1>9. detail'.told \in Nat
  BY DEF Details
<1>10. Read(hook, wire)'
  <2>1. CASE detail'.told = detail.told /\ Read(seen, rest)
    BY <2>1, <1>1, <1>6, <1>7, <1>8, <1>9 DEF Read
  <2>2. CASE detail'.told = 0
    <3>1. hook'["lifecycle"].shown.at \in Nat /\ \A q \in wire' : q.since \in Nat
      BY <1>1, <1>6 DEF HookStates, Holds, Requests
    <3> QED
      BY <2>2, <3>1 DEF Read
  <2>3. CASE Asked'["lifecycle"] # seen["lifecycle"].dep
    <3>1. hook'["lifecycle"] # seen["lifecycle"]
      BY <1>1, <1>6, <2>3
    <3>2. \A q \in wire' : q.live /\ q.hook = "lifecycle" => q.since = recorded
      BY <1>1, <3>1
    <3> QED
      BY <3>1, <3>2, <1>7, <1>8 DEF Read
  <2> QED
    BY <2>1, <2>2, <2>3
<1> QED
  BY <1>1, <1>2, <1>3, <1>5, <1>10
-----------------------------------------------------------------------------
(* The invariant. *)

LEMMA AskedLifecycle ==
    Asked["lifecycle"] = useObjectLifecycle /\ Asked'["lifecycle"] = useObjectLifecycle'
BY DEF Asked, Hooks

LEMMA AskedLists ==
    Asked["listing"] = usePositionsPage /\ Asked["movements"] = useMovementsPage
BY DEF Asked, Hooks, Lists

LEMMA DetailTypes ==
    /\ Closed \in Details
    /\ \A o \in Objects \cup {None}, tab \in {"summary", "lifecycle"}, row \in BOOLEAN :
          Detail(o, tab, row) \in Details
BY DEF Closed, Detail, Details, Results

LEMMA FirstPageType ==
    /\ [l \in Lists |-> FirstPage] \in Views
    /\ FirstPage \in [filters : Filters, page : Nat]
    /\ FirstPage.page <= PagesOf[FirstPage.filters]
BY ScreensAssumption DEF FirstPage, Views

LEMMA DetachedType ==
    ASSUME NEW P \in SUBSET Posts
    PROVE  /\ Detached(P) \in SUBSET Posts
           /\ \A p \in Detached(P) : ~p.attached /\ \E r \in P : r.at = p.at
BY DEF Detached, Posts

LEMMA InitInv == Init => ScreensInv
<1> SUFFICES ASSUME Init PROVE ScreensInv
  OBVIOUS
<1>1. Unmounted \in HookStates
  BY IdleIsAQuestion DEF Unmounted, HookStates
<1>2. ScreensTypeOK
  BY <1>1, ScreensAssumption, DetailTypes, FirstPageType DEF Init, ScreensTypeOK
<1>3. \A h \in Hooks : Asked[h] = Idle
  BY DEF Init, Asked, useDashboard, useBookExposure, usePositionsPage, useMovementsPage,
         useObjectLifecycle, positionActions, Window, Idle, Closed, Detail, Hooks, Lists
<1>4. Following(hook)
  BY <1>3 DEF Following, Init, Unmounted
<1>5. Closures(hook, wire) /\ Settled(hook)
  BY DEF Closures, Settled, Init, Unmounted
<1>6. Read(hook, wire) /\ Reports /\ Attached
  BY DEF Read, Reports, Attached, Init, Unmounted, Nothing, Closed, Detail, Hooks
<1>7. Pages
  BY FirstPageType DEF Pages, Init
<1> QED
  BY <1>2, <1>4, <1>5, <1>6, <1>7 DEF ScreensInv

\* A step of the user, or a write's answer: it changes choices, writes or the detail, and
\* renders.
LEMMA UserStep ==
    ASSUME ScreensInv,
           nav' \in {"operations", "dashboards", "positions"}, period' \in Periods,
           view' \in Views, detail' \in Details, posts' \in SUBSET Posts,
           UNCHANGED <<recorded, rejected, unavailable>>,
           \A p \in posts' : p.at <= recorded,
           Attached', Pages', Render(hook, wire), detail'.told <= recorded,
           \/ detail'.told = detail.told
           \/ detail'.told = 0
           \/ Asked'["lifecycle"] # hook["lifecycle"].dep
    PROVE  ScreensInv'
<1>1. Asked' \in [Hooks -> Questions]
  BY AskedType
<1>2. /\ hook \in [Hooks -> HookStates] /\ wire \in SUBSET Requests
      /\ recorded \in Nat /\ rejected \in Nat /\ unavailable \in Nat
  BY DEF ScreensInv, ScreensTypeOK
<1>3. Closures(hook, wire) /\ Settled(hook) /\ Read(hook, wire)
  BY DEF ScreensInv
<1>4. /\ hook' \in [Hooks -> HookStates] /\ wire' \subseteq Requests
      /\ Following(hook)' /\ Closures(hook, wire)' /\ Settled(hook)' /\ Read(hook, wire)'
  BY <1>1, <1>2, <1>3, RenderKeeps
<1>5. ScreensTypeOK'
  BY <1>2, <1>4 DEF ScreensTypeOK
<1>6. Reports'
  BY DEF Reports
<1> QED
  BY <1>4, <1>5, <1>6 DEF ScreensInv

\* A step of the page: the detail is closed and stays so.
LEMMA PageStep ==
    ASSUME ScreensInv, OnPage,
           nav' \in {"operations", "dashboards", "positions"}, period' \in Periods,
           view' \in Views, Pages', Render(hook, wire)
    PROVE  ScreensInv'
<1>1. /\ detail' = detail /\ posts' = posts /\ detail \in Details /\ posts \in SUBSET Posts
      /\ UNCHANGED <<recorded, rejected, unavailable>>
      /\ Attached /\ Reports
  BY DEF OnPage, ScreensInv, ScreensTypeOK
<1>2. Attached' /\ detail'.told <= recorded /\ \A p \in posts' : p.at <= recorded
  BY <1>1 DEF Attached, Reports
<1> QED
  BY <1>1, <1>2, UserStep

\* A step that opens another detail, or closes it.
LEMMA OpensStep ==
    ASSUME ScreensInv, NEW d \in Details, d.told = 0, d.forms = {}, Opens(d)
    PROVE  ScreensInv'
<1>1. /\ detail' = d /\ posts' = Detached(posts) /\ posts \in SUBSET Posts
      /\ UNCHANGED <<nav, period, view, recorded, rejected, unavailable>>
      /\ Reports /\ Pages /\ recorded \in Nat
      /\ nav \in {"operations", "dashboards", "positions"} /\ period \in Periods /\ view \in Views
      /\ Render(hook, wire)
  BY DEF Opens, ScreensInv, ScreensTypeOK
<1>2. posts' \in SUBSET Posts /\ \A p \in posts' : ~p.attached /\ p.at <= recorded
  BY <1>1, DetachedType DEF Reports
<1>3. Attached'
  BY <1>1, <1>2 DEF Attached
<1>4. Pages'
  BY <1>1 DEF Pages
<1>5. detail'.told <= recorded
  BY <1>1
<1> QED
  BY <1>1, <1>2, <1>3, <1>4, <1>5, UserStep
-----------------------------------------------------------------------------
(* The steps of the page. *)

LEMMA NavigateInv ==
    ASSUME ScreensInv, NEW n \in Sections, Navigate(n)
    PROVE  ScreensInv'
<1>1. view' = [l \in Lists |-> FirstPage] /\ period' = DefaultPeriod /\ nav' = n /\ OnPage
  BY DEF Navigate
<1>2. Pages'
  BY <1>1, FirstPageType DEF Pages
<1> QED
  BY <1>1, <1>2, PageStep, FirstPageType, ScreensAssumption DEF Navigate, Sections

LEMMA SetPeriodInv ==
    ASSUME ScreensInv, NEW p \in Periods, SetPeriod(p)
    PROVE  ScreensInv'
<1>1. /\ view' = [view EXCEPT !["movements"] = FirstPage] /\ view \in Views /\ Pages /\ OnPage
      /\ rejected' = rejected
  BY DEF SetPeriod, ScreensInv, ScreensTypeOK, OnPage
<1>2. view' \in Views
  BY <1>1, FirstPageType DEF Views
<1>3. Pages'
  BY <1>1, FirstPageType DEF Pages, Views
<1>4. nav' \in {"operations", "dashboards", "positions"} /\ period' \in Periods
  BY DEF SetPeriod, ScreensInv, ScreensTypeOK
<1> QED
  BY <1>1, <1>2, <1>3, <1>4, PageStep DEF SetPeriod

LEMMA UpdateFiltersInv ==
    ASSUME ScreensInv, NEW l \in Lists, NEW f \in Filters, UpdateFilters(l, f)
    PROVE  ScreensInv'
<1>1. /\ view' = [view EXCEPT ![l] = [filters |-> f, page |-> 1]]
      /\ view \in Views /\ Pages /\ OnPage /\ rejected' = rejected
  BY DEF UpdateFilters, WithFilters, ScreensInv, ScreensTypeOK, OnPage
<1>2. view' \in Views
  BY <1>1 DEF Views
<1>3. 1 <= PagesOf[f]
  BY ScreensAssumption
<1>4. Pages'
  BY <1>1, <1>3 DEF Pages, Views
<1>5. nav' \in {"operations", "dashboards", "positions"} /\ period' \in Periods
  BY DEF UpdateFilters, ScreensInv, ScreensTypeOK
<1> QED
  BY <1>1, <1>2, <1>4, <1>5, PageStep DEF UpdateFilters

\* The pages offered are those of the result on screen, which is about the selection in force
\* unless a request has failed.
LEMMA SetPageInv ==
    ASSUME ScreensInv, NEW l \in Lists, NEW step \in {-1, 1}, SetPage(l, step)
    PROVE  ScreensInv'
<1> DEFINE pages == PagesOf[hook[l].shown.of.filters]
<1>1. /\ view' = [view EXCEPT ![l].page = @ + step]
      /\ view \in Views /\ Pages /\ OnPage /\ rejected' = rejected
      /\ IF step = 1 THEN view[l].page < pages ELSE view[l].page > 1
      /\ hook[l].dep # Idle /\ ~hook[l].loading
  BY DEF SetPage, ScreensInv, ScreensTypeOK, OnPage
<1>2. view' \in Views
  BY <1>1 DEF Views
<1>3. l \in Hooks
  BY DEF Hooks
<1>4. rejected = 0 => hook[l].shown.of = Asked[l]
  BY <1>1, <1>3 DEF ScreensInv, Settled, Following
<1>5. Asked[l].filters = view[l].filters \/ Asked[l] = Idle
  BY AskedLists DEF Lists, usePositionsPage, useMovementsPage, Ask
<1>6. Asked[l] # Idle
  BY <1>1, <1>3 DEF ScreensInv, Following
<1>7. rejected = 0 => pages = PagesOf[view[l].filters]
  BY <1>4, <1>5, <1>6
<1>8. \A k \in Lists : PagesOf[view[k].filters] \in Nat
  BY <1>1, ScreensAssumption DEF Views
<1>9. view[l].page \in Nat /\ \A k \in Lists : view[k].page \in Nat
  BY <1>1 DEF Views
<1>10. /\ view'[l].page = view[l].page + step /\ view'[l].filters = view[l].filters
       /\ \A k \in Lists \ {l} : view'[k] = view[k]
  BY <1>1 DEF Views
<1>11. ASSUME rejected = 0 PROVE view[l].page + step <= PagesOf[view[l].filters]
  <2>1. pages \in Nat /\ view[l].page <= PagesOf[view[l].filters]
    BY <1>1, <1>7, <1>8, <1>11 DEF Pages
  <2>2. CASE step = 1
    BY <2>1, <2>2, <1>1, <1>7, <1>9, <1>11
  <2>3. CASE step = -1
    BY <2>1, <2>3, <1>8, <1>9
  <2> QED
    BY <2>2, <2>3
<1>12. Pages'
  BY <1>1, <1>10, <1>11 DEF Pages
<1>13. nav' \in {"operations", "dashboards", "positions"} /\ period' \in Periods
  BY DEF SetPage, ScreensInv, ScreensTypeOK
<1> QED
  BY <1>1, <1>2, <1>12, <1>13, PageStep DEF SetPage
-----------------------------------------------------------------------------
(* The steps of a detail. *)

LEMMA OpenAndCloseInv ==
    ASSUME ScreensInv,
           \/ \E o \in Objects : OpenHistory(o) \/ OpenRow(o)
           \/ SwitchTab
           \/ CloseDetail
    PROVE  ScreensInv'
<1>0. \A o, tab, row : Detail(o, tab, row).told = 0 /\ Detail(o, tab, row).forms = {}
  BY DEF Detail
<1>1. ASSUME NEW o \in Objects, OpenHistory(o) \/ OpenRow(o) PROVE ScreensInv'
  BY <1>0, <1>1, DetailTypes, OpensStep DEF OpenHistory, OpenRow
<1>2. CASE SwitchTab
  <2>1. detail.object \in Objects \cup {None}
    BY DEF ScreensInv, ScreensTypeOK, Details
  <2> QED
    BY <2>1, <1>0, <1>2, DetailTypes, OpensStep DEF SwitchTab
<1>3. CASE CloseDetail
  BY <1>0, <1>3, DetailTypes, OpensStep DEF CloseDetail, Closed
<1> QED
  BY <1>1, <1>2, <1>3

\* The steps that render nothing.
LEMMA QuietStep ==
    ASSUME ScreensInv, UNCHANGED <<nav, period, view, hook, wire>>,
           detail' \in Details, posts' \in SUBSET Posts,
           recorded' \in Nat, recorded <= recorded', rejected' \in Nat, rejected <= rejected',
           unavailable' = unavailable,
           detail'.told = detail.told, detail'.tab = detail.tab,
           detail'.object = detail.object, detail'.nonce = detail.nonce,
           \A p \in posts' : p.at <= recorded', Attached'
    PROVE  ScreensInv'
<1>1. /\ recorded \in Nat /\ rejected \in Nat /\ detail \in Details /\ unavailable \in Nat
      /\ posts \in SUBSET Posts
  BY DEF ScreensInv, ScreensTypeOK
<1>2. ScreensTypeOK'
  BY <1>1 DEF ScreensInv, ScreensTypeOK
<1>3. Asked' = Asked
  BY DEF Asked, useDashboard, useBookExposure, usePositionsPage, useMovementsPage,
         useObjectLifecycle, positionActions, Window
<1>4. Following(hook)'
  BY <1>3 DEF ScreensInv, Following
<1>5. Closures(hook, wire)' /\ Read(hook, wire)'
  BY DEF ScreensInv, Closures, Read
<1>6. Settled(hook)'
  BY <1>1 DEF ScreensInv, Settled
<1>7. Pages'
  BY <1>1 DEF ScreensInv, Pages
<1>8. Reports'
  BY <1>1 DEF ScreensInv, Reports, Details
<1> QED
  BY <1>2, <1>4, <1>5, <1>6, <1>7, <1>8 DEF ScreensInv

LEMMA FormsInv ==
    ASSUME ScreensInv,
           \/ \E e \in Events : OpenForm(e)
           \/ \E f \in detail.forms : CloseForm(f) \/ Submit(f)
           \/ StartAction
    PROVE  ScreensInv'
<1>1. /\ detail \in Details /\ posts \in SUBSET Posts /\ recorded \in Nat /\ rejected \in Nat
      /\ Attached /\ \A p \in posts : p.at <= recorded
  BY DEF ScreensInv, ScreensTypeOK, Reports
<1>2. ASSUME NEW e \in Events, OpenForm(e) PROVE ScreensInv'
  <2>1. /\ detail' = [detail EXCEPT !.forms = @ \cup {e}] /\ posts' = posts /\ detail.tab = "lifecycle"
        /\ UNCHANGED <<nav, period, view, hook, wire, recorded, rejected, unavailable>>
    BY <1>2 DEF OpenForm
  <2>2. /\ detail' \in Details /\ detail'.told = detail.told /\ detail'.tab = detail.tab
        /\ detail'.object = detail.object /\ detail'.nonce = detail.nonce
    BY <2>1, <1>1 DEF Details
  <2>3. Attached'
    BY <2>1, <2>2, <1>1 DEF Attached
  <2> QED
    BY <2>1, <2>2, <2>3, <1>1, QuietStep
<1>3. ASSUME NEW f \in detail.forms, CloseForm(f) PROVE ScreensInv'
  <2>1. /\ detail' = [detail EXCEPT !.forms = @ \ {f}] /\ posts' = posts
        /\ UNCHANGED <<nav, period, view, hook, wire, recorded, rejected, unavailable>>
    BY <1>3 DEF CloseForm
  <2>2. /\ detail' \in Details /\ detail'.told = detail.told /\ detail'.tab = detail.tab
        /\ detail'.object = detail.object /\ detail'.nonce = detail.nonce
        /\ detail'.forms \subseteq detail.forms
    BY <2>1, <1>1 DEF Details
  <2>3. Attached'
    BY <2>1, <2>2, <1>1 DEF Attached
  <2> QED
    BY <2>1, <2>2, <2>3, <1>1, QuietStep
<1>4. ASSUME NEW f \in detail.forms, Submit(f) PROVE ScreensInv'
  <2>1. /\ detail' = [detail EXCEPT !.saving = @ \cup {f}] /\ posts' = posts \cup {Post(f)}
        /\ UNCHANGED <<nav, period, view, hook, wire, recorded, rejected, unavailable>>
    BY <1>4 DEF Submit
  <2>2. /\ detail' \in Details /\ detail'.told = detail.told /\ detail'.tab = detail.tab
        /\ detail'.object = detail.object /\ detail'.nonce = detail.nonce
        /\ detail'.forms = detail.forms
    BY <2>1, <1>1 DEF Details
  <2>3. Post(f) \in Posts /\ Post(f).at = 0
    BY <1>1 DEF Post, Posts, Details, Results
  <2>4. Attached'
    BY <2>1, <2>2, <1>1 DEF Attached
  <2> QED
    BY <2>1, <2>2, <2>3, <2>4, <1>1, QuietStep
<1>5. CASE StartAction
  <2>1. /\ detail' = [detail EXCEPT !.saving = {None}] /\ posts' = posts \cup {Post(None)}
        /\ UNCHANGED <<nav, period, view, hook, wire, recorded, rejected, unavailable>>
    BY <1>5 DEF StartAction
  <2>2. /\ detail' \in Details /\ detail'.told = detail.told /\ detail'.tab = detail.tab
        /\ detail'.object = detail.object /\ detail'.nonce = detail.nonce
        /\ detail'.forms = detail.forms
    BY <2>1, <1>1 DEF Details
  <2>3. Post(None) \in Posts /\ Post(None).at = 0 /\ Post(None).form = None
    BY <1>1 DEF Post, Posts, Details, Results
  <2>4. Attached'
    BY <2>1, <2>2, <2>3, <1>1 DEF Attached
  <2> QED
    BY <2>1, <2>2, <2>3, <2>4, <1>1, QuietStep
<1> QED
  BY <1>2, <1>3, <1>4, <1>5

LEMMA PostsInv ==
    ASSUME ScreensInv, NEW p \in posts,
           \/ \E result \in {"done", "half", "refused"} : Rectify(p, result)
           \/ PostFails(p)
    PROVE  ScreensInv'
<1>1. /\ detail \in Details /\ posts \in SUBSET Posts /\ recorded \in Nat /\ rejected \in Nat
      /\ Attached /\ \A r \in posts : r.at <= recorded
  BY DEF ScreensInv, ScreensTypeOK, Reports
<1>2. ASSUME NEW result \in {"done", "half", "refused"}, Rectify(p, result) PROVE ScreensInv'
  <2> DEFINE answered == [p EXCEPT !.result = result, !.at = recorded']
  <2>1. /\ recorded' \in {recorded, recorded + 1} /\ posts' = (posts \ {p}) \cup {answered}
        /\ UNCHANGED <<nav, period, view, detail, hook, wire, rejected, unavailable>>
    BY <1>2 DEF Rectify
  <2>2. recorded' \in Nat /\ recorded <= recorded'
    BY <2>1, <1>1
  <2>3. p \in Posts
    BY <1>1
  <2>4. /\ answered \in Posts /\ answered.at = recorded' /\ answered.form = p.form
        /\ answered.attached = p.attached
    BY <2>2, <2>3 DEF Posts, Results
  <2> HIDE DEF answered
  <2>5. posts' \in SUBSET Posts
    BY <2>1, <2>4, <1>1
  <2>6. \A r \in posts' : r.at <= recorded'
    <3> SUFFICES ASSUME NEW r \in posts' PROVE r.at <= recorded'
      OBVIOUS
    <3>1. CASE r = answered
      BY <3>1, <2>2, <2>4
    <3>2. CASE r \in posts
      <4>1. r.at \in Nat /\ r.at <= recorded
        BY <3>2, <1>1 DEF Posts
      <4> QED
        BY <4>1, <2>2, <1>1
    <3> QED
      BY <3>1, <3>2, <2>1
  <2>7. Attached'
    BY <2>1, <2>4, <1>1 DEF Attached
  <2>8. rejected <= rejected'
    BY <2>1, <1>1
  <2> QED
    BY <2>1, <2>2, <2>5, <2>6, <2>7, <2>8, <1>1, QuietStep
<1>3. CASE PostFails(p)
  <2>1. /\ rejected' = rejected + 1 /\ posts' = posts \ {p}
        /\ UNCHANGED <<nav, period, view, detail, hook, wire, recorded, unavailable>>
    BY <1>3 DEF PostFails
  <2>2. Attached'
    BY <2>1, <1>1 DEF Attached
  <2> QED
    BY <2>1, <2>2, <1>1, QuietStep
<1> QED
  BY <1>2, <1>3

\* A correction that is reported has the history read again: the question changes with the
\* nonce, so that no reading asked for before is kept.
LEMMA RectifiedInv ==
    ASSUME ScreensInv, NEW p \in posts, Rectified(p)
    PROVE  ScreensInv'
<1>1. /\ detail \in Details /\ posts \in SUBSET Posts /\ recorded \in Nat
      /\ nav \in {"operations", "dashboards", "positions"} /\ period \in Periods /\ view \in Views
      /\ Attached /\ Reports /\ Pages /\ Following(hook)
  BY DEF ScreensInv, ScreensTypeOK
<1>2. /\ posts' = posts \ {p} /\ p.form # None
      /\ UNCHANGED <<nav, period, view, recorded, rejected, unavailable>>
      /\ Render(hook, wire)
  BY DEF Rectified
<1>3. p.at \in Nat /\ p.at <= recorded /\ p.form \in Events /\ p.result \in Results
  BY <1>1, <1>2 DEF Reports, Posts
<1>4. posts' \in SUBSET Posts /\ \A r \in posts' : r.at <= recorded
  BY <1>1, <1>2 DEF Reports
<1>5. Pages'
  BY <1>1, <1>2 DEF Pages
<1>6. detail.told \in Nat /\ detail.told <= recorded /\ detail.nonce \in Nat
  BY <1>1 DEF Reports, Details
<1>7. CASE ~p.attached
  <2>1. detail' = detail
    BY <1>7 DEF Rectified
  <2>2. Attached'
    BY <2>1, <1>1, <1>2 DEF Attached
  <2> QED
    BY <2>1, <2>2, <1>1, <1>2, <1>4, <1>5, <1>6, UserStep
<1>8. CASE p.attached /\ p.result = "refused"
  <2>1. detail' = [detail EXCEPT !.saving = @ \ {p.form}, !.banner = "refused"]
    BY <1>8 DEF Rectified
  <2>2. /\ detail' \in Details /\ detail'.told = detail.told /\ detail'.tab = detail.tab
        /\ detail'.forms = detail.forms
    BY <2>1, <1>1 DEF Details, Results
  <2>3. Attached'
    BY <2>2, <1>1, <1>2 DEF Attached
  <2> QED
    BY <2>2, <2>3, <1>1, <1>2, <1>4, <1>5, <1>6, UserStep
<1>9. CASE p.attached /\ p.result # "refused"
  <2>1. detail' = Reported(p)
    BY <1>9 DEF Rectified
  <2>2. /\ detail' \in Details /\ detail'.tab = detail.tab /\ detail'.object = detail.object
        /\ detail'.forms = {} /\ detail'.nonce = detail.nonce + 1
        /\ detail'.told = IF p.at > detail.told THEN p.at ELSE detail.told
    <3> DEFINE told == IF p.at > detail.told THEN p.at ELSE detail.told
    <3>1. told \in Nat
      BY <1>3, <1>6
    <3>2. detail' = [detail EXCEPT !.forms = {}, !.saving = {}, !.banner = "none",
                                   !.nonce = detail.nonce + 1, !.told = told,
                                   !.outcome = p.result]
      BY <2>1 DEF Reported
    <3>3. detail.nonce + 1 \in Nat /\ "none" \in Results
      BY <1>6 DEF Results
    <3> HIDE DEF told
    <3>4. /\ detail' \in Details /\ detail'.tab = detail.tab /\ detail'.object = detail.object
          /\ detail'.forms = {} /\ detail'.nonce = detail.nonce + 1 /\ detail'.told = told
      BY <3>1, <3>2, <3>3, <1>1, <1>3 DEF Details
    <3> QED
      BY <3>4 DEF told
  <2>3. detail'.told <= recorded
    BY <2>2, <1>3, <1>6
  <2>4. Attached'
    BY <2>2, <1>1, <1>2 DEF Attached
  <2>5. detail.tab = "lifecycle"
    BY <1>1, <1>2, <1>9 DEF Attached
  <2>6. hook["lifecycle"].dep = Ask(detail.object, NoFilters, detail.nonce)
    BY <2>5, <1>1, AskedLifecycle DEF Following, Hooks, useObjectLifecycle
  <2>7. Asked'["lifecycle"] = Ask(detail.object, NoFilters, detail.nonce + 1)
    BY <2>2, <2>5, AskedLifecycle DEF useObjectLifecycle
  <2>8. Asked'["lifecycle"] # hook["lifecycle"].dep
    BY <2>6, <2>7, <1>6 DEF Ask
  <2> QED
    BY <2>2, <2>3, <2>4, <2>8, <1>1, <1>2, <1>4, <1>5, UserStep
<1> QED
  BY <1>7, <1>8, <1>9 DEF Posts

LEMMA StartedInv ==
    ASSUME ScreensInv, NEW p \in posts, NEW ok \in BOOLEAN, Started(p, ok)
    PROVE  ScreensInv'
<1>1. /\ detail \in Details /\ posts \in SUBSET Posts /\ recorded \in Nat
      /\ nav \in {"operations", "dashboards", "positions"} /\ period \in Periods /\ view \in Views
      /\ Attached /\ Reports /\ Pages
  BY DEF ScreensInv, ScreensTypeOK
<1>2. UNCHANGED <<recorded, rejected, unavailable>> /\ Render(hook, wire)
  BY DEF Started
<1>3. detail.told \in Nat /\ detail.told <= recorded
  BY <1>1 DEF Reports, Details
<1>4. posts \ {p} \in SUBSET Posts /\ \A r \in posts \ {p} : r.at <= recorded
  BY <1>1 DEF Reports
<1>5. CASE ok
  <2>1. /\ posts' = Detached(posts \ {p}) /\ nav' = "operations" /\ period' = DefaultPeriod
        /\ view' = [l \in Lists |-> FirstPage] /\ detail' = Closed
    BY <1>5 DEF Started
  <2>2. posts' \in SUBSET Posts /\ \A r \in posts' : ~r.attached /\ r.at <= recorded
    BY <2>1, <1>4, DetachedType
  <2>3. detail' \in Details /\ detail'.told = 0 /\ detail'.forms = {}
    BY <2>1, DetailTypes DEF Closed, Detail
  <2>4. Attached'
    BY <2>2, <2>3 DEF Attached
  <2>5. Pages' /\ view' \in Views /\ period' \in Periods
    BY <2>1, FirstPageType, ScreensAssumption DEF Pages
  <2> QED
    BY <2>1, <2>2, <2>3, <2>4, <2>5, <1>1, <1>2, UserStep
<1>6. CASE ~ok
  <2>1. /\ posts' = posts \ {p} /\ UNCHANGED <<nav, period, view>>
        /\ detail' = IF ~p.attached THEN detail
                     ELSE [detail EXCEPT !.saving = {}, !.banner = "refused"]
    BY <1>6 DEF Started
  <2>2. /\ detail' \in Details /\ detail'.told = detail.told /\ detail'.tab = detail.tab
        /\ detail'.forms = detail.forms
    BY <2>1, <1>1 DEF Details, Results
  <2>3. Attached'
    BY <2>1, <2>2, <1>1 DEF Attached
  <2>4. Pages'
    BY <2>1, <1>1, <1>2 DEF Pages
  <2> QED
    BY <2>1, <2>2, <2>3, <2>4, <1>1, <1>2, <1>3, <1>4, UserStep
<1> QED
  BY <1>5, <1>6
-----------------------------------------------------------------------------
(* Answers and failures of reads. *)

\* What the hooks hold once an answer has arrived, about the question it answers.
LEMMA SettleKeeps ==
    ASSUME ScreensInv, NEW q \in wire, NEW kind \in Kinds \ {"nothing"}, NEW at \in Nat,
           q.hook = "lifecycle" => q.since <= at
    PROVE  /\ Holding(q.hook, q.dep, kind, at) \in [Hooks -> HookStates]
           /\ Settle(q, kind, at) \in [Hooks -> HookStates]
           /\ Closures(Settle(q, kind, at), wire \ {q})
           /\ Settled(Settle(q, kind, at))
           /\ Read(Settle(q, kind, at), wire \ {q})
<1>1. /\ hook \in [Hooks -> HookStates] /\ wire \subseteq Requests /\ q \in Requests
      /\ Closures(hook, wire) /\ Settled(hook) /\ Read(hook, wire) /\ detail \in Details
  BY DEF ScreensInv, ScreensTypeOK
<1>2. q.hook \in Hooks /\ q.dep \in Questions /\ q.since \in Nat /\ detail.told \in Nat
  BY <1>1 DEF Requests, Details
<1> DEFINE held == Holding(q.hook, q.dep, kind, at)
           shown == [of |-> q.dep, kind |-> kind, at |-> at]
<1>3. shown \in Holds /\ shown.of = q.dep /\ shown.at = at
  BY <1>2 DEF Holds
<1>4. /\ held = [hook EXCEPT ![q.hook] = [hook[q.hook] EXCEPT !.shown = shown, !.loading = FALSE]]
      /\ hook[q.hook] \in HookStates
  BY <1>1, <1>2 DEF Holding
<1> HIDE DEF held, shown
<1>5. /\ held \in [Hooks -> HookStates]
      /\ \A h \in Hooks \ {q.hook} : held[h] = hook[h]
      /\ held[q.hook].dep = hook[q.hook].dep /\ held[q.hook].failed = hook[q.hook].failed
      /\ held[q.hook].shown = shown
  BY <1>1, <1>2, <1>3, <1>4 DEF HookStates
<1>6. Closures(hook, wire \ {q}) /\ Read(hook, wire \ {q})
  BY <1>1 DEF Closures, Read
<1>7. ASSUME q.live
      PROVE  Closures(held, wire \ {q}) /\ Settled(held) /\ Read(held, wire \ {q})
  <2>1. q.dep = hook[q.hook].dep
    BY <1>1, <1>7 DEF Closures
  <2>2. \A r \in wire : r.hook \in Hooks
    BY <1>1 DEF Requests
  <2>3. Closures(held, wire \ {q})
    BY <1>5, <1>6, <2>2 DEF Closures
  <2>4. Settled(held)
    BY <1>1, <1>3, <1>5, <2>1 DEF Settled
  <2>5. q.hook = "lifecycle" => detail.told <= at
    BY <1>1, <1>2, <1>7 DEF Read
  <2>6. "lifecycle" \in Hooks
    BY DEF Hooks
  <2>7. Read(held, wire \ {q})
    BY <1>3, <1>5, <1>6, <2>5, <2>6 DEF Read
  <2> QED
    BY <2>3, <2>4, <2>7
<1>8. (Settle(q, kind, at) = held /\ q.live) \/ Settle(q, kind, at) = hook
  BY DEF Settle, held
<1> QED
  BY <1>1, <1>5, <1>6, <1>7, <1>8 DEF held

LEMMA ArriveInv ==
    ASSUME ScreensInv, NEW q \in wire, NEW kind \in Answers(q.hook), NEW at, Arrive(q, kind, at)
    PROVE  ScreensInv'
<1>1. /\ nav \in {"operations", "dashboards", "positions"} /\ period \in Periods /\ view \in Views
      /\ detail \in Details /\ posts \subseteq Posts /\ wire \subseteq Requests
      /\ recorded \in Nat /\ rejected \in Nat /\ unavailable \in Nat
      /\ Reports /\ Attached /\ Pages
  BY DEF ScreensInv, ScreensTypeOK
<1>2. /\ UNCHANGED <<nav, period, view, detail, posts, recorded, rejected>>
      /\ unavailable' \in Nat
      /\ Render(Settle(q, kind, at), wire \ {q})
      /\ at \in IF q.hook = "lifecycle" THEN q.since .. recorded ELSE {0}
  BY <1>1 DEF Arrive
<1>3. kind \in Kinds \ {"nothing"}
  BY DEF Answers, ReadAnswers, LifecycleAnswers, ActionAnswers, Kinds
<1>4. q.since \in Nat
  BY <1>1 DEF Requests
<1>5. at \in Nat /\ (q.hook = "lifecycle" => q.since <= at)
  BY <1>1, <1>2, <1>4
<1>6. /\ Settle(q, kind, at) \in [Hooks -> HookStates]
      /\ Closures(Settle(q, kind, at), wire \ {q})
      /\ Settled(Settle(q, kind, at))
      /\ Read(Settle(q, kind, at), wire \ {q})
  BY <1>3, <1>5, SettleKeeps
<1>7. Asked' \in [Hooks -> Questions]
  BY <1>1, <1>2, AskedType
<1>8. wire \ {q} \in SUBSET Requests
  BY <1>1
<1>9. detail' \in Details /\ detail'.told <= recorded /\ detail'.told = detail.told
  BY <1>1, <1>2 DEF Reports
<1>10. /\ hook' \in [Hooks -> HookStates] /\ wire' \subseteq Requests
       /\ Following(hook)' /\ Closures(hook, wire)' /\ Settled(hook)' /\ Read(hook, wire)'
  BY <1>1, <1>2, <1>6, <1>7, <1>8, <1>9, RenderKeeps
<1>11. ScreensTypeOK'
  BY <1>1, <1>2, <1>10 DEF ScreensTypeOK
<1>12. Reports' /\ Attached' /\ Pages'
  BY <1>1, <1>2 DEF Reports, Attached, Pages
<1> QED
  BY <1>10, <1>11, <1>12 DEF ScreensInv

LEMMA RejectInv ==
    ASSUME ScreensInv, NEW q \in wire, Reject(q)
    PROVE  ScreensInv'
<1>1. /\ hook \in [Hooks -> HookStates] /\ wire \subseteq Requests /\ q \in Requests
      /\ detail \in Details /\ rejected \in Nat
      /\ Following(hook) /\ Closures(hook, wire) /\ Settled(hook) /\ Read(hook, wire)
      /\ Reports /\ Attached /\ Pages
  BY DEF ScreensInv, ScreensTypeOK
<1>2. /\ rejected' = rejected + 1 /\ wire' = wire \ {q}
      /\ UNCHANGED <<nav, period, view, detail, posts, recorded, unavailable>>
  BY DEF Reject
<1>3. q.hook \in Hooks /\ q.dep \in Questions
  BY <1>1 DEF Requests
<1>4. rejected' \in Nat /\ rejected' > 0
  BY <1>1, <1>2
<1>5. Asked' = Asked
  BY <1>2 DEF Asked, useDashboard, useBookExposure, usePositionsPage, useMovementsPage,
              useObjectLifecycle, positionActions, Window
<1>6. Reports' /\ Attached' /\ Pages'
  BY <1>1, <1>2, <1>4 DEF Reports, Attached, Pages
\* What a rejection leaves of its hook.
<1>7. /\ hook' \in [Hooks -> HookStates]
      /\ \A h \in Hooks : hook'[h].dep = hook[h].dep
      /\ \A h \in Hooks : \/ hook'[h] = hook[h]
                          \/ hook'[h].shown.of = hook[h].dep /\ hook'[h].failed = hook[h].failed
                          \/ hook'[h].failed
      /\ hook'["lifecycle"].shown.kind = "found" =>
            hook'["lifecycle"].shown = hook["lifecycle"].shown
  <2>1. CASE ~q.live \/ q.hook \in {"overview", "actions"}
    <3>1. hook' = hook
      BY <2>1 DEF Reject
    <3> QED
      BY <3>1, <1>1
  <2>2. CASE q.live /\ q.hook = "lifecycle"
    <3> DEFINE shown == [of |-> q.dep, kind |-> "unavailable", at |-> 0]
    <3>1. hook' = [hook EXCEPT ![q.hook] = [hook[q.hook] EXCEPT !.shown = shown, !.loading = FALSE]]
      BY <2>2, <1>1, <1>3 DEF Reject, Holding
    <3>2. shown \in Holds /\ shown.of = q.dep /\ shown.kind = "unavailable"
      BY <1>3 DEF Holds, Kinds
    <3>3. hook[q.hook] \in HookStates
      BY <1>1, <1>3
    <3>4. q.dep = hook[q.hook].dep
      BY <1>1, <2>2 DEF Closures
    <3> HIDE DEF shown
    <3>5. /\ hook' \in [Hooks -> HookStates]
          /\ \A h \in Hooks \ {q.hook} : hook'[h] = hook[h]
          /\ hook'[q.hook].dep = hook[q.hook].dep /\ hook'[q.hook].failed = hook[q.hook].failed
          /\ hook'[q.hook].shown = shown
      BY <1>1, <1>3, <3>1, <3>2, <3>3 DEF HookStates
    <3> QED
      BY <2>2, <3>2, <3>4, <3>5
  <2>3. CASE q.live /\ q.hook \notin {"overview", "actions", "lifecycle"}
    <3>1. hook' = [hook EXCEPT ![q.hook] = [hook[q.hook] EXCEPT !.loading = FALSE, !.failed = TRUE]]
      BY <2>3, <1>1, <1>3 DEF Reject
    <3>2. hook[q.hook] \in HookStates
      BY <1>1, <1>3
    <3>3. /\ hook' \in [Hooks -> HookStates]
          /\ \A h \in Hooks \ {q.hook} : hook'[h] = hook[h]
          /\ hook'[q.hook].dep = hook[q.hook].dep /\ hook'[q.hook].failed
      BY <1>1, <1>3, <3>1, <3>2 DEF HookStates
    <3>4. "lifecycle" \in Hooks \ {q.hook}
      BY <2>3 DEF Hooks
    <3> QED
      BY <3>3, <3>4
  <2> QED
    BY <2>1, <2>2, <2>3, <1>1 DEF Requests
<1>8. Following(hook)'
  BY <1>1, <1>5, <1>7 DEF Following
<1>9. Closures(hook, wire)'
  <2>1. \A r \in wire' : r \in wire /\ r.hook \in Hooks
    BY <1>1, <1>2 DEF Requests
  <2> QED
    BY <2>1, <1>1, <1>7 DEF Closures
<1>10. Settled(hook)'
  BY <1>1, <1>4, <1>7 DEF Settled
<1>11. Read(hook, wire)'
  BY <1>1, <1>2, <1>7 DEF Read
<1>12. ScreensTypeOK'
  BY <1>1, <1>2, <1>4, <1>7 DEF ScreensInv, ScreensTypeOK
<1> QED
  BY <1>6, <1>8, <1>9, <1>10, <1>11, <1>12 DEF ScreensInv
-----------------------------------------------------------------------------
(* The specification. *)

LEMMA NextInv == ScreensInv /\ [Next]_vars => ScreensInv'
<1> SUFFICES ASSUME ScreensInv, [Next]_vars PROVE ScreensInv'
  OBVIOUS
<1>1. CASE \E n \in Sections : Navigate(n)
  BY <1>1, NavigateInv
<1>2. CASE \E p \in Periods : SetPeriod(p)
  BY <1>2, SetPeriodInv
<1>3. CASE \E l \in Lists : (\E f \in Filters : UpdateFilters(l, f)) \/ (\E step \in {-1, 1} : SetPage(l, step))
  BY <1>3, UpdateFiltersInv, SetPageInv
<1>4. CASE \/ \E o \in Objects : OpenHistory(o) \/ OpenRow(o)
           \/ SwitchTab
           \/ CloseDetail
  BY <1>4, OpenAndCloseInv
<1>5. CASE \/ \E e \in Events : OpenForm(e)
           \/ \E f \in detail.forms : CloseForm(f) \/ Submit(f)
           \/ StartAction
  BY <1>5, FormsInv
<1>6. ASSUME NEW p \in posts,
             \/ \E result \in {"done", "half", "refused"} : Rectify(p, result)
             \/ Rectified(p)
             \/ \E ok \in BOOLEAN : Started(p, ok)
             \/ PostFails(p)
      PROVE  ScreensInv'
  BY <1>6, PostsInv, RectifiedInv, StartedInv
<1>7. ASSUME NEW q \in wire,
             \/ \E kind \in Answers(q.hook), at \in q.since .. recorded : Arrive(q, kind, at)
             \/ Reject(q)
      PROVE  ScreensInv'
  BY <1>7, ArriveInv, RejectInv
<1>8. CASE UNCHANGED vars
  <2>1. /\ detail' = detail /\ posts' = posts
        /\ UNCHANGED <<nav, period, view, hook, wire, recorded, rejected, unavailable>>
    BY <1>8 DEF vars
  <2>2. /\ detail \in Details /\ posts \in SUBSET Posts /\ recorded \in Nat /\ rejected \in Nat
        /\ Attached /\ \A p \in posts : p.at <= recorded
    BY DEF ScreensInv, ScreensTypeOK, Reports
  <2>3. Attached'
    BY <2>1, <2>2 DEF Attached
  <2> QED
    BY <2>1, <2>2, <2>3, QuietStep
<1> QED
  BY <1>1, <1>2, <1>3, <1>4, <1>5, <1>6, <1>7, <1>8 DEF Next

LEMMA ScreensInvariant == Spec => []ScreensInv
<1> QED
  BY InitInv, NextInv, PTL DEF Spec

\* However the answers cross, what a hook of the dashboard shows once it stops loading answers
\* the question the user's choices put last, unless the request failed; and as long as none
\* has, a list is on a page its selection has (the `cancelled` closures of usePositionsPage,
\* useMovementsPage, useDashboard and useObjectLifecycle, and the page reset of
\* updateFilters).
THEOREM ScreensShowWhatWasAsked == Spec => []ShownIsAnswered
<1>1. ScreensInv => ShownIsAnswered
  BY DEF ScreensInv, Settled, Pages, ShownIsAnswered
<1> QED
  BY <1>1, ScreensInvariant, PTL

\* A history on screen after a correction was reported shows that correction, for any number
\* of corrections under way together (the reload nonce of ObjectLifecycleTimeline's onDone).
THEOREM CorrectionsAreRead == Spec => []CorrectionIsRead
<1>1. ScreensInv => CorrectionIsRead
  BY DEF ScreensInv, Read, CorrectionIsRead
<1> QED
  BY <1>1, ScreensInvariant, PTL
=============================================================================
