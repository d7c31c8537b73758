------------------------------- MODULE Screens -------------------------------
(***************************************************************************)
(* The treasury's dashboard and positions screens, in the browser          *)
(* (treasury/.../client/src/features/dashboard), over the API they ask     *)
(* (dashboardRoutes.ts, conversationRoutes.ts).                            *)
(*                                                                         *)
(*   nav, period, view, detail   what the user has chosen: the section,    *)
(*            the dashboard's period, the filters and page of each list,   *)
(*            and the position opened over the page;                       *)
(*   hook     per hook that reads the API: the question its last effect    *)
(*            asked, what it holds to be drawn, whether it is waiting;     *)
(*   wire     its requests under way; `live` until a later effect, or the  *)
(*            unmounting of the component, sets the closure's `cancelled`; *)
(*   posts    writes under way; recorded, how many corrections there are.  *)
(*                                                                         *)
(* A user's step renders, and React runs the effects whose dependencies    *)
(* changed, before anything else happens.                                  *)
(***************************************************************************)
EXTENDS Integers, FiniteSets

CONSTANTS
    Periods, DefaultPeriod,        \* the date picker's ranges; the one the page opens with
    Filters, NoFilters, PagesOf,   \* a list's selections; how many pages the ledger has of each
    Objects, Events, Contextual,   \* positions; entries of a history, those that only reference it
    Whole, None,
    MaxUnderWay,   \* bound: requests under way when the user goes on
    MaxFailures,   \* bound: reads and writes that may fail, on the network or at the ledger
    MaxWrites      \* bound: writes

ASSUME ScreensAssumption ==
    /\ DefaultPeriod \in Periods /\ NoFilters \in Filters
    /\ PagesOf \in [Filters -> Nat \ {0}]
    /\ None \notin Periods \cup Objects \cup Events \cup {Whole}

VARIABLES nav, period, view, detail, hook, wire, posts, recorded, rejected, unavailable

vars == <<nav, period, view, detail, hook, wire, posts, recorded, rejected, unavailable>>

Lists == {"listing", "movements"}
Hooks == Lists \cup {"overview", "exposure", "lifecycle", "actions"}

\* A question to the API: the period, book or position it is about, the selection, the page.
Ask(about, filters, page) == [about |-> about, filters |-> filters, page |-> page]
Idle == Ask(None, NoFilters, 0)

Nothing == [of |-> Idle, kind |-> "nothing", at |-> 0]
Unmounted == [dep |-> Idle, shown |-> Nothing, loading |-> FALSE, failed |-> FALSE]

FirstPage == [filters |-> NoFilters, page |-> 1]

\* A position opened over the page: from a row (summary, then history) or by its id or a
\* movement (history alone).  told and outcome remember the last correction this history was
\* told of.
Detail(object, tab, row) ==
    [object |-> object, tab |-> tab, row |-> row, nonce |-> 0, forms |-> {}, saving |-> {},
     banner |-> "none", told |-> 0, outcome |-> "none"]

Closed == Detail(None, "none", FALSE)

Init ==
    /\ nav = "operations"
    /\ period = DefaultPeriod
    /\ view = [l \in Lists |-> FirstPage]
    /\ detail = Closed
    /\ hook = [h \in Hooks |-> Unmounted]
    /\ wire = {}
    /\ posts = {}
    /\ recorded = 0
    /\ rejected = 0
    /\ unavailable = 0
-----------------------------------------------------------------------------
(* What each hook depends on. *)

Window == IF nav = "dashboards" THEN period ELSE IF nav = "positions" THEN Whole ELSE None

\* (usePayablePositions is the exposure's hook once more, over the whole book.)
useDashboard == Ask(Window, NoFilters, 0)
useBookExposure == Ask(Window, NoFilters, 0)

usePositionsPage ==
    IF nav = "positions" THEN Ask(Whole, view["listing"].filters, view["listing"].page) ELSE Idle

useMovementsPage ==
    IF nav = "dashboards" THEN Ask(period, view["movements"].filters, view["movements"].page)
    ELSE Idle

useObjectLifecycle ==
    IF detail.tab = "lifecycle" THEN Ask(detail.object, NoFilters, detail.nonce) ELSE Idle

positionActions ==
    IF detail.tab # "none" THEN Ask(detail.object, detail.tab, 0) ELSE Idle

Asked ==
    [h \in Hooks |-> CASE h = "overview"  -> useDashboard
                       [] h = "exposure"  -> useBookExposure
                       [] h = "listing"   -> usePositionsPage
                       [] h = "movements" -> useMovementsPage
                       [] h = "lifecycle" -> useObjectLifecycle
                       [] OTHER           -> positionActions]

\* The page's content is drawn once its overview has come back available.
Content == hook["overview"].shown.kind = "available"

\* An effect runs: the old closure is cancelled and the question asked.  The overview and the
\* history blank what they hold, a new instance holds nothing, the others keep it meanwhile.
Effect(h, dep, was) ==
    [dep |-> dep, loading |-> dep # Idle, failed |-> FALSE,
     shown |-> IF \/ h \in {"overview", "lifecycle", "actions"}
                  \/ Idle \in {dep, was.dep} \/ nav' # nav
               THEN Nothing ELSE was.shown]

\* The effects that follow when the hooks hold `seen` and the user's choices are the primed
\* ones.  The list of movements is part of the dashboard's content.
Render(seen, rest) ==
    LET drawn == /\ seen["overview"].shown.kind = "available"
                 /\ seen["overview"].dep = Asked'["overview"]
        dep(h) == IF h = "movements" /\ ~drawn THEN Idle ELSE Asked'[h]
        moved == {h \in Hooks : dep(h) # seen[h].dep}
    IN  /\ hook' = [h \in Hooks |-> IF h \in moved THEN Effect(h, dep(h), seen[h]) ELSE seen[h]]
        /\ wire' = {IF q.hook \in moved THEN [q EXCEPT !.live = FALSE] ELSE q : q \in rest}
                   \cup {[hook |-> h, dep |-> dep(h), live |-> TRUE,
                          since |-> IF h = "lifecycle" THEN recorded ELSE 0] :
                            h \in {g \in moved : dep(g) # Idle}}

\* The user acts on the page itself, with no position opened over it.
OnPage ==
    /\ detail.tab = "none"
    /\ Cardinality(wire) + Cardinality(posts) <= MaxUnderWay
    /\ UNCHANGED <<detail, posts, recorded, rejected, unavailable>>
-----------------------------------------------------------------------------
(* The page. *)

\* Another section: the one left is unmounted, and its choices with it.
Navigate(n) ==
    /\ OnPage
    /\ n # nav
    /\ nav' = n
    /\ period' = DefaultPeriod
    /\ view' = [l \in Lists |-> FirstPage]
    /\ Render(hook, wire)

\* The date picker.  The overview goes back to loading, which unmounts the list of movements.
SetPeriod(p) ==
    /\ OnPage
    /\ nav = "dashboards"
    /\ p # period
    /\ period' = p
    /\ view' = [view EXCEPT !["movements"] = FirstPage]
    /\ UNCHANGED nav
    /\ Render(hook, wire)

\* Slip: the page of the selection before is kept.
WithFilters_SamePage(l, f) == [view[l] EXCEPT !.filters = f]

\* updateFilters and clearFilters: the page starts over.
WithFilters(l, f) == [filters |-> f, page |-> 1]

\* A filter or the sort of a list is changed, or the filters are cleared.
UpdateFilters(l, f) ==
    /\ OnPage
    /\ Content
    /\ hook[l].dep # Idle
    /\ f # view[l].filters
    /\ view' = [view EXCEPT ![l] = WithFilters(l, f)]
    /\ UNCHANGED <<nav, period>>
    /\ Render(hook, wire)

\* Pagination, under a list that is not loading: one page back or on, within the pages of the
\* result on screen.
SetPage(l, step) ==
    LET shown == hook[l].shown
        pages == PagesOf[shown.of.filters]
    IN  /\ OnPage
        /\ Content
        /\ hook[l].dep # Idle /\ ~hook[l].loading /\ shown.kind = "available"
        /\ pages > 1
        /\ IF step = 1 THEN view[l].page < pages ELSE view[l].page > 1
        /\ view' = [view EXCEPT ![l].page = @ + step]
        /\ UNCHANGED <<nav, period>>
        /\ Render(hook, wire)
-----------------------------------------------------------------------------
(* A position over the page. *)

\* The component that awaits a write's answer is unmounted.
Detached(P) == {[p EXCEPT !.attached = FALSE] : p \in P}

Opens(d) ==
    /\ Cardinality(wire) <= MaxUnderWay
    /\ detail' = d
    /\ posts' = Detached(posts)
    /\ UNCHANGED <<nav, period, view, recorded, rejected, unavailable>>
    /\ Render(hook, wire)

\* Bound: a position is opened over a page that has settled without a failure.
Calm == wire = {} /\ rejected + unavailable = 0

\* By its id, or from the objects of a movement: straight to the history.
OpenHistory(o) ==
    /\ detail.tab = "none" /\ Content /\ Calm
    /\ Opens(Detail(o, "lifecycle", FALSE))

\* A row of a table of positions: the summary, with what can be recorded about it.
OpenRow(o) ==
    /\ detail.tab = "none" /\ Content /\ Calm /\ nav = "positions"
    /\ Opens(Detail(o, "summary", TRUE))

\* The tabs of a row's detail.
SwitchTab ==
    /\ detail.row
    /\ Opens(Detail(detail.object, IF detail.tab = "summary" THEN "lifecycle" ELSE "summary", TRUE))

\* The modal is closed: the backdrop, its button, or Escape.
CloseDetail ==
    /\ detail.tab # "none"
    /\ Opens(Closed)
-----------------------------------------------------------------------------
(* Corrections. *)

\* Offered unless the entry only references this position, or the server has answered that
\* its actions include no retraction; an answer not there yet refuses nothing.
rectifiability(e) == e \notin Contextual /\ hook["actions"].shown.kind # "unsupported"

\* The form under an entry.  (The notice of an interrupted correction opens the same form.)
OpenForm(e) ==
    /\ nav = "positions"
    /\ detail.tab = "lifecycle" /\ hook["lifecycle"].shown.kind = "found"
    /\ rectifiability(e)
    /\ e \notin detail.forms
    /\ detail' = [detail EXCEPT !.forms = @ \cup {e}]
    /\ UNCHANGED <<nav, period, view, hook, wire, posts, recorded, rejected, unavailable>>

CloseForm(f) ==
    /\ f \in detail.forms \ detail.saving
    /\ detail' = [detail EXCEPT !.forms = @ \ {f}]
    /\ UNCHANGED <<nav, period, view, hook, wire, posts, recorded, rejected, unavailable>>

Post(form) ==
    [object |-> detail.object, form |-> form, result |-> "sent", at |-> 0, attached |-> TRUE]

\* RectifyForm.submit, as far as the request.
Submit(f) ==
    /\ f \in detail.forms \ detail.saving
    /\ detail.nonce + Cardinality(posts) < MaxWrites
    /\ recorded + Cardinality(posts) < MaxWrites
    /\ detail' = [detail EXCEPT !.saving = @ \cup {f}]
    /\ posts' = posts \cup {Post(f)}
    /\ UNCHANGED <<nav, period, view, hook, wire, recorded, rejected, unavailable>>

\* POST /rectify: the entry is withdrawn, or withdrawn and restated; or the restatement is
\* missing, for the first time or still; or nothing is written.
Rectify(p, result) ==
    /\ p.form # None /\ p.result = "sent"
    /\ recorded' \in CASE result = "done"    -> {recorded + 1}
                        [] result = "half"    -> {recorded, recorded + 1}
                        [] result = "refused" -> {recorded}
    /\ posts' = (posts \ {p}) \cup {[p EXCEPT !.result = result, !.at = recorded']}
    /\ UNCHANGED <<nav, period, view, detail, hook, wire, rejected, unavailable>>

\* Slip: the history on screen is not read again.
Reported_NoReload(p) ==
    [detail EXCEPT !.forms = {}, !.saving = {}, !.banner = "none",
                   !.told = IF p.at > @ THEN p.at ELSE @, !.outcome = p.result]

\* What is told of a correction that went through, wholly or in part: correctionProblem goes to
\* onFailure and then onDone clears the banner, closes the form and reads the history again,
\* and while that is loading no entry or form is on screen.
Reported(p) ==
    [detail EXCEPT !.forms = {}, !.saving = {}, !.banner = "none", !.nonce = @ + 1,
                   !.told = IF p.at > @ THEN p.at ELSE @, !.outcome = p.result]

\* RectifyForm.submit, from the answer on; the callbacks of an unmounted history do nothing.
Rectified(p) ==
    /\ p.form # None /\ p.result # "sent"
    /\ posts' = posts \ {p}
    /\ detail' = IF ~p.attached THEN detail
                 ELSE IF p.result = "refused"
                 THEN [detail EXCEPT !.saving = @ \ {p.form}, !.banner = "refused"]
                 ELSE Reported(p)
    /\ UNCHANGED <<nav, period, view, recorded, rejected, unavailable>>
    /\ Render(hook, wire)
-----------------------------------------------------------------------------
(* Recording something about a position. *)

\* PositionActions: one of the actions offered, one at a time.
StartAction ==
    /\ detail.tab = "summary" /\ detail.saving = {}
    /\ hook["actions"].shown.kind # "nothing"
    /\ recorded + Cardinality(posts) < MaxWrites
    /\ detail' = [detail EXCEPT !.saving = {None}]
    /\ posts' = posts \cup {Post(None)}
    /\ UNCHANGED <<nav, period, view, hook, wire, recorded, rejected, unavailable>>

\* The answer.  An opened conversation is handed to the operations page, wherever the user is
\* by then.
Started(p, ok) ==
    /\ p.form = None
    /\ posts' = IF ok THEN Detached(posts \ {p}) ELSE posts \ {p}
    /\ UNCHANGED <<recorded, rejected, unavailable>>
    /\ IF ok
       THEN /\ nav' = "operations"
            /\ period' = DefaultPeriod
            /\ view' = [l \in Lists |-> FirstPage]
            /\ detail' = Closed
       ELSE /\ detail' = IF ~p.attached THEN detail
                         ELSE [detail EXCEPT !.saving = {}, !.banner = "refused"]
            /\ UNCHANGED <<nav, period, view>>
    /\ Render(hook, wire)

\* A write that fails on the network, before or after the server: nothing catches it, and the
\* form goes on saving.
PostFails(p) ==
    /\ rejected + unavailable < MaxFailures
    /\ rejected' = rejected + 1
    /\ posts' = posts \ {p}
    /\ UNCHANGED <<nav, period, view, detail, hook, wire, recorded, unavailable>>
-----------------------------------------------------------------------------
(* Answers. *)

\* GetTreasuryDashboard, GetBookExposure, ListPositions and ListCashMovements degrade: a read of
\* the ledger that fails is answered, as unavailable.
ReadAnswers == {"available", "unavailable"}

\* GetObjectLifecycle tells a position the ledger does not know from one it could not ask for.
LifecycleAnswers == {"found", "unknown", "unavailable"}

\* ListPositionActions: whether a retraction is among what the algebra admits.
ActionAnswers == {"supported", "unsupported", "unavailable"}

\* The kinds of answer the routes give.
Answers(h) ==
    CASE h = "lifecycle" -> LifecycleAnswers
      [] h = "actions"   -> ActionAnswers
      [] OTHER           -> ReadAnswers

Holding(h, of, kind, at) ==
    [hook EXCEPT ![h] = [@ EXCEPT !.shown = [of |-> of, kind |-> kind, at |-> at],
                                  !.loading = FALSE]]

\* Slip: the closure does not look at `cancelled`.
Settle_Always(q, kind, at) == Holding(q.hook, q.dep, kind, at)

\* The `then` of a request: nothing once cancelled; a failed read of the actions is not kept.
Settle(q, kind, at) ==
    IF q.live /\ (q.hook = "actions" => kind # "unavailable")
    THEN Holding(q.hook, q.dep, kind, at) ELSE hook

\* An answer arrives, read from the ledger at some moment since it was asked.
Arrive(q, kind, at) ==
    /\ kind \in Answers(q.hook)
    /\ at \in IF q.hook = "lifecycle" THEN q.since .. recorded ELSE {0}
    /\ unavailable' = IF kind = "unavailable" THEN unavailable + 1 ELSE unavailable
    /\ rejected + unavailable' <= MaxFailures
    /\ UNCHANGED <<nav, period, view, detail, posts, recorded, rejected>>
    /\ Render(Settle(q, kind, at), wire \ {q})

\* A request fails on the network: the history says so, the lists and figures stop loading with
\* what they held before, and nothing catches the overview's or the actions'.
Reject(q) ==
    /\ rejected + unavailable < MaxFailures
    /\ rejected' = rejected + 1
    /\ wire' = wire \ {q}
    /\ hook' = IF ~q.live \/ q.hook \in {"overview", "actions"} THEN hook
               ELSE IF q.hook = "lifecycle" THEN Holding(q.hook, q.dep, "unavailable", 0)
               ELSE [hook EXCEPT ![q.hook] = [@ EXCEPT !.loading = FALSE, !.failed = TRUE]]
    /\ UNCHANGED <<nav, period, view, detail, posts, recorded, unavailable>>
-----------------------------------------------------------------------------
Sections == {"operations", "dashboards", "positions"}

Next ==
    \/ \E n \in Sections : Navigate(n)
    \/ \E p \in Periods : SetPeriod(p)
    \/ \E l \in Lists : (\E f \in Filters : UpdateFilters(l, f)) \/ (\E step \in {-1, 1} : SetPage(l, step))
    \/ \E o \in Objects : OpenHistory(o) \/ OpenRow(o)
    \/ SwitchTab
    \/ CloseDetail
    \/ \E e \in Events : OpenForm(e)
    \/ \E f \in detail.forms : CloseForm(f) \/ Submit(f)
    \/ StartAction
    \/ \E p \in posts :
          \/ \E result \in {"done", "half", "refused"} : Rectify(p, result)
          \/ Rectified(p)
          \/ \E ok \in BOOLEAN : Started(p, ok)
          \/ PostFails(p)
    \/ \E q \in wire :
          \/ \E kind \in Answers(q.hook), at \in q.since .. recorded : Arrive(q, kind, at)
          \/ Reject(q)

Spec == Init /\ [][Next]_vars
-----------------------------------------------------------------------------
(* What the screens promise. *)

\* "asking the Ledger for page N of a given selection is what keeps the list from claiming ...":
\* however the answers of two selections, periods or positions cross on the way, what a hook
\* shows once it stops loading answers the question the user's choices put last, unless the
\* request failed; and while none has, a list is on a page its selection has.
ShownIsAnswered ==
    /\ \A h \in Hooks : hook[h].dep # Idle /\ ~hook[h].loading /\ ~hook[h].failed
                           => hook[h].shown.of = hook[h].dep
    /\ rejected = 0 => \A l \in Lists : view[l].page <= PagesOf[view[l].filters]

\* A history on screen after a correction was reported shows that correction, although an
\* older reading may still be on its way when the report arrives.
CorrectionIsRead ==
    hook["lifecycle"].shown.kind = "found" => detail.told <= hook["lifecycle"].shown.at

\* "Reports what a correction produced, in the caller's language": after a correction that
\* was left half done, the history says so.
HalfDoneReported == detail.outcome = "half" => detail.banner = "problem"
=============================================================================
