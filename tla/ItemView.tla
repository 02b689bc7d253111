------------------------------ MODULE ItemView ------------------------------
(***************************************************************************)
(* configure_item_view() on a tree with one stretch column and another:    *)
(* when columns are fitted to their content, and how the stretch column is *)
(* filled.                                                                 *)
(***************************************************************************)
EXTENDS Integers

CONSTANTS Widths,     \* widths of the viewport, and those a person drags a column to
          MaxModelChanges  \* bound: changes of the model

ASSUME WidthsAssumption == Widths \subseteq Int

VARIABLES
    rows, kids,   \* rows at the top level, and under headings
    expanded,         \* is a heading expanded?
    fitted,       \* _fitted_children
    deferred,     \* fits to run in the next turn of the event loop
    viewport, displayed,
    other, stretch, floor,  \* the columns' widths, and the filler's _floor
    dragged,      \* a person dragged the stretch column and nothing filled it since
    sized,         \* a person dragged the other column and nothing fitted it since
    lost,         \* widths of a person that a fit overwrote since the last reset
    refills,      \* how often first rows came since then
    carried,      \* fits that were deferred when it came
    modelChanges

model == <<rows, kids, expanded>>
columns == <<other, stretch, floor, dragged, sized>>
widthHistory == <<lost, refills, carried>>
viewVars == <<model, fitted, deferred, viewport, displayed, columns, widthHistory, modelChanges>>

\* What the header and the rows that are shown need.
ContentWidth == IF kids > 0 /\ expanded THEN 3 ELSE IF rows > 0 THEN 2 ELSE 1

\* fill()
Filled(v, o, f, s) == IF s /\ v - o > f THEN v - o ELSE f

\* resizeColumnToContents() of every column, then remeasure().
Fit(width) ==
    /\ other' = width /\ floor' = width
    /\ stretch' = Filled(viewport, width, width, displayed)
    /\ dragged' = FALSE /\ sized' = FALSE

ViewInit ==
    /\ rows = 0 /\ kids = 0 /\ expanded = FALSE
    /\ fitted = FALSE /\ deferred = 0
    /\ viewport \in Widths /\ displayed = FALSE
    /\ other = 1 /\ stretch = 1 /\ floor = 1 /\ dragged = FALSE /\ sized = FALSE
    /\ lost = 0 /\ refills = 0 /\ carried = 0 /\ modelChanges = 0

Changed == modelChanges < MaxModelChanges /\ modelChanges' = modelChanges + 1
Overwrites == lost' = IF sized THEN lost + 1 ELSE lost
----------------------------------------------------------------------------
\* on_reset()
ResetModel(n, k) ==
    /\ Changed /\ rows' = n /\ kids' = k /\ expanded' = FALSE
    /\ fitted' = FALSE
    /\ Fit(ContentWidth')
    /\ lost' = 0 /\ refills' = 0 /\ carried' = deferred
    /\ UNCHANGED <<deferred, viewport, displayed>>

\* on_rows_inserted() at the top level: a fit if there was no row before.
InsertTop(k) ==
    /\ Changed /\ rows < 2 /\ rows' = rows + 1 /\ kids' = kids + k /\ UNCHANGED expanded
    /\ IF rows = 0
       THEN Fit(ContentWidth') /\ Overwrites /\ refills' = refills + 1
       ELSE UNCHANGED <<columns, lost, refills>>
    /\ UNCHANGED <<fitted, deferred, viewport, displayed, carried>>

Once_EachTime == TRUE

\* The guard of _fit_children_once().
Once == ~fitted

FitChildrenOnce ==
    /\ fitted' = TRUE
    /\ deferred' = IF Once THEN deferred + 1 ELSE deferred

\* on_rows_inserted() under a heading.
InsertKid ==
    /\ Changed /\ rows > 0 /\ kids < 2 /\ kids' = kids + 1
    /\ FitChildrenOnce
    /\ UNCHANGED <<rows, expanded, viewport, displayed, columns, widthHistory>>

\* on_expanded()
Expand ==
    /\ kids > 0 /\ ~expanded /\ expanded' = TRUE
    /\ FitChildrenOnce
    /\ UNCHANGED <<rows, kids, viewport, displayed, columns, widthHistory, modelChanges>>

Collapse ==
    /\ expanded /\ expanded' = FALSE
    /\ UNCHANGED <<rows, kids, fitted, deferred, viewport, displayed, columns, widthHistory, modelChanges>>

RemoveAll ==
    /\ Changed /\ rows > 0 /\ rows' = 0 /\ kids' = 0 /\ expanded' = FALSE
    /\ UNCHANGED <<fitted, deferred, viewport, displayed, columns, widthHistory>>

\* The fit of _fit_children_once(), a turn of the event loop later.
RunDeferred ==
    /\ deferred > 0 /\ deferred' = deferred - 1
    /\ Fit(ContentWidth) /\ Overwrites
    /\ UNCHANGED <<model, fitted, viewport, displayed, refills, carried, modelChanges>>
----------------------------------------------------------------------------
\* sectionResized of another column fills the stretch column, its own does not.
DragOther(w) ==
    /\ w # other /\ other' = w /\ sized' = TRUE
    /\ stretch' = Filled(viewport, w, floor, displayed) /\ dragged' = FALSE
    /\ UNCHANGED <<model, fitted, deferred, viewport, displayed, floor, widthHistory, modelChanges>>

DragStretch(w) ==
    /\ w # stretch /\ stretch' = w /\ dragged' = TRUE
    /\ UNCHANGED <<model, fitted, deferred, viewport, displayed, other, floor, sized, widthHistory, modelChanges>>

\* eventFilter(): the viewport's Resize and Show.
ResizeView(v, s) ==
    /\ v # viewport \/ (s /\ ~displayed)
    /\ viewport' = v /\ displayed' = s
    /\ stretch' = Filled(v, other, floor, s) /\ dragged' = FALSE
    /\ UNCHANGED <<model, fitted, deferred, other, floor, sized, widthHistory, modelChanges>>

Hide ==
    /\ displayed /\ displayed' = FALSE
    /\ UNCHANGED <<model, fitted, deferred, viewport, columns, widthHistory, modelChanges>>

ViewNext ==
    \/ \E n, k \in 0..1 : k <= n /\ ResetModel(n, k)
    \/ \E k \in 0..1 : InsertTop(k)
    \/ InsertKid \/ Expand \/ Collapse \/ RemoveAll \/ RunDeferred \/ Hide
    \/ \E w \in Widths : DragOther(w) \/ DragStretch(w) \/ ResizeView(w, displayed) \/ ResizeView(w, TRUE)

ViewSpec == ViewInit /\ [][ViewNext]_viewVars
----------------------------------------------------------------------------
\* In a view that is live and shown, a width that a person set is overwritten by
\* a fit only once after each reset, and when first rows come into an empty view
\* or a fit was still pending at the reset; and the stretch column leaves no gap
\* and is no narrower than its content was, unless a person dragged it itself.
ViewKept ==
    /\ lost <= 1 + refills + carried
    /\ displayed /\ ~dragged =>
         /\ stretch >= floor /\ other + stretch >= viewport
         /\ stretch = floor \/ other + stretch = viewport
=============================================================================
