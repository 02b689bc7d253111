------------------------------ MODULE Options ------------------------------
(***************************************************************************)
(* OptionsDialog over the pages modules contribute: pages outlive every    *)
(* dialog, are edited in one at a time, and each applies for itself.       *)
(***************************************************************************)
EXTENDS Integers, FiniteSets, Sequences

CONSTANTS Order,    \* the pages, in the order they were added
          MaxOpens  \* bound: dialogs opened

Pages == {Order[i] : i \in DOMAIN Order}

ASSUME PagesAssumption == Order \in Seq(Pages)

VARIABLES
    dialog,   \* the number of the dialog that is open, or 0
    opens,
    edits,    \* [page -> "none", "valid" or "invalid"]: what is not applied yet
    alive,    \* pages whose widget has not been deleted
    parent,    \* [page -> the dialog whose child its widget is, or 0]
    listener, \* [page -> the dialog a change is told to, or 0]
    applying, \* pages left to look at, while apply() runs, or <<>>
    accepting,  \* does accept() wait for apply()?
    buttons,  \* [ok, apply] as _refresh() last set them
    stale     \* has an apply() raised since?

dialogState == <<dialog, opens, alive, parent, listener>>
optionsVars == <<dialogState, edits, applying, accepting, buttons, stale>>

OptionsInit ==
    /\ dialog = 0 /\ opens = 0
    /\ edits = [p \in Pages |-> "none"]
    /\ alive = Pages
    /\ parent = [p \in Pages |-> 0] /\ listener = [p \in Pages |-> 0]
    /\ applying = <<>> /\ accepting = FALSE
    /\ buttons = [ok |-> FALSE, apply |-> FALSE] /\ stale = FALSE

Problem(e) == \E p \in Pages : e[p] = "invalid"
Dirty(e) == \E p \in Pages : e[p] # "none"

\* _refresh()
Buttons(e) == [ok |-> ~Problem(e), apply |-> Dirty(e) /\ ~Problem(e)]

\* show_options(): a dialog of its own each time, modal until it closes.
OpenDialog ==
    /\ dialog = 0 /\ opens < MaxOpens /\ alive = Pages
    /\ opens' = opens + 1 /\ dialog' = opens'
    /\ parent' = [p \in Pages |-> opens'] /\ listener' = [p \in Pages |-> opens']
    /\ buttons' = Buttons(edits) /\ stale' = FALSE
    /\ UNCHANGED <<edits, alive, applying, accepting>>

Ready == dialog # 0 /\ applying = <<>>

\* The page tells its listener.
Edit(p, e) ==
    /\ Ready /\ edits[p] # e
    /\ edits' = [edits EXCEPT ![p] = e]
    /\ IF listener[p] = dialog
       THEN buttons' = Buttons(edits') /\ stale' = FALSE
       ELSE UNCHANGED <<buttons, stale>>
    /\ UNCHANGED <<dialogState, applying, accepting>>
----------------------------------------------------------------------------
Released_ListenerOnly == parent

\* _release_pages(): the widgets are taken out of the dialog ...
Released == [p \in Pages |-> 0]

\* ... which is deleted with its children once the event loop runs.
Deleted == {p \in Pages : Released[p] = dialog}

\* done(), on every way out.
Done ==
    /\ dialog' = 0 /\ UNCHANGED opens
    /\ listener' = [p \in Pages |-> 0]
    /\ parent' = Released
    /\ alive' = alive \ Deleted
----------------------------------------------------------------------------
\* apply() begins only when no page has a problem.
Apply(ok) ==
    /\ Ready /\ IF ok THEN buttons.ok ELSE buttons.apply
    /\ ~Problem(edits)
    /\ applying' = Order /\ accepting' = ok
    /\ UNCHANGED <<dialogState, edits, buttons, stale>>

\* The next page holding edits saves them, or stays dirty as it cannot.
ApplyPage(works) ==
    /\ applying # <<>>
    /\ LET p == Head(applying) IN
         edits' = IF edits[p] # "none" /\ works THEN [edits EXCEPT ![p] = "none"] ELSE edits
    /\ applying' = Tail(applying)
    /\ IF applying' # <<>>
       THEN UNCHANGED <<dialogState, accepting, buttons, stale>>
       ELSE /\ buttons' = Buttons(edits') /\ stale' = FALSE /\ accepting' = FALSE
            /\ IF accepting /\ ~Dirty(edits') THEN Done ELSE UNCHANGED dialogState

\* A page's apply() that raises leaves the slot; nothing is refreshed.
ApplyRaises ==
    /\ applying # <<>> /\ edits[Head(applying)] # "none"
    /\ applying' = <<>> /\ accepting' = FALSE /\ stale' = TRUE
    /\ UNCHANGED <<dialogState, edits, buttons>>

\* reject(): Cancel, Esc and the title bar's close.
Reject ==
    /\ Ready
    /\ edits' = [p \in Pages |-> "none"]
    /\ Done
    /\ UNCHANGED <<applying, accepting, buttons, stale>>

OptionsNext ==
    \/ OpenDialog
    \/ \E p \in Pages, e \in {"none", "valid", "invalid"} : Edit(p, e)
    \/ \E b \in BOOLEAN : Apply(b) \/ ApplyPage(b)
    \/ ApplyRaises \/ Reject

OptionsSpec == OptionsInit /\ [][OptionsNext]_optionsVars
----------------------------------------------------------------------------
\* A dialog closes with no edit left behind on a page: OK only once every page
\* took its edits, Cancel with all taken back.  The pages survive every dialog,
\* none calls one that has closed, and the buttons never offer to apply what
\* has a problem, nor miss an edit unless an apply() raised.
OptionsKept ==
    /\ dialog = 0 => ~Dirty(edits)
    /\ alive = Pages
    /\ \A p \in Pages : parent[p] \in {0, dialog} /\ listener[p] \in {0, dialog}
    /\ Ready /\ ~stale => buttons = Buttons(edits)
    /\ applying # <<>> => ~Problem(edits)
=============================================================================
