----------------------------- MODULE Workbench -----------------------------
(***************************************************************************)
(* WorkbenchShell with its ActionRegistry, NavigationService, menus and    *)
(* status slots.  Everything runs on the GUI thread; a leave guard or a    *)
(* confirmation may run a dialog's event loop, in which other calls come.  *)
(***************************************************************************)
EXTENDS Integers, Sequences, SequencesExt, FiniteSets

CONSTANTS
    Modes,     \* mode ids
    Commands,  \* [id, scope, key, menu, title, letter, toggle]: what may be contributed
    ModeCommand, \* [mode -> its command], with the mode's own Ctrl+<n>
    Reserved,  \* keys the platform gives a meaning to
    Scope,     \* [status widget -> the mode it belongs to, or "all"]
    MaxAsking, \* bound: leave guards that run at once
    MaxAside,  \* bound: calls that concern the toggle or the status widgets
    MaxBars    \* bound: those, and calls that concern the bars, before one of the latter

\* What marks no mode, all modes and the close event is no mode's id.
ASSUME ModesAssumption == Modes \cap {"all", "none", "close"} = {}

VARIABLES
    actions,   \* the commands contributed
    bound,     \* those with a handler
    addedModes,     \* the modes, in the order they were added
    current,   \* NavigationService._current, or "none"
    page,      \* the page of the stack that shows
    checked,   \* the mode whose action is checked in the exclusive group
    live,      \* the actions added to the window: their shortcuts work
    builtMenus,     \* the top-level menus, once finish_setup() has built them
    enabled,   \* those that are enabled
    filled,    \* what the filled menus hold
    asking,    \* the guards that run: <<mode left, mode asked for or "close">>
    faults,    \* 1 once a guard has raised or been overtaken since the last change
    on,        \* the toggle's check, ...
    truth,     \* ... what its presenter says ...
    confirming,\* ... the check _run() read before it asked, if it is asking ...
    moved,     \* ... and whether the presenter spoke while it asked
    widgets,   \* [status widget -> "none", "shown", "hidden" by its owner, "deleted"]
    visible,   \* the slots that are visible
    bars,      \* which of the status bar and the mode bar show ...
    ticked,    \* ... and whose View command is checked
    closed,
    aside

menus == <<builtMenus, enabled, filled>>
window == <<page, checked, live, menus>>
toggling == <<on, truth, confirming, moved>>
statusArea == <<widgets, visible, bars, ticked>>
benchVars == <<actions, bound, addedModes, current, window, asking, faults, toggling, statusArea, closed, aside>>

\* _contribute_standard_commands(): a checked command for each bar that shows.
Bars == {"status", "mode"}

BenchInit ==
    /\ actions = {} /\ bound = {} /\ addedModes = <<>>
    /\ current = "none" /\ page = "none" /\ checked = "none" /\ live = {}
    /\ builtMenus = {} /\ enabled = {} /\ filled = {}
    /\ asking = <<>> /\ faults = 0
    /\ on = FALSE /\ truth = FALSE /\ confirming = {} /\ moved = FALSE
    /\ widgets = [w \in DOMAIN Scope |-> "none"] /\ visible = {}
    /\ bars = Bars /\ ticked = Bars
    /\ closed = FALSE /\ aside = 0

Aside == aside < MaxAside /\ aside' = aside + 1
----------------------------------------------------------------------------
Meet(s, t) == s = "all" \/ t = "all" \/ s = t

\* The menu's title in the menu bar, and the command's own text in the menu.
LabelsOf(c) ==
    {[parent |-> "", text |-> c.menu, letter |-> c.title, isMenu |-> TRUE],
     [parent |-> c.menu, text |-> c.id, letter |-> c.letter, isMenu |-> FALSE]}

\* One menu is spelled in one way, in all modes; two labels that can be on
\* screen together have different access keys.
Clash(mine, theirs, meet) ==
    /\ mine.parent = theirs.parent
    /\ IF mine.isMenu /\ theirs.isMenu /\ mine.text = theirs.text
       THEN mine.letter # theirs.letter
       ELSE meet /\ mine.letter = theirs.letter

Against(c, e) ==
    LET meet == Meet(c.scope, e.scope) IN
    \/ meet /\ c.key # "none" /\ c.key = e.key
    \/ \E mine \in LabelsOf(c), theirs \in LabelsOf(e) : Clash(mine, theirs, meet)

Refused(c) ==
    \/ \E e \in actions : e.id = c.id \/ Against(c, e)
    \/ c.key \in Reserved

\* contribute(), which raises when the command is refused.
Contribute(c) ==
    /\ ~Refused(c)
    /\ actions' = actions \cup {c}
    /\ UNCHANGED <<bound, addedModes, current, window, asking, faults, toggling, statusArea, closed, aside>>

Bind(c) ==
    /\ c \in actions \ bound
    /\ bound' = bound \cup {c}
    /\ UNCHANGED <<actions, addedModes, current, window, asking, faults, toggling, statusArea, closed, aside>>
----------------------------------------------------------------------------
InScope(m) == {c \in actions' : Meet(c.scope, m)}

\* _sync_live_actions(): every action is added to the window or removed from it.
Synced(m) == (live \ actions') \cup InScope(m)

Content(m) == {t \in builtMenus : \E c \in InScope(m) : c.menu = t}

\* StatusSlot._refresh(): the mode's answer, and the owner's.
Slots(m, w) == {x \in DOMAIN Scope : Meet(Scope[x], m) /\ w[x] = "shown"}

ShowMode_KeepsMenus(m) ==
    /\ page' = m /\ checked' = m
    /\ live' = Synced(m)
    /\ visible' = Slots(m, widgets) /\ enabled' = Content(m)
    /\ UNCHANGED <<builtMenus, filled>>

\* _show_mode(), connected to mode_changed; the menus refill when they open.
ShowMode(m) ==
    /\ page' = m /\ checked' = m
    /\ live' = Synced(m)
    /\ visible' = Slots(m, widgets) /\ enabled' = Content(m)
    /\ filled' = {} /\ UNCHANGED builtMenus

\* add_mode(), with register(): the first mode becomes the current one.
AddMode(m) ==
    /\ m \notin ToSet(addedModes) /\ ~Refused(ModeCommand[m])
    /\ actions' = actions \cup {ModeCommand[m]}
    /\ bound' = bound \cup {ModeCommand[m]}
    /\ addedModes' = Append(addedModes, m)
    /\ IF current = "none"
       THEN current' = m /\ ShowMode(m)
       ELSE UNCHANGED <<current, window, visible>>
    /\ UNCHANGED <<asking, faults, toggling, widgets, bars, ticked, closed, aside>>

\* finish_setup(): the menus that exist now are the menus there will be.
FinishSetup ==
    /\ builtMenus = {} /\ current # "none"
    /\ UNCHANGED <<actions, bound, addedModes, current, asking, faults, toggling, widgets, bars, ticked, closed, aside>>
    /\ page' = current /\ checked' = current
    /\ live' = Synced(current)
    /\ visible' = Slots(current, widgets)
    /\ builtMenus' = {c.menu : c \in actions}
    /\ enabled' = {c.menu : c \in InScope(current)} /\ filled' = {}

\* _fill(), when a menu is about to show.
OpenMenu(t) ==
    /\ t \in enabled
    /\ filled' = {c \in filled : c.menu # t}
                    \cup {c \in actions : c.menu = t /\ Meet(c.scope, current)}
    /\ UNCHANGED <<actions, bound, addedModes, current, page, checked, live, builtMenus, enabled,
                   asking, faults, toggling, statusArea, closed, aside>>
----------------------------------------------------------------------------
\* navigate() from code, or restore_state(): the guard of the current mode is
\* asked, and may run an event loop.
Navigate(m) ==
    /\ m \in ToSet(addedModes) /\ m # current /\ Len(asking) < MaxAsking
    /\ asking' = Append(asking, <<current, m>>)
    /\ UNCHANGED <<actions, bound, addedModes, current, window, faults, toggling, statusArea, closed, aside>>

\* A click on the mode's button: Qt checks it, and the others no more, first.
ModeClicked(m) ==
    /\ m \in ToSet(addedModes) /\ Len(asking) < MaxAsking
    /\ checked' = m
    /\ asking' = IF m = current THEN asking ELSE Append(asking, <<current, m>>)
    /\ UNCHANGED <<actions, bound, addedModes, current, page, live, menus, faults, toggling, statusArea, closed, aside>>

CloseEvent ==
    /\ current # "none" /\ Len(asking) < MaxAsking
    /\ asking' = Append(asking, <<current, "close">>)
    /\ UNCHANGED <<actions, bound, addedModes, current, window, faults, toggling, statusArea, closed, aside>>

Left == Last(asking)[1]
AskedFor == Last(asking)[2]
Overtaken == IF Len(asking) > 1 THEN 1 ELSE faults

\* The guard agrees; what it was asked of is not looked at again.
Agrees ==
    /\ asking # <<>>
    /\ asking' = Front(asking)
    /\ UNCHANGED <<actions, bound, addedModes, toggling, widgets, bars, ticked, aside>>
    /\ IF AskedFor = "close"
       THEN closed' = TRUE /\ UNCHANGED <<current, window, visible, faults>>
       ELSE /\ current' = AskedFor /\ ShowMode(AskedFor)
            /\ faults' = IF Len(asking) > 1 THEN 1 ELSE 0
            /\ UNCHANGED closed

Kept_Silently == checked

\* navigation_refused: the action of the mode that was kept is checked again.
Kept == IF AskedFor = "close" THEN checked ELSE Left

Refuses ==
    /\ asking # <<>>
    /\ asking' = Front(asking)
    /\ checked' = Kept
    /\ faults' = Overtaken
    /\ UNCHANGED <<actions, bound, addedModes, current, page, live, menus, toggling, statusArea, closed, aside>>

\* A guard that raises leaves navigate() and the slot that called it.
GuardRaises ==
    /\ asking # <<>>
    /\ asking' = Front(asking) /\ faults' = 1
    /\ UNCHANGED <<actions, bound, addedModes, current, window, toggling, statusArea, closed, aside>>
----------------------------------------------------------------------------
\* Whose shortcut works: an action of the window, or of a menu that is enabled.
Reachable == live \cup {c \in filled : c.menu \in enabled}

\* _run() of a toggle that has to be confirmed.
Trigger(c) ==
    /\ Aside
    /\ c \in Reachable \cap bound /\ c.toggle /\ confirming = {}
    /\ on' = ~on
    /\ confirming' = {~on}
    /\ UNCHANGED <<actions, bound, addedModes, current, window, asking, faults, truth, moved, statusArea, closed>>

Confirmed ==
    /\ confirming # {}
    /\ truth' \in confirming
    /\ confirming' = {} /\ UNCHANGED <<on, moved>>
    /\ UNCHANGED <<actions, bound, addedModes, current, window, asking, faults, statusArea, closed, aside>>

Back_Stays == on

Back == CHOOSE b \in BOOLEAN : b \notin confirming

Cancelled ==
    /\ confirming # {}
    /\ on' = Back
    /\ confirming' = {} /\ UNCHANGED <<truth, moved>>
    /\ UNCHANGED <<actions, bound, addedModes, current, window, asking, faults, statusArea, closed, aside>>

\* The presenter's `checked` signal is connected to setChecked().
PresenterSays(b) ==
    /\ Aside
    /\ \E c \in bound : c.toggle
    /\ truth' = b /\ on' = b
    /\ moved' = (confirming # {})
    /\ UNCHANGED <<actions, bound, addedModes, current, window, asking, faults, confirming, statusArea, closed>>
----------------------------------------------------------------------------
\* add_status_widget(), and the owner's show(), hide() and deletion, which the
\* slot's event filter and _forget_widget() follow.
Owner(w, s) ==
    /\ Aside
    /\ widgets[w] # s /\ widgets[w] # "deleted"
    /\ s = "shown" \/ widgets[w] # "none"
    /\ widgets' = [widgets EXCEPT ![w] = s]
    /\ visible' = (visible \ {w}) \cup ({w} \cap Slots(current, widgets'))
    /\ UNCHANGED <<actions, bound, addedModes, current, window, asking, faults, toggling, bars, ticked, closed>>

AsideOnBars == aside < MaxBars /\ aside' = aside + 1

\* _on_status_bar() and _on_mode_bar(), from the menu: the click has changed the check.
BarClicked(b) ==
    /\ AsideOnBars /\ builtMenus # {}
    /\ ticked' = (IF b \in ticked THEN ticked \ {b} ELSE ticked \cup {b})
    /\ bars' = (bars \ {b}) \cup ({b} \cap ticked')
    /\ UNCHANGED <<actions, bound, addedModes, current, window, asking, faults, toggling,
                   widgets, visible, closed>>

Followed_NotAtAll == ticked

\* The toolbar's own toggle action, which its check is connected to.
Followed == (ticked \ {"mode"}) \cup (bars' \cap {"mode"})

\* The popup of the toolbar area shows or hides the mode bar without the command.
QtTogglesModeBar ==
    /\ AsideOnBars
    /\ bars' = (IF "mode" \in bars THEN bars \ {"mode"} ELSE bars \cup {"mode"})
    /\ ticked' = Followed
    /\ UNCHANGED <<actions, bound, addedModes, current, window, asking, faults, toggling,
                   widgets, visible, closed>>

\* restore_state() with what capture_state() of an earlier run kept: Qt's part
\* with the mode bar, the status bar's flag, and the mode, which is asked for
\* like any other when the application still has it.  No dialog is open then.
RestoreState(shown, m) ==
    /\ AsideOnBars /\ asking = <<>>
    /\ bars' = shown
    /\ ticked' = (Followed \ {"status"}) \cup (shown \cap {"status"})
    /\ IF m \in ToSet(addedModes) /\ m # current
       THEN asking' = <<<<current, m>>>>
       ELSE UNCHANGED asking
    /\ UNCHANGED <<actions, bound, addedModes, current, window, faults, toggling,
                   widgets, visible, closed>>

BenchNext ==
    /\ ~closed
    /\ \/ \E c \in Commands : Contribute(c) \/ Bind(c) \/ Trigger(c)
       \/ \E m \in Modes : AddMode(m) \/ Navigate(m) \/ ModeClicked(m)
       \/ FinishSetup \/ \E t \in enabled : OpenMenu(t)
       \/ CloseEvent \/ Agrees \/ Refuses \/ GuardRaises
       \/ Confirmed \/ Cancelled \/ \E b \in BOOLEAN : PresenterSays(b)
       \/ \E w \in DOMAIN Scope, s \in {"shown", "hidden", "deleted"} : Owner(w, s)
       \/ QtTogglesModeBar \/ \E b \in Bars : BarClicked(b)
       \/ \E shown \in SUBSET Bars, m \in Modes : RestoreState(shown, m)

BenchSpec == BenchInit /\ [][BenchNext]_benchVars
----------------------------------------------------------------------------
\* A key does one thing: of the commands whose shortcuts work, in the window or
\* in a menu that was opened, all belong to the mode that shows, and no two
\* share a key, though commands of two modes may.
KeysAreUnambiguous ==
    /\ \A c \in Reachable : Meet(c.scope, current)
    /\ \A c, d \in Reachable : c # d => c.key = "none" \/ c.key # d.key

\* The page that shows is the current mode's, and so is the button that is
\* checked once no guard is being asked -- unless a guard raised or another
\* navigation went through while it was asked.
ModeIsShown ==
    /\ page = current
    /\ asking = <<>> /\ faults = 0 => checked = current

\* The toggle's check says what its presenter says, once nothing is being
\* confirmed, unless the presenter spoke during a confirmation.
ToggleIsTrue == confirming = {} /\ ~moved => on = truth

\* A status widget shows in its mode, and only while its owner shows it.
StatusIsShown == visible = Slots(current, widgets)

\* A bar's command is checked exactly while the bar shows, whether the command,
\* Qt's own popup or a restored layout changed that last.
BarsAreTicked == bars = ticked

\* Window, mode, keys, checks and status agree, in whatever order the person clicks.
ShellKept ==
    KeysAreUnambiguous /\ ModeIsShown /\ ToggleIsTrue /\ StatusIsShown /\ BarsAreTicked
=============================================================================
