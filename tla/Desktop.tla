------------------------------- MODULE Desktop -------------------------------
(***************************************************************************)
(* The parts of a desktop application side by side: the GUI thread and the *)
(* presenters on it, the views that show data, and the workbench around    *)
(* them with its dialogs and layouts.                                      *)
(***************************************************************************)
EXTENDS UiThread, Presenters, ItemView, DisplayOrder, OutputPane, Workbench, Options, Layouts

ScreenSpec == GuiSpec /\ ScreensSpec /\ ViewSpec /\ OrderSpec /\ OutputSpec
WorkbenchSpec == BenchSpec /\ OptionsSpec /\ LayoutsSpec

\* What a screen shows, and how it gets there: a freeze is reported once, calls reach
\* the GUI thread in order (ui_watchdog.py, thread_affinity.py), a presenter hears an
\* event once (presenter_manager.py); columns keep what the user did
\* (configure_item_view.py), rows sort (display_value_order.py), an output shows its
\* last lines (log_list_model.py).
ScreenKept == UiThreadKept /\ PresentersKept /\ ViewKept /\ RowsSort /\ OutputKept

\* What is around it: the window shows the mode and its commands (workbench_shell.py),
\* a dialog lets go of its pages (options_dialog.py), a layout goes back to its panels
\* (perspective_store.py).
WorkbenchKept == ShellKept /\ OptionsKept /\ LayoutsKept
=============================================================================
