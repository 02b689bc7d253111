------------------------------ MODULE Observers ------------------------------
(***************************************************************************)
(* What watches an application while it runs, side by side: each part has  *)
(* a source of its own, and shares no state with the others.               *)
(***************************************************************************)
EXTENDS RuntimeMonitor, Health, StateConsole, LogViewer

ObserversSpec == MonitorSpec /\ HealthSpec /\ ConsoleSpec /\ LogsSpec

\* What watches an application is right about it: the monitor counts everything
\* once (diagnostics/runtime.py), a health report was measured
\* (health_check_query.py), a console is fresh, and stops
\* (state_console/extension.py), a viewer receives every record in order, but for
\* the dropped ones (tcp_log_viewer_handler.py).
ObserversAreRight == MonitorKept /\ ReportsAreMeasured /\ ConsoleKept /\ LogsKept
=============================================================================
