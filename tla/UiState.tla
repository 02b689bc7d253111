------------------------------ MODULE UiState ------------------------------
(***************************************************************************)
(* UiState: screens remember a slice of state each.  A coordinator on the   *)
(* Qt main thread writes what changed after a debounce, through a           *)
(* ConfigManager of its own over one JSON file; Settings are the scopes.        *)
(***************************************************************************)
EXTENDS Config

Empty == "empty"    \* the slice that discard() writes
Default == "default"

VARIABLES
    screen,   \* [scope -> what its contributor shows, or Absent while it is not built]
    changed,  \* the coordinator's _dirty
    timer,    \* the debounce timer runs
    writing,  \* scopes of the current _write_dirty_contributors() still to write
    saving,   \* the store has set() a slice and not yet saved
    leaving,  \* shutdown() is flushing
    expected, \* [scope -> what the next run should find]
    failed,   \* a save of this run did not write what it should
    refused,  \* scopes whose capture_state() raised, and not changed since
    givenUp,  \* scopes whose write was given up because another's raised, and not changed since
    forgotten, \* scopes discarded and not changed since
    coordinated \* a coordinator has the configuration manager

uiVars == <<screen, changed, timer, writing, saving, leaving, expected, failed,
            refused, givenUp, forgotten>>

UiInit ==
    /\ ConfigInit
    /\ screen = Nothing /\ changed = {} /\ timer = FALSE /\ writing = {} /\ saving = FALSE
    /\ leaving = FALSE /\ expected = file /\ failed = FALSE
    /\ refused = {} /\ givenUp = {} /\ forgotten = {}

\* The main thread is in its event loop.
Idle == writing = {} /\ ~saving /\ ~leaving

\* A presenter is built when its screen is first shown: restore_into().  An empty
\* or absent slice leaves the defaults.
Open(s) ==
    /\ Idle /\ screen[s] = Absent
    /\ screen' = [screen EXCEPT ![s] = IF Cache[s] \in {Absent, Empty} THEN Default ELSE Cache[s]]
    /\ loaded' = TRUE /\ cache' = Cache /\ labels' = Labels
    /\ UNCHANGED <<file, broken, sources, dirty, wanted, saved, changed, timer, writing, saving,
                   leaving, expected, failed, refused, givenUp, forgotten>>

\* The user changes something on the screen: mark_dirty() restarts the timer.
ScreenChanges(s, v) ==
    /\ Idle /\ screen[s] # Absent /\ screen[s] # v
    /\ screen' = [screen EXCEPT ![s] = v]
    /\ changed' = changed \cup {s} /\ timer' = TRUE
    /\ expected' = [expected EXCEPT ![s] = v]
    /\ forgotten' = forgotten \ {s}
    /\ refused' = refused \ {s} /\ givenUp' = givenUp \ {s}
    /\ UNCHANGED <<configVars, writing, saving, leaving, failed>>

TimerFires ==
    /\ Idle /\ timer /\ timer' = FALSE
    /\ writing' = changed /\ changed' = {}
    /\ UNCHANGED <<configVars, screen, saving, leaving, expected, failed, refused, givenUp, forgotten>>

\* UiStateExtension.shutdown() flushes what the timer has not written.
Leave ==
    /\ Idle /\ leaving' = TRUE /\ timer' = FALSE
    /\ writing' = changed /\ changed' = {}
    /\ UNCHANGED <<configVars, screen, saving, expected, failed, refused, givenUp, forgotten>>

\* IStateStore.write(): the slice is set and the file saved.
Write(s) ==
    /\ ~saving /\ s \in writing /\ writing' = writing \ {s}
    /\ Set(s, screen[s]) /\ saving' = TRUE
    /\ UNCHANGED <<screen, changed, timer, leaving, expected, failed, refused, givenUp, forgotten>>

\* capture_state() raises: what is left of the flush is not written, and _dirty has
\* been cleared before it began.  (A flush is in the order of _dirty, here in any.)
CaptureRaises(s) ==
    /\ ~saving /\ s \in writing /\ writing' = {}
    /\ refused' = refused \cup {s} /\ givenUp' = givenUp \cup (writing \ {s})
    /\ UNCHANGED <<configVars, screen, changed, timer, saving, leaving, expected, failed, forgotten>>

StillPending_All(s) == changed

\* discard() cancels the write that is pending for its scope.
StillPending(s) == changed \ {s}

Discard(s) ==
    /\ Idle /\ screen[s] # Absent
    /\ changed' = StillPending(s)
    /\ Set(s, Empty) /\ saving' = TRUE
    /\ expected' = [expected EXCEPT ![s] = Empty]
    /\ forgotten' = forgotten \cup {s}
    /\ refused' = refused \ {s} /\ givenUp' = givenUp \ {s}
    /\ UNCHANGED <<screen, timer, writing, leaving, failed>>

\* discard_keys() rewrites the slice without the keys; a write that is pending for
\* the scope brings them back.
DiscardKeys(s) ==
    /\ Idle /\ Cache[s] \in Values
    /\ Set(s, Empty) /\ saving' = TRUE
    /\ expected' = IF s \in changed THEN expected ELSE [expected EXCEPT ![s] = Empty]
    /\ refused' = refused \ {s} /\ givenUp' = givenUp \ {s}
    /\ UNCHANGED <<screen, changed, timer, writing, leaving, failed, forgotten>>

\* save() at the end of a write and of every flush.  An OSError is logged once and
\* the keys stay dirty; a slice that is no JSON raises when the file has been
\* truncated, and ends the flush.
SaveSlice ==
    /\ saving /\ saving' = FALSE
    /\ \/ Save /\ UNCHANGED <<failed, writing>>
       \/ SaveUnread /\ failed' = TRUE /\ UNCHANGED writing
       \/ SaveFails /\ failed' = TRUE /\ writing' \in {writing, {}}
       \/ failed' = TRUE /\ UNCHANGED <<configVars, writing>>
    /\ UNCHANGED <<screen, changed, timer, leaving, expected, refused, givenUp, forgotten>>

Restarted ==
    /\ screen' = Nothing /\ changed' = {} /\ timer' = FALSE /\ writing' = {} /\ saving' = FALSE
    /\ leaving' = FALSE /\ failed' = FALSE /\ refused' = {} /\ givenUp' = {} /\ forgotten' = {}

\* The process ends when the flush is done.
Exit ==
    /\ leaving /\ writing = {} /\ ~saving
    /\ Restarted /\ Starts /\ UNCHANGED <<file, broken, saved>>
    /\ expected' = [s \in Settings |-> IF failed \/ s \in refused \cup givenUp THEN FileContents[s] ELSE expected[s]]

Crash ==
    /\ Restart /\ Restarted
    /\ expected' = IF broken' THEN Nothing ELSE file

UiNext ==
    \/ TimerFires \/ Leave \/ SaveSlice \/ Exit \/ Crash
    \/ \E s \in Settings : Open(s) \/ Write(s) \/ CaptureRaises(s) \/ Discard(s) \/ DiscardKeys(s) \/ \E v \in Values : ScreenChanges(s, v)

\* A configuration manager is the coordinator's own, or one that has none.
SettingsInit == UiInit /\ coordinated \in BOOLEAN
SettingsNext ==
    /\ UNCHANGED coordinated
    /\ IF coordinated THEN UiNext ELSE ConfigNext /\ UNCHANGED uiVars

SettingsSpec == SettingsInit /\ [][SettingsNext]_<<configVars, uiVars, coordinated>>
----------------------------------------------------------------------------
\* What the screens showed when a run ended is what the next run finds: also for
\* screens that were not built in it, for changes inside the debounce window, and
\* after truncated files have been replaced.  While a run lasts, only what is
\* pending or being written is not yet on disk.  Left out are the slices of a flush
\* that a capture_state() ended, until they change again, and all of a run in which
\* a save did not write what it should.
Unwritten(s) == s \in changed \cup writing \cup refused \cup givenUp \/ saving \/ failed
ScreensRemembered == \A s \in Settings : Unwritten(s) \/ FileContents[s] = expected[s]

\* "teardown() calls this so a quit inside the debounce window is not lost": when the
\* flush of shutdown() is over, every screen that could be captured is on disk.
\* _write_dirty_contributors() clears _dirty first and stops at the first raise.
QuitIsNotLost ==
    leaving /\ writing = {} /\ ~saving /\ ~failed =>
        \A s \in Settings \ refused : FileContents[s] = expected[s]

\* A discarded slice is not brought back by a write that was pending.
DiscardedStaysGone == \A s \in forgotten : Cache[s] = Empty

\* What the screens remember, and what they were told to forget, outlives the run.
UiStateKept == ScreensRemembered /\ DiscardedStaysGone

\* What was set is read, saved and loaded again (config_manager.py), by the screens too
\* where a coordinator sets it (ui_state_coordinator.py).
SettingsKept == ConfigKept /\ (coordinated => UiStateKept)
=============================================================================
