----------------------------- MODULE MCServices -----------------------------
(***************************************************************************)
(* The services of an application and the parts of its desktop, each       *)
(* checked on its own small instance in one run: `part` picks the          *)
(* component of a behaviour, and the variables of the others stay as they  *)
(* are.                                                                    *)
(***************************************************************************)
EXTENDS TrackedWork, StateMachine, Container, Database, UiState, Observers, Desktop, TLC

CONSTANTS c1, c2,  \* callers, threads
          k1, k2,  \* keys, coroutines, databases, screens, pages
          NoOne,   \* no caller, no key
          Part     \* the components to check

VARIABLE part
VARIABLES phaseOfDoctor, inspected, report, exit

\* A repository that takes a database, which a lambda resolves from its class.
MCDeps == [Repo |-> <<"IDb">>, Db |-> <<"Db">>]
MCOptional == {<<"Db", "Db">>}
MCLazy == "Repo" :> "Repo"
MCCallable == "IDb" :> "Db"
MCBound == <<>>

\* A machine that stays busy when it goes again, and registrations to look at.
MCMatrix == <<"idle", "go">> :> "busy" @@ <<"busy", "go">> :> "idle" @@ <<"busy", "end">> :> "idle"
Ways == {<<"I", "bind", "A">>, <<"I", "bind", "B">>, <<"I", "bind", "I">>,
         <<"I", "factory", "none">>, <<"A", "bind", "A">>, <<"A", "factory", "none">>,
         <<"B", "bind", "B">>, <<"B", "instance", "B">>}

\* Two modes whose commands and titles share a key, and one command of the application.
Command(i, s, k, m, t, l, g) ==
    [id |-> i, scope |-> s, key |-> k, menu |-> m, title |-> t, letter |-> l, toggle |-> g]
MCCommands == {Command("buy", "m1", "F5", "Trade", "t", "b", FALSE),
             Command("refresh", "m2", "F5", "Trade", "t", "r", FALSE),
             Command("lock", "all", "F5", "View", "v", "l", TRUE)}
MCModeCommand == [m1 |-> Command("mode.m1", "all", "Ctrl+1", "View", "v", "1", FALSE),
                m2 |-> Command("mode.m2", "all", "Ctrl+2", "View", "v", "2", FALSE)]

\* Two docks that would share a title.
MCPanels == {[id |-> "a", place |-> "left", title |-> "Orders", order |-> 1],
           [id |-> "b", place |-> "right", title |-> "Orders", order |-> 2],
           [id |-> "d", place |-> "top", title |-> "Bar", order |-> 3]}
MCRegion == [left |-> "dock", right |-> "dock", top |-> "toolbar"]

\* Numbers of three types, NaN, durations, moments with and without an offset.
MCDisplayValues ==
    {[type |-> "none", value |-> 0]}
        \cup [type : {"int", "duration", "moment", "other"}, value : {1, 2}]
        \cup [type : {"float", "decimal"}, value : {NaN, 1}]
        \cup [type : {"moment"}, value : {1}, offset : {0, 1}]

MCScreens == <<k1, k2>>
MCMethods == SUBSET {"named", "mutator", "slot", "optout"}
MCScope == [w |-> "m1"]

W == INSTANCE WiringDoctor WITH
        TypeOrder <- <<"I", "A", "B">>, Abstract <- {"I"}, Ways <- Ways, Near <- {<<"e", "f">>},
        phase <- phaseOfDoctor, app <- inspected

wiringVars == <<phaseOfDoctor, inspected, report, exit>>
mcVars == <<part, asyncVars, exclusiveVars, scopeVars, containerVars, machineVars, shardVars,
            databaseVars, configVars, uiVars, coordinated, wiringVars, monitorVars, healthVars,
            consoleVars, logsVars, guiVars, screensVars, viewVars, column, outputVars, benchVars,
            optionsVars, layoutsVars>>

\* A component that is not picked has one initial state, out of its several.
MCInit ==
    /\ part \in Part
    /\ AsyncInit
    /\ ExclusiveInit
    /\ ScopeInit
    /\ ContainerInit
    /\ MachineInit
    /\ ShardInit /\ (part # "shards" => files = [p \in Locations |-> 0])
    /\ DatabaseInit
    /\ SettingsInit /\ (part # "settings" => file = Nothing /\ ~coordinated)
    /\ W!Init
    /\ MonitorInit /\ (part # "monitor" => handlers = [e \in EventNames |-> 0])
    /\ HealthInit /\ (part # "health" => binding = "absent" /\ reachable /\ manager[k1] = "absent")
    /\ ConsoleInit
    /\ LogsInit /\ (part # "logs" => ~viewer)
    /\ ViewInit /\ (part # "view" => viewport = 2)
    /\ OrderInit /\ (part # "order" => column = [i \in 1..Rows |-> [type |-> "none", value |-> 0]])
    /\ OutputInit
    /\ BenchInit
    /\ OptionsInit
    /\ LayoutsInit
    /\ GuiInit /\ (part # "mutators" => method = {"named", "mutator"})
               /\ (part \notin {"mutators", "thread"} => ~dev)
    /\ ScreensInit

\* The watchdog beside one worker that calls a guarded method twice; any method,
\* with two workers and three calls, while nothing watches.
GuiStep ==
    \/ part = "thread" /\ GuiNext
       /\ Len(mutations') <= 2 /\ \A i \in DOMAIN mutations' : mutations'[i][1][1] # c2
    \/ part = "mutators" /\ GuiNext /\ now' = 0 /\ starts' = 0

\* Commands and modes, while the bars stay as they are; the bars, with the modes' own
\* commands only.
BenchStep ==
    \/ part = "bench" /\ BenchNext /\ aside' <= 2 /\ bars' = bars /\ ticked' = ticked
    \/ part = "bars" /\ BenchNext /\ actions' \subseteq {ModeCommand[m] : m \in Modes}

MCNext ==
    /\ UNCHANGED part
    /\ IF part = "async"     THEN AsyncNext     ELSE UNCHANGED asyncVars
    /\ IF part = "exclusive" THEN ExclusiveNext ELSE UNCHANGED exclusiveVars
    /\ IF part = "scope"     THEN ScopeNext     ELSE UNCHANGED scopeVars
    /\ IF part = "container" THEN ContainerNext ELSE UNCHANGED containerVars
    /\ IF part = "shards"    THEN ShardNext     ELSE UNCHANGED shardVars
    /\ IF part = "database"  THEN DatabaseNext  ELSE UNCHANGED databaseVars
    /\ IF part = "settings"  THEN SettingsNext
                             ELSE UNCHANGED <<configVars, uiVars, coordinated>>
    /\ IF part = "machine"   THEN MachineNext   ELSE UNCHANGED machineVars
    /\ IF part = "doctor"    THEN W!Next        ELSE UNCHANGED wiringVars
    /\ IF part = "monitor"   THEN MonitorNext   ELSE UNCHANGED monitorVars
    /\ IF part = "health"    THEN HealthNext    ELSE UNCHANGED healthVars
    /\ IF part = "console"   THEN ConsoleNext   ELSE UNCHANGED consoleVars
    /\ IF part = "logs"      THEN LogsNext      ELSE UNCHANGED logsVars
    /\ IF part = "view"      THEN ViewNext      ELSE UNCHANGED viewVars
    /\ IF part = "order"     THEN OrderNext     ELSE UNCHANGED column
    /\ IF part = "output"    THEN OutputNext    ELSE UNCHANGED outputVars
    /\ IF part \in {"bench", "bars"}      THEN BenchStep ELSE UNCHANGED benchVars
    /\ IF part = "options"   THEN OptionsNext   ELSE UNCHANGED optionsVars
    /\ IF part = "layouts"   THEN LayoutsNext   ELSE UNCHANGED layoutsVars
    /\ IF part \in {"thread", "mutators"} THEN GuiStep   ELSE UNCHANGED guiVars
    /\ IF part = "screens"   THEN ScreensNext   ELSE UNCHANGED screensVars

MCSpec == MCInit /\ [][MCNext]_mcVars

\* The wiring report says what the container would do, and the exit code what the
\* report says (inspector.py, doctor.py).
DoctorIsRight == W!DoctorIsRight
=============================================================================
