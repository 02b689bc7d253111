---------------------------- MODULE WiringDoctor ----------------------------
(***************************************************************************)
(* WiringInspector and the doctor command: static checks of what an        *)
(* application has registered, and the exit code made of them.             *)
(***************************************************************************)
EXTENDS Integers, Sequences, SequencesExt, FiniteSets

CONSTANTS TypeOrder,   \* the types, in the order they were registered
          Abstract,    \* types that cannot be instantiated
          Ways,        \* <<type, kind, class>>: the registrations to try
          Near         \* <<event name, name it may be a misspelling of>>

Types == ToSet(TypeOrder)
Classes == Types \ Abstract
Names == {x[1] : x \in Near} \cup {x[2] : x \in Near}

VARIABLES phase,   \* where main() is, or boot() with a DiagnosticsExtension
          app,     \* what the factory has built, or Nothing
          report,  \* the findings: <<check, severity, subject>>
          exit     \* the exit code, or -1

vars == <<phase, app, report, exit>>

\* An application.  reg: how each type is registered, of: the class bound to it
\* or the class of its instance; params: what each class's __init__ takes;
\* services and jobs: does each run.
Plain ==
    [reg |-> [t \in Types |-> "none"], of |-> [t \in Types |-> "none"],
     params |-> [c \in Classes |-> [t \in Types |-> "none"]], handlers |-> {},
     declared |-> {}, typed |-> {}, subscribed |-> {}, expected |-> {},
     extensions |-> <<>>, services |-> {}, jobs |-> {}]

Nothing == [Plain EXCEPT !.reg = <<>>]

Registrations == {r \in SUBSET Ways : \A t \in Types : Cardinality({w \in r : w[1] = t}) <= 1}

\* Each is <<type, kind, class>>: bind() of a class, singleton() with an
\* instance of a class, or with a factory.  At most one parameter has a default.
Container(ways, needed, default) ==
    [Plain EXCEPT
        !.reg = [t \in Types |-> IF \E w \in ways : w[1] = t
                                  THEN (CHOOSE w \in ways : w[1] = t)[2] ELSE "none"],
        !.of = [t \in Types |-> IF \E w \in ways : w[1] = t
                                 THEN (CHOOSE w \in ways : w[1] = t)[3] ELSE "none"],
        !.params = [c \in Classes |-> [t \in Types |->
            IF <<c, t>> = default THEN "default" ELSE IF t \in needed[c] THEN "needed" ELSE "none"]],
        !.handlers = {t \in Types : \A w \in ways : w[1] # t}]

EventWiring(declared, typed, subscribed, expected) ==
    [Plain EXCEPT !.declared = declared, !.typed = typed, !.subscribed = subscribed,
                  !.expected = expected]

Parts(x, y, services, jobs) ==
    [Plain EXCEPT !.extensions = <<x, y>>, !.services = services, !.jobs = jobs]
----------------------------------------------------------------------------
Injectable_Defaults(c) == SelectSeq(TypeOrder, LAMBDA t : app.params[c][t] # "none")

\* _constructor_dependencies(): parameters with a default are left out.
Injectable(c) == SelectSeq(TypeOrder, LAMBDA t : app.params[c][t] = "needed")

Registered == {t \in Types : app.reg[t] # "none"}

\* A bound class that is itself abstract takes no parameters here.
Dependencies(c) == IF c \in Classes THEN Injectable(c) ELSE <<>>

\* C1 and C2, B1 and B2: an unbound abstract type raises, an unbound class is
\* constructed by the container in place of what was meant.
Unbindable(c, error, warning) ==
    {<<IF t \in Abstract THEN error ELSE warning,
       IF t \in Abstract THEN "error" ELSE "warning", c>> :
        t \in ToSet(Dependencies(c)) \ Registered}

\* _cycles(): what each registered type's class needs; the concrete class of a
\* factory is not known before it runs.
Edges(t) == IF app.reg[t] \in {"bind", "instance"} THEN Dependencies(app.of[t]) ELSE <<>>

\* Depth first, with what was walked to its end and the cycles found so far.
RECURSIVE Walk(_, _, _)
Walk(t, path, found) ==
    IF t \in ToSet(path)
    THEN LET first == CHOOSE i \in DOMAIN path : path[i] = t
         IN  [found EXCEPT !.cycles = @ \cup {ToSet(SubSeq(path, first, Len(path)))}]
    ELSE IF t \in found.seen THEN found
    ELSE LET after == FoldLeft(LAMBDA f, d : Walk(d, Append(path, t), f), found, Edges(t))
         IN  [after EXCEPT !.seen = @ \cup {t}]

Cycles == FoldLeft(LAMBDA f, t : IF Edges(t) = <<>> THEN f ELSE Walk(t, <<>>, f),
                   [seen |-> {}, cycles |-> {}], TypeOrder).cycles

\* A factory is opaque and an instance has proved itself by existing.
InspectContainer ==
    UNION {Unbindable(app.of[t], "C1", "C2") : t \in {u \in Types : app.reg[u] = "bind"}}
        \cup {<<"C3", "error", c>> : c \in Cycles}

InspectHandlers(handlers) ==
    UNION {Unbindable(c, "B1", "B2") : c \in handlers}
        \cup {<<"B3", "info", c>> : c \in {h \in handlers : Injectable(h) # <<>>}}

\* A2: a subscription to a name nobody declared, likely a misspelling; A1:
\* declared, unheard and not expected to be; A5: subscribed by a string.
InspectEvents ==
    LET unknown == app.subscribed \ app.declared
        typos == {n \in unknown : \E d \in app.declared : <<n, d>> \in Near \/ <<d, n>> \in Near}
    IN  {<<"A2", "error", n>> : n \in typos}
        \cup {<<"A2", "warning", n>> : n \in unknown \ typos}
        \cup {<<"A1", "info", n>> : n \in app.declared \ (app.subscribed \cup app.expected)}
        \cup {<<"A5", "info", n>> : n \in (app.subscribed \cap app.declared) \ app.typed}

\* D1: enabled but never initialized; D2: a service that never started; D3: a
\* job with no next run.
InspectLifecycle ==
    {<<"D1", "error", i>> : i \in {j \in DOMAIN app.extensions :
        app.extensions[j].enabled /\ ~app.extensions[j].initialized}}
    \cup {<<"D2", "warning", s>> : s \in app.services \cap {FALSE}}
    \cup {<<"D3", "warning", s>> : s \in app.jobs \cap {FALSE}}

\* Packages the application has imported: only there are handlers found, and a
\* name that matches none of them is an error of the command line.
Loaded == {"app"}
LooksDispatchable(t) == t \in Classes
Discovered(packages) ==
    IF packages \cap Loaded = {} THEN {} ELSE {t \in app.handlers : LooksDispatchable(t)}
Unmatched(packages) == packages \ Loaded

Inspected(handlers) ==
    InspectEvents \cup InspectContainer \cup handlers \cup InspectLifecycle

Having(severity) == {f \in report : f[2] = severity}
----------------------------------------------------------------------------
Init == phase = "load" /\ app = Nothing /\ report = {} /\ exit = -1

\* load_factory(): an argument that names no callable, or a module that raises
\* while it is imported.
LoadFails ==
    /\ phase = "load"
    /\ phase' = "exited" /\ exit' = 2
    /\ UNCHANGED <<app, report>>

Load ==
    /\ phase = "load"
    /\ phase' = "build"
    /\ UNCHANGED <<app, report, exit>>

\* The factory raises, returns no App, or one that has not been booted.
BuildFails ==
    /\ phase = "build"
    /\ phase' = "exited" /\ exit' = 2
    /\ UNCHANGED <<app, report>>

Build ==
    /\ phase = "build"
    /\ \/ \E ways \in Registrations, needed \in [Classes -> SUBSET Types],
            default \in (Classes \X Types) \cup {<<>>} :
            app' = Container(ways, needed, default)
       \/ \E declared, subscribed \in SUBSET Names, expected \in {{}, Names} :
            \E typed \in SUBSET declared : app' = EventWiring(declared, typed, subscribed, expected)
       \/ \E x, y \in [enabled : BOOLEAN, initialized : BOOLEAN], s, j \in SUBSET BOOLEAN :
            app' = Parts(x, y, s, j)
    /\ phase' = "inspect"
    /\ UNCHANGED <<report, exit>>

\* main(), with the packages named by --handler-package.
Inspect(packages) ==
    /\ phase = "inspect"
    /\ IF Unmatched(packages) = {}
       THEN /\ report' = Inspected(InspectHandlers(Discovered(packages)))
            /\ phase' = "inspected" /\ UNCHANGED exit
       ELSE phase' = "exited" /\ exit' = 2 /\ UNCHANGED report
    /\ UNCHANGED app

\* DiagnosticsExtension, at readiness: errors stop the boot if it is to fail
\* fast, warnings never do, and a package that matches nothing finds nothing.
BootInspect(packages, failFast) ==
    /\ phase = "inspect"
    /\ report' = Inspected(InspectHandlers(Discovered(packages)))
    /\ phase' = IF failFast /\ \E f \in report' : f[2] = "error" THEN "raised" ELSE "booted"
    /\ UNCHANGED <<app, exit>>

\* main(): warnings count with --strict only.
Exit(strict) ==
    /\ phase = "inspected"
    /\ exit' = IF Having("error") # {} \/ (strict /\ Having("warning") # {}) THEN 1 ELSE 0
    /\ phase' = "exited"
    /\ UNCHANGED <<app, report>>

Next ==
    \/ LoadFails \/ Load \/ BuildFails \/ Build
    \/ \E packages \in SUBSET {"app", "typo"} :
         Inspect(packages) \/ \E f \in BOOLEAN : BootInspect(packages, f)
    \/ \E s \in BOOLEAN : Exit(s)

Spec == Init /\ [][Next]_vars
----------------------------------------------------------------------------
\* Reference: what the container's resolve() does, given factories that return.
RECURSIVE Resolves(_, _)
Resolves(t, resolving) ==
    \/ app.reg[t] \in {"instance", "factory"}
    \/ LET c == IF app.reg[t] = "bind" THEN app.of[t] ELSE t IN
         /\ c \notin resolving \cup Abstract
         /\ \A d \in Types : app.params[c][d] = "needed" => Resolves(d, resolving \cup {c})

\* A report with no error and no warning means that what the inspector can see
\* into can be resolved, except for a class bound though it is abstract, which
\* no check looks at; and a dependency reported as unbound and abstract, or a
\* cycle no instance breaks, does raise.
FindingsAreRight ==
    phase \in {"inspected", "booted", "raised"} =>
        LET bound == {t \in Types : app.reg[t] = "bind"}
        IN /\ (/\ Having("error") \cup Having("warning") = {}
               /\ \A t \in bound : app.of[t] \in Classes)
              => /\ \A t \in bound : Resolves(t, {})
                 /\ \A f \in report : f[1] = "B3" => Resolves(f[3], {})
           /\ \A f \in report :
                /\ f[1] = "C1" => \A t \in bound : app.of[t] = f[3] => ~Resolves(t, {})
                /\ f[1] = "B1" => ~Resolves(f[3], {})
                /\ f[1] = "C3" => \A t \in f[3] : f[3] \subseteq bound => ~Resolves(t, {})

\* Exit code 0 or 1 is a statement about wiring that was inspected: a doctor
\* that could not run never looks like a healthy or a sick application, and a
\* handler that never runs for a misspelt name, or an extension that never came
\* up, is not reported as health.
ExitIsHonest ==
    /\ exit \in {0, 1} => app # Nothing
    /\ exit = 0 => /\ \A n \in app.subscribed \ app.declared : \A d \in app.declared :
                        <<n, d>> \notin Near
                   /\ \A i \in DOMAIN app.extensions :
                        app.extensions[i].enabled => app.extensions[i].initialized

\* What the doctor says, finding by finding and as an exit code, is so.
DoctorIsRight == FindingsAreRight /\ ExitIsHonest
=============================================================================
