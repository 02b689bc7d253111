------------------------------- MODULE Health -------------------------------
(***************************************************************************)
(* HealthExtension: the boot report, and one report for each               *)
(* HealthCheckRequested, measured step by step while the database and the  *)
(* registrations change.                                                   *)
(***************************************************************************)
EXTENDS Integers

CONSTANTS Requesters,   \* threads on which requests are handled
          Managers,  \* registrations whose name says database
          MaxChecks, \* bound: reports
          MaxSwitches \* bound: changes of what is measured

VARIABLES
    binding,  \* ISession in the container: "absent", "raises" or "resolves"
    reachable,  \* the session's database answers SELECT 1
    manager,  \* [registration -> "absent", "works" or "fails" to resolve]
    healthPc, \* where each thread's _report_health() is
    known,    \* the registrations the sweep has yet to try
    status,   \* the report the thread is making: <<status, database>>
    meanwhile,\* what was true since it was requested
    published,\* the reports emitted, with what was true meanwhile
    checks, switches

healthVars == <<binding, reachable, manager, healthPc, known, status, meanwhile, published, checks, switches>>

Bindings == {"absent", "raises", "resolves"}
Conditions == {"absent", "works", "fails"}
Working == {m \in Managers : manager[m] = "works"}

\* What is true now: how ISession was bound and whether its database answered,
\* the registrations that resolved at some moment and those that did at every one.
Now == [bindings |-> {binding}, reachable |-> {reachable}, ever |-> Working, always |-> Working]

HealthInit ==
    /\ binding \in Bindings /\ reachable \in BOOLEAN /\ manager \in [Managers -> Conditions]
    /\ healthPc = [t \in Requesters |-> "idle"]
    /\ known = [t \in Requesters |-> {}]
    /\ meanwhile = [t \in Requesters |-> Now]
    /\ status = [t \in Requesters |-> <<"healthy", "unknown">>]
    /\ published = {} /\ checks = 0 /\ switches = 0

\* A database that fails or recovers, a registration that is made or replaced.
Switch ==
    /\ switches < MaxSwitches /\ switches' = switches + 1
    /\ \/ binding' \in Bindings /\ UNCHANGED <<reachable, manager>>
       \/ reachable' = ~reachable /\ UNCHANGED <<binding, manager>>
       \/ \E m \in Managers, s \in Conditions : manager' = [manager EXCEPT ![m] = s] /\ UNCHANGED <<binding, reachable>>
    /\ meanwhile' = [t \in Requesters |->
           [bindings |-> meanwhile[t].bindings \cup {binding'}, reachable |-> meanwhile[t].reachable \cup {reachable'},
            ever |-> meanwhile[t].ever \cup Working', always |-> meanwhile[t].always \cap Working']]
    /\ UNCHANGED <<healthPc, known, status, published, checks>>

\* boot(), or a handler of HealthCheckRequested on the emitter's thread.
RequestHealth(t) ==
    /\ healthPc[t] = "idle" /\ checks < MaxChecks
    /\ checks' = checks + 1
    /\ healthPc' = [healthPc EXCEPT ![t] = "session"]
    /\ status' = [status EXCEPT ![t] = <<"healthy", "unknown">>]
    /\ meanwhile' = [meanwhile EXCEPT ![t] = Now]
    /\ UNCHANGED <<binding, reachable, manager, known, published, switches>>

\* An ISession that does not resolve, bound or not, is looked for elsewhere.
ResolveSession(t) ==
    /\ healthPc[t] = "session"
    /\ healthPc' = [healthPc EXCEPT ![t] = IF binding = "resolves" THEN "ask" ELSE "list"]
    /\ UNCHANGED <<binding, reachable, manager, known, status, meanwhile, published, checks, switches>>

Measured_StaysHealthy == IF reachable THEN <<"healthy", "ok">> ELSE <<"healthy", "failed">>

\* What the SELECT 1 on a resolved session says; it settles the matter.
Measured == IF reachable THEN <<"healthy", "ok">> ELSE <<"unhealthy", "failed">>

AskSession(t) ==
    /\ healthPc[t] = "ask"
    /\ status' = [status EXCEPT ![t] = Measured]
    /\ healthPc' = [healthPc EXCEPT ![t] = "publish"]
    /\ UNCHANGED <<binding, reachable, manager, known, meanwhile, published, checks, switches>>

\* The registrations whose name says database, as the container lists them.
ListRegistrations(t) ==
    /\ healthPc[t] = "list"
    /\ known' = [known EXCEPT ![t] = {m \in Managers : manager[m] # "absent"}]
    /\ healthPc' = [healthPc EXCEPT ![t] = "sweep"]
    /\ UNCHANGED <<binding, reachable, manager, status, meanwhile, published, checks, switches>>

\* The next of them: ok if it resolves, which is all that is asked of it.
Try(t, m) ==
    /\ healthPc[t] = "sweep" /\ m \in known[t]
    /\ IF manager[m] = "works"
       THEN /\ status' = [status EXCEPT ![t] = <<"healthy", "ok">>]
            /\ healthPc' = [healthPc EXCEPT ![t] = "publish"] /\ UNCHANGED known
       ELSE known' = [known EXCEPT ![t] = @ \ {m}] /\ UNCHANGED <<status, healthPc>>
    /\ UNCHANGED <<binding, reachable, manager, meanwhile, published, checks, switches>>

NotConfigured(t) ==
    /\ healthPc[t] = "sweep" /\ known[t] = {}
    /\ status' = [status EXCEPT ![t] = <<"healthy", "not configured">>]
    /\ healthPc' = [healthPc EXCEPT ![t] = "publish"]
    /\ UNCHANGED <<binding, reachable, manager, known, meanwhile, published, checks, switches>>

\* HealthUpdatedEvent
Publish(t) ==
    /\ healthPc[t] = "publish"
    /\ published' = published \cup {[status |-> status[t], meanwhile |-> meanwhile[t]]}
    /\ healthPc' = [healthPc EXCEPT ![t] = "idle"]
    /\ UNCHANGED <<binding, reachable, manager, known, status, meanwhile, checks, switches>>

HealthNext ==
    \/ Switch
    \/ \E t \in Requesters : \/ RequestHealth(t) \/ ResolveSession(t) \/ AskSession(t) \/ ListRegistrations(t)
                          \/ NotConfigured(t) \/ Publish(t) \/ \E m \in Managers : Try(t, m)

HealthSpec == HealthInit /\ [][HealthNext]_healthVars
----------------------------------------------------------------------------
\* Each report was measured anew: what it says of the database was true at some
\* moments between the request and the answer.  A session that resolved and failed
\* all along is never reported healthy, nor one that worked all along unhealthy; a
\* session that does not resolve counts as none, and then the report says that
\* nothing is configured only if no registration resolved all along.
ReportsAreMeasured ==
    \A p \in published :
        LET database == p.status[2]
            was == p.meanwhile
            unresolved == \E b \in was.bindings : b # "resolves"
        IN
        /\ database = "ok" => ("resolves" \in was.bindings /\ TRUE \in was.reachable) \/ (unresolved /\ was.ever # {})
        /\ database = "failed" <=> p.status[1] = "unhealthy"
        /\ database = "failed" => "resolves" \in was.bindings /\ FALSE \in was.reachable
        /\ database = "not configured" => unresolved /\ was.always = {}
=============================================================================
