----------------------------- MODULE Extensions ------------------------------
(***************************************************************************)
(* kernel/extension_manager.py: extensions are initialized as soon as what *)
(* they depend on is, started by boot() in dependency order, and stopped   *)
(* and disposed in the reverse order.  Hooks are the extensions' own code  *)
(* and may raise:                                                          *)
(*   "usual"  an exception every handler of the manager names              *)
(*   "other"  one that none of them names, though boot() may (OSError)     *)
(* Extension names are unique.  What may happen in a behaviour, and how far *)
(* it is followed, is chosen at its start: env is one of the Envs.         *)
(***************************************************************************)
EXTENDS Integers, Sequences, FiniteSets, SequencesExt

CONSTANTS
  Ext,       \* the extensions
  Enabled,   \* those whose descriptor says enabled
  Deps,      \* descriptor.dependencies, for each extension a set
  OptDeps,   \* descriptor.optional_dependencies
  Priority,  \* descriptor.priority
  Stopper,   \* threads that may run stop_and_dispose()
  Envs       \* records with the extensions that are used (exts), the faults of
             \* their hooks (faults), whether the manager is called by one thread
             \* at a time (alone), and what module Engine adds

ASSUME ExtensionsAssumption ==
  /\ IsFiniteSet(Ext) /\ Enabled \subseteq Ext
  /\ Deps \in [Ext -> SUBSET Ext] /\ OptDeps \in [Ext -> SUBSET Ext]
  /\ Priority \in [Ext -> Int]
  /\ \A v \in Envs : v.exts \subseteq Ext /\ v.faults \subseteq {"usual", "other"}

VARIABLES
  env,          \* the environment of this behaviour
  registered,   \* self.registered_extensions
  sorted,       \* self.sorted_extensions
  initialized,  \* self.initialized_extensions
  phase,        \* an extension's last hook: it returned or, going down, was called
  xpc,          \* where initialize_and_start() is
  work,         \* the extensions its loop has yet to visit
  dpc,          \* where each stop_and_dispose() is
  down          \* the extensions its loop has yet to visit

extVars == <<env, registered, sorted, initialized, phase, xpc, work, dpc, down>>

ExtTypeOK ==
  /\ env \in Envs
  /\ registered \in Seq(Ext) /\ sorted \in Seq(Ext) /\ initialized \in Seq(Ext)
  /\ phase \in [Ext -> {"none", "initialized", "started", "stopped", "disposed"}]
  /\ xpc \in {"idle", "init", "start", "done", "usual", "other", "unresolved"}
  /\ work \in Seq(Ext)
  /\ dpc \in [Stopper -> {"idle", "stop", "dispose"}]
  /\ down \in [Stopper -> Seq(Ext)]

ExtInit ==
  /\ env \in Envs
  /\ registered = <<>> /\ sorted = <<>> /\ initialized = <<>>
  /\ phase = [e \in Ext |-> "none"]
  /\ xpc = "idle" /\ work = <<>>
  /\ dpc = [s \in Stopper |-> "idle"] /\ down = [s \in Stopper |-> <<>>]

-----------------------------------------------------------------------------
(* Orders *)

\* Priority first, then order of registration: what sorted(..., reverse=True)
\* gives, which is stable.
ByPriority(reg, S) ==
  LET at(e) == CHOOSE i \in DOMAIN reg : reg[i] = e
  IN  SetToSortSeq(S, LAMBDA e, f : \/ Priority[e] > Priority[f]
                                    \/ Priority[e] = Priority[f] /\ at(e) < at(f))

\* The while loop of _try_initialize_available(): passes over the pending
\* extensions until one pass initializes nothing, an extension being ready
\* once everything it names, also what is optional, has been initialized.
InitOrder(reg, init) ==
  LET pending == ByPriority(reg, (ToSet(reg) \cap Enabled) \ ToSet(init))
      visit(done, e) == IF e \notin ToSet(done) /\ Deps[e] \cup OptDeps[e] \subseteq ToSet(done)
                        THEN Append(done, e) ELSE done
      pass[n \in 0..Len(pending)] ==
        IF n = 0 THEN init ELSE FoldLeft(visit, pass[n - 1], pending)
  IN  SubSeq(pass[Len(pending)], Len(init) + 1, Len(pass[Len(pending)]))

\* _build_and_sort(): a depth-first search from each extension by priority.
\* Depth is bounded by the number of extensions, as there is no cycle here.
BuildAndSort(reg) ==
  LET S == ToSet(reg) \cap Enabled
      visit[n \in 0..Cardinality(Ext), e \in Ext, done \in Seq(Ext)] ==
        IF e \in ToSet(done) \/ e \notin S \/ n = 0 THEN done
        ELSE LET sub(acc, d) == visit[n - 1, d, acc]
                 req == FoldLeft(sub, done, SetToSeq(Deps[e]))
                 opt == FoldLeft(sub, req, SetToSeq(OptDeps[e]))
             IN  Append(opt, e)
  IN  FoldLeft(LAMBDA acc, e : visit[Cardinality(Ext), e, acc], <<>>, ByPriority(reg, S))

\* The search raises: a dependency is missing or disabled, or there is a cycle.
Unresolvable(reg) ==
  LET S == ToSet(reg) \cap Enabled
      needs(e) == (Deps[e] \cup OptDeps[e]) \cap S
      reach[n \in 0..Cardinality(Ext)] ==
        [e \in Ext |-> IF n = 0 THEN needs(e)
                       ELSE reach[n-1][e] \cup UNION {reach[n-1][d] : d \in reach[n-1][e] }]
  IN  \E e \in S : ~(Deps[e] \subseteq S) \/ e \in reach[Cardinality(Ext)][e]

Before(seq, e, f) ==
  \E i, j \in DOMAIN seq : i < j /\ seq[i] = e /\ seq[j] = f

\* Lists of extensions without repetitions.
Distinct(seq) == \A i, j \in DOMAIN seq : seq[i] = seq[j] => i = j
Lists == {seq \in UNION {[1..n -> Ext] : n \in 0..Cardinality(Ext)} : Distinct(seq)}
DepsFirst(seq) == \A e \in ToSet(seq) : \A d \in Deps[e] : Before(seq, d, e)

\* What the two searches return for the extensions there are: dependencies come
\* first, each extension once, and the sort leaves none out.
ASSUME OrdersAssumption ==
  \A reg \in Lists :
    /\ ~Unresolvable(reg) =>
         LET order == BuildAndSort(reg)
         IN  order \in Lists /\ DepsFirst(order) /\ ToSet(order) = ToSet(reg) \cap Enabled
    /\ \A init \in Lists :
         LET order == InitOrder(reg, init)
         IN  /\ order \in Seq(Ext)
             /\ \A n \in 0..Len(order) :
                  LET upTo == init \o SubSeq(order, 1, n)
                  IN  upTo \in Lists /\ (DepsFirst(init) => DepsFirst(upTo))

-----------------------------------------------------------------------------
(* Rollback, and registration *)

\* _rollback() disposes the initialized extensions, last first, and forgets
\* them; a dispose() that raises another exception ends it half way.
Rollback(init, ph) ==
  \E n \in IF "other" \in env.faults THEN 0..Len(init) ELSE {Len(init)} :
    /\ phase' = [e \in Ext |-> IF e \in ToSet(SubSeq(init, Len(init) - n + 1, Len(init)))
                               THEN "disposed" ELSE ph[e]]
    /\ initialized' = IF n = Len(init) THEN <<>> ELSE init

Initialize(ph, S) == [e \in Ext |-> IF e \in S THEN "initialized" ELSE ph[e]]

\* register(): the extension is appended, whatever can be initialized is, and
\* an initialize() that raises rolls everything back or, another exception,
\* leaves the extensions initialized so far.  The extension stays registered.
Register(e) ==
  /\ e \in env.exts \ ToSet(registered) /\ xpc = "idle"
  /\ registered' = Append(registered, e)
  /\ LET order == InitOrder(registered', initialized)
         upTo(n) == initialized \o SubSeq(order, 1, n)
         ph(n) == Initialize(phase, ToSet(SubSeq(order, 1, n)))
     IN  \/ /\ initialized' = upTo(Len(order))
            /\ phase' = ph(Len(order))
         \/ \E n \in 0..(Len(order) - 1) :
              \/ "usual" \in env.faults /\ Rollback(upTo(n), ph(n))
              \/ "other" \in env.faults /\ initialized' = upTo(n) /\ phase' = ph(n)
  /\ UNCHANGED <<env, sorted, xpc, work, dpc, down>>

-----------------------------------------------------------------------------
(* initialize_and_start() *)

SortExtensions ==
  /\ xpc = "idle"
  /\ IF Unresolvable(registered)
     THEN xpc' = "unresolved" /\ UNCHANGED <<sorted, work>>
     ELSE xpc' = "init" /\ sorted' = BuildAndSort(registered) /\ work' = sorted'
  /\ UNCHANGED <<env, registered, initialized, phase, dpc, down>>

\* What register() initialized is initialized once more.
InitializeNext_Again ==
  /\ xpc = "init" /\ work # <<>>
  /\ work' = Tail(work)
  /\ initialized' = Append(initialized, Head(work))
  /\ phase' = Initialize(phase, {Head(work)})
  /\ UNCHANGED <<env, registered, sorted, xpc, dpc, down>>

\* A failure is logged and the loop goes on.
InitializeNext_Continues ==
  /\ xpc = "init" /\ work # <<>>
  /\ work' = Tail(work)
  /\ \/ /\ Head(work) \notin ToSet(initialized)
        /\ initialized' = Append(initialized, Head(work))
        /\ phase' = Initialize(phase, {Head(work)})
     \/ UNCHANGED <<initialized, phase>>
  /\ UNCHANGED <<env, registered, sorted, xpc, dpc, down>>

InitializeNext ==
  /\ xpc = "init" /\ work # <<>>
  /\ \/ /\ Head(work) \in ToSet(initialized)
        /\ work' = Tail(work)
        /\ UNCHANGED <<initialized, phase, xpc>>
     \/ /\ Head(work) \notin ToSet(initialized)
        /\ \/ /\ work' = Tail(work)
              /\ initialized' = Append(initialized, Head(work))
              /\ phase' = Initialize(phase, {Head(work)})
              /\ UNCHANGED xpc
           \/ "usual" \in env.faults /\ xpc' = "usual" /\ work' = <<>> /\ Rollback(initialized, phase)
           \/ "other" \in env.faults /\ xpc' = "other" /\ work' = <<>> /\ UNCHANGED <<initialized, phase>>
  /\ UNCHANGED <<env, registered, sorted, dpc, down>>

InitializedAll ==
  /\ xpc = "init" /\ work = <<>>
  /\ xpc' = "start" /\ work' = sorted
  /\ UNCHANGED <<env, registered, sorted, initialized, phase, dpc, down>>

\* A start() that raises leaves everything as it is, whatever the exception.
StartNext ==
  /\ xpc = "start" /\ work # <<>>
  /\ \/ /\ work' = Tail(work)
        /\ phase' = [phase EXCEPT ![Head(work)] = "started"]
        /\ UNCHANGED xpc
     \/ \E kind \in env.faults : xpc' = kind /\ work' = <<>> /\ UNCHANGED phase
  /\ UNCHANGED <<env, registered, sorted, initialized, dpc, down>>

StartedAll ==
  /\ xpc = "start" /\ work = <<>>
  /\ xpc' = "done"
  /\ UNCHANGED <<env, registered, sorted, initialized, phase, work, dpc, down>>

\* The caller has been told how initialize_and_start() ended.
Return ==
  /\ xpc \in {"done", "usual", "other", "unresolved"}
  /\ xpc' = "idle"
  /\ UNCHANGED <<env, registered, sorted, initialized, phase, work, dpc, down>>

-----------------------------------------------------------------------------
(* stop_and_dispose() *)

\* The list is not reversed.
StopAndDispose_SameOrder(s) ==
  /\ dpc[s] = "idle"
  /\ dpc' = [dpc EXCEPT ![s] = "stop"]
  /\ down' = [down EXCEPT ![s] = sorted]
  /\ UNCHANGED <<env, registered, sorted, initialized, phase, xpc, work>>

StopAndDispose(s) ==
  /\ dpc[s] = "idle"
  /\ dpc' = [dpc EXCEPT ![s] = "stop"]
  /\ down' = [down EXCEPT ![s] = Reverse(sorted)]
  /\ UNCHANGED <<env, registered, sorted, initialized, phase, xpc, work>>

\* The loop is left by another exception: the lists are not cleared.
LoopRaises(s) ==
  /\ "other" \in env.faults
  /\ dpc' = [dpc EXCEPT ![s] = "idle"] /\ down' = [down EXCEPT ![s] = <<>>]
  /\ UNCHANGED phase

\* shutdown_async(), when there is one, then stop().  A usual exception is
\* logged, and the extension counts as stopped.
StopNext(s) ==
  /\ dpc[s] = "stop" /\ down[s] # <<>>
  /\ \/ /\ dpc' = [dpc EXCEPT ![s] = "dispose"]
        /\ phase' = [phase EXCEPT ![Head(down[s])] = "stopped"]
        /\ UNCHANGED down
     \/ LoopRaises(s)
  /\ UNCHANGED <<env, registered, sorted, initialized, xpc, work>>

DisposeNext(s) ==
  /\ dpc[s] = "dispose"
  /\ \/ /\ dpc' = [dpc EXCEPT ![s] = "stop"]
        /\ down' = [down EXCEPT ![s] = Tail(@)]
        /\ phase' = [phase EXCEPT ![Head(down[s])] = "disposed"]
     \/ LoopRaises(s)
  /\ UNCHANGED <<env, registered, sorted, initialized, xpc, work>>

\* What was initialized is still taken to be.
ClearLists_KeepsInitialized(s) ==
  /\ dpc[s] = "stop" /\ down[s] = <<>>
  /\ sorted' = <<>>
  /\ dpc' = [dpc EXCEPT ![s] = "idle"]
  /\ UNCHANGED <<env, registered, initialized, phase, xpc, work, down>>

ClearLists(s) ==
  /\ dpc[s] = "stop" /\ down[s] = <<>>
  /\ sorted' = <<>> /\ initialized' = <<>>
  /\ dpc' = [dpc EXCEPT ![s] = "idle"]
  /\ UNCHANGED <<env, registered, phase, xpc, work, down>>

-----------------------------------------------------------------------------
StartUp == InitializeNext \/ InitializedAll \/ StartNext \/ StartedAll
ShutDown(s) == StopNext(s) \/ DisposeNext(s) \/ ClearLists(s)

-----------------------------------------------------------------------------
\* An extension is in self.initialized_extensions once, and after everything it
\* requires, whether register() or boot() initialized it and whatever failed.
InitializedInOrder ==
  env.alone => Distinct(initialized) /\ DepsFirst(initialized)

\* stop_and_dispose() goes "in reverse dependency order": an extension is left
\* to stop only after those that require it.
DependentsStopFirst ==
  \A s \in Stopper : \A e \in Ext : \A d \in Deps[e] : ~Before(down[s], d, e)

\* The comment at the end of boot(): an extension that cannot be initialized
\* makes initialize_and_start() raise, "so control never reaches here with
\* anything stranded".
NothingStranded ==
  env.alone /\ xpc \in {"start", "done"} => ToSet(registered) \cap Enabled \subseteq ToSet(initialized)

\* Extensions go up and come down in the order of what they require, all of them.
ExtensionsInOrder == InitializedInOrder /\ DependentsStopFirst /\ NothingStranded

\* What the loop that starts extensions has passed.
Passed == {sorted[i] : i \in 1..(Len(sorted) - Len(work))}

\* The extension that is next to get its start() was last initialized, never
\* last stopped or disposed, and gets it once in this boot, after all it requires.
\* "started" is for one that a boot which failed further on has left running:
\* the next boot calls its start() again, with no stop() in between.  (An exception
\* no handler names can leave a teardown half-way, with its lists.)
StartedInOrder ==
  env.alone /\ "other" \notin env.faults /\ xpc = "start" /\ work # <<>> =>
    /\ phase[Head(work)] \in {"initialized", "started"} /\ Head(work) \notin Passed
    /\ \A d \in Deps[Head(work)] : d \in Passed /\ phase[d] = "started"
=============================================================================
