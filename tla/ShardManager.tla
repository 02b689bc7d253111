---------------------------- MODULE ShardManager ----------------------------
(***************************************************************************)
(* ShardManager: SQLite files created on first use and deleted while        *)
(* sessions on them may still be open.  Registration changes under _lock;   *)
(* sessions read and write without it.  Files on disk and schema creation   *)
(* are configured (directory # IN_MEMORY, metadata # None).                *)
(***************************************************************************)
EXTENDS Integers

CONSTANTS Users,       \* threads that use databases
          NoUser,      \* no thread
          ShardNames,
          Elsewhere,   \* URLs outside of the directory
          MaxEngines,  \* bound: engines created
          MaxFiles     \* bound: files created

ASSUME UsersAssumption == NoUser \notin Users
ASSUME EnginesAssumption == MaxEngines \in Nat
ASSUME ElsewhereAssumption == Elsewhere \cap ShardNames = {}

\* Where a database file may be: <name>.db in the directory, or elsewhere.
Locations == ShardNames \cup Elsewhere

VARIABLES
    lock,     \* the caller that holds _lock, or NoUser
    deleting, \* the shards whose files the holder is about to delete
    shards,   \* _engines and _factories: [name -> engine, or 0]
    urls,     \* [name -> the place its engine connects to, its own file if it has none]
    engines,  \* engines created
    pool,     \* [engine -> the file its idle connections are on, or 0]
    files,    \* the disk: [place -> the file there with its sidecars, or 0]
    created,     \* files created
    session,  \* [caller -> its session: its engine, that one's place, the file it is connected to]
    vacuuming \* [caller -> shards its vacuum() has still to open]

shardVars == <<lock, deleting, shards, urls, engines, pool, files, created, session, vacuuming>>

NoSession == [place |-> "", engine |-> 0, file |-> 0]

\* A directory may hold shards of an earlier run.
ShardInit ==
    /\ lock = NoUser /\ deleting = {} /\ engines = 0
    /\ shards = [n \in ShardNames |-> 0]
    /\ pool = [e \in 1..MaxEngines |-> 0]
    /\ urls = [n \in ShardNames |-> n]
    /\ files \in {[p \in Locations |-> IF p \in old THEN 1 ELSE 0] : old \in {x \in SUBSET ShardNames : \A m, n \in x : m = n}}
    /\ created = 1
    /\ session = [c \in Users |-> NoSession]
    /\ vacuuming = [c \in Users |-> {}]

\* A connection opens the file at a place, or creates it.
FileOf(p) == IF files[p] # 0 THEN files[p] ELSE created + 1
Connect(p) ==
    /\ files[p] # 0 \/ created < MaxFiles
    /\ files' = [files EXCEPT ![p] = FileOf(p)]
    /\ created' = IF files[p] # 0 THEN created ELSE created + 1

\* create_all() connects; what it raises leaves the file and no registration.
CreateShard(n, p) ==
    /\ engines < MaxEngines /\ engines' = engines + 1
    /\ Connect(p)
    /\ \/ shards' = [shards EXCEPT ![n] = engines + 1]
          /\ urls' = [urls EXCEPT ![n] = p]
          /\ pool' = [pool EXCEPT ![engines + 1] = FileOf(p)]
       \/ UNCHANGED <<shards, urls, pool>>

EnsureShard(n) ==
    \/ shards[n] # 0 /\ UNCHANGED <<shards, urls, engines, pool, files, created>>
    \/ shards[n] = 0 /\ CreateShard(n, n)

\* add_database() raises on a name that is registered; its URL may be of any
\* file, another shard's too.
AddShard(c, n, p) ==
    /\ lock = NoUser /\ shards[n] = 0
    /\ CreateShard(n, p)
    /\ UNCHANGED <<lock, deleting, session, vacuuming>>

GetRawSession(c, n) ==
    /\ lock = NoUser /\ session[c] = NoSession
    /\ EnsureShard(n)
    /\ session' = IF shards'[n] = 0 THEN session
                  ELSE [session EXCEPT ![c] = [place |-> urls'[n], engine |-> shards'[n], file |-> 0]]
    /\ UNCHANGED <<lock, deleting, vacuuming>>

\* The first statement takes an idle connection of the engine or opens one.
Use(c) ==
    LET s == session[c] IN
    /\ s # NoSession /\ s.file = 0
    /\ IF pool[s.engine] # 0
       THEN /\ session' = [session EXCEPT ![c].file = pool[s.engine]]
            /\ UNCHANGED <<files, created>>
       ELSE Connect(s.place) /\ session' = [session EXCEPT ![c].file = FileOf(s.place)]
    /\ UNCHANGED <<lock, deleting, shards, urls, engines, pool, vacuuming>>

\* The connection goes back to the pool it came from, unless that was disposed.
CloseSession(c) ==
    /\ session[c] # NoSession
    /\ session' = [session EXCEPT ![c] = NoSession]
    /\ pool' = [pool EXCEPT ![session[c].engine] =
                  IF session[c].engine \in {shards[n] : n \in ShardNames} /\ session[c].file # 0
                  THEN session[c].file ELSE @]
    /\ UNCHANGED <<lock, deleting, shards, urls, engines, files, created, vacuuming>>

Forgotten_Disposed(S) == {n \in S : pool[shards[n]] = 0}

\* What disposing of the shards S takes out of the two dictionaries.
Forgotten(S) == S

\* engine.dispose() closes the idle connections, not those in use.
Forget(S) ==
    /\ shards' = [n \in ShardNames |-> IF n \in Forgotten(S) THEN 0 ELSE shards[n]]
    /\ urls' = [n \in ShardNames |-> IF n \in Forgotten(S) THEN n ELSE urls[n]]
    /\ pool' = [e \in DOMAIN pool |-> IF \E n \in S : shards[n] = e THEN 0 ELSE pool[e]]

DisposeShards(c) ==
    /\ lock = NoUser
    /\ Forget({n \in ShardNames : shards[n] # 0})
    /\ UNCHANGED <<lock, deleting, engines, files, created, session, vacuuming>>

\* remove_shard(n), remove_database(n): S = {n}; purge_all(): S = ShardNames.
RemoveShard(c, S) ==
    /\ lock = NoUser /\ lock' = c /\ deleting' = S
    /\ Forget({n \in S : shards[n] # 0})
    /\ UNCHANGED <<engines, files, created, session, vacuuming>>

\* The files of the names, wherever the shards were.
DeleteFiles(c) ==
    /\ lock = c /\ lock' = NoUser /\ deleting' = {}
    /\ files' = [p \in Locations |-> IF p \in deleting THEN 0 ELSE files[p]]
    /\ UNCHANGED <<shards, urls, engines, pool, created, session, vacuuming>>

\* vacuum() without a name lists the directory first.
Vacuum(c) ==
    /\ lock = NoUser /\ vacuuming[c] = {} /\ session[c] = NoSession
    /\ vacuuming' = [vacuuming EXCEPT ![c] = {n \in ShardNames : files[n] # 0}]
    /\ UNCHANGED <<lock, deleting, shards, urls, engines, pool, files, created, session>>

\* It opens each listed shard again, one that was deleted meanwhile too.
VacuumNext(c) ==
    /\ lock = NoUser
    /\ \E n \in vacuuming[c] :
         /\ EnsureShard(n)
         /\ vacuuming' = [vacuuming EXCEPT ![c] = IF shards'[n] = 0 THEN {} ELSE @ \ {n}]
    /\ UNCHANGED <<lock, deleting, session>>

ShardNext == \E c \in Users :
    \/ \E n \in ShardNames : GetRawSession(c, n) \/ RemoveShard(c, {n}) \/ \E p \in Locations : AddShard(c, n, p)
    \/ Use(c) \/ CloseSession(c) \/ DisposeShards(c) \/ RemoveShard(c, ShardNames) \/ DeleteFiles(c)
    \/ Vacuum(c) \/ VacuumNext(c)

ShardSpec == ShardInit /\ [][ShardNext]_shardVars
----------------------------------------------------------------------------
\* However removals, purges and open sessions overlap, a registered shard is one
\* file, the one under its name or the one elsewhere that add_database() named: its
\* engine's connections, idle or in a session's hands, are never on a file that was
\* deleted, so a commit through it is not lost.  A shard that was given the file of
\* another name loses it with that one, and is left out.
ShardIsItsFile ==
    \A n \in ShardNames : shards[n] # 0 /\ urls[n] \in {n} \cup Elsewhere =>
        /\ files[urls[n]] # 0
        /\ pool[shards[n]] \in {0, files[urls[n]]}
        /\ \A c \in Users : session[c].engine = shards[n] => session[c].file \in {0, files[urls[n]]}
=============================================================================
