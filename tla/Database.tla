------------------------------ MODULE Database ------------------------------
(***************************************************************************)
(* Database: one scoped_session per database, so a session per thread, with *)
(* commands run by TransactionMiddleware on some of them and the manager    *)
(* disposing of all from the thread that stops the application.  Shards are *)
(* an independent service with its own state (ShardManager).               *)
(***************************************************************************)
EXTENDS ShardManager, Sequences

CONSTANTS Databases,
          MaxCommands  \* bound: commands dispatched

ASSUME CommandsAssumption == MaxCommands \in Nat

VARIABLES
    offered,   \* the container has IDatabaseManager
    entries,   \* _entries
    open,      \* <<thread, database>> whose session holds a connection
    closing,   \* dispose_all() has closed the sessions, the engines not yet
    shutDown,  \* dispose_all() has been called
    late,      \* sessions used again since, by threads the shutdown did not stop
    running,   \* [thread -> the commands it is in, innermost last]
    commands,  \* commands dispatched
    writes,    \* <<command, i>>: writes the handlers made
    pending,   \* [thread -> writes in its session, not committed]
    committed, \* writes in the database
    outcome,   \* [command -> "running", "returned", "raised" or "aborted"]
    nested     \* commands that dispatched another or were dispatched by one

databaseVars == <<offered, entries, open, closing, shutDown, late, running, commands, writes,
                  pending, committed, outcome, nested>>

DatabaseInit ==
    /\ offered = FALSE /\ entries = {} /\ open = {} /\ late = {} /\ nested = {}
    /\ closing = FALSE /\ shutDown = FALSE /\ commands = 0
    /\ running = [c \in Users |-> <<>>]
    /\ writes = {} /\ committed = {}
    /\ pending = [c \in Users |-> {}]
    /\ outcome = [k \in 1..MaxCommands |-> "running"]

transaction == <<running, commands, writes, pending, committed, outcome, nested>>

\* DatabaseExtension.register() adds one database or every shard; an error is
\* logged and nothing is offered.
RegisterExtension ==
    /\ ~offered /\ entries = {} /\ ~shutDown
    /\ \/ offered' = TRUE /\ entries' \in SUBSET Databases \ {{}}
       \/ UNCHANGED <<offered, entries>>
    /\ UNCHANGED <<open, closing, shutDown, late, transaction>>

AddDatabase(n) ==
    /\ offered /\ n \notin entries /\ ~closing
    /\ entries' = entries \cup {n}
    /\ UNCHANGED <<offered, open, closing, shutDown, late, transaction>>

\* The session of the calling thread is closed, with the writes an aborted command
\* left if they are in that one; other threads' are not.  (A handler does not
\* remove its own database.)
RemoveDatabase(c, n) ==
    /\ n \in entries /\ ~closing /\ running[c] = <<>>
    /\ entries' = entries \ {n}
    /\ open' = open \ {<<c, n>>}
    /\ pending' \in {pending, [pending EXCEPT ![c] = {}]}
    /\ UNCHANGED <<offered, closing, shutDown, late, running, commands, writes, committed, outcome, nested>>

\* The adapters handed out outlive the manager's entries.
Usable == IF shutDown THEN Databases ELSE entries

\* A holder of the adapter uses it; the registry of sessions is by thread.
Connected(c, n) ==
    /\ open' = open \cup {<<c, n>>}
    /\ late' = IF shutDown THEN late \cup {<<c, n>>} ELSE late

UseSession(c, n) ==
    /\ n \in Usable /\ <<c, n>> \notin open /\ Connected(c, n)
    /\ UNCHANGED <<offered, entries, closing, shutDown, transaction>>

ClosedSessions_OfCaller(c) == {s \in open : s[1] = c}

\* close_all_sessions() closes the sessions of every thread.
ClosedSessions(c) == open

\* An uncommitted transaction goes with its session.
DisposeDatabases(c) ==
    /\ offered /\ ~closing /\ ~shutDown
    /\ closing' = TRUE /\ shutDown' = TRUE
    /\ open' = open \ ClosedSessions(c)
    /\ pending' = [t \in Users |-> {}]
    /\ UNCHANGED <<offered, entries, late, running, commands, writes, committed, outcome, nested>>

DisposeEngines ==
    /\ closing /\ closing' = FALSE /\ entries' = {}
    /\ UNCHANGED <<offered, open, shutDown, late, transaction>>

----------------------------------------------------------------------------
\* TransactionMiddleware.process() around a handler, on the session that every
\* command of a thread shares.

InnerCommand(c) == running[c][Len(running[c])]

Process(c) ==
    /\ offered /\ ~shutDown /\ commands < MaxCommands /\ commands' = commands + 1
    /\ running' = [running EXCEPT ![c] = Append(@, commands + 1)]
    /\ nested' = IF running[c] = <<>> THEN nested ELSE nested \cup {InnerCommand(c), commands + 1}
    /\ UNCHANGED <<offered, entries, open, closing, shutDown, late, writes, pending, committed, outcome>>

HandlerWrites(c) ==
    /\ running[c] # <<>>
    /\ \E n \in Usable, i \in 1..2 :
         /\ <<InnerCommand(c), i>> \notin writes /\ (i = 2 => <<InnerCommand(c), 1>> \in writes)
         /\ writes' = writes \cup {<<InnerCommand(c), i>>}
         /\ pending' = [pending EXCEPT ![c] = @ \cup {<<InnerCommand(c), i>>}]
         /\ Connected(c, n)
    /\ UNCHANGED <<offered, entries, closing, shutDown, running, commands, committed, outcome, nested>>

\* A command ends, and `left` is not committed in its thread's session.
Ends(c, how, left) ==
    /\ running[c] # <<>>
    /\ outcome' = [outcome EXCEPT ![InnerCommand(c)] = how]
    /\ running' = [running EXCEPT ![c] = SubSeq(@, 1, Len(@) - 1)]
    /\ pending' = [pending EXCEPT ![c] = left]
    /\ UNCHANGED <<offered, entries, open, closing, shutDown, late, commands, writes, nested>>

Commit(c) == Ends(c, "returned", {}) /\ committed' = committed \cup pending[c]

RolledBack_NotAtAll(c) == pending[c]

\* What of a session is left to be committed when rollback() returns.
RolledBack(c) == {}

\* The handler or the commit raised an Exception.
Rollback(c) == Ends(c, "raised", RolledBack(c)) /\ UNCHANGED committed

\* It raised what is no Exception, SystemExit or CancelledError: the session
\* keeps what was written for the thread's next commit.
Abort(c) == Ends(c, "aborted", pending[c]) /\ UNCHANGED committed

DatabaseNext ==
    \/ RegisterExtension \/ DisposeEngines
    \/ \E n \in Databases : AddDatabase(n)
    \/ \E c \in Users : Process(c) \/ HandlerWrites(c) \/ Commit(c) \/ Rollback(c) \/ Abort(c) \/ DisposeDatabases(c)
    \/ \E c \in Users, n \in Databases : RemoveDatabase(c, n) \/ UseSession(c, n)

DatabaseSpec == DatabaseInit /\ [][DatabaseNext]_databaseVars

PersistenceSpec == ShardSpec /\ DatabaseSpec
----------------------------------------------------------------------------
\* The thread that shuts down closes the sessions of every thread: what is open
\* afterwards was opened by a thread that went on.
AllThreadsClosed == shutDown => open \subseteq late

\* A command that raised an Exception leaves nothing in the database, also when a
\* later command commits the same session; one that returned before the shutdown
\* leaves all its writes.  Commands dispatched by commands are left out: the inner
\* one commits what the outer one has written so far.
AllOrNothing ==
    \A k \in 1..commands \ nested :
        LET mine == {w \in writes : w[1] = k} IN
        /\ outcome[k] = "raised" => mine \cap committed = {}
        /\ outcome[k] = "returned" /\ ~shutDown => mine \subseteq committed

\* "Commits the transaction if the command succeeds, or rolls back if an exception
\* occurs": no command that ended by one, of whatever class, has its writes in the
\* database.  The middleware catches Exception only, and the session is the
\* thread's: its next command commits what the aborted one wrote.
RolledBackOnAnyException ==
    \A k \in 1..commands \ nested :
        outcome[k] \in {"raised", "aborted"} => \A w \in committed : w[1] # k

\* Sessions and their writes end with the command and the engine they belong to.
DatabaseKept == AllThreadsClosed /\ AllOrNothing

\* Shards on disk are the ones their engines opened (sqlite_shard_manager.py), and what is
\* said of databases above holds (database_manager.py, transaction_middleware.py).
PersistenceKept == ShardIsItsFile /\ DatabaseKept
=============================================================================
