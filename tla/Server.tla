------------------------------- MODULE Server -------------------------------
(***************************************************************************)
(* The HTTP server: handlers of /query that run concurrently               *)
(* (net/server.cpp), the part of a request that is parsed before and the   *)
(* part that is executed under the mutex of the Dbms (sql/executor.cpp),   *)
(* the selected database that all clients share (core/dbms.cpp), the       *)
(* access log (net/logger.cpp), the metrics, and the main thread that      *)
(* prints them and shuts the server down (apps/server_main.cpp).           *)
(*                                                                         *)
(* A client has at most one request under way and a worker thread of Crow  *)
(* handles it; how Crow accepts, dispatches and joins is external.  Every  *)
(* database has one table of one row with one string.  What statements do  *)
(* to tables and files is the matter of modules Table and Storage.         *)
(***************************************************************************)
EXTENDS StringPool, Telemetry

CONSTANTS
    Clients,
    Databases,
    None,            \* no database: nothing selected, or a name without one
    Statements,      \* what clients send
    NotUtf8,         \* those whose text, or the text of whose error, is not UTF-8
    Stored,          \* the string in the files from which the server started
    LogPath,         \* whether there is an access log
    RequestCost,     \* bound: a request costs as much as so many ticks,
    Budget,          \* and this is what requests and ticks may cost together
    MaxTime          \* bound: the last tick

\* The statements, by what they do to the state that handlers share.
Ddl(kind, db) == [kind |-> kind, db |-> db]
Query(kind, db, s) == [kind |-> kind, db |-> db, str |-> s]
Bad(s) == [kind |-> "bad", str |-> s]
Empty == [kind |-> "empty"]

Literal(st) == st.kind \in {"insert", "select", "bad"}

ASSUME ServerAssumption ==
    /\ None \notin Databases \cup Clients /\ None \notin Nat
    /\ IsFiniteSet(Clients)
    /\ NotUtf8 \subseteq Statements
    /\ Stored \in Strings
    /\ LogPath \in BOOLEAN
    /\ RequestCost \in Nat \ {0} /\ Budget \in Nat /\ MaxTime \in Nat
    /\ \A st \in Statements :
         \/ \E db \in Databases : st \in {Ddl(k, db) : k \in {"create", "drop", "use"}}
         \/ \E db \in Databases \cup {None}, s \in Strings :
               st \in {Query("insert", db, s), Query("select", db, s), Bad(s)}
         \/ st = Empty

VARIABLES
    next_id,         \* next_id_ of the access log
    handler,         \* the request that each client waits for
    rows,            \* databases_: the string id in the table, None if no such database
    active,          \* active_
    mutex,           \* who holds the mutex of the Dbms
    log,             \* request ids in the access log
    log_open,        \* out_.is_open()
    g_stop,          \* the flag of the signal handler
    main,            \* the main thread; "crashed" once the process is gone
    chosen,          \* history: what a client selected, while nobody interferes
    meant,           \* history: the string last inserted into each database
    garbled          \* history: ids of the requests that are not UTF-8

requests == <<next_id, handler>>
dbms == <<rows, active, mutex, chosen, meant>>
accesslog == <<log, log_open, garbled>>
process == <<g_stop, main>>
vars == <<pool, telemetry, clock, requests, dbms, accesslog, process>>

Affordable(n, time) == RequestCost * n + time <= Budget

\* A handler without a request.
Idle == [pc |-> "idle"]

Request(id, st) ==
    [pc |-> "parse", rid |-> id, stmt |-> st, id |-> kInvalid,
     ref |-> get(kInvalid), raced |-> FALSE, right |-> TRUE,
     ok |-> TRUE, finished |-> 0]

At(c, label) == handler[c].pc = label /\ main # "crashed"
Step(c, h) == handler' = [handler EXCEPT ![c] = h]

\* run_query has returned: the handler takes the time.
Returned(h, ok) == [h EXCEPT !.pc = "log", !.ok = ok, !.finished = clock]

----------------------------------------------------------------------------
(* Requests *)

\* The handler of /query, up to run_query.
query(c, st) ==
    /\ At(c, "idle")
    /\ main = "serving"
    /\ Affordable(next_id + 1, clock)
    /\ next_id' = next_id + 1
    /\ Step(c, Request(next_id + 1, st))
    /\ garbled' = IF st \in NotUtf8 THEN garbled \cup {next_id + 1} ELSE garbled
    /\ UNCHANGED <<pool, telemetry, clock, dbms, log, log_open, process>>

\* parse_statement, outside the mutex of the Dbms.  A string literal is
\* interned as soon as it is read, in a statement with a later error, too.
\* raced: a new string has come while another handler used a reference.
parse(c) ==
    /\ At(c, "parse")
    /\ LET h == handler[c]
           after == IF h.stmt.kind \in {"bad", "empty"}
                    THEN Returned(h, h.stmt.kind = "empty")
                    ELSE [h EXCEPT !.pc = "execute"]
       IN IF Literal(h.stmt)
          THEN /\ intern(h.stmt.str)
               /\ handler' = [d \in Clients |->
                    IF d = c THEN [after EXCEPT !.id = InternedId(h.stmt.str)]
                    ELSE IF At(d, "use_string") /\ ~IsInterned(h.stmt.str)
                    THEN [handler[d] EXCEPT !.raced = TRUE]
                    ELSE handler[d]]
          ELSE UNCHANGED pool /\ Step(c, after)
    /\ UNCHANGED <<telemetry, clock, next_id, dbms, accesslog, process>>

----------------------------------------------------------------------------
(* execute: under the mutex, in one step unless it reads a string *)

Exists(db) == db \in Databases /\ rows[db] # None

CanExecute(c, kinds) ==
    At(c, "execute") /\ mutex = None /\ handler[c].stmt.kind \in kinds

Finishes(c, ok) == Step(c, Returned(handler[c], ok)) /\ UNCHANGED mutex

create_database(c) ==
    /\ CanExecute(c, {"create"})
    /\ LET db == handler[c].stmt.db IN
         /\ rows' = IF Exists(db) THEN rows ELSE [rows EXCEPT ![db] = kInvalid]
         /\ Finishes(c, ~Exists(db))
    /\ UNCHANGED <<active, chosen, meant>>

\* DROP DATABASE: the mutex keeps every other handler out of the tables.
Forget(db) == [c \in Clients |-> IF chosen[c] = db THEN None ELSE chosen[c]]

\* Mutant: the selection survives its database.
drop_database_keeps_active(c) ==
    /\ CanExecute(c, {"drop"})
    /\ LET db == handler[c].stmt.db IN
         /\ rows' = [rows EXCEPT ![db] = None]
         /\ chosen' = Forget(db)
         /\ Finishes(c, Exists(db))
    /\ UNCHANGED <<active, meant>>

drop_database(c) ==
    /\ CanExecute(c, {"drop"})
    /\ LET db == handler[c].stmt.db IN
         /\ rows' = [rows EXCEPT ![db] = None]
         /\ active' = IF Exists(db) /\ active = db THEN None ELSE active
         /\ chosen' = Forget(db)
         /\ Finishes(c, Exists(db))
    /\ UNCHANGED meant

\* The USE of one client selects for all of them.
use_database(c) ==
    /\ CanExecute(c, {"use"})
    /\ LET db == handler[c].stmt.db
           selects == [d \in Clients |-> IF d = c \/ chosen[d] = db THEN db ELSE None]
       IN /\ active' = IF Exists(db) THEN db ELSE active
          /\ chosen' = IF Exists(db) THEN selects ELSE chosen
          /\ Finishes(c, Exists(db))
    /\ UNCHANGED <<rows, meant>>

\* resolve_database: the database a table name is qualified with, or the
\* selected one.
Target(c) == IF handler[c].stmt.db = None THEN active ELSE handler[c].stmt.db

query_fails(c) ==
    /\ CanExecute(c, {"insert", "select"})
    /\ ~Exists(Target(c))
    /\ Finishes(c, FALSE)
    /\ UNCHANGED <<rows, active, chosen, meant>>

\* The statement holds the mutex while it uses a reference to a string.
UsesString(c, id) ==
    /\ mutex' = c
    /\ Step(c, [handler[c] EXCEPT !.pc = "use_string", !.ref = get(id)])

\* exec_insert stores the id and reads the string when it saves the table.
exec_insert(c) ==
    /\ CanExecute(c, {"insert"})
    /\ Exists(Target(c))
    /\ rows' = [rows EXCEPT ![Target(c)] = handler[c].id]
    /\ meant' = [meant EXCEPT ![Target(c)] = handler[c].stmt.str]
    /\ UsesString(c, handler[c].id)
    /\ UNCHANGED <<active, chosen>>

\* exec_select reads the string of a row to compare it and to print it.
exec_select(c) ==
    /\ CanExecute(c, {"select"})
    /\ Exists(Target(c))
    /\ IF rows[Target(c)] = kInvalid
       THEN Finishes(c, TRUE)
       ELSE UsesString(c, rows[Target(c)])
    /\ UNCHANGED <<rows, active, chosen, meant>>

execute(c) ==
    /\ \/ create_database(c)
       \/ drop_database(c)
       \/ use_database(c)
       \/ query_fails(c)
       \/ exec_insert(c)
       \/ exec_select(c)
    /\ UNCHANGED <<pool, telemetry, clock, next_id, accesslog, process>>

\* Mutant: a path that leaves without unlocking.
use_string_locked(c) ==
    /\ At(c, "use_string")
    /\ Step(c, Returned(handler[c], TRUE))
    /\ UNCHANGED <<dbms, pool, telemetry, clock, next_id, accesslog, process>>

\* The string is used and the mutex released.  Reading through a dangling
\* reference may do no harm, yield anything, or end the process.
use_string(c) ==
    /\ At(c, "use_string")
    /\ \E right \in {TRUE} \cup {~Dangles(handler[c].ref)} :
         Step(c, Returned([handler[c] EXCEPT !.right = right], TRUE))
    /\ mutex' = None
    /\ UNCHANGED <<pool, telemetry, clock, next_id, accesslog, process>>
    /\ UNCHANGED <<rows, active, chosen, meant>>

crash(c) ==
    /\ At(c, "use_string")
    /\ Dangles(handler[c].ref)
    /\ main' = "crashed"
    /\ UNCHANGED <<pool, telemetry, clock, requests, dbms, accesslog, g_stop>>

----------------------------------------------------------------------------
(* After run_query: the log, the metrics, and the response *)

log_request(c) ==
    /\ At(c, "log")
    /\ log_open => handler[c].stmt \notin NotUtf8
    /\ log' = IF log_open THEN log \cup {handler[c].rid} ELSE log
    /\ Step(c, [handler[c] EXCEPT !.pc = "observe"])
    /\ UNCHANGED <<pool, telemetry, clock, next_id, dbms, log_open, garbled, process>>

\* Writing the entry as JSON throws; the exception leaves the handler before
\* observe, and Crow answers with status 500.
log_request_throws(c) ==
    /\ At(c, "log")
    /\ log_open /\ handler[c].stmt \in NotUtf8
    /\ Step(c, Idle)
    /\ UNCHANGED <<pool, telemetry, clock, next_id, dbms, accesslog, process>>

respond(c) ==
    /\ At(c, "observe")
    /\ observe(handler[c].finished, handler[c].ok)
    /\ Step(c, Idle)
    /\ UNCHANGED <<pool, clock, next_id, dbms, accesslog, process>>

----------------------------------------------------------------------------
(* The main thread *)

Main(from, to) == main = from /\ main' = to

\* One round of the loop of main: the snapshot, then the flag.  When it is
\* set, Server::stop lets no request in any more.
report ==
    /\ Main("serving", IF g_stop THEN "joining" ELSE "serving")
    /\ snapshot
    /\ UNCHANGED <<pool, clock, requests, dbms, accesslog, g_stop>>

on_signal ==
    /\ main \notin {"closed", "crashed"} /\ ~g_stop
    /\ g_stop' = TRUE
    /\ UNCHANGED <<pool, telemetry, clock, requests, dbms, accesslog, main>>

\* Mutant: nobody waits for the handlers.
stop_at_once ==
    /\ Main("joining", "closed")
    /\ log_open' = FALSE
    /\ UNCHANGED <<pool, telemetry, clock, requests, dbms, log, garbled, g_stop>>

\* The rest of Server::stop waits for the handlers, then main closes the log.
stop ==
    /\ Main("joining", "closed")
    /\ \A c \in Clients : handler[c] = Idle
    /\ log_open' = FALSE
    /\ UNCHANGED <<pool, telemetry, clock, requests, dbms, log, garbled, g_stop>>

\* Time passes.  The clock starts when the first request finishes: only the
\* differences of times matter.
Finished(c) == handler[c].pc \in {"log", "observe"}

pass ==
    /\ main \in {"serving", "joining"}
    /\ observed # <<>> \/ \E c \in Clients : Finished(c)
    /\ clock < MaxTime /\ Affordable(next_id, clock + 1)
    /\ tick
    /\ UNCHANGED <<pool, telemetry, requests, dbms, accesslog, process>>

----------------------------------------------------------------------------
\* After load_all: every database has a row with the stored string.
Init ==
    /\ PoolInit(<<Stored>>)
    /\ rows = [db \in Databases |-> by_value[Stored]]
    /\ TelemetryInit
    /\ next_id = 0
    /\ handler = [c \in Clients |-> Idle]
    /\ active = None /\ mutex = None
    /\ log = {} /\ log_open = LogPath
    /\ g_stop = FALSE /\ main = "serving"
    /\ chosen = [c \in Clients |-> None]
    /\ meant = [db \in Databases |-> Stored]
    /\ garbled = {}

Handle(c) ==
    \/ parse(c) \/ execute(c) \/ use_string(c)
    \/ log_request(c) \/ log_request_throws(c) \/ respond(c)
MainThread == report \/ stop

Next ==
    \/ \E c \in Clients :
         \/ \E st \in Statements : query(c, st)
         \/ Handle(c)
         \/ crash(c)
    \/ MainThread
    \/ on_signal
    \/ pass

\* A thread that can run does; requests and signals need not come.  The mutex
\* of the Dbms is not fair, and does not have to be: requests are finite.
Fairness ==
    /\ \A c \in Clients : WF_vars(Handle(c))
    /\ WF_vars(MainThread)

Spec == Init /\ [][Next]_vars /\ Fairness

----------------------------------------------------------------------------
InFlight == {c \in Clients : handler[c] # Idle}

Requests ==
    [pc : {"parse", "execute", "use_string", "log", "observe"},
     rid : 1..next_id, stmt : Statements, id : 0..Len(by_id),
     ref : [buffer : 0..buffer, id : 0..Len(by_id)],
     raced : BOOLEAN, right : BOOLEAN, ok : BOOLEAN, finished : 0..clock]

\* Type invariant; an error is always a request, and only a handler inside
\* execute holds the mutex.
TypeOK ==
    /\ PoolTypeOK /\ TelemetryTypeOK
    /\ next_id \in Nat
    /\ \A c \in Clients : handler[c] = Idle \/ handler[c] \in Requests
    /\ rows \in [Databases -> {None} \cup 0..Len(by_id)]
    /\ active \in Databases \cup {None}
    /\ mutex \in Clients \cup {None}
    /\ mutex # None => handler[mutex].pc = "use_string"
    /\ log \subseteq 1..next_id /\ log_open \in BOOLEAN
    /\ g_stop \in BOOLEAN
    /\ main \in {"serving", "joining", "closed", "crashed"}
    /\ chosen \in [Clients -> Databases \cup {None}]
    /\ meant \in [Databases -> Strings]
    /\ garbled \subseteq 1..next_id

(* SelectionHolds: the selected database exists, whatever the order in     *)
(* which handlers drop, create and select databases, and it is the one     *)
(* that a client selected for as long as no other client selects another   *)
(* one or drops it (use_database and drop_database of core/dbms.cpp).      *)
SelectionHolds ==
    /\ active # None => Exists(active)
    /\ \A c \in Clients : chosen[c] # None => active = chosen[c]

\* The ids that handlers and rows hold, each with the string it should denote.
Held ==
    {<<handler[c].id, handler[c].stmt.str>> : c \in {d \in InFlight : handler[d].id # kInvalid}}
    \cup {<<rows[db], meant[db]>> : db \in {d \in Databases : Exists(d) /\ rows[d] # kInvalid}}

(* IdsDenoteStrings: an id that a statement got when it was parsed, or     *)
(* that it left in a row, denotes the literal of that statement for good,  *)
(* whatever other handlers intern between parsing, executing and reading;  *)
(* and ids from different statements and rows are equal exactly when their *)
(* strings are: Value::operator== and the shortcut of Value::compare       *)
(* compare ids (core/value.cpp).                                           *)
IdsDenoteStrings ==
    /\ \A h \in Held : by_id[h[1]] = h[2]
    /\ \A g, h \in Held : g[1] = h[1] <=> g[2] = h[2]

(* AnswersRight: a statement reads the strings it means to read, and the   *)
(* process survives, unless another handler parsed a string that was new   *)
(* to the pool while the statement held a reference from StringPool::get.  *)
(* The mutex of the Dbms, which parsing does not take, is no protection    *)
(* against that (string_pool.cpp:45).                                      *)
AnswersRight ==
    /\ \A c \in InFlight : ~handler[c].right => handler[c].raced
    /\ main = "crashed" => \E c \in InFlight : handler[c].raced

\* Requests that are answered, and those that the access log cannot take.
Answered == (1..next_id) \ {handler[c].rid : c \in InFlight}
Unwritable == IF LogPath THEN garbled ELSE {}

(* AllAccounted: at any time, the metrics have counted the requests that   *)
(* are answered, and the access log has those whose handlers have logged   *)
(* them, but for those that are not UTF-8: where there is a log, they are  *)
(* answered and in neither, and no other request is missing because of     *)
(* them.  A shutdown closes the log only after the last request.           *)
AllAccounted ==
    /\ total_requests = Cardinality(Answered \ Unwritable)
    /\ LET unlogged == {handler[c].rid : c \in {d \in InFlight : handler[d].pc # "observe"}}
       IN LogPath => log = (1..next_id) \ (unlogged \cup garbled)
    /\ main = "closed" => InFlight = {}

(* Progress: every request is answered, and a signal makes the server shut *)
(* down, unless a dangling reference ends the process before.  No handler  *)
(* waits forever for the mutex of the Dbms, and join waits for finitely    *)
(* many requests.                                                          *)
Progress ==
    /\ \A c \in Clients : c \in InFlight ~> (handler[c] = Idle \/ main = "crashed")
    /\ g_stop ~> main \in {"closed", "crashed"}
=============================================================================
