------------------------------- MODULE Session -------------------------------
(***************************************************************************)
(* The session of the application with a collector: the fields of AppState *)
(* (src-tauri/src/state.rs) that say which collector is on screen, and the *)
(* commands that read and write them.  Every field has a mutex of its own  *)
(* and no command holds two of them at once, so a command is a sequence of *)
(* steps, one per lock it takes, and the steps of several commands         *)
(* interleave.  A command is a plan: the names of the steps it has left.   *)
(*                                                                         *)
(* There are three kinds of process.  "ui" is the connection dialog, which *)
(* runs one command at a time (connect, disconnect, switch, demo); "f5" is *)
(* the refresh button, which is not blocked by the dialog; the processes   *)
(* in Queries are the calls of the screens, of MCP and of the prefetcher.  *)
(***************************************************************************)
EXTENDS Naturals, Sequences, FiniteSets

CONSTANTS
    Hosts, Ports,   \* what an address is made of
    Collectors,     \* the addresses at which a collector answers
    Targets,        \* the collectors the user connects to
    ServerId,       \* the name each collector gives itself
    None, Demo,     \* no value; the server name of the demo mode
    Queries,        \* processes that run queries
    Kinds,          \* the kinds of query each of them runs
    MaxIdle,        \* MAX_IDLE_QUERY_CONNS
    MaxCommands, MaxRefresh, MaxQueries   \* bounds on the calls of a behaviour

Address == Hosts \X Ports

ASSUME SessionAssumption ==
    /\ Collectors \subseteq Address
    /\ Targets \subseteq Collectors
    /\ DOMAIN ServerId = Collectors
    /\ None \notin Hosts /\ None \notin Ports /\ None \notin Address
    /\ \A a \in Collectors : ServerId[a] \notin {None, Demo}
    /\ Demo # None
    /\ Queries \cap {"ui", "f5"} = {}
    /\ MaxIdle \in Nat /\ MaxCommands \in Nat
    /\ MaxRefresh \in Nat /\ MaxQueries \in Nat

Commands == {"ui", "f5"}
Processes == Commands \cup Queries

VARIABLES
    connection,   \* the collector of the main connection, or None
    holder,       \* the process that holds the mutex of connection, or None
    query_pool,   \* the idle query connections
    conn_host, conn_port,   \* the parameters of a new connection
    server_id,    \* the name of the server on screen, Demo or None
    clock,        \* the collector whose clock the offset was measured on
    cache,        \* the collector whose cache file is attached, or None
    todo,         \* the steps each process still has to take
    loc,          \* the local variables of each process
    calls,        \* how many calls each process has made
    calm,         \* no command has overlapped the call (a history variable)
    quiet         \* no race is left to repair (a history variable)

fields == <<connection, query_pool, conn_host, conn_port, server_id, clock, cache>>
vars == <<fields, holder, todo, loc, calls, calm, quiet>>

-----------------------------------------------------------------------------
(* The plans.  A query connection is borrowed in four steps, of which only *)
(* the first is taken when the pool is not empty.                          *)

Borrow == <<"pop", "readHost", "readPort", "dial">>

Connect_SidFirst == <<"dial", "setSid", "setClock", "setConn", "clearPool", "setHost",
                      "setPort", "readHost", "readPort", "openCache">>
Connect_CacheFirst == <<"dial", "setClock", "setConn", "clearPool", "readHost", "readPort",
                        "openCache", "setHost", "setPort", "setSid">>
Connect_OldParams == <<"dial", "setClock", "setConn", "clearPool", "readHost", "readPort",
                       "setHost", "setPort", "openCache", "setSid">>
Connect == <<"dial", "setClock", "setConn", "clearPool", "setHost", "setPort",
             "readHost", "readPort", "openCache", "setSid">>
Disconnect_KeepCache == <<"noConn", "noSid", "noClock", "clearPool">>
Disconnect == <<"noConn", "noSid", "noClock", "noCache", "clearPool">>
Switch == Disconnect \o Connect
DemoMode == <<"demoSid", "noClock", "noCache">>
Refresh == <<"needSid", "readHost", "readPort", "dial", "setConn", "clearPool", "setClock">>

LoadPast == <<"getCache", "getClock", "gate">> \o Borrow \o <<"page", "release">>
SearchPage == <<"gate", "getCache", "getClock">> \o Borrow \o <<"page", "release">>
ObjTypeMaps == <<"gate">> \o Borrow \o <<"page", "release">>
Distribution == <<"getCache", "getClock", "hold", "page", "drop">>
WithConn == <<"someSid">> \o Borrow \o <<"getCache", "getClock", "page", "release">>
Prefetch == <<"getCache", "needCache">> \o Borrow
            \o <<"release", "readHost", "readPort", "fetch", "rest">>
SaveHistory == <<"sameSid", "readHost", "readPort", "save", "rest">>

QueryPlan ==
    [past |-> LoadPast, search |-> SearchPage, types |-> ObjTypeMaps, dist |-> Distribution,
     mcp |-> WithConn, prefetch |-> Prefetch, history |-> SaveHistory]

ASSUME KindsAssumption == \A q \in Queries : Kinds[q] \subseteq DOMAIN QueryPlan

-----------------------------------------------------------------------------
Connection == [to : Collectors, stray : BOOLEAN]
NoConnection == [to |-> None, stray |-> FALSE]

Idle == [screen |-> None, sid |-> None, host |-> None, port |-> None,
         conn |-> NoConnection, db |-> None, clk |-> None, got |-> None]

Busy(p) == todo[p] # <<>>
At(p, step) == Busy(p) /\ Head(todo[p]) = step

\* The address a new connection goes to, and the collector on screen.
Params == <<conn_host, conn_port>>
OnScreen(sid) == sid \notin {None, Demo}

Init ==
    /\ connection = None
    /\ holder = None
    /\ query_pool = <<>>
    /\ conn_host = None
    /\ conn_port = None
    /\ server_id = None
    /\ clock = None
    /\ cache = None
    /\ todo = [p \in Processes |-> <<>>]
    /\ loc = [p \in Processes |-> Idle]
    /\ calls = [p \in Processes |-> 0]
    /\ calm = [p \in Processes |-> TRUE]
    /\ quiet = TRUE

-----------------------------------------------------------------------------
(* Starting a call.  A command disturbs every call that is in flight, and  *)
(* a call is disturbed by every command that is.                           *)

Begin(p, plan, start) ==
    /\ ~Busy(p)
    /\ todo' = [todo EXCEPT ![p] = plan]
    /\ loc' = [loc EXCEPT ![p] = start]
    /\ calls' = [calls EXCEPT ![p] = @ + 1]
    /\ calm' = [q \in Processes |->
                  IF q = p THEN \A c \in Commands \ {p} : ~Busy(c)
                  ELSE calm[q] /\ ~(p \in Commands /\ Busy(q))]
    /\ UNCHANGED <<fields, holder, quiet>>

\* The dialog offers Connect and Demo while nothing is connected, and the
\* server list and the disconnect button afterwards.
StartConnect(a) ==
    /\ calls["ui"] < MaxCommands
    /\ \/ server_id = None /\ Begin("ui", Connect, [Idle EXCEPT !.host = a[1], !.port = a[2]])
       \/ server_id # None /\ Begin("ui", Switch, [Idle EXCEPT !.host = a[1], !.port = a[2]])

StartDisconnect ==
    /\ calls["ui"] < MaxCommands
    /\ server_id # None
    /\ Begin("ui", Disconnect, Idle)

StartDemo ==
    /\ calls["ui"] < MaxCommands
    /\ server_id = None
    /\ Begin("ui", DemoMode, Idle)

StartRefresh ==
    /\ calls["f5"] < MaxRefresh
    /\ server_id # None
    /\ Begin("f5", Refresh, Idle)

\* A query is asked of the collector on screen; the history of its objects is
\* saved under the name the screen knows it by.
StartQuery(p, kind) ==
    /\ calls[p] < MaxQueries
    /\ Begin(p, QueryPlan[kind], [Idle EXCEPT !.screen = Params, !.sid = server_id])

-----------------------------------------------------------------------------
(* Going on and giving up.                                                 *)

\* A command that ran alone has set every field; one that met another
\* command, or did not get to its end, has repaired nothing.
Repairs(p) == p = "ui" /\ calm[p] /\ todo[p] \in {<<"setSid">>, <<"clearPool">>}
Settle(p) == IF p \in Commands THEN quiet' = (Repairs(p) \/ (quiet /\ calm[p]))
             ELSE UNCHANGED quiet

Advance(p, local) ==
    /\ todo' = [todo EXCEPT ![p] = Tail(@)]
    /\ loc' = [loc EXCEPT ![p] = IF Len(todo[p]) = 1 THEN Idle ELSE local]
    /\ IF Len(todo[p]) = 1 THEN Settle(p) ELSE UNCHANGED quiet
    /\ UNCHANGED <<calls, calm>>

Keep(p) == Advance(p, loc[p])

\* An error returns from the call at once: a borrowed connection is dropped,
\* and so is the guard of the main connection.
Fail(p) ==
    /\ todo' = [todo EXCEPT ![p] = <<>>]
    /\ loc' = [loc EXCEPT ![p] = Idle]
    /\ holder' = IF holder = p THEN None ELSE holder
    /\ IF p \in Commands THEN quiet' = (quiet /\ calm[p]) ELSE UNCHANGED quiet
    /\ UNCHANGED <<fields, calls, calm>>

-----------------------------------------------------------------------------
(* Steps that read a field, or refuse the call because of one.             *)

ReadHost(p) == At(p, "readHost") /\ Advance(p, [loc[p] EXCEPT !.host = conn_host])
               /\ UNCHANGED <<fields, holder>>
ReadPort(p) == At(p, "readPort") /\ Advance(p, [loc[p] EXCEPT !.port = conn_port])
               /\ UNCHANGED <<fields, holder>>
GetCache(p) == At(p, "getCache") /\ Advance(p, [loc[p] EXCEPT !.db = cache])
               /\ UNCHANGED <<fields, holder>>
GetClock(p) == At(p, "getClock") /\ Advance(p, [loc[p] EXCEPT !.clk = clock])
               /\ UNCHANGED <<fields, holder>>

Check(p, step, ok) ==
    /\ At(p, step)
    /\ IF ok THEN Keep(p) /\ UNCHANGED <<fields, holder>> ELSE Fail(p)

NeedSid(p)   == Check(p, "needSid", OnScreen(server_id))
SomeSid(p)   == Check(p, "someSid", server_id # None)
SameSid(p)   == Check(p, "sameSid", OnScreen(server_id) /\ server_id = loc[p].sid)
NeedCache(p) == Check(p, "needCache", loc[p].db # None)
Gate(p)      == holder = None /\ Check(p, "gate", connection # None)

-----------------------------------------------------------------------------
(* Connections.                                                            *)

\* A new connection is dialled and logged in, and either may fail.  The address
\* that acquire_query_conn has read ends with it.
Dial(p) ==
    /\ At(p, "dial")
    /\ \/ /\ <<loc[p].host, loc[p].port>> \in Collectors
          /\ LET opened == [loc[p] EXCEPT
                   !.conn = [to |-> <<loc[p].host, loc[p].port>>, stray |-> FALSE]]
             IN  Advance(p, IF p \in Commands THEN opened
                            ELSE [opened EXCEPT !.host = None, !.port = None])
          /\ UNCHANGED <<fields, holder>>
       \/ Fail(p)

\* The connection that was given back last is lent first; with an empty pool
\* the next three steps open a new one.
Pop(p) ==
    /\ At(p, "pop")
    /\ IF query_pool = <<>>
       THEN Keep(p) /\ UNCHANGED query_pool
       ELSE LET n == Len(query_pool) IN
            /\ query_pool' = SubSeq(query_pool, 1, n - 1)
            /\ todo' = [todo EXCEPT ![p] = SubSeq(@, Len(Borrow) + 1, Len(@))]
            /\ loc' = [loc EXCEPT ![p].conn = query_pool[n]]
            /\ UNCHANGED <<calls, calm, quiet>>
    /\ UNCHANGED <<connection, conn_host, conn_port, server_id, clock, cache, holder>>

\* A connection is marked as stray when a command overlapped its loan.
Release(p) ==
    /\ At(p, "release")
    /\ query_pool' = IF Len(query_pool) < MaxIdle
                     THEN Append(query_pool,
                                 [loc[p].conn EXCEPT !.stray = @ \/ ~calm[p]])
                     ELSE query_pool
    /\ Keep(p)
    /\ UNCHANGED <<connection, conn_host, conn_port, server_id, clock, cache, holder>>

ClearPool_Not(p) == At(p, "clearPool") /\ Keep(p) /\ UNCHANGED <<fields, holder>>

ClearPool(p) ==
    /\ At(p, "clearPool")
    /\ query_pool' = <<>>
    /\ Keep(p)
    /\ UNCHANGED <<connection, conn_host, conn_port, server_id, clock, cache, holder>>

\* get_xlog_distribution keeps the mutex of the main connection to its end.
Hold(p) ==
    /\ At(p, "hold") /\ holder = None
    /\ IF connection = None THEN Fail(p)
       ELSE /\ holder' = p
            /\ Advance(p, [loc[p] EXCEPT !.conn = [to |-> connection, stray |-> FALSE]])
            /\ UNCHANGED fields

Drop_KeepsGuard(p) == At(p, "drop") /\ Keep(p) /\ UNCHANGED <<fields, holder>>
Drop(p) == At(p, "drop") /\ holder' = None /\ Keep(p) /\ UNCHANGED fields

\* The collector at the other end of the borrowed connection answers.
Page(p) ==
    /\ At(p, "page")
    /\ \/ Advance(p, [loc[p] EXCEPT !.got = loc[p].conn.to]) /\ UNCHANGED <<fields, holder>>
       \/ Fail(p)

\* The prefetcher asks with the session of the connection it gave back, at the
\* address it reads afterwards: a session of another collector is refused.
Fetch(p) ==
    /\ At(p, "fetch")
    /\ \/ /\ loc[p].conn.to = <<loc[p].host, loc[p].port>>
          /\ Advance(p, [loc[p] EXCEPT !.got = loc[p].conn.to]) /\ UNCHANGED <<fields, holder>>
       \/ Fail(p)

\* The file of the object history is that of the address that was read.
Save(p) == At(p, "save")
           /\ Advance(p, [loc[p] EXCEPT !.got = <<loc[p].host, loc[p].port>>])
           /\ UNCHANGED <<fields, holder>>

Rest(p) == At(p, "rest") /\ Keep(p) /\ UNCHANGED <<fields, holder>>

-----------------------------------------------------------------------------
(* Steps that write a field.                                               *)

\* The main connection is replaced under its mutex.
SetConn(p) ==
    /\ At(p, "setConn") /\ holder = None
    /\ connection' = loc[p].conn.to
    /\ Keep(p)
    /\ UNCHANGED <<query_pool, conn_host, conn_port, server_id, clock, cache, holder>>

NoConn(p) ==
    /\ At(p, "noConn") /\ holder = None
    /\ connection' = None
    /\ Keep(p)
    /\ UNCHANGED <<query_pool, conn_host, conn_port, server_id, clock, cache, holder>>

SetHost(p) == At(p, "setHost") /\ conn_host' = loc[p].host /\ Keep(p)
    /\ UNCHANGED <<connection, query_pool, conn_port, server_id, clock, cache, holder>>
SetPort(p) == At(p, "setPort") /\ conn_port' = loc[p].port /\ Keep(p)
    /\ UNCHANGED <<connection, query_pool, conn_host, server_id, clock, cache, holder>>

SidStep(p, step, name) == At(p, step) /\ server_id' = name /\ Keep(p)
    /\ UNCHANGED <<connection, query_pool, conn_host, conn_port, clock, cache, holder>>
SetSid(p)  == SidStep(p, "setSid", ServerId[loc[p].conn.to])
NoSid(p)   == SidStep(p, "noSid", None)
DemoSid(p) == SidStep(p, "demoSid", Demo)

ClockStep(p, step, c) == At(p, step) /\ clock' = c /\ Keep(p)
    /\ UNCHANGED <<connection, query_pool, conn_host, conn_port, server_id, cache, holder>>
SetClock(p) == ClockStep(p, "setClock", loc[p].conn.to)
NoClock(p)  == ClockStep(p, "noClock", None)

CacheStep(p, step, c) == At(p, step) /\ cache' = c /\ Keep(p)
    /\ UNCHANGED <<connection, query_pool, conn_host, conn_port, server_id, clock, holder>>
\* Without a cache file the session goes on without a cache.
OpenCache(p) == \E db \in {<<loc[p].host, loc[p].port>>, None} : CacheStep(p, "openCache", db)
NoCache(p)   == CacheStep(p, "noCache", None)

-----------------------------------------------------------------------------
Step(p) ==
    \/ ReadHost(p) \/ ReadPort(p) \/ GetCache(p) \/ GetClock(p)
    \/ NeedSid(p) \/ SomeSid(p) \/ SameSid(p) \/ NeedCache(p) \/ Gate(p)
    \/ Dial(p) \/ Pop(p) \/ Release(p) \/ ClearPool(p) \/ Hold(p) \/ Drop(p)
    \/ Page(p) \/ Fetch(p) \/ Save(p) \/ Rest(p)
    \/ SetConn(p) \/ NoConn(p) \/ SetHost(p) \/ SetPort(p)
    \/ SetSid(p) \/ NoSid(p) \/ DemoSid(p) \/ SetClock(p) \/ NoClock(p)
    \/ OpenCache(p) \/ NoCache(p)

Start ==
    \/ \E a \in Targets : StartConnect(a)
    \/ StartDisconnect \/ StartDemo \/ StartRefresh
    \/ \E p \in Queries : \E kind \in Kinds[p] : StartQuery(p, kind)

Next == Start \/ \E p \in Processes : Step(p)

Spec == Init /\ [][Next]_vars

\* A call that has begun goes on: the runtime polls every task that is ready.
\* That is enough, because the calls of a behaviour are bounded, so a mutex is
\* not taken from a waiter again and again (and tokio's is served in order).
FairSpec == Spec /\ \A p \in Processes : WF_vars(Step(p))

-----------------------------------------------------------------------------
(* Properties.                                                             *)

TypeOK ==
    /\ connection \in Collectors \cup {None}
    /\ holder \in Queries \cup {None}
    /\ query_pool \in Seq(Connection) /\ Len(query_pool) <= MaxIdle
    /\ conn_host \in Hosts \cup {None} /\ conn_port \in Ports \cup {None}
    /\ server_id \in {ServerId[a] : a \in Collectors} \cup {None, Demo}
    /\ clock \in Collectors \cup {None}
    /\ cache \in Address \cup {None}
    /\ calm \in [Processes -> BOOLEAN] /\ quiet \in BOOLEAN

AtRest == \A c \in Commands : ~Busy(c)
NoRace == quiet /\ \A c \in Commands : Busy(c) => calm[c]

\* Once no command is in flight, the fields describe one collector or none:
\* whatever a refresh that overlapped a command has left behind is gone after
\* the next connect or disconnect that runs alone (connect_scouter,
\* disconnect_scouter, refresh_connection, start_mock_stream).
SettledAgrees ==
    AtRest /\ NoRace =>
        IF OnScreen(server_id)
        THEN /\ Params \in Collectors /\ ServerId[Params] = server_id
             /\ connection = Params /\ clock = Params /\ cache \in {Params, None}
        ELSE connection = None /\ clock = None /\ cache = None

\* The name of the server is published last and withdrawn before the cache and
\* the clock: a window that sees it finds no field of another collector, even
\* in the middle of a command (get_connection_info).
PublishedLast ==
    NoRace /\ OnScreen(server_id) =>
        /\ Params \in Collectors /\ ServerId[Params] = server_id
        /\ {connection, clock, cache} \subseteq {Params, None}

\* With no command in flight, a pooled connection that no command overlapped
\* goes where a new one would go (clear_query_pool).
PoolFollowsServer ==
    AtRest => \A i \in DOMAIN query_pool :
                  query_pool[i].stray \/ query_pool[i].to = Params

\* A call that no command overlapped, and that did not borrow a connection an
\* overlapped call had given back, is answered by the collector on screen.
Undisturbed(p) == Busy(p) /\ calm[p] /\ NoRace /\ ~loc[p].conn.stray
CalmAnswer ==
    \A p \in Queries : Undisturbed(p) /\ loc[p].got # None =>
        /\ loc[p].got = loc[p].screen
        /\ OnScreen(server_id) =>
              loc[p].got \in Collectors /\ ServerId[loc[p].got] = server_id

\* Such a call also keeps the caches apart: the rows of a collector go to its
\* own file, sealed by its own clock.
CalmCache ==
    \A p \in Queries : Undisturbed(p) /\ loc[p].got # None /\ loc[p].db # None
        => loc[p].db = loc[p].got /\ loc[p].clk \in {loc[p].got, None}

\* A call that no command overlapped is answered by the collector on screen, and
\* what it caches is filed under that collector (acquire_query_conn and its
\* callers, load_past_xlog, get_xlog_distribution, the prefetcher).
AnswersOfScreen == CalmAnswer /\ CalmCache

\* Every call ends: the mutexes form no cycle, and the long distribution query
\* gives the main connection back (get_xlog_distribution, disconnect_scouter).
CallsEnd == \A p \in Processes : Busy(p) ~> ~Busy(p)

=============================================================================
