---------------------------- MODULE SessionProofs ----------------------------
(***************************************************************************)
(* Whatever the collectors, the queries and the number of calls: a command *)
(* that no other overlapped leaves fields that describe one collector, and *)
(* publishes the name of the server last (commands.rs, state.rs); a call   *)
(* that no command overlapped is answered by the collector on screen, and  *)
(* the pool holds no connection to another one (acquire_query_conn,        *)
(* release_query_conn, clear_query_pool and the commands that borrow).     *)
(*                                                                         *)
(* The fields follow the plan of the one command in flight, so the         *)
(* inductive invariant says, for each rest of a plan, which fields have    *)
(* their new value (Stages), and what the others have if nothing was left  *)
(* to repair (quiet).  For the queries it says on top of that where each   *)
(* is in its plan (Queried), what it can have read by then, and that       *)
(* nothing but strays enters the pool between the clearing and the new     *)
(* address (PoolTrue).                                                     *)
(***************************************************************************)
EXTENDS Session, SequenceTheorems, TLAPS

CommandSteps == {"dial", "setClock", "setConn", "clearPool", "setHost", "setPort", "readHost",
                 "readPort", "openCache", "setSid", "noConn", "noSid", "noClock", "noCache",
                 "demoSid", "needSid"}
QuerySteps == {"pop", "readHost", "readPort", "dial", "getCache", "getClock", "gate", "page",
               "release", "hold", "drop", "someSid", "needCache", "fetch", "rest", "sameSid",
               "save"}
CommandLoc == [screen : {None}, sid : {None}, host : Hosts \cup {None}, port : Ports \cup {None},
               conn : [to : Collectors \cup {None}, stray : {FALSE}],
               db : {None}, clk : {None}, got : {None}]

Types ==
    /\ conn_host \in Hosts \cup {None} /\ conn_port \in Ports \cup {None}
    /\ DOMAIN todo = Processes /\ todo = [p \in Processes |-> todo[p]]
    /\ DOMAIN loc = Processes /\ loc = [p \in Processes |-> loc[p]]
    /\ \A c \in Commands : todo[c] \in Seq(CommandSteps) /\ loc[c] \in CommandLoc
    /\ \A q \in Queries : todo[q] \in Seq(QuerySteps)
    /\ calm \in [Processes -> BOOLEAN] /\ quiet \in BOOLEAN

-----------------------------------------------------------------------------
(* The rests of the plans of the commands.                                 *)

C1 == <<"setSid">>
C2 == <<"openCache", "setSid">>
C3 == <<"readPort", "openCache", "setSid">>
C4 == <<"readHost", "readPort", "openCache", "setSid">>
C5 == <<"setPort", "readHost", "readPort", "openCache", "setSid">>
C6 == <<"setHost", "setPort", "readHost", "readPort", "openCache", "setSid">>
C7 == <<"clearPool", "setHost", "setPort", "readHost", "readPort", "openCache", "setSid">>
C8 == <<"setConn", "clearPool", "setHost", "setPort", "readHost", "readPort", "openCache",
        "setSid">>
C9 == <<"setClock", "setConn", "clearPool", "setHost", "setPort", "readHost", "readPort",
        "openCache", "setSid">>
D1 == <<"clearPool">>
D2 == <<"noCache", "clearPool">>
D3 == <<"noClock", "noCache", "clearPool">>
D4 == <<"noSid", "noClock", "noCache", "clearPool">>
M1 == <<"noCache">>
M2 == <<"noClock", "noCache">>
R1 == <<"setClock">>
R2 == <<"clearPool", "setClock">>
R3 == <<"setConn", "clearPool", "setClock">>
R4 == <<"dial", "setConn", "clearPool", "setClock">>
R5 == <<"readPort", "dial", "setConn", "clearPool", "setClock">>
R6 == <<"readHost", "readPort", "dial", "setConn", "clearPool", "setClock">>

LEMMA RestsOfConnect ==
    /\ Head(Connect) = "dial" /\ Tail(Connect) = C9
    /\ Head(C9) = "setClock"  /\ Tail(C9) = C8
    /\ Head(C8) = "setConn"   /\ Tail(C8) = C7
    /\ Head(C7) = "clearPool" /\ Tail(C7) = C6
    /\ Head(C6) = "setHost"   /\ Tail(C6) = C5
    /\ Head(C5) = "setPort"   /\ Tail(C5) = C4
    /\ Head(C4) = "readHost"  /\ Tail(C4) = C3
    /\ Head(C3) = "readPort"  /\ Tail(C3) = C2
    /\ Head(C2) = "openCache" /\ Tail(C2) = C1
    /\ Head(C1) = "setSid"    /\ Tail(C1) = <<>>
BY DEF Connect, C9, C8, C7, C6, C5, C4, C3, C2, C1

LEMMA RestsOfDisconnect ==
    /\ Head(Disconnect) = "noConn" /\ Tail(Disconnect) = D4
    /\ Head(D4) = "noSid"     /\ Tail(D4) = D3
    /\ Head(D3) = "noClock"   /\ Tail(D3) = D2
    /\ Head(D2) = "noCache"   /\ Tail(D2) = D1
    /\ Head(D1) = "clearPool" /\ Tail(D1) = <<>>
BY DEF Disconnect, D4, D3, D2, D1

LEMMA RestsOfDemo ==
    /\ Head(DemoMode) = "demoSid" /\ Tail(DemoMode) = M2
    /\ Head(M2) = "noClock" /\ Tail(M2) = M1
    /\ Head(M1) = "noCache" /\ Tail(M1) = <<>>
BY DEF DemoMode, M2, M1

LEMMA RestsOfRefresh ==
    /\ Head(Refresh) = "needSid" /\ Tail(Refresh) = R6
    /\ Head(R6) = "readHost"  /\ Tail(R6) = R5
    /\ Head(R5) = "readPort"  /\ Tail(R5) = R4
    /\ Head(R4) = "dial"      /\ Tail(R4) = R3
    /\ Head(R3) = "setConn"   /\ Tail(R3) = R2
    /\ Head(R2) = "clearPool" /\ Tail(R2) = R1
    /\ Head(R1) = "setClock"  /\ Tail(R1) = <<>>
BY DEF Refresh, R6, R5, R4, R3, R2, R1

\* Only the last step of a plan ends it.
LEMMA Lengths ==
    /\ \A r \in {Connect, C9, C8, C7, C6, C5, C4, C3, C2, Disconnect, D4, D3, D2,
                 DemoMode, M2, Refresh, R6, R5, R4, R3, R2} : Len(r) \notin {0, 1}
    /\ \A r \in {C1, D1, M1, R1} : Len(r) = 1
<1>1. /\ Len(Connect) \notin {0, 1} /\ Len(C9) \notin {0, 1} /\ Len(C8) \notin {0, 1}
      /\ Len(C7) \notin {0, 1} /\ Len(C6) \notin {0, 1} /\ Len(C5) \notin {0, 1}
      /\ Len(C4) \notin {0, 1} /\ Len(C3) \notin {0, 1} /\ Len(C2) \notin {0, 1}
    BY DEF Connect, C9, C8, C7, C6, C5, C4, C3, C2
<1>2. \A r \in {Disconnect, D4, D3, D2, DemoMode, M2} : Len(r) \notin {0, 1}
    BY DEF Disconnect, D4, D3, D2, DemoMode, M2
<1>3. \A r \in {Refresh, R6, R5, R4, R3, R2} : Len(r) \notin {0, 1}
    BY DEF Refresh, R6, R5, R4, R3, R2
<1>4. \A r \in {C1, D1, M1, R1} : Len(r) = 1
    BY DEF C1, D1, M1, R1
<1>5. \A r \in {Connect, C9, C8, C7, C6, C5, C4, C3, C2} : Len(r) \notin {0, 1}
    BY <1>1
<1> QED BY <1>2, <1>3, <1>4, <1>5, Zenon

LEMMA NotEmpty ==
    \A r \in {Connect, C9, C8, C7, C6, C5, C4, C3, C2, C1, Disconnect, D4, D3, D2, D1,
              DemoMode, M2, M1, Refresh, R6, R5, R4, R3, R2, R1} : r # <<>>
<1>1. \A r : Len(r) \notin {0, 1} \/ Len(r) = 1 => r # <<>>
    OBVIOUS
<1> QED BY <1>1, Lengths, Zenon

LEMMA HeadTailConcat ==
    ASSUME NEW S, NEW s \in Seq(S), NEW t \in Seq(S), s # <<>>
    PROVE  /\ Head(s \o t) = Head(s) /\ Tail(s \o t) = Tail(s) \o t
           /\ Len(s \o t) = Len(s) + Len(t) /\ Len(s) # 0
<1>1. Len(s \o t) = Len(s) + Len(t) /\ Len(s) \in Nat \ {0} /\ Len(t) \in Nat
    OBVIOUS
<1>2. Head(s \o t) = Head(s)
    BY <1>1
<1>3. /\ Tail(s \o t) \in Seq(S) /\ Tail(s) \o t \in Seq(S)
      /\ Len(Tail(s \o t)) = Len(Tail(s) \o t)
    BY <1>1
<1>4. ASSUME NEW i \in 1 .. Len(Tail(s \o t)) PROVE Tail(s \o t)[i] = (Tail(s) \o t)[i]
    BY <1>1
<1>5. Tail(s \o t) = Tail(s) \o t
    BY <1>3, <1>4, SeqEqual
<1> QED BY <1>1, <1>2, <1>5

LEMMA PlansOfCommands ==
    /\ Connect \in Seq(CommandSteps) /\ Disconnect \in Seq(CommandSteps)
    /\ DemoMode \in Seq(CommandSteps) /\ Refresh \in Seq(CommandSteps)
    /\ D4 \in Seq(CommandSteps) /\ D3 \in Seq(CommandSteps)
    /\ D2 \in Seq(CommandSteps) /\ D1 \in Seq(CommandSteps)
<1>1. Connect \in Seq(CommandSteps)
    BY DEF Connect, CommandSteps
<1>2. Disconnect \in Seq(CommandSteps)
    BY DEF Disconnect, CommandSteps
<1>3. DemoMode \in Seq(CommandSteps)
    BY DEF DemoMode, CommandSteps
<1>4. Refresh \in Seq(CommandSteps)
    BY DEF Refresh, CommandSteps
<1>5. D4 \in Seq(CommandSteps) /\ D3 \in Seq(CommandSteps)
    BY DEF D4, D3, CommandSteps
<1>6. D2 \in Seq(CommandSteps) /\ D1 \in Seq(CommandSteps)
    BY DEF D2, D1, CommandSteps
<1> QED BY <1>1, <1>2, <1>3, <1>4, <1>5, <1>6

LEMMA PlansOfQueries ==
    \A kind \in DOMAIN QueryPlan : QueryPlan[kind] \in Seq(QuerySteps)
<1>1. Borrow \in Seq(QuerySteps)
    BY DEF Borrow, QuerySteps
<1>2. <<"getCache", "getClock", "gate">> \in Seq(QuerySteps)
      /\ <<"gate", "getCache", "getClock">> \in Seq(QuerySteps)
      /\ <<"gate">> \in Seq(QuerySteps) /\ <<"someSid">> \in Seq(QuerySteps)
      /\ <<"page", "release">> \in Seq(QuerySteps)
    BY DEF QuerySteps
<1>3. <<"getCache", "getClock", "page", "release">> \in Seq(QuerySteps)
      /\ <<"getCache", "needCache">> \in Seq(QuerySteps)
      /\ <<"release", "readHost", "readPort", "fetch", "rest">> \in Seq(QuerySteps)
    BY DEF QuerySteps
<1>4. Distribution \in Seq(QuerySteps) /\ SaveHistory \in Seq(QuerySteps)
    BY DEF QuerySteps, Distribution, SaveHistory
<1>5. /\ LoadPast \in Seq(QuerySteps) /\ SearchPage \in Seq(QuerySteps)
      /\ ObjTypeMaps \in Seq(QuerySteps) /\ WithConn \in Seq(QuerySteps)
      /\ Prefetch \in Seq(QuerySteps)
    BY <1>1, <1>2, <1>3 DEF LoadPast, SearchPage, ObjTypeMaps, WithConn, Prefetch
<1> QED BY <1>4, <1>5 DEF QueryPlan

\* A switch is a disconnect and a connect.
LEMMA RestsOfSwitch ==
    /\ \A d \in {Disconnect, D4, D3, D2, D1} :
          /\ Head(d \o Connect) = Head(d) /\ Tail(d \o Connect) = Tail(d) \o Connect
          /\ Len(d \o Connect) # 1 /\ d \o Connect # <<>>
    /\ Tail(D1 \o Connect) = Connect
    /\ Switch = Disconnect \o Connect
<1>1. ASSUME NEW d \in {Disconnect, D4, D3, D2, D1}
      PROVE  /\ Head(d \o Connect) = Head(d) /\ Tail(d \o Connect) = Tail(d) \o Connect
             /\ Len(d \o Connect) # 1 /\ d \o Connect # <<>>
    <2>1. d \in Seq(CommandSteps) /\ Connect \in Seq(CommandSteps) /\ d # <<>>
        BY PlansOfCommands, NotEmpty
    <2>2. Connect # <<>>
        BY NotEmpty
    <2>3. Len(Connect) \in Nat \ {0} /\ Len(d) \in Nat \ {0}
        BY <2>1, <2>2, EmptySeq
    <2>4. Len(d \o Connect) = Len(d) + Len(Connect)
        BY <2>1, HeadTailConcat
    <2>5. Len(d \o Connect) # 1 /\ Len(d \o Connect) # 0
        BY <2>3, <2>4
    <2> QED BY <2>1, <2>5, HeadTailConcat, EmptySeq
<1>2. Tail(D1 \o Connect) = Connect
    <2>1. Tail(D1 \o Connect) = Tail(D1) \o Connect
        BY <1>1
    <2> QED BY <2>1, RestsOfDisconnect, PlansOfCommands, ConcatEmptySeq
<1> QED BY <1>1, <1>2 DEF Switch

-----------------------------------------------------------------------------
(* The invariant.                                                          *)

\* What SettledAgrees asks for, and what PublishedLast asks for, when no race
\* is left to repair.
Agrees ==
    IF OnScreen(server_id)
    THEN /\ Params \in Collectors /\ ServerId[Params] = server_id
         /\ connection = Params /\ clock = Params /\ cache \in {Params, None}
    ELSE connection = None /\ clock = None /\ cache = None
Published ==
    OnScreen(server_id) =>
        /\ Params \in Collectors /\ ServerId[Params] = server_id
        /\ {connection, clock, cache} \subseteq {Params, None}

Off == ~OnScreen(server_id) /\ connection = None /\ clock = None /\ cache = None

\* The dialog connects to the collector it has dialled.
To == loc["ui"].conn.to
Opened == /\ To \in Collectors /\ To = <<loc["ui"].host, loc["ui"].port>>
          /\ quiet => ~OnScreen(server_id)

Connecting ==
    \/ todo["ui"] = Connect /\ (quiet => Off)
    \/ todo["ui"] = C9 /\ Opened
    \/ todo["ui"] = C8 /\ Opened /\ clock = To
    \/ todo["ui"] \in {C7, C6} /\ Opened /\ clock = To /\ connection = To
    \/ /\ todo["ui"] = C5 /\ Opened /\ clock = To /\ connection = To
       /\ conn_host = loc["ui"].host
    \/ todo["ui"] \in {C4, C3, C2} /\ Opened /\ clock = To /\ connection = To /\ Params = To
    \/ /\ todo["ui"] = C1 /\ Opened /\ clock = To /\ connection = To /\ Params = To
       /\ cache \in {To, None}

\* A disconnect by itself, or the first half of a switch.
Going(d) == todo["ui"] \in {d, d \o Connect}

Disconnecting ==
    \/ Going(Disconnect) /\ (quiet => Agrees)
    \/ Going(D4) /\ connection = None /\ (quiet => Published)
    \/ Going(D3) /\ connection = None /\ ~OnScreen(server_id)
    \/ Going(D2) /\ connection = None /\ ~OnScreen(server_id) /\ clock = None
    \/ Going(D1) /\ Off

Demonstrating == todo["ui"] \in {DemoMode, M2, M1} /\ (quiet => Off)

\* A refresh that no other command overlaps replaces the connection by another
\* one to the same collector.
Refreshing ==
    /\ quiet => Agrees
    /\ \/ todo["f5"] = Refresh
       \/ todo["f5"] = R6 /\ (quiet => OnScreen(server_id))
       \/ todo["f5"] = R5 /\ (quiet => OnScreen(server_id) /\ loc["f5"].host = conn_host)
       \/ /\ todo["f5"] = R4
          /\ quiet => /\ OnScreen(server_id)
                      /\ loc["f5"].host = conn_host /\ loc["f5"].port = conn_port
       \/ /\ todo["f5"] \in {R3, R2, R1}
          /\ quiet => OnScreen(server_id) /\ loc["f5"].conn.to = Params

Stages ==
    /\ AtRest /\ quiet => Agrees
    /\ Busy("ui") /\ calm["ui"] => Connecting \/ Disconnecting \/ Demonstrating
    /\ Busy("f5") /\ calm["f5"] => Refreshing

\* A command that is calm is the only one.
Alone == \A c, d \in Commands : c # d /\ Busy(c) /\ calm[c] => ~Busy(d)

IInv == Types /\ Alone /\ Stages

LEMMA Enough == IInv => SettledAgrees /\ PublishedLast
<1> SUFFICES ASSUME IInv PROVE SettledAgrees /\ PublishedLast
    OBVIOUS
<1>1. SettledAgrees
    BY DEF IInv, Stages, Agrees, SettledAgrees, NoRace
<1>2. PublishedLast
    <2> SUFFICES ASSUME NoRace, OnScreen(server_id) PROVE Published
        BY DEF PublishedLast, Published
    <2>1. CASE AtRest
        BY <2>1 DEF IInv, Stages, Agrees, Published, NoRace
    <2>2. CASE Busy("f5")
        BY <2>2 DEF IInv, Stages, Refreshing, Agrees, Published, NoRace, Commands
    <2>3. CASE Busy("ui")
        <3>1. quiet /\ (Connecting \/ Disconnecting \/ Demonstrating)
            BY <2>3 DEF IInv, Stages, NoRace, Commands
        <3>2. ~Connecting /\ ~Demonstrating
            BY <3>1 DEF Connecting, Demonstrating, Opened, Off
        <3>3. CASE Disconnecting
            BY <3>1, <3>3 DEF Disconnecting, Agrees, Published, Off
        <3> QED BY <3>1, <3>2, <3>3
    <2> QED BY <2>1, <2>2, <2>3 DEF AtRest, Commands
<1> QED BY <1>1, <1>2

-----------------------------------------------------------------------------
(* What a step does to the plan, the locals and the two history variables. *)

LEMMA AdvanceIs ==
    ASSUME Types, NEW p \in Processes, NEW local, Advance(p, local)
    PROVE  /\ todo'[p] = Tail(todo[p])
           /\ loc'[p] = IF Len(todo[p]) = 1 THEN Idle ELSE local
           /\ DOMAIN todo' = Processes /\ todo' = [q \in Processes |-> todo'[q]]
           /\ DOMAIN loc' = Processes /\ loc' = [q \in Processes |-> loc'[q]]
           /\ \A q \in Processes : q # p => todo'[q] = todo[q] /\ loc'[q] = loc[q]
           /\ calm' = calm
           /\ quiet' = IF Len(todo[p]) = 1 /\ p \in Commands
                       THEN Repairs(p) \/ (quiet /\ calm[p]) ELSE quiet
BY DEF Types, Advance, Settle

LEMMA FailIs ==
    ASSUME Types, NEW p \in Processes, Fail(p)
    PROVE  /\ todo'[p] = <<>> /\ loc'[p] = Idle
           /\ DOMAIN todo' = Processes /\ todo' = [q \in Processes |-> todo'[q]]
           /\ DOMAIN loc' = Processes /\ loc' = [q \in Processes |-> loc'[q]]
           /\ \A q \in Processes : q # p => todo'[q] = todo[q] /\ loc'[q] = loc[q]
           /\ calm' = calm /\ UNCHANGED fields
           /\ quiet' = IF p \in Commands THEN quiet /\ calm[p] ELSE quiet
BY DEF Types, Fail

\* The step a process takes is the first of what it has left.
LEMMA StepIs ==
    ASSUME NEW p, Step(p)
    PROVE  /\ Busy(p)
           /\ Head(todo[p]) = "dial" => Dial(p)
           /\ Head(todo[p]) = "setClock" => SetClock(p)
           /\ Head(todo[p]) = "setConn" => SetConn(p)
           /\ Head(todo[p]) = "clearPool" => ClearPool(p)
           /\ Head(todo[p]) = "setHost" => SetHost(p)
           /\ Head(todo[p]) = "setPort" => SetPort(p)
           /\ Head(todo[p]) = "readHost" => ReadHost(p)
           /\ Head(todo[p]) = "readPort" => ReadPort(p)
           /\ Head(todo[p]) = "openCache" => OpenCache(p)
           /\ Head(todo[p]) = "setSid" => SetSid(p)
           /\ Head(todo[p]) = "noConn" => NoConn(p)
           /\ Head(todo[p]) = "noSid" => NoSid(p)
           /\ Head(todo[p]) = "noClock" => NoClock(p)
           /\ Head(todo[p]) = "noCache" => NoCache(p)
           /\ Head(todo[p]) = "demoSid" => DemoSid(p)
           /\ Head(todo[p]) = "needSid" => NeedSid(p)
<1> DEFINE is(step) == Head(todo[p]) = step /\ Busy(p)
<1>1. /\ (ReadHost(p) => is("readHost")) /\ (ReadPort(p) => is("readPort"))
      /\ (GetCache(p) => is("getCache")) /\ (GetClock(p) => is("getClock"))
    BY DEF At, ReadHost, ReadPort, GetCache, GetClock
<1>2. /\ (NeedSid(p) => is("needSid")) /\ (SomeSid(p) => is("someSid"))
      /\ (SameSid(p) => is("sameSid")) /\ (NeedCache(p) => is("needCache"))
      /\ (Gate(p) => is("gate"))
    BY DEF At, NeedSid, SomeSid, SameSid, NeedCache, Gate, Check
<1>3. /\ (Dial(p) => is("dial")) /\ (Pop(p) => is("pop"))
      /\ (Release(p) => is("release")) /\ (ClearPool(p) => is("clearPool"))
      /\ (Hold(p) => is("hold")) /\ (Drop(p) => is("drop"))
    BY DEF At, Dial, Pop, Release, ClearPool, Hold, Drop
<1>4. /\ (Page(p) => is("page")) /\ (Fetch(p) => is("fetch"))
      /\ (Save(p) => is("save")) /\ (Rest(p) => is("rest"))
    BY DEF At, Page, Fetch, Save, Rest
<1>5. /\ (SetConn(p) => is("setConn")) /\ (NoConn(p) => is("noConn"))
      /\ (SetHost(p) => is("setHost")) /\ (SetPort(p) => is("setPort"))
    BY DEF At, SetConn, NoConn, SetHost, SetPort
<1>6. /\ (SetSid(p) => is("setSid")) /\ (NoSid(p) => is("noSid"))
      /\ (DemoSid(p) => is("demoSid")) /\ (SetClock(p) => is("setClock"))
      /\ (NoClock(p) => is("noClock")) /\ (OpenCache(p) => is("openCache"))
      /\ (NoCache(p) => is("noCache"))
    BY DEF At, SetSid, NoSid, DemoSid, SetClock, NoClock, OpenCache, NoCache, SidStep, ClockStep, CacheStep
<1> HIDE DEF is
<1>7. Busy(p) /\ \A step, other : is(step) /\ is(other) => step = other
    BY <1>1, <1>2, <1>3, <1>4, <1>5, <1>6 DEF Step, is
<1> QED BY <1>1, <1>2, <1>3, <1>4, <1>5, <1>6, <1>7 DEF Step, is

\* A step of a query writes no field but the pool.
SameButPool == UNCHANGED <<connection, conn_host, conn_port, server_id, clock, cache>>

LEMMA QueryStep ==
    ASSUME Types, NEW q \in Queries, Step(q)
    PROVE  /\ SameButPool /\ calm' = calm /\ quiet' = quiet
           /\ DOMAIN todo' = Processes /\ todo' = [p \in Processes |-> todo'[p]]
           /\ DOMAIN loc' = Processes /\ loc' = [p \in Processes |-> loc'[p]]
           /\ \A p \in Processes : p # q => todo'[p] = todo[p] /\ loc'[p] = loc[p]
           /\ todo'[q] \in Seq(QuerySteps)
<1> DEFINE Same == /\ SameButPool /\ calm' = calm /\ quiet' = quiet
                   /\ DOMAIN todo' = Processes /\ todo' = [p \in Processes |-> todo'[p]]
                   /\ DOMAIN loc' = Processes /\ loc' = [p \in Processes |-> loc'[p]]
                   /\ \A p \in Processes : p # q => todo'[p] = todo[p] /\ loc'[p] = loc[p]
                   /\ todo'[q] \in Seq(QuerySteps)
<1>1. q \in Processes /\ q \notin Commands
    BY SessionAssumption DEF Processes, Commands
<1>2. Busy(q) /\ Head(todo[q]) \in QuerySteps /\ Tail(todo[q]) \in Seq(QuerySteps)
    <2>1. Busy(q) /\ todo[q] \in Seq(QuerySteps)
        BY StepIs DEF Types
    <2> QED BY <2>1, HeadTailProperties, EmptySeq DEF Busy
<1>3. ASSUME NEW local, Advance(q, local), SameButPool PROVE Same
    BY <1>1, <1>2, <1>3, AdvanceIs
<1>4. ASSUME Fail(q) PROVE Same
    <2>1. <<>> \in Seq(QuerySteps)
        OBVIOUS
    <2> QED BY <1>1, <1>4, <2>1, FailIs DEF SameButPool, fields
<1>5. UNCHANGED <<fields, holder>> => SameButPool
    BY DEF fields, SameButPool
<1>6. ASSUME NEW step, NEW ok, Check(q, step, ok) PROVE Same
    BY <1>3, <1>4, <1>5, <1>6 DEF Check, Keep
<1>7. CASE ReadHost(q) \/ ReadPort(q) \/ GetCache(q) \/ GetClock(q)
    BY <1>3, <1>5, <1>7 DEF ReadHost, ReadPort, GetCache, GetClock
<1>8. CASE NeedSid(q) \/ SomeSid(q) \/ SameSid(q) \/ NeedCache(q) \/ Gate(q)
    BY <1>6, <1>8 DEF NeedSid, SomeSid, SameSid, NeedCache, Gate
<1>9. CASE Dial(q)
    BY <1>3, <1>4, <1>5, <1>9 DEF Dial
<1>10. CASE Pop(q)
    <2>1. SameButPool
        BY <1>10 DEF Pop, SameButPool
    <2>2. CASE query_pool = <<>>
        BY <1>3, <1>10, <2>1, <2>2 DEF Pop, Keep
    <2>3. CASE query_pool # <<>>
        <3>1. todo' = [todo EXCEPT ![q] = SubSeq(todo[q], Len(Borrow) + 1, Len(todo[q]))]
            BY <1>10, <2>3 DEF Pop
        <3>2. loc' = [loc EXCEPT ![q].conn = query_pool[Len(query_pool)]]
              /\ calm' = calm /\ quiet' = quiet
            BY <1>10, <2>3 DEF Pop
        <3>3. SubSeq(todo[q], Len(Borrow) + 1, Len(todo[q])) \in Seq(QuerySteps)
            <4> DEFINE s == todo[q]
            <4>1. s \in Seq(QuerySteps) /\ Len(Borrow) = 4
                BY DEF Types, Borrow
            <4>2. CASE Len(s) < 5
                BY <4>1, <4>2
            <4>3. CASE Len(s) >= 5
                BY <4>1, <4>3, SubSeqProperties
            <4> QED BY <4>1, <4>2, <4>3, LenProperties
        <3>4. todo'[q] \in Seq(QuerySteps)
            BY <1>1, <3>1, <3>3 DEF Types
        <3> QED BY <1>1, <2>1, <3>1, <3>2, <3>4 DEF Types
    <2> QED BY <2>2, <2>3
<1>11. CASE Release(q) \/ ClearPool(q)
    BY <1>3, <1>11 DEF Release, ClearPool, Keep, SameButPool
<1>12. CASE Hold(q) \/ Drop(q)
    BY <1>3, <1>4, <1>12 DEF Hold, Drop, Keep, SameButPool, fields
<1>13. CASE Page(q) \/ Fetch(q) \/ Save(q) \/ Rest(q)
    BY <1>3, <1>4, <1>5, <1>13 DEF Page, Fetch, Save, Rest, Keep
<1>14. /\ ~SetConn(q) /\ ~NoConn(q) /\ ~SetHost(q) /\ ~SetPort(q) /\ ~SetSid(q) /\ ~NoSid(q)
       /\ ~DemoSid(q) /\ ~SetClock(q) /\ ~NoClock(q) /\ ~OpenCache(q) /\ ~NoCache(q)
    BY <1>2 DEF QuerySteps, At, SetConn, NoConn, SetHost, SetPort, SetSid, NoSid, DemoSid,
                SetClock, NoClock, OpenCache, NoCache, SidStep, ClockStep, CacheStep
<1> HIDE DEF Same
<1>15. \/ ReadHost(q) \/ ReadPort(q) \/ GetCache(q) \/ GetClock(q)
       \/ NeedSid(q) \/ SomeSid(q) \/ SameSid(q) \/ NeedCache(q) \/ Gate(q)
       \/ Dial(q) \/ Pop(q) \/ Release(q) \/ ClearPool(q) \/ Hold(q) \/ Drop(q)
       \/ Page(q) \/ Fetch(q) \/ Save(q) \/ Rest(q)
    BY <1>14 DEF Step
<1> QED BY <1>7, <1>8, <1>9, <1>10, <1>11, <1>12, <1>13, <1>15

\* What keeps the fields, the commands and the history variables keeps the
\* stages.
LEMMA Unaffected ==
    ASSUME Alone, Stages, SameButPool, quiet' = quiet,
           \A c \in Commands : /\ todo'[c] = todo[c] /\ loc'[c] = loc[c]
                               /\ calm'[c] = calm[c]
    PROVE  Alone' /\ Stages'
<1>1. /\ todo'["ui"] = todo["ui"] /\ loc'["ui"] = loc["ui"] /\ calm'["ui"] = calm["ui"]
      /\ todo'["f5"] = todo["f5"] /\ loc'["f5"] = loc["f5"] /\ calm'["f5"] = calm["f5"]
    BY DEF Commands
<1>2. /\ connection' = connection /\ conn_host' = conn_host /\ conn_port' = conn_port
      /\ server_id' = server_id /\ clock' = clock /\ cache' = cache
    BY DEF SameButPool
<1>3. Alone'
    BY <1>1 DEF Alone, Busy, Commands
<1>4. Params' = Params /\ (Agrees <=> Agrees') /\ (Published <=> Published') /\ (Off <=> Off')
    BY <1>2 DEF Params, Agrees, Published, Off
<1>5. To' = To /\ (Opened <=> Opened')
    BY <1>1, <1>2 DEF To, Opened
<1>6. (Connecting <=> Connecting')
    BY <1>1, <1>2, <1>4, <1>5 DEF Connecting
<1>7. (Disconnecting <=> Disconnecting') /\ (Demonstrating <=> Demonstrating')
    BY <1>1, <1>2, <1>4 DEF Disconnecting, Demonstrating, Going
<1>8. (Refreshing <=> Refreshing')
    BY <1>1, <1>2, <1>4 DEF Refreshing
<1>9. (AtRest <=> AtRest') /\ (Busy("ui") <=> Busy("ui")') /\ (Busy("f5") <=> Busy("f5")')
    BY <1>1 DEF AtRest, Busy, Commands
<1> QED BY <1>1, <1>3, <1>4, <1>6, <1>7, <1>8, <1>9 DEF Stages

LEMMA IdleLoc == Idle \in CommandLoc
BY DEF Idle, CommandLoc, NoConnection

LEMMA InitHolds == Init => IInv
<1> SUFFICES ASSUME Init PROVE IInv
    OBVIOUS
<1>1. Commands \subseteq Processes /\ Queries \subseteq Processes
    BY DEF Processes
<1>2. \A p \in Processes : todo[p] = <<>> /\ loc[p] = Idle
    BY DEF Init
<1>3. Types
    BY <1>1, <1>2, IdleLoc DEF Init, Types
<1>4. \A c \in Commands : ~Busy(c)
    BY <1>1, <1>2 DEF Busy
<1>5. Alone
    BY <1>4 DEF Alone
<1>6. Agrees
    BY DEF Init, Agrees, OnScreen
<1> QED BY <1>3, <1>4, <1>5, <1>6 DEF IInv, Stages, Commands

LEMMA QueryHolds ==
    ASSUME IInv, NEW q \in Queries, Step(q)
    PROVE  IInv'
<1>1. Types
    BY DEF IInv
<1>2. q \notin Commands /\ Commands \subseteq Processes /\ Queries \subseteq Processes
    BY SessionAssumption DEF Commands, Processes
<1>3. /\ SameButPool /\ calm' = calm /\ quiet' = quiet
      /\ DOMAIN todo' = Processes /\ todo' = [p \in Processes |-> todo'[p]]
      /\ DOMAIN loc' = Processes /\ loc' = [p \in Processes |-> loc'[p]]
      /\ \A p \in Processes : p # q => todo'[p] = todo[p] /\ loc'[p] = loc[p]
      /\ todo'[q] \in Seq(QuerySteps)
    BY <1>1, QueryStep
<1>4. \A c \in Commands : todo'[c] = todo[c] /\ loc'[c] = loc[c] /\ calm'[c] = calm[c]
    BY <1>2, <1>3
<1>5. Alone' /\ Stages'
    BY <1>3, <1>4, Unaffected DEF IInv
<1>6. Types'
    BY <1>1, <1>2, <1>3, <1>4 DEF Types, SameButPool
<1> QED BY <1>5, <1>6 DEF IInv

LEMMA HoldersOfCommand ==
    ASSUME Types, NEW c \in Commands
    PROVE  /\ c \in Processes /\ c \notin Queries
           /\ todo[c] \in Seq(CommandSteps) /\ loc[c] \in CommandLoc
           /\ Busy(c) => Head(todo[c]) \in CommandSteps /\ Tail(todo[c]) \in Seq(CommandSteps)
<1>1. c \in Processes /\ c \notin Queries
    BY SessionAssumption DEF Processes, Commands
<1>2. todo[c] \in Seq(CommandSteps) /\ loc[c] \in CommandLoc
    BY DEF Types
<1> QED BY <1>1, <1>2, HeadTailProperties, EmptySeq DEF Busy

LEMMA CommandTypes ==
    ASSUME Types, NEW c \in Commands, Step(c)
    PROVE  Types'
<1> DEFINE Fields == conn_host' \in Hosts \cup {None} /\ conn_port' \in Ports \cup {None}
<1>1. /\ c \in Processes /\ c \notin Queries /\ Busy(c) /\ loc[c] \in CommandLoc
      /\ Head(todo[c]) \in CommandSteps /\ Tail(todo[c]) \in Seq(CommandSteps)
    BY HoldersOfCommand, StepIs
<1>2. Commands \subseteq Processes /\ Queries \subseteq Processes
    BY DEF Processes
<1>3. /\ conn_host \in Hosts \cup {None} /\ conn_port \in Ports \cup {None}
      /\ calm \in [Processes -> BOOLEAN] /\ quiet \in BOOLEAN
    BY DEF Types
<1>4. /\ loc[c].host \in Hosts \cup {None} /\ loc[c].port \in Ports \cup {None}
    BY <1>1 DEF CommandLoc
<1>5. UNCHANGED fields => Fields
    BY <1>3 DEF fields
<1>6. ASSUME NEW local \in CommandLoc, Advance(c, local), Fields PROVE Types'
    <2>1. /\ todo'[c] = Tail(todo[c]) /\ loc'[c] \in CommandLoc
          /\ DOMAIN todo' = Processes /\ todo' = [q \in Processes |-> todo'[q]]
          /\ DOMAIN loc' = Processes /\ loc' = [q \in Processes |-> loc'[q]]
          /\ \A q \in Processes : q # c => todo'[q] = todo[q] /\ loc'[q] = loc[q]
        BY <1>1, <1>6, AdvanceIs, IdleLoc
    <2>2. calm' \in [Processes -> BOOLEAN] /\ quiet' \in BOOLEAN
        BY <1>3, <1>6, AdvanceIs, <1>1 DEF Repairs
    <2>3. \A d \in Commands : todo'[d] \in Seq(CommandSteps) /\ loc'[d] \in CommandLoc
        BY <1>1, <1>2, <2>1 DEF Types
    <2>4. \A q \in Queries : todo'[q] \in Seq(QuerySteps)
        BY <1>1, <1>2, <2>1 DEF Types
    <2> QED BY <1>6, <2>1, <2>2, <2>3, <2>4 DEF Types
<1>7. ASSUME Fail(c) PROVE Types'
    <2>1. /\ todo'[c] = <<>> /\ loc'[c] = Idle
          /\ DOMAIN todo' = Processes /\ todo' = [q \in Processes |-> todo'[q]]
          /\ DOMAIN loc' = Processes /\ loc' = [q \in Processes |-> loc'[q]]
          /\ \A q \in Processes : q # c => todo'[q] = todo[q] /\ loc'[q] = loc[q]
          /\ UNCHANGED fields
        BY <1>1, <1>7, FailIs
    <2>2. calm' \in [Processes -> BOOLEAN] /\ quiet' \in BOOLEAN
        BY <1>3, <1>7, FailIs, <1>1
    <2>3. \A d \in Commands : todo'[d] \in Seq(CommandSteps) /\ loc'[d] \in CommandLoc
        <3>1. <<>> \in Seq(CommandSteps)
            OBVIOUS
        <3>2. \A d \in Commands \ {c} : todo'[d] \in Seq(CommandSteps) /\ loc'[d] \in CommandLoc
            BY <1>2, <2>1 DEF Types
        <3> QED BY <2>1, <3>1, <3>2, IdleLoc
    <2>4. \A q \in Queries : todo'[q] \in Seq(QuerySteps)
        BY <1>1, <1>2, <2>1 DEF Types
    <2> QED BY <1>5, <2>1, <2>2, <2>3, <2>4 DEF Types
<1>8. ASSUME Keep(c), Fields PROVE Types'
    BY <1>1, <1>6, <1>8 DEF Keep
<1>9. ASSUME Dial(c) PROVE Types'
    <2>1. CASE Fail(c)
        BY <1>7, <2>1
    <2>2. CASE ~Fail(c)
        <3> DEFINE opened == [loc[c] EXCEPT
                       !.conn = [to |-> <<loc[c].host, loc[c].port>>, stray |-> FALSE]]
        <3>1. /\ <<loc[c].host, loc[c].port>> \in Collectors
              /\ Advance(c, opened) /\ UNCHANGED fields
            BY <1>9, <2>2 DEF Dial
        <3>2. opened \in CommandLoc
            BY <1>1, <3>1 DEF CommandLoc
        <3> QED BY <1>5, <1>6, <3>1, <3>2
    <2> QED BY <2>1, <2>2
<1>10. ASSUME ReadHost(c) PROVE Types'
    <2>1. [loc[c] EXCEPT !.host = conn_host] \in CommandLoc
        BY <1>1, <1>3 DEF CommandLoc
    <2> QED BY <1>5, <1>6, <1>10, <2>1 DEF ReadHost
<1>11. ASSUME ReadPort(c) PROVE Types'
    <2>1. [loc[c] EXCEPT !.port = conn_port] \in CommandLoc
        BY <1>1, <1>3 DEF CommandLoc
    <2> QED BY <1>5, <1>6, <1>11, <2>1 DEF ReadPort
<1>12. ASSUME SetHost(c) \/ SetPort(c) PROVE Types'
    BY <1>3, <1>4, <1>8, <1>12 DEF SetHost, SetPort
<1>13. ASSUME SetConn(c) \/ NoConn(c) \/ ClearPool(c) PROVE Types'
    BY <1>3, <1>8, <1>13 DEF SetConn, NoConn, ClearPool
<1>14. ASSUME SetSid(c) \/ NoSid(c) \/ DemoSid(c) PROVE Types'
    BY <1>3, <1>8, <1>14 DEF SetSid, NoSid, DemoSid, SidStep
<1>15. ASSUME SetClock(c) \/ NoClock(c) PROVE Types'
    BY <1>3, <1>8, <1>15 DEF SetClock, NoClock, ClockStep
<1>16. ASSUME OpenCache(c) \/ NoCache(c) PROVE Types'
    BY <1>3, <1>8, <1>16 DEF OpenCache, NoCache, CacheStep
<1>17. ASSUME NeedSid(c) PROVE Types'
    BY <1>5, <1>7, <1>8, <1>17 DEF NeedSid, Check
<1> HIDE DEF Fields
<1>18. /\ Head(todo[c]) = "dial" => Dial(c)
       /\ Head(todo[c]) = "readHost" => ReadHost(c)
       /\ Head(todo[c]) = "readPort" => ReadPort(c)
       /\ Head(todo[c]) \in {"setHost", "setPort"} => SetHost(c) \/ SetPort(c)
       /\ Head(todo[c]) \in {"setConn", "noConn", "clearPool"} =>
             SetConn(c) \/ NoConn(c) \/ ClearPool(c)
       /\ Head(todo[c]) \in {"setSid", "noSid", "demoSid"} =>
             SetSid(c) \/ NoSid(c) \/ DemoSid(c)
       /\ Head(todo[c]) \in {"setClock", "noClock"} => SetClock(c) \/ NoClock(c)
       /\ Head(todo[c]) \in {"openCache", "noCache"} => OpenCache(c) \/ NoCache(c)
       /\ Head(todo[c]) = "needSid" => NeedSid(c)
    BY StepIs
<1> QED BY <1>1, <1>9, <1>10, <1>11, <1>12, <1>13, <1>14, <1>15, <1>16, <1>17, <1>18
        DEF CommandSteps

-----------------------------------------------------------------------------
(* The beginning of a call.                                                *)

LEMMA BeginIs ==
    ASSUME Types, NEW p \in Processes, NEW plan, NEW start, Begin(p, plan, start)
    PROVE  /\ ~Busy(p) /\ todo'[p] = plan /\ loc'[p] = start
           /\ DOMAIN todo' = Processes /\ todo' = [q \in Processes |-> todo'[q]]
           /\ DOMAIN loc' = Processes /\ loc' = [q \in Processes |-> loc'[q]]
           /\ \A q \in Processes : q # p => todo'[q] = todo[q] /\ loc'[q] = loc[q]
           /\ calm' \in [Processes -> BOOLEAN]
           /\ calm'[p] = \A c \in Commands \ {p} : ~Busy(c)
           /\ \A q \in Processes : q # p => calm'[q] = (calm[q] /\ ~(p \in Commands /\ Busy(q)))
           /\ quiet' = quiet /\ SameButPool
<1>1. /\ ~Busy(p) /\ todo' = [todo EXCEPT ![p] = plan] /\ loc' = [loc EXCEPT ![p] = start]
      /\ calm' = [q \in Processes |-> IF q = p THEN \A c \in Commands \ {p} : ~Busy(c)
                                      ELSE calm[q] /\ ~(p \in Commands /\ Busy(q))]
      /\ quiet' = quiet /\ SameButPool
    BY DEF Begin, fields, SameButPool
<1>2. calm \in [Processes -> BOOLEAN]
    BY DEF Types
<1>3. calm' \in [Processes -> BOOLEAN]
    BY <1>1, <1>2
<1>4. /\ todo'[p] = plan /\ loc'[p] = start
      /\ DOMAIN todo' = Processes /\ todo' = [q \in Processes |-> todo'[q]]
      /\ DOMAIN loc' = Processes /\ loc' = [q \in Processes |-> loc'[q]]
      /\ \A q \in Processes : q # p => todo'[q] = todo[q] /\ loc'[q] = loc[q]
    BY <1>1 DEF Types
<1>5. /\ calm'[p] = \A c \in Commands \ {p} : ~Busy(c)
      /\ \A q \in Processes : q # p => calm'[q] = (calm[q] /\ ~(p \in Commands /\ Busy(q)))
    BY <1>1
<1> QED BY <1>1, <1>3, <1>4, <1>5

LEMMA StartQueryHolds ==
    ASSUME IInv, NEW q \in Queries, NEW kind \in Kinds[q], StartQuery(q, kind)
    PROVE  IInv'
<1> DEFINE start == [Idle EXCEPT !.screen = Params, !.sid = server_id]
<1>1. Types /\ Begin(q, QueryPlan[kind], start)
    BY DEF IInv, StartQuery
<1>2. q \notin Commands /\ q \in Processes /\ Commands \subseteq Processes
      /\ Queries \subseteq Processes
    BY SessionAssumption DEF Commands, Processes
<1>3. QueryPlan[kind] \in Seq(QuerySteps)
    BY KindsAssumption, PlansOfQueries
<1> HIDE DEF start
<1>4. /\ todo'[q] = QueryPlan[kind]
      /\ DOMAIN todo' = Processes /\ todo' = [p \in Processes |-> todo'[p]]
      /\ DOMAIN loc' = Processes /\ loc' = [p \in Processes |-> loc'[p]]
      /\ \A p \in Processes : p # q => todo'[p] = todo[p] /\ loc'[p] = loc[p]
      /\ calm' \in [Processes -> BOOLEAN] /\ quiet' = quiet /\ SameButPool
      /\ \A p \in Processes : p # q => calm'[p] = (calm[p] /\ ~(q \in Commands /\ Busy(p)))
    BY <1>1, <1>2, BeginIs
<1>5. \A c \in Commands : todo'[c] = todo[c] /\ loc'[c] = loc[c] /\ calm'[c] = calm[c]
    BY <1>1, <1>2, <1>4 DEF Types
<1>6. Alone' /\ Stages'
    BY <1>4, <1>5, Unaffected DEF IInv
<1>7. Types'
    BY <1>1, <1>2, <1>3, <1>4, <1>5 DEF Types, SameButPool
<1> QED BY <1>6, <1>7 DEF IInv

\* A command begins alone, from fields that agree, or it is not calm and
\* takes the calm from the command it meets.
LEMMA StartCommandHolds ==
    ASSUME IInv, NEW c \in Commands, NEW d \in Commands, c # d,
           NEW plan \in Seq(CommandSteps), plan # <<>>, NEW start \in CommandLoc,
           Begin(c, plan, start),
           AtRest /\ (quiet => Agrees) /\ SameButPool /\ quiet' = quiet
              /\ todo'[c] = plan /\ loc'[c] = start =>
                 IF c = "ui" THEN (Connecting \/ Disconnecting \/ Demonstrating)' ELSE Refreshing'
    PROVE  IInv'
<1>1. Types /\ Alone /\ Stages
    BY DEF IInv
<1>2. c \in Processes /\ d \in Processes /\ c \notin Queries /\ Commands = {c, d}
      /\ Commands \subseteq Processes /\ Queries \subseteq Processes
    BY SessionAssumption DEF Commands, Processes
<1>3. /\ ~Busy(c) /\ todo'[c] = plan /\ loc'[c] = start
      /\ DOMAIN todo' = Processes /\ todo' = [q \in Processes |-> todo'[q]]
      /\ DOMAIN loc' = Processes /\ loc' = [q \in Processes |-> loc'[q]]
      /\ \A q \in Processes : q # c => todo'[q] = todo[q] /\ loc'[q] = loc[q]
      /\ calm' \in [Processes -> BOOLEAN]
      /\ calm'[c] = \A e \in Commands \ {c} : ~Busy(e)
      /\ \A q \in Processes : q # c => calm'[q] = (calm[q] /\ ~(c \in Commands /\ Busy(q)))
      /\ quiet' = quiet /\ SameButPool
    BY <1>1, <1>2, BeginIs
<1>4. /\ todo'[d] = todo[d] /\ loc'[d] = loc[d]
      /\ calm'[c] = ~Busy(d) /\ calm'[d] = (calm[d] /\ ~Busy(d))
    BY <1>2, <1>3
<1>5. Types'
    BY <1>1, <1>2, <1>3, <1>4 DEF Types, SameButPool
<1>6. Busy(c)' /\ (Busy(d)' <=> Busy(d))
    BY <1>3, <1>4 DEF Busy
<1>7. Alone'
    BY <1>2, <1>4, <1>6 DEF Alone
<1>8. ~AtRest'
    BY <1>6 DEF AtRest
<1>9. Stages'
    <2>1. CASE Busy(d)
        <3>1. ~calm'[c] /\ ~calm'[d]
            BY <2>1, <1>4
        <3>2. ~calm'["ui"] /\ ~calm'["f5"]
            BY <3>1, <1>2 DEF Commands
        <3> QED BY <1>8, <3>2 DEF Stages
    <2>2. CASE ~Busy(d)
        <3>1. AtRest /\ (quiet => Agrees)
            BY <1>1, <1>2, <1>3, <2>2 DEF AtRest, Stages
        <3>2. IF c = "ui" THEN (Connecting \/ Disconnecting \/ Demonstrating)' ELSE Refreshing'
            BY <1>3, <3>1
        <3>3. ~Busy(d)' /\ {c, d} = {"ui", "f5"}
            BY <1>2, <1>6, <2>2 DEF Commands
        <3> QED BY <1>8, <3>2, <3>3, c # d DEF Stages
    <2> QED BY <2>1, <2>2
<1> QED BY <1>5, <1>7, <1>9 DEF IInv

LEMMA StartHolds == IInv /\ Start => IInv'
<1> SUFFICES ASSUME IInv, Start PROVE IInv'
    OBVIOUS
<1>1. "ui" \in Commands /\ "f5" \in Commands /\ "ui" # "f5"
    BY DEF Commands
<1>2. /\ Connect \in Seq(CommandSteps) /\ Disconnect \in Seq(CommandSteps)
      /\ DemoMode \in Seq(CommandSteps) /\ Refresh \in Seq(CommandSteps)
      /\ Switch \in Seq(CommandSteps)
    BY PlansOfCommands DEF Switch
<1>3. Connect # <<>> /\ Disconnect # <<>> /\ DemoMode # <<>> /\ Refresh # <<>> /\ Switch # <<>>
    BY NotEmpty, RestsOfSwitch
<1>4. SameButPool /\ server_id = None /\ (quiet => Agrees) /\ quiet' = quiet => (quiet' => Off')
    BY DEF Agrees, Off, OnScreen, SameButPool
<1>5. SameButPool => (Agrees <=> Agrees')
    BY DEF Agrees, SameButPool, Params, OnScreen
<1>6. ASSUME NEW a \in Targets, StartConnect(a) PROVE IInv'
    <2> DEFINE start == [Idle EXCEPT !.host = a[1], !.port = a[2]]
    <2>1. start \in CommandLoc
        <3>1. a \in Hosts \X Ports
            BY SessionAssumption DEF Address
        <3>2. a[1] \in Hosts /\ a[2] \in Ports
            BY <3>1
        <3> QED BY <3>2 DEF CommandLoc, Idle, NoConnection
    <2>2. \/ server_id = None /\ Begin("ui", Connect, start)
          \/ Begin("ui", Switch, start)
        BY <1>6 DEF StartConnect
    <2> HIDE DEF start
    <2>3. CASE server_id = None /\ Begin("ui", Connect, start)
        <3>1. AtRest /\ (quiet => Agrees) /\ SameButPool /\ quiet' = quiet
                 /\ todo'["ui"] = Connect => Connecting'
            BY <1>4, <2>3 DEF Connecting
        <3> QED BY <1>1, <1>2, <1>3, <2>1, <2>3, <3>1, StartCommandHolds
    <2>4. CASE Begin("ui", Switch, start)
        <3>1. AtRest /\ (quiet => Agrees) /\ SameButPool /\ quiet' = quiet
                 /\ todo'["ui"] = Switch => Disconnecting'
            BY <1>5 DEF Disconnecting, Going, Switch
        <3> QED BY <1>1, <1>2, <1>3, <2>1, <2>4, <3>1, StartCommandHolds
    <2> QED BY <2>2, <2>3, <2>4
<1>7. ASSUME StartDisconnect PROVE IInv'
    <2>1. Begin("ui", Disconnect, Idle)
        BY <1>7 DEF StartDisconnect
    <2>2. AtRest /\ (quiet => Agrees) /\ SameButPool /\ quiet' = quiet
             /\ todo'["ui"] = Disconnect => Disconnecting'
        BY <1>5 DEF Disconnecting, Going
    <2> QED BY <1>1, <1>2, <1>3, <2>1, <2>2, IdleLoc, StartCommandHolds
<1>8. ASSUME StartDemo PROVE IInv'
    <2>1. server_id = None /\ Begin("ui", DemoMode, Idle)
        BY <1>8 DEF StartDemo
    <2>2. AtRest /\ (quiet => Agrees) /\ SameButPool /\ quiet' = quiet
             /\ todo'["ui"] = DemoMode => Demonstrating'
        BY <1>4, <2>1 DEF Demonstrating
    <2> QED BY <1>1, <1>2, <1>3, <2>1, <2>2, IdleLoc, StartCommandHolds
<1>9. ASSUME StartRefresh PROVE IInv'
    <2>1. Begin("f5", Refresh, Idle)
        BY <1>9 DEF StartRefresh
    <2>2. AtRest /\ (quiet => Agrees) /\ SameButPool /\ quiet' = quiet
             /\ todo'["f5"] = Refresh => Refreshing'
        BY <1>5 DEF Refreshing
    <2> QED BY <1>1, <1>2, <1>3, <2>1, <2>2, IdleLoc, StartCommandHolds
<1> QED BY <1>6, <1>7, <1>8, <1>9, StartQueryHolds DEF Start

-----------------------------------------------------------------------------
(* A step of a command.                                                    *)

LEMMA CommandMoves ==
    ASSUME Types, NEW c \in Commands, Step(c)
    PROVE  (\E local : Advance(c, local)) \/ Fail(c)
<1>1. /\ Head(todo[c]) = "dial" => Dial(c)
      /\ Head(todo[c]) = "setClock" => SetClock(c)
      /\ Head(todo[c]) = "setConn" => SetConn(c)
      /\ Head(todo[c]) = "clearPool" => ClearPool(c)
      /\ Head(todo[c]) = "setHost" => SetHost(c)
      /\ Head(todo[c]) = "setPort" => SetPort(c)
      /\ Head(todo[c]) = "readHost" => ReadHost(c)
      /\ Head(todo[c]) = "readPort" => ReadPort(c)
    BY StepIs
<1>2. /\ Head(todo[c]) = "openCache" => OpenCache(c)
      /\ Head(todo[c]) = "setSid" => SetSid(c)
      /\ Head(todo[c]) = "noConn" => NoConn(c)
      /\ Head(todo[c]) = "noSid" => NoSid(c)
      /\ Head(todo[c]) = "noClock" => NoClock(c)
      /\ Head(todo[c]) = "noCache" => NoCache(c)
      /\ Head(todo[c]) = "demoSid" => DemoSid(c)
      /\ Head(todo[c]) = "needSid" => NeedSid(c)
    BY StepIs
<1>3. Head(todo[c]) \in CommandSteps
    BY HoldersOfCommand, StepIs
<1>4. Dial(c) \/ ReadHost(c) \/ ReadPort(c) => \/ \E local : Advance(c, local)
                                               \/ Fail(c)
    BY DEF Dial, ReadHost, ReadPort
<1>5. SetConn(c) \/ NoConn(c) \/ ClearPool(c) \/ SetHost(c) \/ SetPort(c) => Keep(c)
    BY DEF SetConn, NoConn, ClearPool, SetHost, SetPort
<1>6. SetSid(c) \/ NoSid(c) \/ DemoSid(c) \/ SetClock(c) \/ NoClock(c) => Keep(c)
    BY DEF SetSid, NoSid, DemoSid, SetClock, NoClock, SidStep, ClockStep
<1>7. OpenCache(c) \/ NoCache(c) => Keep(c)
    BY DEF OpenCache, NoCache, CacheStep
<1>8. NeedSid(c) => Keep(c) \/ Fail(c)
    BY DEF NeedSid, Check
<1>9. Keep(c) => \E local : Advance(c, local)
    BY DEF Keep
<1> QED BY <1>1, <1>2, <1>3, <1>4, <1>5, <1>6, <1>7, <1>8, <1>9 DEF CommandSteps

\* A command that met another repairs nothing: what it leaves is not quiet.
LEMMA NotCalm ==
    ASSUME IInv, NEW c \in Commands, ~calm[c], Step(c),
           NEW d \in Commands, c # d
    PROVE  Alone' /\ Stages'
<1>1. Types /\ Alone /\ Stages /\ Busy(c)
    BY StepIs DEF IInv
<1>2. c \in Processes /\ d \in Processes /\ Commands = {c, d} /\ ~(Busy(d) /\ calm[d])
    BY <1>1 DEF Commands, Processes, Alone
<1>3. (\E local : Advance(c, local)) \/ Fail(c)
    BY <1>1, CommandMoves
<1>4. /\ calm' = calm /\ todo'[d] = todo[d]
      /\ todo'[c] = <<>> => ~quiet'
    <2>1. CASE Fail(c)
        BY <1>1, <1>2, <2>1, FailIs
    <2>2. ASSUME NEW local, Advance(c, local)
          PROVE  calm' = calm /\ todo'[d] = todo[d] /\ (todo'[c] = <<>> => ~quiet')
        <3>1. /\ todo'[c] = Tail(todo[c]) /\ calm' = calm /\ todo'[d] = todo[d]
              /\ quiet' = IF Len(todo[c]) = 1 /\ c \in Commands
                          THEN Repairs(c) \/ (quiet /\ calm[c]) ELSE quiet
            BY <1>1, <1>2, <2>2, AdvanceIs
        <3>2. ~Repairs(c)
            BY DEF Repairs
        <3>3. Tail(todo[c]) = <<>> => Len(todo[c]) = 1
            <4>1. todo[c] \in Seq(CommandSteps) /\ todo[c] # <<>>
                BY <1>1, HoldersOfCommand DEF Busy
            <4>2. Len(Tail(todo[c])) = Len(todo[c]) - 1 /\ Len(todo[c]) \in Nat
                BY <4>1, HeadTailProperties, LenProperties
            <4>3. Len(<<>>) = 0
                OBVIOUS
            <4>4. ASSUME Tail(todo[c]) = <<>> PROVE Len(todo[c]) - 1 = 0
                BY <4>2, <4>3, <4>4, Zenon
            <4> QED BY <4>2, <4>4
        <3> QED BY <3>1, <3>2, <3>3
    <2> QED BY <1>3, <2>1, <2>2
<1>5. ~(Busy(c)' /\ calm'[c]) /\ ~(Busy(d)' /\ calm'[d])
    BY <1>2, <1>4 DEF Busy
<1>6. ~(AtRest' /\ quiet')
    BY <1>2, <1>4 DEF AtRest, Busy
<1>7. Alone'
    BY <1>2, <1>5 DEF Alone
<1>8. ~(Busy("ui")' /\ calm'["ui"]) /\ ~(Busy("f5")' /\ calm'["f5"])
    BY <1>2, <1>5 DEF Commands
<1> QED BY <1>6, <1>7, <1>8 DEF Stages

LEMMA UiGoes ==
    ASSUME Types, calm["ui"], NEW local, Advance("ui", local)
    PROVE  /\ todo'["ui"] = Tail(todo["ui"])
           /\ Len(todo["ui"]) # 1 => loc'["ui"] = local /\ quiet' = quiet
           /\ Len(todo["ui"]) = 1 => (quiet' <=> (Repairs("ui") \/ quiet))
<1>1. "ui" \in Processes /\ "ui" \in Commands
    BY DEF Processes, Commands
<1> QED BY <1>1, AdvanceIs

LEMMA UiKeeps ==
    ASSUME Types, calm["ui"], Keep("ui"), Len(todo["ui"]) # 1
    PROVE  todo'["ui"] = Tail(todo["ui"]) /\ loc'["ui"] = loc["ui"] /\ quiet' = quiet
<1>1. Advance("ui", loc["ui"])
    BY DEF Keep
<1> QED BY <1>1, UiGoes

LEMMA ConnectStep ==
    ASSUME IInv, calm["ui"], Connecting, Step("ui")
    PROVE  Connecting' \/ (todo'["ui"] = <<>> /\ (quiet' => Agrees'))
<1>1. Types /\ "ui" \in Processes /\ "ui" \in Commands
    BY DEF IInv, Processes, Commands
<1> USE <1>1
<1>2. ASSUME todo["ui"] = Connect, quiet => Off
      PROVE  Connecting' \/ (todo'["ui"] = <<>> /\ (quiet' => Agrees'))
    <2>1. Dial("ui") /\ Len(todo["ui"]) # 1
        BY <1>2, StepIs, RestsOfConnect, Lengths
    <2>2. CASE Fail("ui")
        <3>1. todo'["ui"] = <<>> /\ UNCHANGED fields /\ quiet' = (quiet /\ calm["ui"])
            BY <2>2, FailIs
        <3> QED BY <1>2, <3>1 DEF Off, Agrees, fields, OnScreen
    <2>3. CASE ~Fail("ui")
        <3> DEFINE opened == [loc["ui"] EXCEPT
                       !.conn = [to |-> <<loc["ui"].host, loc["ui"].port>>, stray |-> FALSE]]
        <3>1. /\ <<loc["ui"].host, loc["ui"].port>> \in Collectors
              /\ Advance("ui", opened) /\ UNCHANGED fields
            BY <2>1, <2>3 DEF Dial
        <3>2. todo'["ui"] = C9 /\ loc'["ui"] = opened /\ quiet' = quiet
            BY <1>2, <2>1, <3>1, UiGoes, RestsOfConnect, ZenonT(60)
        <3>3. /\ To' = <<loc["ui"].host, loc["ui"].port>>
              /\ loc'["ui"].host = loc["ui"].host /\ loc'["ui"].port = loc["ui"].port
            BY <3>2, HoldersOfCommand DEF To, CommandLoc
        <3>4. Opened'
            BY <1>2, <3>1, <3>2, <3>3 DEF Opened, Off, fields, OnScreen
        <3> QED BY <3>2, <3>4 DEF Connecting
    <2> QED BY <2>2, <2>3
\* The steps between leave the locals, and what they do not write.
<1>3. ASSUME Keep("ui"), Len(todo["ui"]) # 1, server_id' = server_id, Opened
      PROVE  /\ todo'["ui"] = Tail(todo["ui"]) /\ loc'["ui"] = loc["ui"]
             /\ To' = To /\ Opened'
    BY <1>3, UiKeeps DEF Opened, To, OnScreen
<1>4. ASSUME todo["ui"] = C9, Opened PROVE Connecting'
    <2>1. SetClock("ui") /\ Len(todo["ui"]) # 1
        BY <1>4, StepIs, RestsOfConnect, Lengths, ZenonT(60)
    <2>2. Keep("ui") /\ clock' = To /\ server_id' = server_id
        BY <2>1 DEF SetClock, ClockStep, To
    <2> QED BY <1>3, <1>4, <2>1, <2>2, RestsOfConnect DEF Connecting
<1>5. ASSUME todo["ui"] = C8, Opened, clock = To PROVE Connecting'
    <2>1. SetConn("ui") /\ Len(todo["ui"]) # 1
        BY <1>5, StepIs, RestsOfConnect, Lengths
    <2>2. Keep("ui") /\ connection' = To /\ server_id' = server_id /\ clock' = clock
        BY <2>1 DEF SetConn, To
    <2> QED BY <1>3, <1>5, <2>1, <2>2, RestsOfConnect DEF Connecting
<1>6. ASSUME todo["ui"] = C7, Opened, clock = To, connection = To PROVE Connecting'
    <2>1. ClearPool("ui") /\ Len(todo["ui"]) # 1
        BY <1>6, StepIs, RestsOfConnect, Lengths
    <2>2. /\ Keep("ui") /\ connection' = connection /\ server_id' = server_id
          /\ clock' = clock
        BY <2>1 DEF ClearPool
    <2> QED BY <1>3, <1>6, <2>1, <2>2, RestsOfConnect DEF Connecting
<1>7. ASSUME todo["ui"] = C6, Opened, clock = To, connection = To PROVE Connecting'
    <2>1. SetHost("ui") /\ Len(todo["ui"]) # 1
        BY <1>7, StepIs, RestsOfConnect, Lengths
    <2>2. /\ Keep("ui") /\ connection' = connection /\ server_id' = server_id
          /\ clock' = clock /\ conn_host' = loc["ui"].host
        BY <2>1 DEF SetHost
    <2> QED BY <1>3, <1>7, <2>1, <2>2, RestsOfConnect DEF Connecting
<1>8. ASSUME todo["ui"] = C5, Opened, clock = To, connection = To,
             conn_host = loc["ui"].host
      PROVE  Connecting'
    <2>1. SetPort("ui") /\ Len(todo["ui"]) # 1
        BY <1>8, StepIs, RestsOfConnect, Lengths
    <2>2. /\ Keep("ui") /\ connection' = connection /\ server_id' = server_id
          /\ clock' = clock /\ conn_host' = conn_host /\ conn_port' = loc["ui"].port
        BY <2>1 DEF SetPort
    <2>3. Params' = To
        BY <1>8, <2>2 DEF Opened, Params
    <2> QED BY <1>3, <1>8, <2>1, <2>2, <2>3, RestsOfConnect DEF Connecting
<1>9. ASSUME todo["ui"] \in {C4, C3}, Opened, clock = To, connection = To, Params = To
      PROVE  Connecting'
    <2>1. /\ ReadHost("ui") \/ ReadPort("ui")
          /\ Tail(todo["ui"]) \in {C3, C2}
          /\ Len(todo["ui"]) # 1
        <3>1. CASE todo["ui"] = C4
            BY <3>1, StepIs, RestsOfConnect, Lengths
        <3>2. CASE todo["ui"] = C3
            BY <3>2, StepIs, RestsOfConnect, Lengths
        <3> QED BY <1>9, <3>1, <3>2
    <2>2. UNCHANGED fields
        BY <2>1 DEF ReadHost, ReadPort
    <2>3. \/ Advance("ui", [loc["ui"] EXCEPT !.host = conn_host])
          \/ Advance("ui", [loc["ui"] EXCEPT !.port = conn_port])
        BY <2>1 DEF ReadHost, ReadPort
    <2>4. loc["ui"].host = conn_host /\ loc["ui"].port = conn_port
        BY <1>9 DEF Opened, Params
    <2>5. /\ [loc["ui"] EXCEPT !.host = conn_host] = loc["ui"]
          /\ [loc["ui"] EXCEPT !.port = conn_port] = loc["ui"]
        BY <2>4, HoldersOfCommand DEF CommandLoc
    <2>6. Keep("ui")
        BY <2>3, <2>5 DEF Keep
    <2>7. Opened' /\ To' = To /\ todo'["ui"] = Tail(todo["ui"])
        BY <1>3, <1>9, <2>1, <2>2, <2>6 DEF fields
    <2>8. connection' = connection /\ clock' = clock /\ Params' = Params
        BY <2>2 DEF fields, Params
    <2> QED BY <1>9, <2>1, <2>7, <2>8 DEF Connecting
<1>10. ASSUME todo["ui"] = C2, Opened, clock = To, connection = To, Params = To
       PROVE  Connecting'
    <2>1. OpenCache("ui") /\ Len(todo["ui"]) # 1
        BY <1>10, StepIs, RestsOfConnect, Lengths
    <2>2. /\ Keep("ui") /\ connection' = connection /\ server_id' = server_id
          /\ clock' = clock /\ Params' = Params
          /\ cache' \in {<<loc["ui"].host, loc["ui"].port>>, None}
        BY <2>1 DEF OpenCache, CacheStep, Params
    <2> QED BY <1>3, <1>10, <2>1, <2>2, RestsOfConnect DEF Connecting, Opened
<1>11. ASSUME todo["ui"] = C1, Opened, clock = To, connection = To, Params = To,
              cache \in {To, None}
       PROVE  todo'["ui"] = <<>> /\ Agrees'
    <2>1. SetSid("ui")
        BY <1>11, StepIs, RestsOfConnect
    <2>2. /\ Keep("ui") /\ connection' = connection /\ server_id' = ServerId[To]
          /\ clock' = clock /\ Params' = Params /\ cache' = cache
        BY <2>1 DEF SetSid, SidStep, To, Params
    <2>3. todo'["ui"] = <<>>
        BY <1>11, <2>2, UiGoes, RestsOfConnect DEF Keep
    <2>4. To \in Collectors /\ OnScreen(ServerId[To])
        BY <1>11, SessionAssumption DEF Opened, OnScreen
    <2> QED BY <1>11, <2>2, <2>3, <2>4 DEF Agrees
<1> QED BY <1>2, <1>4, <1>5, <1>6, <1>7, <1>8, <1>9, <1>10, <1>11 DEF Connecting

LEMMA GoingStep ==
    /\ \A d \in {Disconnect, D4, D3, D2} : Going(d) =>
          /\ Head(todo["ui"]) = Head(d) /\ Len(todo["ui"]) # 1
          /\ Tail(todo["ui"]) \in {Tail(d), Tail(d) \o Connect}
    /\ Going(D1) => /\ Head(todo["ui"]) = "clearPool"
                    /\ \/ Len(todo["ui"]) # 1 /\ Tail(todo["ui"]) = Connect
                       \/ Len(todo["ui"]) = 1 /\ Tail(todo["ui"]) = <<>>
<1>1. ASSUME NEW d \in {Disconnect, D4, D3, D2}, Going(d)
      PROVE  /\ Head(todo["ui"]) = Head(d) /\ Len(todo["ui"]) # 1
             /\ Tail(todo["ui"]) \in {Tail(d), Tail(d) \o Connect}
    <2>1. /\ Len(d) # 1 /\ Len(d \o Connect) # 1
          /\ Head(d \o Connect) = Head(d) /\ Tail(d \o Connect) = Tail(d) \o Connect
        BY Lengths, RestsOfSwitch
    <2> QED BY <1>1, <2>1 DEF Going
<1>2. /\ Head(D1 \o Connect) = Head(D1) /\ Tail(D1 \o Connect) = Connect
      /\ Len(D1 \o Connect) # 1 /\ Len(D1) = 1
    BY Lengths, RestsOfSwitch
<1> QED BY <1>1, <1>2, RestsOfDisconnect DEF Going

LEMMA DisconnectStep ==
    ASSUME IInv, calm["ui"], Disconnecting, Step("ui")
    PROVE  \/ Disconnecting' \/ Connecting'
           \/ (todo'["ui"] = <<>> /\ (quiet' => Agrees'))
<1>1. Types /\ "ui" \in Processes /\ "ui" \in Commands
    BY DEF IInv, Processes, Commands
<1> USE <1>1
<1>2. ASSUME NEW d \in {Disconnect, D4, D3, D2}, NEW e, e = Tail(d), Going(d), Keep("ui")
      PROVE  Going(e)' /\ quiet' = quiet
    BY <1>2, GoingStep, UiKeeps DEF Going
<1>3. ASSUME Going(Disconnect), quiet => Agrees PROVE Disconnecting'
    <2>1. NoConn("ui")
        BY <1>3, GoingStep, StepIs, RestsOfDisconnect
    <2>2. /\ Keep("ui") /\ connection' = None /\ Params' = Params
          /\ server_id' = server_id /\ clock' = clock /\ cache' = cache
        BY <2>1 DEF NoConn, Params
    <2>3. Going(D4)' /\ quiet' = quiet
        BY <1>2, <1>3, <2>2, RestsOfDisconnect
    <2>4. Agrees => Published'
        BY <2>2 DEF Agrees, Published, OnScreen
    <2> QED BY <1>3, <2>2, <2>3, <2>4 DEF Disconnecting
<1>4. ASSUME Going(D4), connection = None PROVE Disconnecting'
    <2>1. NoSid("ui")
        BY <1>4, GoingStep, StepIs, RestsOfDisconnect
    <2>2. Keep("ui") /\ connection' = None /\ ~OnScreen(server_id)'
        BY <1>4, <2>1 DEF NoSid, SidStep, OnScreen
    <2> QED BY <1>2, <1>4, <2>2, RestsOfDisconnect DEF Disconnecting
<1>5. ASSUME Going(D3), connection = None, ~OnScreen(server_id) PROVE Disconnecting'
    <2>1. NoClock("ui")
        BY <1>5, GoingStep, StepIs, RestsOfDisconnect
    <2>2. Keep("ui") /\ connection' = None /\ ~OnScreen(server_id)' /\ clock' = None
        BY <1>5, <2>1 DEF NoClock, ClockStep, OnScreen
    <2> QED BY <1>2, <1>5, <2>2, RestsOfDisconnect DEF Disconnecting
<1>6. ASSUME Going(D2), connection = None, ~OnScreen(server_id), clock = None
      PROVE  Disconnecting'
    <2>1. NoCache("ui")
        BY <1>6, GoingStep, StepIs, RestsOfDisconnect
    <2>2. Keep("ui") /\ Off'
        BY <1>6, <2>1 DEF NoCache, CacheStep, OnScreen, Off
    <2> QED BY <1>2, <1>6, <2>2, RestsOfDisconnect DEF Disconnecting
<1>7. ASSUME Going(D1), Off
      PROVE  Connecting' \/ (todo'["ui"] = <<>> /\ (quiet' => Agrees'))
    <2>1. ClearPool("ui")
        BY <1>7, GoingStep, StepIs
    <2>2. Advance("ui", loc["ui"]) /\ Off'
        BY <1>7, <2>1 DEF ClearPool, Keep, OnScreen, Off
    <2>3. todo'["ui"] = Tail(todo["ui"])
        BY <2>2, UiGoes
    <2> QED BY <1>7, <2>2, <2>3, GoingStep DEF Connecting, Off, Agrees
<1> QED BY <1>3, <1>4, <1>5, <1>6, <1>7 DEF Disconnecting

LEMMA DemoStep ==
    ASSUME IInv, calm["ui"], Demonstrating, Step("ui")
    PROVE  Demonstrating' \/ (todo'["ui"] = <<>> /\ (quiet' => Agrees'))
<1>1. Types /\ "ui" \in Processes /\ "ui" \in Commands
    BY DEF IInv, Processes, Commands
<1> USE <1>1
<1>2. ASSUME todo["ui"] = DemoMode PROVE Demonstrating'
    <2>1. DemoSid("ui") /\ Len(todo["ui"]) # 1
        BY <1>2, StepIs, RestsOfDemo, Lengths
    <2>2. Keep("ui") /\ (Off => Off')
        BY <2>1 DEF DemoSid, SidStep, OnScreen, Off
    <2>3. todo'["ui"] = M2 /\ quiet' = quiet
        BY <1>2, <2>1, <2>2, UiKeeps, RestsOfDemo
    <2> QED BY <2>2, <2>3 DEF Demonstrating
<1>3. ASSUME todo["ui"] = M2 PROVE Demonstrating'
    <2>1. NoClock("ui") /\ Len(todo["ui"]) # 1
        BY <1>3, StepIs, RestsOfDemo, Lengths
    <2>2. Keep("ui") /\ (Off => Off')
        BY <2>1 DEF NoClock, ClockStep, OnScreen, Off
    <2>3. todo'["ui"] = M1 /\ quiet' = quiet
        BY <1>3, <2>1, <2>2, UiKeeps, RestsOfDemo
    <2> QED BY <2>2, <2>3 DEF Demonstrating
<1>4. ASSUME todo["ui"] = M1 PROVE todo'["ui"] = <<>> /\ (quiet' => Agrees')
    <2>1. NoCache("ui") /\ Len(todo["ui"]) = 1
        BY <1>4, StepIs, RestsOfDemo, Lengths
    <2>2. Advance("ui", loc["ui"]) /\ (Off => Off')
        BY <2>1 DEF NoCache, CacheStep, Keep, OnScreen, Off
    <2>3. ~Repairs("ui")
        BY <1>4, RestsOfDemo DEF Repairs, M1
    <2>4. todo'["ui"] = <<>> /\ (quiet' <=> quiet)
        BY <1>4, <2>1, <2>2, <2>3, UiGoes, RestsOfDemo
    <2> QED BY <2>2, <2>4 DEF Demonstrating, Off, Agrees
<1> QED BY <1>2, <1>3, <1>4 DEF Demonstrating

LEMMA RefreshStep ==
    ASSUME IInv, calm["f5"], Refreshing, Step("f5")
    PROVE  Refreshing' \/ (todo'["f5"] = <<>> /\ (quiet' => Agrees'))
<1>1. Types /\ "f5" \in Processes /\ "f5" \in Commands /\ (quiet => Agrees)
    BY DEF IInv, Processes, Commands, Refreshing
<1> USE <1>1
<1> DEFINE Same == UNCHANGED <<connection, conn_host, conn_port, server_id, clock, cache>>
<1>2. ASSUME NEW local, Advance("f5", local)
      PROVE  /\ todo'["f5"] = Tail(todo["f5"]) /\ (quiet' <=> quiet)
             /\ Len(todo["f5"]) # 1 => loc'["f5"] = local
    <2>1. ~Repairs("f5")
        BY DEF Repairs
    <2> QED BY <1>2, <2>1, AdvanceIs DEF Types
<1>3. Same => (Agrees' <=> Agrees) /\ Params' = Params
              /\ (OnScreen(server_id)' <=> OnScreen(server_id))
    BY DEF Agrees, OnScreen, Params
<1>4. UNCHANGED fields => Same
    BY DEF fields
<1>5. Fail("f5") => todo'["f5"] = <<>> /\ (quiet' => Agrees')
    BY <1>3, <1>4, FailIs
<1>6. ASSUME todo["f5"] = Refresh
      PROVE  Refreshing' \/ (todo'["f5"] = <<>> /\ (quiet' => Agrees'))
    <2>1. NeedSid("f5")
        BY <1>6, StepIs, RestsOfRefresh
    <2>2. CASE OnScreen(server_id)
        <3>1. Advance("f5", loc["f5"]) /\ Same
            BY <1>4, <2>1, <2>2 DEF NeedSid, Check, Keep
        <3> QED BY <1>2, <1>3, <1>6, <2>2, <3>1, RestsOfRefresh DEF Refreshing
    <2>3. CASE ~OnScreen(server_id)
        BY <1>5, <2>1, <2>3 DEF NeedSid, Check
    <2> QED BY <2>2, <2>3
<1>7. ASSUME todo["f5"] = R6, quiet => OnScreen(server_id) PROVE Refreshing'
    <2>1. ReadHost("f5") /\ Len(todo["f5"]) # 1
        BY <1>7, StepIs, RestsOfRefresh, Lengths
    <2>2. Advance("f5", [loc["f5"] EXCEPT !.host = conn_host]) /\ Same
        BY <1>4, <2>1 DEF ReadHost
    <2>3. loc'["f5"].host = conn_host
        <3>1. [loc["f5"] EXCEPT !.host = conn_host].host = conn_host
            BY HoldersOfCommand DEF CommandLoc
        <3> QED BY <1>2, <2>1, <2>2, <3>1
    <2> QED BY <1>2, <1>3, <1>7, <2>2, <2>3, RestsOfRefresh DEF Refreshing
<1>8. ASSUME todo["f5"] = R5, quiet => OnScreen(server_id) /\ loc["f5"].host = conn_host
      PROVE  Refreshing'
    <2>1. ReadPort("f5") /\ Len(todo["f5"]) # 1
        BY <1>8, StepIs, RestsOfRefresh, Lengths
    <2>2. Advance("f5", [loc["f5"] EXCEPT !.port = conn_port]) /\ Same
        BY <1>4, <2>1 DEF ReadPort
    <2>3. loc'["f5"].host = loc["f5"].host /\ loc'["f5"].port = conn_port
        <3> DEFINE read == [loc["f5"] EXCEPT !.port = conn_port]
        <3>1. read.host = loc["f5"].host /\ read.port = conn_port
            BY HoldersOfCommand DEF CommandLoc
        <3> QED BY <1>2, <2>1, <2>2, <3>1
    <2> QED BY <1>2, <1>3, <1>8, <2>2, <2>3, RestsOfRefresh DEF Refreshing
<1>9. ASSUME todo["f5"] = R4,
             quiet => /\ OnScreen(server_id)
                      /\ loc["f5"].host = conn_host /\ loc["f5"].port = conn_port
      PROVE  Refreshing' \/ (todo'["f5"] = <<>> /\ (quiet' => Agrees'))
    <2>1. Dial("f5") /\ Len(todo["f5"]) # 1
        BY <1>9, StepIs, RestsOfRefresh, Lengths
    <2>2. CASE Fail("f5")
        BY <1>5, <2>2
    <2>3. CASE ~Fail("f5")
        <3>1. /\ Same
              /\ Advance("f5", [loc["f5"] EXCEPT
                      !.conn = [to |-> <<loc["f5"].host, loc["f5"].port>>, stray |-> FALSE]])
            BY <1>4, <2>1, <2>3 DEF Dial
        <3>2. loc'["f5"].conn.to = <<loc["f5"].host, loc["f5"].port>>
            <4> DEFINE opened == [loc["f5"] EXCEPT
                      !.conn = [to |-> <<loc["f5"].host, loc["f5"].port>>, stray |-> FALSE]]
            <4>1. opened.conn.to = <<loc["f5"].host, loc["f5"].port>>
                BY HoldersOfCommand DEF CommandLoc
            <4> QED BY <1>2, <2>1, <3>1, <4>1
        <3> QED BY <1>2, <1>3, <1>9, <3>1, <3>2, RestsOfRefresh DEF Refreshing, Params
    <2> QED BY <2>2, <2>3
<1>10. ASSUME todo["f5"] = R3, quiet => OnScreen(server_id) /\ loc["f5"].conn.to = Params
       PROVE  Refreshing'
    <2>1. SetConn("f5") /\ Len(todo["f5"]) # 1
        BY <1>10, StepIs, RestsOfRefresh, Lengths
    <2>2. /\ Advance("f5", loc["f5"]) /\ connection' = loc["f5"].conn.to /\ Params' = Params
          /\ server_id' = server_id /\ clock' = clock /\ cache' = cache
        BY <2>1 DEF SetConn, Keep, Params
    <2>3. quiet => Agrees'
        BY <1>10, <2>2 DEF Agrees, OnScreen
    <2> QED BY <1>2, <1>10, <2>1, <2>2, <2>3, RestsOfRefresh DEF Refreshing, OnScreen
<1>11. ASSUME todo["f5"] = R2, quiet => OnScreen(server_id) /\ loc["f5"].conn.to = Params
       PROVE  Refreshing'
    <2>1. ClearPool("f5") /\ Len(todo["f5"]) # 1
        BY <1>11, StepIs, RestsOfRefresh, Lengths
    <2>2. Advance("f5", loc["f5"]) /\ Same
        BY <2>1 DEF ClearPool, Keep
    <2> QED BY <1>2, <1>3, <1>11, <2>1, <2>2, RestsOfRefresh DEF Refreshing
<1>12. ASSUME todo["f5"] = R1, quiet => OnScreen(server_id) /\ loc["f5"].conn.to = Params
       PROVE  todo'["f5"] = <<>> /\ (quiet' => Agrees')
    <2>1. SetClock("f5")
        BY <1>12, StepIs, RestsOfRefresh
    <2>2. /\ Advance("f5", loc["f5"]) /\ clock' = loc["f5"].conn.to /\ Params' = Params
          /\ server_id' = server_id /\ connection' = connection /\ cache' = cache
        BY <2>1 DEF SetClock, ClockStep, Keep, Params
    <2>3. quiet => Agrees'
        BY <1>12, <2>2 DEF Agrees, OnScreen
    <2> QED BY <1>2, <1>12, <2>2, <2>3, RestsOfRefresh
<1> HIDE DEF Same
<1> QED BY <1>6, <1>7, <1>8, <1>9, <1>10, <1>11, <1>12 DEF Refreshing

LEMMA CommandHolds ==
    ASSUME IInv, NEW c \in Commands, Step(c)
    PROVE  IInv'
<1>1. Types /\ Alone /\ Stages /\ Busy(c)
    BY StepIs DEF IInv
<1>2. Types'
    BY <1>1, CommandTypes
<1>3. PICK d \in Commands : c # d /\ Commands = {c, d}
    BY DEF Commands
<1>4. CASE ~calm[c]
    BY <1>2, <1>3, <1>4, NotCalm DEF IInv
<1>5. CASE calm[c]
    <2>1. c \in Processes /\ d \in Processes /\ ~Busy(d)
        BY <1>1, <1>3, <1>5 DEF Alone, Processes
    <2>2. calm' = calm /\ ~Busy(d)'
        <3>1. CASE Fail(c)
            BY <1>1, <1>3, <2>1, <3>1, FailIs DEF Busy
        <3>2. ASSUME NEW local, Advance(c, local) PROVE calm' = calm /\ ~Busy(d)'
            BY <1>1, <1>3, <2>1, <3>2, AdvanceIs DEF Busy
        <3> QED BY <1>1, <3>1, <3>2, CommandMoves
    <2>3. Alone'
        BY <1>3, <2>2 DEF Alone
    <2>4. Stages'
        <3>1. CASE c = "ui"
            <4>1. Connecting \/ Disconnecting \/ Demonstrating
                BY <1>1, <1>5, <3>1 DEF Stages
            <4>2. \/ (Connecting \/ Disconnecting \/ Demonstrating)'
                  \/ todo'["ui"] = <<>> /\ (quiet' => Agrees')
                BY <1>5, <3>1, <4>1, ConnectStep, DisconnectStep, DemoStep
            <4>3. ~Busy("f5")'
                BY <1>3, <2>2, <3>1 DEF Commands
            <4>4. Busy("ui")' <=> todo'["ui"] # <<>>
                BY DEF Busy
            <4>5. (Connecting \/ Disconnecting \/ Demonstrating)' => Busy("ui")'
                BY <4>4, NotEmpty, RestsOfSwitch
                   DEF Connecting, Disconnecting, Demonstrating, Going
            <4> QED BY <4>2, <4>3, <4>4, <4>5 DEF Stages, AtRest, Commands
        <3>2. CASE c = "f5"
            <4>1. Refreshing
                BY <1>1, <1>5, <3>2 DEF Stages
            <4>2. Refreshing' \/ (todo'["f5"] = <<>> /\ (quiet' => Agrees'))
                BY <1>5, <3>2, <4>1, RefreshStep
            <4>3. ~Busy("ui")'
                BY <1>3, <2>2, <3>2 DEF Commands
            <4>4. Busy("f5")' <=> todo'["f5"] # <<>>
                BY DEF Busy
            <4>5. Refreshing' => Busy("f5")'
                BY <4>4, NotEmpty DEF Refreshing
            <4> QED BY <4>2, <4>3, <4>4, <4>5 DEF Stages, AtRest, Commands
        <3> QED BY <3>1, <3>2 DEF Commands
    <2> QED BY <1>2, <2>3, <2>4 DEF IInv
<1> QED BY <1>4, <1>5

LEMMA StepHolds == IInv /\ [Next]_vars => IInv'
<1> SUFFICES ASSUME IInv, [Next]_vars PROVE IInv'
    OBVIOUS
<1>1. CASE Start
    BY <1>1, StartHolds
<1>2. ASSUME NEW p \in Processes, Step(p) PROVE IInv'
    BY <1>2, CommandHolds, QueryHolds DEF Processes
<1>3. CASE UNCHANGED vars
    <2>1. /\ SameButPool /\ todo' = todo /\ loc' = loc /\ calm' = calm /\ quiet' = quiet
        BY <1>3 DEF vars, fields, SameButPool
    <2>2. Alone' /\ Stages'
        BY <2>1, Unaffected DEF IInv
    <2>3. Types'
        BY <2>1 DEF IInv, Types, SameButPool
    <2> QED BY <2>2, <2>3 DEF IInv
<1> QED BY <1>1, <1>2, <1>3 DEF Next

-----------------------------------------------------------------------------
(* The theorems.                                                           *)

\* Whatever the collectors are and however many calls overlap: once no command
\* is in flight and no race is left to repair, the fields of AppState describe
\* one collector or none (connect_scouter, disconnect_scouter,
\* refresh_connection, start_mock_stream).
THEOREM FieldsAgree == Spec => []SettledAgrees
<1>1. Spec => []IInv
    BY InitHolds, StepHolds, PTL DEF Spec
<1>2. IInv => SettledAgrees
    BY Enough
<1> QED BY <1>1, <1>2, PTL

\* And whoever sees the name of a server meanwhile finds no field of another
\* collector (get_connection_info).
THEOREM NameComesLast == Spec => []PublishedLast
<1>1. Spec => []IInv
    BY InitHolds, StepHolds, PTL DEF Spec
<1>2. IInv => PublishedLast
    BY Enough
<1> QED BY <1>1, <1>2, PTL

-----------------------------------------------------------------------------
(* The rests of the plans.                                                 *)

\* A query has some rest of the plan of its kind to go.
RestOf(kind, i) == SubSeq(QueryPlan[kind], i, Len(QueryPlan[kind]))

\* The step of a plan after which a connection is on loan.
DialAt == [past |-> 7, search |-> 7, types |-> 5, mcp |-> 5, prefetch |-> 6]

\* The plans of the dialog, as they go on.
UiRests == {<<>>, Connect, C9, C8, C7, C6, C5, C4, C3, C2, C1, Disconnect, D4, D3, D2, D1,
            DemoMode, M2, M1}
           \cup {d \o Connect : d \in {Disconnect, D4, D3, D2, D1}}

LEMMA SuffixIs ==
    ASSUME NEW S, NEW s \in Seq(S), NEW i \in 1 .. Len(s)
    PROVE  /\ SubSeq(s, i, Len(s)) # <<>> /\ Head(SubSeq(s, i, Len(s))) = s[i]
           /\ Tail(SubSeq(s, i, Len(s))) = SubSeq(s, i + 1, Len(s))
           /\ Len(SubSeq(s, i, Len(s))) = 1 <=> i = Len(s)
<1> DEFINE t == SubSeq(s, i, Len(s))
<1>1. /\ t \in Seq(S) /\ Len(t) = Len(s) - i + 1
      /\ \A j \in 1 .. Len(s) - i + 1 : t[j] = s[i + j - 1]
    BY SubSeqProperties
<1>2. Len(s) - i + 1 \in Nat \ {0} /\ Len(s) \in Nat
    BY LenProperties
<1>3. t # <<>> /\ Head(t) = s[i] /\ (Len(t) = 1 <=> i = Len(s))
    <2> HIDE DEF t
    <2>1. 1 \in 1 .. Len(s) - i + 1 /\ i + 1 - 1 = i
        BY <1>2
    <2>2. t # <<>> /\ t[1] = s[i]
        BY <1>1, <1>2, <2>1, EmptySeq
    <2>3. Head(t) = t[1]
        BY <1>1, <2>2, HeadTailProperties
    <2> QED BY <1>1, <1>2, <2>2, <2>3
<1>4. CASE i = Len(s)
    <2>1. Tail(t) = <<>>
        BY <1>1, <1>4
    <2>2. SubSeq(s, i + 1, Len(s)) = <<>>
        BY <1>2, <1>4
    <2> QED BY <1>3, <2>1, <2>2
<1>5. CASE i < Len(s)
    <2> DEFINE u == SubSeq(s, i + 1, Len(s))
    <2>1. /\ u \in Seq(S) /\ Len(u) = Len(s) - i
          /\ \A j \in 1 .. Len(s) - i : u[j] = s[i + j]
        BY <1>2, <1>5, SubSeqProperties
    <2>2. /\ Tail(t) \in Seq(S) /\ Len(Tail(t)) = Len(s) - i
          /\ \A j \in 1 .. Len(s) - i : Tail(t)[j] = s[i + j]
        <3> HIDE DEF t
        <3>1. /\ Tail(t) \in Seq(S) /\ Len(Tail(t)) = Len(s) - i
              /\ \A j \in 1 .. Len(s) - i : Tail(t)[j] = t[j + 1]
            BY <1>1, <1>2, <1>3, HeadTailProperties
        <3>2. \A j \in 1 .. Len(s) - i : t[j + 1] = s[i + j]
            BY <1>1, <1>2
        <3> QED BY <3>1, <3>2
    <2> HIDE DEF t, u
    <2>3. Tail(t) = u
        BY <2>1, <2>2, SeqEqual
    <2> QED BY <1>3, <2>3 DEF t, u
<1> QED BY <1>2, <1>4, <1>5

LEMMA SkipIs ==
    ASSUME NEW S, NEW s \in Seq(S), NEW i \in 1 .. Len(s), i + 4 <= Len(s)
    PROVE  SubSeq(SubSeq(s, i, Len(s)), 5, Len(SubSeq(s, i, Len(s)))) = SubSeq(s, i + 4, Len(s))
<1> DEFINE t == SubSeq(s, i, Len(s))
           u == SubSeq(s, i + 4, Len(s))
           v == SubSeq(t, 5, Len(t))
<1>1. Len(s) \in Nat
    BY LenProperties
<1>2. /\ t \in Seq(S) /\ Len(t) = Len(s) - i + 1
      /\ \A j \in 1 .. Len(s) - i + 1 : t[j] = s[i + j - 1]
    BY <1>1, SubSeqProperties
<1>3. /\ u \in Seq(S) /\ Len(u) = Len(s) - i - 3
      /\ \A j \in 1 .. Len(s) - i - 3 : u[j] = s[i + j + 3]
    BY <1>1, SubSeqProperties
<1> HIDE DEF t
<1>4. /\ v \in Seq(S) /\ Len(v) = Len(t) - 4
      /\ \A j \in 1 .. Len(t) - 4 : v[j] = t[j + 4]
    BY <1>1, <1>2, SubSeqProperties
<1> HIDE DEF u, v
<1>5. ASSUME NEW j \in 1 .. Len(u) PROVE v[j] = u[j]
    <2>1. j + 4 \in 1 .. Len(s) - i + 1 /\ i + (j + 4) - 1 = i + j + 3
        BY <1>1, <1>3
    <2>2. t[j + 4] = s[i + j + 3]
        BY <1>2, <2>1
    <2> QED BY <1>1, <1>2, <1>3, <1>4, <2>2
<1>6. Len(v) = Len(u)
    BY <1>1, <1>2, <1>3, <1>4
<1>7. v = u
    BY <1>3, <1>4, <1>5, <1>6, SeqEqual
<1> QED BY <1>7 DEF t, u, v

\* A plan that borrows a connection after the steps of a and before those of b.
Borrows(plan, a, b) ==
    /\ plan \in Seq(QuerySteps) /\ Len(plan) = Len(a) + 4 + Len(b)
    /\ \A j \in 1 .. Len(a) : plan[j] = a[j]
    /\ plan[Len(a) + 1] = "pop" /\ plan[Len(a) + 2] = "readHost"
    /\ plan[Len(a) + 3] = "readPort" /\ plan[Len(a) + 4] = "dial"
    /\ \A j \in 1 .. Len(b) : plan[Len(a) + 4 + j] = b[j]

LEMMA Borrowing ==
    ASSUME NEW a \in Seq(QuerySteps), NEW b \in Seq(QuerySteps)
    PROVE  Borrows(a \o Borrow \o b, a, b)
<1>1. /\ Borrow \in Seq(QuerySteps) /\ Len(Borrow) = 4
      /\ Borrow[1] = "pop" /\ Borrow[2] = "readHost"
      /\ Borrow[3] = "readPort" /\ Borrow[4] = "dial"
    BY DEF Borrow, QuerySteps
<1> DEFINE c == a \o Borrow
<1>2. /\ c \in Seq(QuerySteps) /\ Len(c) = Len(a) + Len(Borrow)
      /\ \A j \in 1 .. Len(a) + Len(Borrow) :
            c[j] = IF j <= Len(a) THEN a[j] ELSE Borrow[j - Len(a)]
    BY <1>1, ConcatProperties, Zenon
<1> HIDE DEF c
<1> DEFINE d == c \o b
<1>3. /\ d \in Seq(QuerySteps) /\ Len(d) = Len(c) + Len(b)
      /\ \A j \in 1 .. Len(c) + Len(b) : d[j] = IF j <= Len(c) THEN c[j] ELSE b[j - Len(c)]
    <2>1. c \in Seq(QuerySteps) /\ b \in Seq(QuerySteps)
        BY <1>2
    <2> QED BY <2>1, ConcatProperties, ZenonT(60)
<1> HIDE DEF d
<1>4. Len(a) \in Nat /\ Len(b) \in Nat /\ Len(c) = Len(a) + 4
    BY <1>1, <1>2, LenProperties
<1>5. ASSUME NEW j \in 1 .. Len(a) + 4 PROVE d[j] = c[j]
    <2>1. j \in 1 .. Len(c) + Len(b) /\ j <= Len(c)
        BY <1>4
    <2> QED BY <1>3, <2>1, Zenon
<1>6. ASSUME NEW j \in 1 .. Len(b) PROVE d[Len(a) + 4 + j] = b[j]
    <2>1. /\ Len(a) + 4 + j \in 1 .. Len(c) + Len(b) /\ ~(Len(a) + 4 + j <= Len(c))
          /\ (Len(a) + 4 + j) - Len(c) = j
        BY <1>4
    <2> QED BY <1>3, <2>1, Zenon
<1>7. ASSUME NEW j \in 1 .. Len(a) PROVE d[j] = a[j]
    <2>1. j \in 1 .. Len(a) + 4 /\ j \in 1 .. Len(a) + Len(Borrow) /\ j <= Len(a)
        BY <1>1, <1>4
    <2> QED BY <1>2, <1>5, <2>1, Zenon
<1>8. ASSUME NEW j \in 1 .. 4 PROVE d[Len(a) + j] = Borrow[j]
    <2>1. /\ Len(a) + j \in 1 .. Len(a) + 4 /\ Len(a) + j \in 1 .. Len(a) + Len(Borrow)
          /\ ~(Len(a) + j <= Len(a)) /\ (Len(a) + j) - Len(a) = j
        BY <1>1, <1>4
    <2> QED BY <1>2, <1>5, <2>1, Zenon
<1>9. /\ d[Len(a) + 1] = "pop" /\ d[Len(a) + 2] = "readHost"
      /\ d[Len(a) + 3] = "readPort" /\ d[Len(a) + 4] = "dial"
    BY <1>1, <1>8
<1>10. Borrows(d, a, b)
    BY <1>3, <1>4, <1>6, <1>7, <1>9 DEF Borrows
<1> QED BY <1>10 DEF c, d

\* The plans, step by step.
LEMMA PlansAre ==
    /\ QueryPlan["past"] = <<"getCache", "getClock", "gate", "pop", "readHost", "readPort",
                             "dial", "page", "release">>
    /\ QueryPlan["search"] = <<"gate", "getCache", "getClock", "pop", "readHost", "readPort",
                               "dial", "page", "release">>
    /\ QueryPlan["types"] = <<"gate", "pop", "readHost", "readPort", "dial", "page", "release">>
    /\ QueryPlan["dist"] = <<"getCache", "getClock", "hold", "page", "drop">>
    /\ QueryPlan["mcp"] = <<"someSid", "pop", "readHost", "readPort", "dial", "getCache",
                            "getClock", "page", "release">>
    /\ QueryPlan["prefetch"] = <<"getCache", "needCache", "pop", "readHost", "readPort", "dial",
                                 "release", "readHost", "readPort", "fetch", "rest">>
    /\ QueryPlan["history"] = <<"sameSid", "readHost", "readPort", "save", "rest">>
    /\ DOMAIN QueryPlan = {"past", "search", "types", "dist", "mcp", "prefetch", "history"}
<1>1. LoadPast = <<"getCache", "getClock", "gate", "pop", "readHost", "readPort", "dial",
                   "page", "release">>
    <2> DEFINE a == <<"getCache", "getClock", "gate">>  b == <<"page", "release">>
    <2>1. a \in Seq(QuerySteps) /\ b \in Seq(QuerySteps) /\ Len(a) = 3 /\ Len(b) = 2
        BY DEF QuerySteps
    <2> DEFINE plan == a \o Borrow \o b
    <2>2. Borrows(plan, a, b)
        BY <2>1, Borrowing
    <2> HIDE DEF plan
    <2>3. plan \in Seq(QuerySteps) /\ Len(plan) = 9
        BY <2>1, <2>2 DEF Borrows
    <2>4. plan = <<"getCache", "getClock", "gate", "pop", "readHost", "readPort", "dial",
                   "page", "release">>
        BY <2>1, <2>2, <2>3, SeqEqual DEF Borrows, QuerySteps
    <2> QED BY <2>4 DEF LoadPast, plan
<1>2. SearchPage = <<"gate", "getCache", "getClock", "pop", "readHost", "readPort", "dial",
                     "page", "release">>
    <2> DEFINE a == <<"gate", "getCache", "getClock">>  b == <<"page", "release">>
    <2>1. a \in Seq(QuerySteps) /\ b \in Seq(QuerySteps) /\ Len(a) = 3 /\ Len(b) = 2
        BY DEF QuerySteps
    <2> DEFINE plan == a \o Borrow \o b
    <2>2. Borrows(plan, a, b)
        BY <2>1, Borrowing
    <2> HIDE DEF plan
    <2>3. plan \in Seq(QuerySteps) /\ Len(plan) = 9
        BY <2>1, <2>2 DEF Borrows
    <2>4. plan = <<"gate", "getCache", "getClock", "pop", "readHost", "readPort", "dial",
                   "page", "release">>
        BY <2>1, <2>2, <2>3, SeqEqual DEF Borrows, QuerySteps
    <2> QED BY <2>4 DEF SearchPage, plan
<1>3. ObjTypeMaps = <<"gate", "pop", "readHost", "readPort", "dial", "page", "release">>
    <2> DEFINE a == <<"gate">>  b == <<"page", "release">>
    <2>1. a \in Seq(QuerySteps) /\ b \in Seq(QuerySteps) /\ Len(a) = 1 /\ Len(b) = 2
        BY DEF QuerySteps
    <2> DEFINE plan == a \o Borrow \o b
    <2>2. Borrows(plan, a, b)
        BY <2>1, Borrowing
    <2> HIDE DEF plan
    <2>3. plan \in Seq(QuerySteps) /\ Len(plan) = 7
        BY <2>1, <2>2 DEF Borrows
    <2>4. plan = <<"gate", "pop", "readHost", "readPort", "dial", "page", "release">>
        BY <2>1, <2>2, <2>3, SeqEqual DEF Borrows, QuerySteps
    <2> QED BY <2>4 DEF ObjTypeMaps, plan
<1>4. WithConn = <<"someSid", "pop", "readHost", "readPort", "dial", "getCache",
                   "getClock", "page", "release">>
    <2> DEFINE a == <<"someSid">>  b == <<"getCache", "getClock", "page", "release">>
    <2>1. a \in Seq(QuerySteps) /\ b \in Seq(QuerySteps) /\ Len(a) = 1 /\ Len(b) = 4
        BY DEF QuerySteps
    <2> DEFINE plan == a \o Borrow \o b
    <2>2. Borrows(plan, a, b)
        BY <2>1, Borrowing
    <2> HIDE DEF plan
    <2>3. plan \in Seq(QuerySteps) /\ Len(plan) = 9
        BY <2>1, <2>2 DEF Borrows
    <2>4. plan = <<"someSid", "pop", "readHost", "readPort", "dial", "getCache",
                   "getClock", "page", "release">>
        BY <2>1, <2>2, <2>3, SeqEqual DEF Borrows, QuerySteps
    <2> QED BY <2>4 DEF WithConn, plan
<1>5. Prefetch = <<"getCache", "needCache", "pop", "readHost", "readPort", "dial",
                   "release", "readHost", "readPort", "fetch", "rest">>
    <2> DEFINE a == <<"getCache", "needCache">>
               b == <<"release", "readHost", "readPort", "fetch", "rest">>
    <2>1. a \in Seq(QuerySteps) /\ b \in Seq(QuerySteps) /\ Len(a) = 2 /\ Len(b) = 5
        BY DEF QuerySteps
    <2> DEFINE plan == a \o Borrow \o b
    <2>2. Borrows(plan, a, b)
        BY <2>1, Borrowing
    <2> HIDE DEF plan
    <2>3. plan \in Seq(QuerySteps) /\ Len(plan) = 11
        BY <2>1, <2>2 DEF Borrows
    <2>4. plan = <<"getCache", "needCache", "pop", "readHost", "readPort", "dial",
                   "release", "readHost", "readPort", "fetch", "rest">>
        BY <2>1, <2>2, <2>3, SeqEqual DEF Borrows, QuerySteps
    <2> QED BY <2>4 DEF Prefetch, plan
<1> QED BY <1>1, <1>2, <1>3, <1>4, <1>5 DEF QueryPlan, Distribution, SaveHistory

LEMMA PlanSteps ==
    ASSUME NEW kind \in DOMAIN QueryPlan, NEW i \in 1 .. Len(QueryPlan[kind])
    PROVE  LET step == QueryPlan[kind][i] IN
           /\ kind \in DOMAIN DialAt => /\ DialAt[kind] \in Nat
                                        /\ step = "dial" <=> i = DialAt[kind]
                                        /\ step = "release" => i > DialAt[kind]
           /\ kind \notin DOMAIN DialAt => step \notin {"pop", "dial", "release"}
           /\ step = "pop" => DialAt[kind] = i + 3 /\ i + 4 <= Len(QueryPlan[kind])
           /\ step = "hold" => kind \notin DOMAIN DialAt
           /\ kind = "history" => /\ step = "readHost" <=> i = 2
                                  /\ step = "readPort" <=> i = 3
           /\ step = "save" => kind = "history" /\ i = 4
<1>1. CASE kind = "past"
    BY <1>1, PlansAre DEF DialAt
<1>2. CASE kind = "search"
    BY <1>2, PlansAre DEF DialAt
<1>3. CASE kind = "types"
    BY <1>3, PlansAre DEF DialAt
<1>4. CASE kind = "dist"
    BY <1>4, PlansAre DEF DialAt
<1>5. CASE kind = "mcp"
    BY <1>5, PlansAre DEF DialAt
<1>6. CASE kind = "prefetch"
    BY <1>6, PlansAre DEF DialAt
<1>7. CASE kind = "history"
    BY <1>7, PlansAre DEF DialAt
<1> QED BY <1>1, <1>2, <1>3, <1>4, <1>5, <1>6, <1>7, PlansAre

LEMMA RestsOfQueries ==
    ASSUME NEW kind \in DOMAIN QueryPlan, NEW i \in 1 .. Len(QueryPlan[kind])
    PROVE  /\ RestOf(kind, i) # <<>> /\ Head(RestOf(kind, i)) = QueryPlan[kind][i]
           /\ Tail(RestOf(kind, i)) = RestOf(kind, i + 1)
           /\ Len(RestOf(kind, i)) = 1 <=> i = Len(QueryPlan[kind])
           /\ QueryPlan[kind][i] = "pop" =>
                 SubSeq(RestOf(kind, i), Len(Borrow) + 1, Len(RestOf(kind, i)))
                    = RestOf(kind, i + 4)
<1>1. QueryPlan[kind] \in Seq(QuerySteps)
    BY PlansOfQueries
<1>2. Len(Borrow) + 1 = 5
    BY DEF Borrow
<1>3. QueryPlan[kind][i] = "pop" => i + 4 <= Len(QueryPlan[kind])
    BY PlanSteps
<1> DEFINE s == QueryPlan[kind]
<1> HIDE DEF s
<1>4. s \in Seq(QuerySteps) /\ i \in 1 .. Len(s)
    BY <1>1 DEF s
<1>5. /\ SubSeq(s, i, Len(s)) # <<>> /\ Head(SubSeq(s, i, Len(s))) = s[i]
      /\ Tail(SubSeq(s, i, Len(s))) = SubSeq(s, i + 1, Len(s))
      /\ Len(SubSeq(s, i, Len(s))) = 1 <=> i = Len(s)
    BY <1>4, SuffixIs
<1>6. i + 4 <= Len(s) => SubSeq(SubSeq(s, i, Len(s)), 5, Len(SubSeq(s, i, Len(s))))
                            = SubSeq(s, i + 4, Len(s))
    BY <1>4, SkipIs
<1> QED BY <1>2, <1>3, <1>5, <1>6 DEF RestOf, s

\* The dialog writes the address only after it has emptied the pool.
LEMMA RestsOfDialog ==
    ASSUME NEW r \in UiRests, r # <<>>
    PROVE  /\ Tail(r) \in UiRests
           /\ Tail(r) # <<>> /\ Head(Tail(r)) \in {"setHost", "setPort"} =>
                 Head(r) \in {"clearPool", "setHost"}
<1>1. CASE r \in {Connect, C9, C8, C7, C6, C5, C4, C3, C2, C1}
    BY <1>1, RestsOfConnect, ZenonT(60) DEF UiRests
<1>2. CASE r \in {Disconnect, D4, D3, D2, D1}
    BY <1>2, RestsOfDisconnect DEF UiRests
<1>3. CASE r \in {DemoMode, M2, M1}
    BY <1>3, RestsOfDemo DEF UiRests
<1>4. CASE \E d \in {Disconnect, D4, D3, D2, D1} : r = d \o Connect
    <2>1. PICK d \in {Disconnect, D4, D3, D2, D1} : r = d \o Connect
        BY <1>4
    <2>2. Head(r) = Head(d) /\ Tail(r) = Tail(d) \o Connect
        BY <2>1, RestsOfSwitch
    <2>3. CASE d = D1
        BY <2>1, <2>3, RestsOfSwitch, RestsOfConnect DEF UiRests
    <2>4. CASE d # D1
        <3>1. Tail(d) \in {D4, D3, D2, D1}
            BY <2>1, <2>4, RestsOfDisconnect
        <3>2. Tail(r) \in UiRests
            BY <2>2, <3>1 DEF UiRests
        <3>3. Head(Tail(r)) = Head(Tail(d))
            BY <2>2, <3>1, RestsOfSwitch
        <3>4. Head(Tail(d)) \in {"noSid", "noClock", "noCache", "clearPool"}
            BY <3>1, RestsOfDisconnect
        <3> QED BY <3>2, <3>3, <3>4
    <2> QED BY <2>3, <2>4
<1> QED BY <1>1, <1>2, <1>3, <1>4 DEF UiRests

-----------------------------------------------------------------------------
(* The invariant.                                                          *)

Loan == [to : Collectors \cup {None}, stray : BOOLEAN]
Shaped(l) == l \in [screen : {l.screen}, sid : {l.sid}, host : {l.host}, port : {l.port},
                    conn : Loan, db : {l.db}, clk : {l.clk}, got : {l.got}]

Shapes ==
    /\ connection \in Collectors \cup {None}
    /\ query_pool \in Seq(Connection)
    /\ todo["ui"] \in UiRests
    /\ todo["f5"] \in Seq(CommandSteps \ {"setHost", "setPort"})
    /\ \A q \in Queries : Shaped(loc[q])

\* Between the emptying of the pool and the new address only strays come in.
Moving == At("ui", "setHost") \/ At("ui", "setPort")
Pooled == \A i \in DOMAIN query_pool :
              query_pool[i].stray \/ (query_pool[i].to = Params /\ ~Moving)

\* What a query has read, when no command overlapped it.  The fields it read
\* under an unrepaired race may be of several collectors.
Fresh(l) ==
    /\ l.screen = Params
    /\ l.host \in {None, conn_host} /\ l.port \in {None, conn_port}
    /\ quiet => /\ l.db \in {None, Params} /\ l.clk \in {None, Params}
                /\ l.conn.stray \/ (l.conn.to \in {None, Params} /\ l.got \in {None, Params})

\* What it has in hand at the i-th step of its plan.
Lent(l, kind, i, still) ==
    /\ ~l.conn.stray \/ (kind \in DOMAIN DialAt /\ i > DialAt[kind])
    /\ kind \in DOMAIN DialAt =>
          /\ i > DialAt[kind] => l.conn.to # None
          /\ still => l.conn.stray \/ l.conn.to \in {None, Params}
    /\ kind = "history" /\ still => /\ i > 2 => l.host = conn_host
                                    /\ i > 3 => l.port = conn_port

Placed(q, kind, i) == todo[q] = RestOf(kind, i) /\ Lent(loc[q], kind, i, calm[q])

Queried(q) ==
    Busy(q) => /\ calm[q] => AtRest /\ Fresh(loc[q])
               /\ \E kind \in DOMAIN QueryPlan :
                     \E i \in 1 .. Len(QueryPlan[kind]) : Placed(q, kind, i)

QInv == Shapes /\ Pooled /\ \A q \in Queries : Queried(q)

LEMMA QueriesEnough == IInv /\ QInv => PoolFollowsServer /\ AnswersOfScreen
<1> SUFFICES ASSUME IInv, QInv PROVE PoolFollowsServer /\ AnswersOfScreen
    OBVIOUS
<1>1. PoolFollowsServer
    BY DEF QInv, Pooled, PoolFollowsServer
<1>2. ASSUME NEW q \in Queries, Undisturbed(q), loc[q].got # None
      PROVE  /\ loc[q].got = Params /\ loc[q].screen = Params
             /\ loc[q].db \in {None, Params} /\ loc[q].clk \in {None, Params}
             /\ OnScreen(server_id) => Params \in Collectors /\ ServerId[Params] = server_id
    <2>1. AtRest /\ quiet /\ Fresh(loc[q]) /\ ~loc[q].conn.stray
        BY <1>2 DEF QInv, Queried, Undisturbed, NoRace
    <2>2. Agrees
        BY <2>1 DEF IInv, Stages
    <2> QED BY <1>2, <2>1, <2>2 DEF Fresh, Agrees
<1>3. CalmAnswer
    BY <1>2 DEF CalmAnswer
<1>4. CalmCache
    BY <1>2 DEF CalmCache
<1> QED BY <1>1, <1>3, <1>4 DEF AnswersOfScreen

LEMMA QInvInit == Init => QInv
<1> SUFFICES ASSUME Init PROVE QInv
    OBVIOUS
<1>1. \A p \in Processes : todo[p] = <<>> /\ loc[p] = Idle
    BY DEF Init
<1>2. "ui" \in Processes /\ "f5" \in Processes /\ Queries \subseteq Processes
    BY DEF Processes, Commands
<1>3. Shaped(Idle)
    BY DEF Shaped, Idle, NoConnection, Loan
<1>4. <<>> \in UiRests /\ <<>> \in Seq(CommandSteps \ {"setHost", "setPort"})
      /\ <<>> \in Seq(Connection)
    BY DEF UiRests
<1>5. Shapes
    BY <1>1, <1>2, <1>3, <1>4 DEF Init, Shapes
<1>6. Pooled
    BY DEF Init, Pooled
<1>7. \A q \in Queries : ~Busy(q)
    BY <1>1, <1>2 DEF Busy
<1> QED BY <1>5, <1>6, <1>7 DEF QInv, Queried

-----------------------------------------------------------------------------
(* The steps of the others.                                                *)

\* A query stays where it is while the others move; a command that begins or
\* goes on takes its calm.
LEMMA QueryRests ==
    ASSUME NEW q \in Queries, Queried(q), todo'[q] = todo[q], loc'[q] = loc[q],
           Busy(q) /\ calm'[q] =>
               /\ calm[q] /\ AtRest'
               /\ conn_host' = conn_host /\ conn_port' = conn_port /\ quiet' = quiet
    PROVE  Queried(q)'
<1> SUFFICES ASSUME Busy(q) PROVE Queried(q)'
    BY DEF Queried, Busy
<1>0. PICK kind \in DOMAIN QueryPlan : \E i \in 1 .. Len(QueryPlan[kind]) : Placed(q, kind, i)
    BY DEF Queried
<1>1. PICK i \in 1 .. Len(QueryPlan[kind]) : Placed(q, kind, i)
    BY <1>0
<1>2. calm'[q] => AtRest' /\ Fresh(loc[q])'
    BY DEF Queried, Fresh, Params
<1>3. Placed(q, kind, i)'
    BY <1>1 DEF Placed, Lent, Params, RestOf
<1> QED BY <1>2, <1>3 DEF Queried

LEMMA CommandFields ==
    ASSUME Types, NEW c \in Commands, Step(c)
    PROVE  /\ connection' \in {connection, None, loc[c].conn.to}
           /\ query_pool' = query_pool \/ query_pool' = <<>>
           /\ Head(todo[c]) = "clearPool" => query_pool' = <<>>
           /\ Head(todo[c]) \notin {"setHost", "setPort"} =>
                 conn_host' = conn_host /\ conn_port' = conn_port
<1> DEFINE Kept == /\ connection' = connection /\ query_pool' = query_pool
                   /\ conn_host' = conn_host /\ conn_port' = conn_port
<1>1. Head(todo[c]) \in CommandSteps
    BY HoldersOfCommand, StepIs
<1>2. UNCHANGED fields => Kept
    BY DEF fields
<1>3. Fail(c) => Kept
    BY <1>2 DEF Fail
<1>4. CASE Head(todo[c]) \in {"dial", "readHost", "readPort", "needSid"}
    <2>1. Dial(c) \/ ReadHost(c) \/ ReadPort(c) \/ NeedSid(c)
        BY <1>4, StepIs
    <2>2. Kept
        BY <1>2, <1>3, <2>1 DEF Dial, ReadHost, ReadPort, NeedSid, Check
    <2> QED BY <1>4, <2>2
<1>5. CASE Head(todo[c]) \in {"setClock", "noClock", "setSid", "noSid", "demoSid",
                              "openCache", "noCache"}
    <2>1. SetClock(c) \/ NoClock(c) \/ SetSid(c) \/ NoSid(c) \/ DemoSid(c)
          \/ OpenCache(c) \/ NoCache(c)
        BY <1>5, StepIs
    <2>2. Kept
        BY <2>1 DEF SetClock, NoClock, SetSid, NoSid, DemoSid, OpenCache, NoCache,
                    ClockStep, SidStep, CacheStep
    <2> QED BY <1>5, <2>2
<1>6. CASE Head(todo[c]) \in {"setConn", "noConn"}
    <2>1. SetConn(c) \/ NoConn(c)
        BY <1>6, StepIs
    <2> QED BY <1>6, <2>1 DEF SetConn, NoConn
<1>7. CASE Head(todo[c]) \in {"setHost", "setPort"}
    <2>1. SetHost(c) \/ SetPort(c)
        BY <1>7, StepIs
    <2> QED BY <1>7, <2>1 DEF SetHost, SetPort
<1>8. CASE Head(todo[c]) = "clearPool"
    <2>1. ClearPool(c)
        BY <1>8, StepIs
    <2> QED BY <1>8, <2>1 DEF ClearPool
<1> QED BY <1>1, <1>4, <1>5, <1>6, <1>7, <1>8 DEF CommandSteps

LEMMA CommandKeepsQueries ==
    ASSUME IInv, QInv, NEW c \in Commands, Step(c)
    PROVE  QInv'
<1>1. Types /\ Busy(c) /\ c \in Processes /\ c \notin Queries /\ Queries \subseteq Processes
      /\ Commands \subseteq Processes
    BY StepIs, SessionAssumption DEF IInv, Processes, Commands
<1>2. /\ calm' = calm /\ todo'[c] \in {Tail(todo[c]), <<>>}
      /\ \A p \in Processes : p # c => todo'[p] = todo[p] /\ loc'[p] = loc[p]
    <2>1. CASE Fail(c)
        BY <1>1, <2>1, FailIs
    <2>2. ASSUME NEW local, Advance(c, local)
          PROVE  /\ calm' = calm /\ todo'[c] = Tail(todo[c])
                 /\ \A p \in Processes : p # c => todo'[p] = todo[p] /\ loc'[p] = loc[p]
        BY <1>1, <2>2, AdvanceIs
    <2> QED BY <1>1, <2>1, <2>2, CommandMoves
<1>3. /\ connection' \in {connection, None, loc[c].conn.to}
      /\ query_pool' = query_pool \/ query_pool' = <<>>
      /\ Head(todo[c]) = "clearPool" => query_pool' = <<>>
      /\ Head(todo[c]) \notin {"setHost", "setPort"} =>
            conn_host' = conn_host /\ conn_port' = conn_port
    BY <1>1, CommandFields
<1>4. \A q \in Queries : todo'[q] = todo[q] /\ loc'[q] = loc[q]
    BY <1>1, <1>2
<1>5. \A q \in Queries : Queried(q)'
    <2>1. ~AtRest
        BY <1>1 DEF AtRest
    <2>2. \A q \in Queries : Queried(q) /\ (Busy(q) => ~calm'[q])
        BY <1>2, <2>1 DEF QInv, Queried
    <2> QED BY <1>4, <2>2, QueryRests
<1>6. Shapes'
    <2>1. connection' \in Collectors \cup {None}
        <3>1. loc[c].conn.to \in Collectors \cup {None}
            BY <1>1 DEF Types, CommandLoc
        <3> QED BY <1>3, <3>1 DEF QInv, Shapes
    <2>2. query_pool' \in Seq(Connection)
        <3>1. <<>> \in Seq(Connection)
            OBVIOUS
        <3> QED BY <1>3, <3>1 DEF QInv, Shapes
    <2>3. todo'["ui"] \in UiRests
        <3>1. todo["ui"] \in UiRests /\ <<>> \in UiRests
            BY DEF QInv, Shapes, UiRests
        <3>2. c = "ui" => Tail(todo["ui"]) \in UiRests
            BY <1>1, <3>1, RestsOfDialog DEF Busy
        <3> QED BY <1>1, <1>2, <3>1, <3>2 DEF Commands
    <2>4. todo'["f5"] \in Seq(CommandSteps \ {"setHost", "setPort"})
        <3>1. todo["f5"] \in Seq(CommandSteps \ {"setHost", "setPort"})
              /\ <<>> \in Seq(CommandSteps \ {"setHost", "setPort"})
            BY DEF QInv, Shapes
        <3>2. c = "f5" => Tail(todo["f5"]) \in Seq(CommandSteps \ {"setHost", "setPort"})
            BY <1>1, <3>1, HeadTailProperties DEF Busy
        <3> QED BY <1>1, <1>2, <3>1, <3>2 DEF Commands
    <2>5. \A q \in Queries : Shaped(loc[q])'
        BY <1>4 DEF QInv, Shapes, Shaped
    <2> QED BY <2>1, <2>2, <2>3, <2>4, <2>5 DEF Shapes
<1>7. Pooled'
    <2>1. CASE c = "f5"
        <3>1. todo["f5"] \in Seq(CommandSteps \ {"setHost", "setPort"}) /\ todo["f5"] # <<>>
            BY <1>1, <2>1 DEF QInv, Shapes, Busy
        <3>2. Head(todo["f5"]) \notin {"setHost", "setPort"}
            BY <3>1, HeadTailProperties
        <3>3. Params' = Params
            BY <1>3, <2>1, <3>2 DEF Params
        <3>4. Moving' <=> Moving
            BY <1>1, <1>2, <2>1 DEF Moving, At, Busy, Commands
        <3> QED BY <1>3, <3>3, <3>4 DEF QInv, Pooled
    <2>2. CASE c = "ui"
        <3>1. todo["ui"] \in UiRests /\ todo["ui"] # <<>>
            BY <1>1, <2>2 DEF QInv, Shapes, Busy
        <3>2. CASE Head(todo["ui"]) \in {"setHost", "setPort"}
            <4>1. Moving
                BY <1>1, <2>2, <3>2 DEF Moving, At
            <4> QED BY <1>3, <4>1 DEF QInv, Pooled
        <3>3. CASE Head(todo["ui"]) \notin {"setHost", "setPort"}
            <4>1. Params' = Params
                BY <1>3, <2>2, <3>3 DEF Params
            <4>2. Moving' => Head(todo["ui"]) = "clearPool"
                BY <1>2, <2>2, <3>1, <3>3, RestsOfDialog DEF Moving, At, Busy
            <4>3. Moving' => query_pool' = <<>>
                BY <1>3, <2>2, <4>2
            <4> QED BY <1>3, <4>1, <4>3 DEF QInv, Pooled
        <3> QED BY <3>2, <3>3
    <2> QED BY <2>1, <2>2 DEF Commands
<1> QED BY <1>5, <1>6, <1>7 DEF QInv

-----------------------------------------------------------------------------
(* A step of a query.                                                      *)

\* What a query does with its locals.
LEMMA Updates ==
    ASSUME NEW l, Shaped(l), NEW x, NEW c \in Loan
    PROVE  /\ LET m == [l EXCEPT !.host = x] IN
                 /\ Shaped(m) /\ m.host = x /\ m.port = l.port /\ m.screen = l.screen
                 /\ m.conn = l.conn /\ m.db = l.db /\ m.clk = l.clk /\ m.got = l.got
           /\ LET m == [l EXCEPT !.port = x] IN
                 /\ Shaped(m) /\ m.port = x /\ m.host = l.host /\ m.screen = l.screen
                 /\ m.conn = l.conn /\ m.db = l.db /\ m.clk = l.clk /\ m.got = l.got
           /\ LET m == [l EXCEPT !.db = x] IN
                 /\ Shaped(m) /\ m.db = x /\ m.host = l.host /\ m.port = l.port
                 /\ m.conn = l.conn /\ m.screen = l.screen /\ m.clk = l.clk /\ m.got = l.got
           /\ LET m == [l EXCEPT !.clk = x] IN
                 /\ Shaped(m) /\ m.clk = x /\ m.host = l.host /\ m.port = l.port
                 /\ m.conn = l.conn /\ m.screen = l.screen /\ m.db = l.db /\ m.got = l.got
           /\ LET m == [l EXCEPT !.got = x] IN
                 /\ Shaped(m) /\ m.got = x /\ m.host = l.host /\ m.port = l.port
                 /\ m.conn = l.conn /\ m.screen = l.screen /\ m.db = l.db /\ m.clk = l.clk
           /\ LET m == [l EXCEPT !.conn = c] IN
                 /\ Shaped(m) /\ m.conn = c /\ m.host = l.host /\ m.port = l.port
                 /\ m.screen = l.screen /\ m.db = l.db /\ m.clk = l.clk /\ m.got = l.got
BY DEF Shaped

\* The place of a query before and after a step that advances it.
LEMMA Onward ==
    ASSUME Types, NEW q \in Queries, SameButPool, calm' = calm, quiet' = quiet, AtRest' = AtRest,
           NEW kind \in DOMAIN QueryPlan, NEW i \in 1 .. Len(QueryPlan[kind]),
           todo[q] = RestOf(kind, i), calm[q] => AtRest,
           NEW local, Advance(q, local), Shaped(local),
           calm[q] => Fresh(local), Lent(local, kind, i + 1, calm[q])
    PROVE  Queried(q)' /\ Shaped(loc[q])'
<1>1. q \in Processes
    BY DEF Processes
<1>2. /\ todo'[q] = RestOf(kind, i + 1)
      /\ loc'[q] = IF Len(todo[q]) = 1 THEN Idle ELSE local
    <2>1. /\ todo'[q] = Tail(todo[q])
          /\ loc'[q] = IF Len(todo[q]) = 1 THEN Idle ELSE local
        BY <1>1, AdvanceIs
    <2> QED BY <2>1, RestsOfQueries
<1>3. CASE i = Len(QueryPlan[kind])
    <2>1. todo'[q] = <<>> /\ loc'[q] = Idle
        <3>1. Len(todo[q]) = 1
            BY <1>3, RestsOfQueries
        <3>2. RestOf(kind, i + 1) = <<>>
            <4> DEFINE s == QueryPlan[kind]
            <4>1. s \in Seq(QuerySteps) /\ i = Len(s)
                BY <1>3, PlansOfQueries
            <4> HIDE DEF s
            <4>2. SubSeq(s, i + 1, Len(s)) = <<>>
                BY <4>1
            <4> QED BY <4>2 DEF RestOf, s
        <3> QED BY <1>2, <3>1, <3>2
    <2>2. Shaped(Idle)
        BY DEF Shaped, Idle, NoConnection, Loan
    <2> QED BY <2>1, <2>2 DEF Queried, Busy, Shaped
<1>4. CASE i # Len(QueryPlan[kind])
    <2>1. i + 1 \in 1 .. Len(QueryPlan[kind])
        BY <1>4, PlansOfQueries, LenProperties
    <2>2. loc'[q] = local
        BY <1>2, <1>4, RestsOfQueries
    <2>3. Placed(q, kind, i + 1)'
        BY <1>2, <2>2 DEF Placed, Lent, RestOf, Params, SameButPool
    <2>4. calm'[q] => AtRest' /\ Fresh(loc[q])'
        BY <2>2 DEF Fresh, Params, SameButPool
    <2> QED BY <2>1, <2>2, <2>3, <2>4 DEF Queried, Shaped
<1> QED BY <1>3, <1>4

\* A step that touches none of them keeps the connection, and the address of a
\* history, in hand.
LEMMA StillLent ==
    ASSUME NEW kind \in DOMAIN QueryPlan, NEW i \in 1 .. Len(QueryPlan[kind]),
           NEW l, NEW m, NEW still, Lent(l, kind, i, still),
           m.conn = l.conn, QueryPlan[kind][i] # "dial",
           kind = "history" => /\ QueryPlan[kind][i] \notin {"readHost", "readPort"}
                               /\ m.host = l.host /\ m.port = l.port
    PROVE  Lent(m, kind, i + 1, still)
<1>1. i \in Nat
    OBVIOUS
<1>2. kind \in DOMAIN DialAt => DialAt[kind] \in Nat /\ i # DialAt[kind]
    BY PlanSteps
<1>3. kind = "history" => i # 2 /\ i # 3
    BY PlanSteps
<1> QED BY <1>1, <1>2, <1>3 DEF Lent

LEMMA QueryStepIs ==
    ASSUME Types, NEW q \in Queries, Step(q)
    PROVE  \/ ReadHost(q) \/ ReadPort(q) \/ GetCache(q) \/ GetClock(q)
           \/ SomeSid(q) \/ SameSid(q) \/ NeedCache(q) \/ Gate(q)
           \/ Dial(q) \/ Pop(q) \/ Release(q) \/ Hold(q) \/ Drop(q)
           \/ Page(q) \/ Fetch(q) \/ Save(q) \/ Rest(q)
<1>1. Head(todo[q]) \in QuerySteps
    <2>1. Busy(q) /\ todo[q] \in Seq(QuerySteps)
        BY StepIs DEF Types
    <2> QED BY <2>1, HeadTailProperties DEF Busy
<1>2. /\ ~SetConn(q) /\ ~NoConn(q) /\ ~SetHost(q) /\ ~SetPort(q) /\ ~SetSid(q) /\ ~NoSid(q)
      /\ ~DemoSid(q) /\ ~SetClock(q) /\ ~NoClock(q) /\ ~OpenCache(q) /\ ~NoCache(q)
    BY <1>1 DEF QuerySteps, At, SetConn, NoConn, SetHost, SetPort, SetSid, NoSid, DemoSid,
                SetClock, NoClock, OpenCache, NoCache, SidStep, ClockStep, CacheStep
<1>3. ~ClearPool(q) /\ ~NeedSid(q)
    BY <1>1 DEF QuerySteps, At, ClearPool, NeedSid, Check
<1> QED BY <1>2, <1>3 DEF Step

LEMMA QueryMoves ==
    ASSUME IInv, QInv, NEW q \in Queries, Step(q)
    PROVE  Queried(q)' /\ Shaped(loc[q])'
<1>1. /\ Types /\ q \in Processes /\ q \notin Commands /\ Shaped(loc[q]) /\ Queried(q)
      /\ Busy(q) /\ Commands \subseteq Processes
    BY StepIs, SessionAssumption DEF IInv, QInv, Shapes, Processes, Commands
<1>2. /\ SameButPool /\ calm' = calm /\ quiet' = quiet
      /\ \A p \in Processes : p # q => todo'[p] = todo[p] /\ loc'[p] = loc[p]
    BY <1>1, QueryStep
<1>3. AtRest' = AtRest
    BY <1>1, <1>2 DEF AtRest, Busy
<1>4. PICK kind \in DOMAIN QueryPlan : \E i \in 1 .. Len(QueryPlan[kind]) : Placed(q, kind, i)
    BY <1>1 DEF Queried
<1>5. PICK i \in 1 .. Len(QueryPlan[kind]) : Placed(q, kind, i)
    BY <1>4
<1> DEFINE step == QueryPlan[kind][i]
           l == loc[q]
           Done == Queried(q)' /\ Shaped(loc[q])'
<1>6. /\ todo[q] = RestOf(kind, i) /\ Lent(l, kind, i, calm[q])
      /\ calm[q] => AtRest /\ Fresh(l)
      /\ Head(todo[q]) = step
    BY <1>1, <1>5, RestsOfQueries DEF Placed, Queried
<1>7. calm[q] /\ quiet => /\ connection \in {None, Params} /\ clock \in {None, Params}
                          /\ cache \in {None, Params}
    BY <1>6 DEF IInv, Stages, Agrees
<1>8. ASSUME NEW local, Advance(q, local), Shaped(local), calm[q] => Fresh(local),
             Lent(local, kind, i + 1, calm[q])
      PROVE  Done
    BY <1>1, <1>2, <1>3, <1>6, <1>8, Onward
<1>9. ASSUME Fail(q) PROVE Done
    <2>1. todo'[q] = <<>> /\ loc'[q] = Idle
        BY <1>1, <1>9, FailIs
    <2>2. Shaped(Idle)
        BY DEF Shaped, Idle, NoConnection, Loan
    <2> QED BY <2>1, <2>2 DEF Queried, Busy, Shaped
<1>10. i \in Nat /\ (kind = "history" => kind \notin DOMAIN DialAt)
       /\ (kind \in DOMAIN DialAt => DialAt[kind] \in Nat)
    BY PlanSteps DEF DialAt
<1> HIDE DEF Done
<1>11. ASSUME Keep(q), step \notin {"dial", "readHost", "readPort"} PROVE Done
    <2>1. Lent(l, kind, i + 1, calm[q])
        BY <1>6, <1>11, StillLent
    <2> QED BY <1>1, <1>6, <1>8, <1>11, <2>1 DEF Keep
<1>12. ASSUME ReadHost(q) PROVE Done
    <2> DEFINE m == [l EXCEPT !.host = conn_host]
    <2>1. step = "readHost" /\ Advance(q, m)
        BY <1>6, <1>12 DEF ReadHost, At
    <2>2. /\ Shaped(m) /\ m.host = conn_host /\ m.port = l.port /\ m.screen = l.screen
          /\ m.conn = l.conn /\ m.db = l.db /\ m.clk = l.clk /\ m.got = l.got
        BY <1>1, Updates DEF Shaped
    <2> HIDE DEF m
    <2>3. calm[q] => Fresh(m)
        BY <1>6, <2>2 DEF Fresh
    <2>4. Lent(m, kind, i + 1, calm[q])
        <3>1. kind = "history" => i = 2
            BY <2>1, PlanSteps
        <3>2. kind \in DOMAIN DialAt => i # DialAt[kind]
            BY <2>1, PlanSteps
        <3> QED BY <1>6, <1>10, <2>2, <3>1, <3>2 DEF Lent
    <2> QED BY <1>8, <2>1, <2>2, <2>3, <2>4
<1>13. ASSUME ReadPort(q) PROVE Done
    <2> DEFINE m == [l EXCEPT !.port = conn_port]
    <2>1. step = "readPort" /\ Advance(q, m)
        BY <1>6, <1>13 DEF ReadPort, At
    <2>2. /\ Shaped(m) /\ m.port = conn_port /\ m.host = l.host /\ m.screen = l.screen
          /\ m.conn = l.conn /\ m.db = l.db /\ m.clk = l.clk /\ m.got = l.got
        BY <1>1, Updates DEF Shaped
    <2> HIDE DEF m
    <2>3. calm[q] => Fresh(m)
        BY <1>6, <2>2 DEF Fresh
    <2>4. Lent(m, kind, i + 1, calm[q])
        <3>1. kind = "history" => i = 3
            BY <2>1, PlanSteps
        <3>2. kind \in DOMAIN DialAt => i # DialAt[kind]
            BY <2>1, PlanSteps
        <3> QED BY <1>6, <1>10, <2>2, <3>1, <3>2 DEF Lent
    <2> QED BY <1>8, <2>1, <2>2, <2>3, <2>4
<1>14. ASSUME GetCache(q) PROVE Done
    <2> DEFINE m == [l EXCEPT !.db = cache]
    <2>1. step = "getCache" /\ Advance(q, m)
        BY <1>6, <1>14 DEF GetCache, At
    <2>2. /\ Shaped(m) /\ m.db = cache /\ m.host = l.host /\ m.port = l.port
          /\ m.screen = l.screen /\ m.conn = l.conn /\ m.clk = l.clk /\ m.got = l.got
        BY <1>1, Updates DEF Shaped
    <2> HIDE DEF m
    <2>3. calm[q] => Fresh(m)
        BY <1>6, <1>7, <2>2 DEF Fresh
    <2>4. Lent(m, kind, i + 1, calm[q])
        BY <1>6, <2>1, <2>2, StillLent
    <2> QED BY <1>8, <2>1, <2>2, <2>3, <2>4
<1>15. ASSUME GetClock(q) PROVE Done
    <2> DEFINE m == [l EXCEPT !.clk = clock]
    <2>1. step = "getClock" /\ Advance(q, m)
        BY <1>6, <1>15 DEF GetClock, At
    <2>2. /\ Shaped(m) /\ m.clk = clock /\ m.host = l.host /\ m.port = l.port
          /\ m.screen = l.screen /\ m.conn = l.conn /\ m.db = l.db /\ m.got = l.got
        BY <1>1, Updates DEF Shaped
    <2> HIDE DEF m
    <2>3. calm[q] => Fresh(m)
        BY <1>6, <1>7, <2>2 DEF Fresh
    <2>4. Lent(m, kind, i + 1, calm[q])
        BY <1>6, <2>1, <2>2, StillLent
    <2> QED BY <1>8, <2>1, <2>2, <2>3, <2>4
<1>16. ASSUME SomeSid(q) \/ SameSid(q) \/ NeedCache(q) \/ Gate(q) PROVE Done
    BY <1>6, <1>9, <1>11, <1>16 DEF SomeSid, SameSid, NeedCache, Gate, Check, At
<1>17. ASSUME Drop(q) \/ Rest(q) \/ Release(q) PROVE Done
    BY <1>6, <1>11, <1>17 DEF Drop, Rest, Release, At
<1>18. ASSUME Page(q) \/ Fetch(q) PROVE Done
    <2> DEFINE m == [l EXCEPT !.got = l.conn.to]
    <2>1. step \in {"page", "fetch"} /\ (Advance(q, m) \/ Fail(q))
        BY <1>6, <1>18 DEF Page, Fetch, At
    <2>2. /\ Shaped(m) /\ m.got = l.conn.to /\ m.host = l.host /\ m.port = l.port
          /\ m.screen = l.screen /\ m.conn = l.conn /\ m.db = l.db /\ m.clk = l.clk
        BY <1>1, Updates DEF Shaped
    <2> HIDE DEF m
    <2>3. calm[q] => Fresh(m)
        BY <1>6, <2>2 DEF Fresh
    <2>4. Lent(m, kind, i + 1, calm[q])
        BY <1>6, <2>1, <2>2, StillLent
    <2> QED BY <1>8, <1>9, <2>1, <2>2, <2>3, <2>4
<1>19. ASSUME Save(q) PROVE Done
    <2> DEFINE m == [l EXCEPT !.got = <<l.host, l.port>>]
    <2>1. step = "save" /\ Advance(q, m)
        BY <1>6, <1>19 DEF Save, At
    <2>2. /\ Shaped(m) /\ m.got = <<l.host, l.port>> /\ m.host = l.host /\ m.port = l.port
          /\ m.screen = l.screen /\ m.conn = l.conn /\ m.db = l.db /\ m.clk = l.clk
        BY <1>1, Updates DEF Shaped
    <2> HIDE DEF m
    <2>3. kind = "history" /\ i = 4
        BY <2>1, PlanSteps
    <2>4. calm[q] => Fresh(m)
        BY <1>6, <2>2, <2>3 DEF Fresh, Lent, Params
    <2>5. Lent(m, kind, i + 1, calm[q])
        BY <1>6, <2>1, <2>2, StillLent
    <2> QED BY <1>8, <2>1, <2>2, <2>4, <2>5
<1>20. ASSUME Dial(q) PROVE Done
    <2> DEFINE opened == [l EXCEPT !.conn = [to |-> <<l.host, l.port>>, stray |-> FALSE]]
               m == [opened EXCEPT !.host = None, !.port = None]
    <2>1. CASE Fail(q)
        BY <1>9, <2>1
    <2>2. CASE ~Fail(q)
        <3>1. step = "dial" /\ Advance(q, m) /\ <<l.host, l.port>> \in Collectors
            BY <1>1, <1>6, <1>20, <2>2 DEF Dial, At
        <3>2. /\ m.conn.to = <<l.host, l.port>> /\ ~m.conn.stray /\ m.host = None
              /\ m.port = None /\ m.screen = l.screen /\ m.db = l.db /\ m.clk = l.clk
              /\ m.got = l.got /\ Shaped(m)
            BY <1>1, <3>1 DEF Shaped, Loan
        <3> HIDE DEF m
        <3>3. kind \in DOMAIN DialAt /\ i = DialAt[kind]
            BY <3>1, PlanSteps
        <3>4. <<l.host, l.port>> # None /\ l.host # None /\ l.port # None
            <4>1. <<l.host, l.port>> \in Hosts \X Ports
                BY <3>1, SessionAssumption DEF Address
            <4> QED BY <4>1, SessionAssumption DEF Address
        <3>5. calm[q] => m.conn.to = Params
            BY <1>6, <3>2, <3>4 DEF Fresh, Params
        <3>6. ~l.conn.stray
            BY <1>6, <1>10, <3>3 DEF Lent
        <3>7. calm[q] => Fresh(m)
            BY <1>6, <3>2, <3>5, <3>6 DEF Fresh
        <3>8. Lent(m, kind, i + 1, calm[q])
            BY <1>10, <3>2, <3>3, <3>4, <3>5 DEF Lent
        <3> QED BY <1>8, <3>1, <3>2, <3>7, <3>8
    <2> QED BY <2>1, <2>2
<1>21. ASSUME Hold(q) PROVE Done
    <2> DEFINE m == [l EXCEPT !.conn = [to |-> connection, stray |-> FALSE]]
    <2>1. CASE Fail(q)
        BY <1>9, <2>1
    <2>2. CASE ~Fail(q)
        <3>1. step = "hold" /\ Advance(q, m)
            BY <1>6, <1>21, <2>2 DEF Hold, At
        <3>2. /\ m.conn.to = connection /\ ~m.conn.stray /\ m.host = l.host /\ m.port = l.port
              /\ m.screen = l.screen /\ m.db = l.db /\ m.clk = l.clk /\ m.got = l.got
              /\ Shaped(m)
            <4>1. [to |-> connection, stray |-> FALSE] \in Loan
                BY DEF QInv, Shapes, Loan
            <4> QED BY <1>1, <4>1 DEF Shaped
        <3> HIDE DEF m
        <3>3. kind \notin DOMAIN DialAt
            BY <3>1, PlanSteps
        <3>4. ~l.conn.stray
            BY <1>6, <3>3 DEF Lent
        <3>5. calm[q] => Fresh(m)
            BY <1>6, <1>7, <3>2, <3>4 DEF Fresh
        <3>6. Lent(m, kind, i + 1, calm[q])
            <4>1. kind = "history" => i # 2 /\ i # 3
                BY <3>1, PlanSteps
            <4> QED BY <1>6, <1>10, <3>2, <3>3, <4>1 DEF Lent
        <3> QED BY <1>8, <3>1, <3>2, <3>5, <3>6
    <2> QED BY <2>1, <2>2
<1>22. ASSUME Pop(q) PROVE Done
    <2>1. step = "pop"
        BY <1>6, <1>22 DEF Pop, At
    <2>2. CASE query_pool = <<>>
        BY <1>11, <1>22, <2>1, <2>2 DEF Pop
    <2>3. CASE query_pool # <<>>
        <3> DEFINE n == Len(query_pool)
                   c == query_pool[n]
        <3>1. /\ todo'[q] = SubSeq(todo[q], Len(Borrow) + 1, Len(todo[q]))
              /\ loc'[q] = [l EXCEPT !.conn = c]
            BY <1>1, <1>22, <2>3 DEF Pop, Types
        <3>2. c \in Connection /\ (c.stray \/ c.to = Params)
            <4>1. n \in DOMAIN query_pool /\ query_pool \in Seq(Connection)
                BY <2>3, EmptySeq DEF QInv, Shapes
            <4> QED BY <4>1 DEF QInv, Pooled
        <3>3. c \in Loan /\ c.to # None
            BY <3>2, SessionAssumption DEF Connection, Loan
        <3> HIDE DEF c
        <3>4. /\ loc'[q].conn = c /\ loc'[q].host = l.host /\ loc'[q].port = l.port
              /\ loc'[q].screen = l.screen /\ loc'[q].db = l.db /\ loc'[q].clk = l.clk
              /\ loc'[q].got = l.got /\ Shaped(loc'[q])
            <4> DEFINE m == [l EXCEPT !.conn = c]
            <4>1. /\ Shaped(m) /\ m.conn = c /\ m.host = l.host /\ m.port = l.port
                  /\ m.screen = l.screen /\ m.db = l.db /\ m.clk = l.clk /\ m.got = l.got
                BY <1>1, <3>3, Updates DEF Shaped
            <4> HIDE DEF m
            <4>2. loc'[q] = m
                BY <3>1 DEF m
            <4> QED BY <4>1, <4>2
        <3>5. /\ todo'[q] = RestOf(kind, i + 4) /\ i + 4 \in 1 .. Len(QueryPlan[kind])
              /\ kind \in DOMAIN DialAt /\ i + 3 = DialAt[kind]
            <4>1. todo'[q] = RestOf(kind, i + 4)
                BY <1>6, <2>1, <3>1, RestsOfQueries, SMTT(30)
            <4>2. /\ i + 4 <= Len(QueryPlan[kind]) /\ Len(QueryPlan[kind]) \in Nat
                BY <2>1, PlanSteps, PlansOfQueries, LenProperties
            <4> QED BY <2>1, <4>1, <4>2, PlanSteps
        <3>6. ~l.conn.stray
            BY <1>6, <1>10, <3>5 DEF Lent
        <3>7. Lent(loc'[q], kind, i + 4, calm[q])
            BY <1>10, <3>2, <3>3, <3>4, <3>5 DEF Lent
        <3>8. calm[q] => Fresh(loc'[q])
            BY <1>6, <3>2, <3>4, <3>6 DEF Fresh
        <3>9. Placed(q, kind, i + 4)'
            BY <1>2, <3>5, <3>7 DEF Placed, Lent, RestOf, Params, SameButPool
        <3>10. calm'[q] => AtRest' /\ Fresh(loc[q])'
            BY <1>2, <1>3, <1>6, <3>8 DEF Fresh, Params, SameButPool
        <3>11. Shaped(loc[q])'
            BY <3>4 DEF Shaped
        <3> QED BY <3>5, <3>9, <3>10, <3>11 DEF Done, Queried
    <2> QED BY <2>2, <2>3
<1>23. \/ ReadHost(q) \/ ReadPort(q) \/ GetCache(q) \/ GetClock(q)
       \/ SomeSid(q) \/ SameSid(q) \/ NeedCache(q) \/ Gate(q)
       \/ Dial(q) \/ Pop(q) \/ Release(q) \/ Hold(q) \/ Drop(q)
       \/ Page(q) \/ Fetch(q) \/ Save(q) \/ Rest(q)
    BY <1>1, QueryStepIs
<1> QED BY <1>12, <1>13, <1>14, <1>15, <1>16, <1>17, <1>18, <1>19, <1>20, <1>21, <1>22, <1>23
        DEF Done

LEMMA QueryKeepsQueries ==
    ASSUME IInv, QInv, NEW q \in Queries, Step(q)
    PROVE  QInv'
<1>1. /\ Types /\ q \in Processes /\ q \notin Commands /\ "ui" \in Processes
      /\ "f5" \in Processes /\ "ui" # q /\ "f5" # q /\ Busy(q) /\ Commands \subseteq Processes
      /\ Queries \subseteq Processes
    BY StepIs, SessionAssumption DEF IInv, Processes, Commands
<1>2. /\ SameButPool /\ calm' = calm /\ quiet' = quiet
      /\ \A p \in Processes : p # q => todo'[p] = todo[p] /\ loc'[p] = loc[p]
    BY <1>1, QueryStep
<1>3. AtRest' = AtRest /\ Params' = Params /\ Moving' = Moving
    BY <1>1, <1>2 DEF AtRest, Busy, Params, SameButPool, Moving, At
<1>4. Queried(q)' /\ Shaped(loc[q])'
    BY QueryMoves
<1>5. \A r \in Queries : Queried(r)'
    <2>1. ASSUME NEW r \in Queries, r # q PROVE Queried(r)'
        <3>1. todo'[r] = todo[r] /\ loc'[r] = loc[r] /\ Queried(r)
            BY <1>1, <1>2, <2>1 DEF QInv
        <3>2. Busy(r) /\ calm'[r] => AtRest'
            BY <1>2, <1>3, <3>1 DEF Queried
        <3> QED BY <1>2, <3>1, <3>2, QueryRests DEF SameButPool
    <2> QED BY <1>4, <2>1
<1>6. query_pool' \in Seq(Connection) /\ Pooled'
    <2> DEFINE good(c) == c.stray \/ (c.to = Params /\ ~Moving)
    <2>1. query_pool \in Seq(Connection) /\ \A i \in 1 .. Len(query_pool) : good(query_pool[i])
        BY DEF QInv, Shapes, Pooled
    <2>2. ASSUME query_pool' \in Seq(Connection),
                 \A i \in 1 .. Len(query_pool') : good(query_pool'[i])
          PROVE  query_pool' \in Seq(Connection) /\ Pooled'
        BY <1>3, <2>2 DEF Pooled
    <2> HIDE DEF good
    <2>3. CASE query_pool' = query_pool
        BY <2>1, <2>2, <2>3
    <2>4. CASE Pop(q) /\ query_pool # <<>>
        <3>1. query_pool' = SubSeq(query_pool, 1, Len(query_pool) - 1)
            BY <2>4 DEF Pop
        <3>2. Len(query_pool) \in Nat \ {0}
            BY <2>1, <2>4, EmptySeq
        <3>3. /\ query_pool' \in Seq(Connection) /\ Len(query_pool') = Len(query_pool) - 1
              /\ \A i \in 1 .. Len(query_pool) - 1 : query_pool'[i] = query_pool[i]
            <4> DEFINE n == Len(query_pool) - 1
            <4>1. n \in 0 .. Len(query_pool) /\ 1 \in 1 .. n + 1 /\ n - 1 + 1 = n
                BY <3>2
            <4>2. /\ query_pool' \in Seq(Connection) /\ Len(query_pool') = n
                  /\ \A i \in 1 .. n : query_pool'[i] = query_pool[1 + i - 1]
                BY <2>1, <3>1, <3>2, <4>1, SubSeqProperties
            <4>3. \A i \in 1 .. n : 1 + i - 1 = i
                BY <4>1
            <4> QED BY <4>2, <4>3
        <3> QED BY <2>1, <2>2, <3>2, <3>3
    <2>5. CASE Release(q) /\ query_pool' # query_pool
        <3> DEFINE c == [loc[q].conn EXCEPT !.stray = @ \/ ~calm[q]]
        <3>1. query_pool' = Append(query_pool, c) /\ Head(todo[q]) = "release"
            BY <2>5 DEF Release, At
        <3>2. Queried(q) /\ loc[q].conn \in Loan
            BY DEF QInv, Shapes, Shaped
        <3>3. PICK kind \in DOMAIN QueryPlan :
                      \E i \in 1 .. Len(QueryPlan[kind]) : Placed(q, kind, i)
            BY <1>1, <3>2 DEF Queried
        <3>4. PICK i \in 1 .. Len(QueryPlan[kind]) : Placed(q, kind, i)
            BY <3>3
        <3>5. kind \in DOMAIN DialAt /\ i > DialAt[kind]
            <4>1. QueryPlan[kind][i] = "release"
                BY <3>1, <3>4, RestsOfQueries DEF Placed
            <4> QED BY <4>1, PlanSteps
        <3>6. /\ loc[q].conn.to # None
              /\ calm[q] => loc[q].conn.stray \/ loc[q].conn.to = Params
            BY <3>4, <3>5 DEF Placed, Lent
        <3>7. calm[q] => ~Moving
            BY <1>1, <3>2 DEF Queried, AtRest, Commands, Moving, At
        <3>8. calm[q] \in BOOLEAN
            BY <1>1 DEF Types
        <3>9. /\ c \in Connection /\ c.to = loc[q].conn.to
              /\ c.stray <=> loc[q].conn.stray \/ ~calm[q]
            BY <3>2, <3>6, <3>8 DEF Loan, Connection
        <3> HIDE DEF c
        <3>10. good(c)
            BY <3>6, <3>7, <3>9 DEF good
        <3>11. /\ query_pool' \in Seq(Connection) /\ Len(query_pool') = Len(query_pool) + 1
               /\ \A j \in 1 .. Len(query_pool) : query_pool'[j] = query_pool[j]
               /\ query_pool'[Len(query_pool) + 1] = c
            BY <2>1, <3>1, <3>9
        <3>12. Len(query_pool) \in Nat
            BY <2>1, LenProperties
        <3> QED BY <2>1, <2>2, <3>10, <3>11, <3>12
    <2>6. \/ query_pool' = query_pool \/ (Pop(q) /\ query_pool # <<>>)
          \/ (Release(q) /\ query_pool' # query_pool)
        <3>1. UNCHANGED fields => query_pool' = query_pool
            BY DEF fields
        <3>2. Fail(q) => query_pool' = query_pool
            BY <3>1 DEF Fail
        <3>3. CASE ReadHost(q) \/ ReadPort(q) \/ GetCache(q) \/ GetClock(q)
            BY <3>1, <3>3 DEF ReadHost, ReadPort, GetCache, GetClock
        <3>4. CASE SomeSid(q) \/ SameSid(q) \/ NeedCache(q) \/ Gate(q)
            BY <3>1, <3>2, <3>4 DEF SomeSid, SameSid, NeedCache, Gate, Check
        <3>5. CASE Dial(q) \/ Hold(q) \/ Drop(q) \/ Page(q) \/ Fetch(q)
            BY <3>1, <3>2, <3>5 DEF Dial, Hold, Drop, Page, Fetch
        <3>6. CASE Save(q) \/ Rest(q)
            BY <3>1, <3>6 DEF Save, Rest
        <3>7. Pop(q) => query_pool' = query_pool \/ query_pool # <<>>
            BY DEF Pop
        <3> QED BY <1>1, <3>3, <3>4, <3>5, <3>6, <3>7, QueryStepIs
    <2> QED BY <2>3, <2>4, <2>5, <2>6
<1>7. Shapes'
    <2>1. \A r \in Queries : Shaped(loc[r])'
        BY <1>1, <1>2, <1>4 DEF QInv, Shapes, Shaped
    <2> QED BY <1>1, <1>2, <1>6, <2>1 DEF QInv, Shapes, SameButPool
<1> QED BY <1>5, <1>6, <1>7 DEF QInv

-----------------------------------------------------------------------------
(* The beginning of a call.                                                *)

-----------------------------------------------------------------------------
(* The beginning of a call.                                                *)

LEMMA CommandBegins ==
    ASSUME IInv, QInv, NEW c \in Commands, NEW plan, NEW start, Begin(c, plan, start),
           IF c = "ui" THEN plan \in UiRests /\ Head(plan) \notin {"setHost", "setPort"}
                       ELSE plan \in Seq(CommandSteps \ {"setHost", "setPort"})
    PROVE  QInv'
<1>1. /\ Types /\ c \in Processes /\ c \notin Queries /\ Queries \subseteq Processes
      /\ Commands \subseteq Processes /\ Commands = {"ui", "f5"}
    BY SessionAssumption DEF IInv, Processes, Commands
<1>2. /\ todo'[c] = plan /\ SameButPool /\ query_pool' = query_pool /\ quiet' = quiet
      /\ \A p \in Processes : p # c => todo'[p] = todo[p] /\ loc'[p] = loc[p]
      /\ \A p \in Processes : p # c => calm'[p] = (calm[p] /\ ~(c \in Commands /\ Busy(p)))
    <2>1. query_pool' = query_pool
        BY DEF Begin, fields
    <2> QED BY <1>1, <2>1, BeginIs
<1>3. \A q \in Queries : todo'[q] = todo[q] /\ loc'[q] = loc[q]
    BY <1>1, <1>2
<1>4. \A q \in Queries : Queried(q)'
    <2>1. ASSUME NEW q \in Queries PROVE Queried(q) /\ (Busy(q) => ~calm'[q])
        BY <1>1, <1>2, <2>1 DEF QInv
    <2> QED BY <1>3, <2>1, QueryRests
<1>5. Shapes'
    <2>1. todo'["ui"] \in UiRests /\ todo'["f5"] \in Seq(CommandSteps \ {"setHost", "setPort"})
        BY <1>1, <1>2 DEF QInv, Shapes
    <2> QED BY <1>2, <1>3, <2>1 DEF QInv, Shapes, Shaped, SameButPool
<1>6. Pooled'
    <2>1. Moving' => Moving
        BY <1>1, <1>2 DEF Moving, At, Busy
    <2> QED BY <1>2, <2>1 DEF QInv, Pooled, Params, SameButPool
<1> QED BY <1>4, <1>5, <1>6 DEF QInv

LEMMA QueryBegins ==
    ASSUME IInv, QInv, NEW q \in Queries, NEW kind \in Kinds[q], StartQuery(q, kind)
    PROVE  QInv'
<1> DEFINE start == [Idle EXCEPT !.screen = Params, !.sid = server_id]
<1>1. /\ Types /\ q \in Processes /\ q \notin Commands /\ Queries \subseteq Processes
      /\ Commands \subseteq Processes /\ "ui" \in Processes /\ "f5" \in Processes
      /\ "ui" # q /\ "f5" # q /\ kind \in DOMAIN QueryPlan
    BY SessionAssumption, KindsAssumption DEF IInv, Processes, Commands
<1>2. /\ start.screen = Params /\ start.host = None /\ start.port = None /\ start.db = None
      /\ start.clk = None /\ start.got = None /\ start.conn = NoConnection /\ Shaped(start)
    BY DEF Idle, NoConnection, Shaped, Loan
<1>3. Begin(q, QueryPlan[kind], start)
    BY DEF StartQuery
<1> HIDE DEF start
<1>4. /\ todo'[q] = QueryPlan[kind] /\ loc'[q] = start /\ SameButPool /\ quiet' = quiet
      /\ query_pool' = query_pool /\ calm'[q] = AtRest
      /\ \A p \in Processes : p # q => todo'[p] = todo[p] /\ loc'[p] = loc[p]
      /\ \A p \in Processes : p # q => calm'[p] = (calm[p] /\ ~(q \in Commands /\ Busy(p)))
    <2>1. query_pool' = query_pool
        BY <1>3 DEF Begin, fields
    <2>2. Commands \ {q} = Commands
        BY <1>1
    <2> QED BY <1>1, <1>3, <2>1, <2>2, BeginIs, ZenonT(60) DEF AtRest
<1>5. AtRest' = AtRest /\ Params' = Params /\ Moving' = Moving
    BY <1>1, <1>4 DEF AtRest, Busy, Params, SameButPool, Moving, At
<1>6. Queried(q)'
    <2>1. 1 \in 1 .. Len(QueryPlan[kind]) /\ QueryPlan[kind] = RestOf(kind, 1)
        <3> DEFINE s == QueryPlan[kind]
        <3>1. s \in Seq(QuerySteps) /\ Len(s) \in Nat \ {0}
            <4>1. /\ Len(QueryPlan["past"]) # 0 /\ Len(QueryPlan["search"]) # 0
                  /\ Len(QueryPlan["types"]) # 0 /\ Len(QueryPlan["dist"]) # 0
                  /\ Len(QueryPlan["mcp"]) # 0 /\ Len(QueryPlan["prefetch"]) # 0
                  /\ Len(QueryPlan["history"]) # 0
                BY PlansAre
            <4>2. Len(s) # 0
                BY <1>1, <4>1, PlansAre, Zenon
            <4>3. s \in Seq(QuerySteps)
                BY <1>1, PlansOfQueries
            <4>4. Len(s) \in Nat
                BY <4>3, LenProperties
            <4> HIDE DEF s
            <4> QED BY <4>2, <4>3, <4>4
        <3> HIDE DEF s
        <3>2. SubSeq(s, 1, Len(s)) = s
            BY <3>1
        <3> QED BY <3>1, <3>2 DEF RestOf, s
    <2>2. ~(1 > 2) /\ ~(1 > 3) /\ ~start.conn.stray /\ start.conn.to = None
          /\ (kind \in DOMAIN DialAt => ~(1 > DialAt[kind]))
        BY <1>2 DEF NoConnection, DialAt
    <2>3. Lent(start, kind, 1, calm'[q])
        BY <2>2 DEF Lent
    <2>4. Placed(q, kind, 1)'
        BY <1>4, <2>1, <2>3 DEF Placed, Lent, RestOf, Params, SameButPool
    <2>5. Fresh(loc[q])'
        BY <1>2, <1>4, <1>5, <2>2 DEF Fresh, SameButPool
    <2> QED BY <1>1, <1>4, <1>5, <2>1, <2>4, <2>5 DEF Queried
<1>7. \A r \in Queries : Queried(r)'
    <2>1. ASSUME NEW r \in Queries, r # q PROVE Queried(r)'
        <3>1. todo'[r] = todo[r] /\ loc'[r] = loc[r] /\ Queried(r) /\ (calm'[r] => calm[r])
            BY <1>1, <1>4, <2>1 DEF QInv
        <3>2. Busy(r) /\ calm'[r] => AtRest'
            BY <1>5, <3>1 DEF Queried
        <3> QED BY <1>4, <3>1, <3>2, QueryRests DEF SameButPool
    <2> QED BY <1>6, <2>1
<1>8. Pooled'
    BY <1>4, <1>5 DEF QInv, Pooled
<1>9. Shapes'
    <2>1. \A r \in Queries : Shaped(loc[r])'
        <3>1. Shaped(loc[q])'
            BY <1>2, <1>4 DEF Shaped
        <3> QED BY <1>1, <1>4, <3>1 DEF QInv, Shapes, Shaped
    <2> QED BY <1>1, <1>4, <2>1 DEF QInv, Shapes, SameButPool
<1> QED BY <1>7, <1>8, <1>9 DEF QInv

LEMMA QInvStep == IInv /\ QInv /\ [Next]_vars => QInv'
<1> SUFFICES ASSUME IInv, QInv, [Next]_vars PROVE QInv'
    OBVIOUS
<1>1. "ui" \in Commands /\ "f5" \in Commands /\ "ui" # "f5"
    BY DEF Commands
<1>2. /\ Connect \in UiRests /\ Switch \in UiRests /\ Disconnect \in UiRests
      /\ DemoMode \in UiRests
    BY DEF UiRests, Switch
<1>3. /\ Head(Connect) = "dial" /\ Head(Switch) = "noConn" /\ Head(Disconnect) = "noConn"
      /\ Head(DemoMode) = "demoSid"
    BY RestsOfConnect, RestsOfDisconnect, RestsOfDemo, RestsOfSwitch
<1>4. Refresh \in Seq(CommandSteps \ {"setHost", "setPort"})
    BY DEF Refresh, CommandSteps
<1>5. ASSUME NEW plan \in {Connect, Switch, Disconnect, DemoMode}, NEW start,
             Begin("ui", plan, start)
      PROVE  QInv'
    BY <1>1, <1>2, <1>3, <1>5, CommandBegins
<1>6. CASE Start
    <2>1. ASSUME NEW a \in Targets, StartConnect(a) PROVE QInv'
        BY <1>5, <2>1 DEF StartConnect
    <2>2. CASE StartDisconnect \/ StartDemo
        BY <1>5, <2>2 DEF StartDisconnect, StartDemo
    <2>3. CASE StartRefresh
        BY <1>1, <1>4, <2>3, CommandBegins DEF StartRefresh
    <2> QED BY <1>6, <2>1, <2>2, <2>3, QueryBegins DEF Start
<1>7. ASSUME NEW p \in Processes, Step(p) PROVE QInv'
    BY <1>7, CommandKeepsQueries, QueryKeepsQueries DEF Processes
<1>8. CASE UNCHANGED vars
    BY <1>8 DEF vars, fields, QInv, Shapes, Shaped, Pooled, Moving, At, Busy, Params, Queried,
                Placed, Lent, Fresh, AtRest
<1> QED BY <1>6, <1>7, <1>8 DEF Next

-----------------------------------------------------------------------------
(* The theorems.                                                           *)

\* Whatever the collectors are and however many calls overlap: with no command
\* in flight, a pooled connection that no command overlapped goes where a new
\* one would go (release_query_conn, clear_query_pool).
THEOREM PoolIsOfTheServer == Spec => []PoolFollowsServer
<1>1. Spec => [](IInv /\ QInv)
    BY InitHolds, StepHolds, QInvInit, QInvStep, PTL DEF Spec
<1>2. IInv /\ QInv => PoolFollowsServer
    BY QueriesEnough
<1> QED BY <1>1, <1>2, PTL

\* And a call that no command overlapped is answered by the collector on
\* screen, and files what it caches under that collector (acquire_query_conn,
\* load_past_xlog, get_xlog_distribution, the prefetcher).
THEOREM AnsweredByTheScreen == Spec => []AnswersOfScreen
<1>1. Spec => [](IInv /\ QInv)
    BY InitHolds, StepHolds, QInvInit, QInvStep, PTL DEF Spec
<1>2. IInv /\ QInv => AnswersOfScreen
    BY QueriesEnough
<1> QED BY <1>1, <1>2, PTL
=============================================================================
