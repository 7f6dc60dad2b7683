------------------------------- MODULE Streams -------------------------------
(***************************************************************************)
(* The live streams of the application.  A stream of a kind is a task that *)
(* polls the collector until the stop token it was given is set            *)
(* (StreamTokens in src-tauri/src/state.rs, run_xlog_stream in             *)
(* scouter/streaming.rs).  XLog is one stream for all windows: each window *)
(* registers the objects it draws, and the stream is opened again for      *)
(* their union (restart_xlog_stream).  The windows call the commands from  *)
(* React effects without waiting for the answer, so several calls, of one  *)
(* window too, are in flight at once; as in Session, a call is the list of *)
(* the steps it has left, one per lock it takes.                           *)
(***************************************************************************)
EXTENDS Naturals, Sequences, FiniteSets

CONSTANTS
    Windows, Main,   \* the windows, and the one that receives the alerts
    Picks,           \* the sets of objects a user may pick in a window
    Collectors,      \* the collectors the user connects to
    Kinds,           \* the kinds of stream that are opened
    Slots,           \* the calls of windows that may be in flight at once
    None, Demo,      \* no value; the server name of the demo mode
    MaxTokens, MaxCommands, MaxPicks, MaxFaults   \* bounds of a behaviour

ASSUME StreamsAssumption ==
    /\ Main \in Windows
    /\ Kinds \subseteq {"XLog", "Counter", "Alert"}
    /\ {} \notin Picks
    /\ None \notin Collectors /\ Demo \notin Collectors /\ None # Demo
    /\ None \notin Nat
    /\ "ui" \notin Slots /\ "f5" \notin Slots

VARIABLES
    server,      \* server_id: a collector, Demo or None
    host,        \* conn_host and conn_port
    xlog_subs,   \* the objects each registered window receives
    streams,     \* the token of each kind: an index of tokens, or None
    tokens,      \* every token issued, with the task that carries it
    todo, loc,   \* the steps each call has left, and its local variables
    commands,    \* how many commands of the dialog have begun
    queue,       \* the connection events each window has not rendered yet
    screen,      \* what each window has rendered
    picks,       \* how many times a user has picked
    up, faults,  \* the collectors that answer; how often one has gone down
    calm, quiet  \* history: no call overlapped; no race is left to repair

backend == <<server, host, xlog_subs, streams, tokens>>
windows == <<queue, screen>>
history == <<calm, quiet>>
bounds == <<commands, picks, faults>>
vars == <<backend, windows, todo, loc, up, history, bounds>>

AllKinds == {"XLog", "Counter", "Alert"}
Processes == {"ui", "f5"} \cup Slots
Busy(p) == todo[p] # <<>>
At(p, step) == Busy(p) /\ Head(todo[p]) = step

-----------------------------------------------------------------------------
(* Plans.                                                                  *)

Restart == <<"demo", "union", "take", "params", "spawn">>
StartXLog == <<"insert">> \o Restart
StopXLog == <<"remove">> \o Restart
ForgetWindow == <<"forget">> \o Restart
StartFeed == <<"params", "take", "spawn">>     \* start_counter_stream, start_alert_stream
StopFeed == <<"stop">>
Disconnect == <<"stopXLog", "stopCounter", "stopAlert", "noSid", "noSubs", "tellOff">>
Connect == <<"setHost", "setSid", "tellOn">>
MockStream == <<"take", "demoSid", "tellOn", "mock">>
Refresh == <<"needSid">> \o Restart \o <<"again">>
\* The dialog stops the stream of its window before it disconnects.
Leave == StopXLog \o Disconnect
Switch == Leave \o Connect

Idle == [kind |-> "XLog", win |-> None, objs |-> {}, to |-> None, token |-> None,
         target |-> None, heals |-> FALSE]
Local(kind, win, objs) == [Idle EXCEPT !.kind = kind, !.win = win, !.objs = objs]

Init ==
    /\ server = None
    /\ host = None
    /\ xlog_subs = [w \in {} |-> {}]
    /\ streams = [k \in AllKinds |-> None]
    /\ tokens = <<>>
    /\ todo = [p \in Processes |-> <<>>]
    /\ loc = [p \in Processes |-> Idle]
    /\ commands = 0
    /\ queue = [w \in Windows |-> <<>>]
    /\ screen = [w \in Windows |-> [on |-> FALSE, pick |-> {}, asked |-> {}, open |-> TRUE]]
    /\ picks = 0
    /\ up = Collectors
    /\ faults = 0
    /\ calm = [p \in Processes |-> TRUE]
    /\ quiet = TRUE

-----------------------------------------------------------------------------
(* Beginning and ending a call.                                            *)

\* A connect does not stop the stream.  It finds one if a window has picked after
\* the connection ended and before it had rendered that.
FindsStream(plan) == Head(plan) = "setHost" /\ streams["XLog"] # None

\* The calls of f, a function from idle processes to plans and locals, begin.
Launch(f) ==
    /\ \A p \in DOMAIN f : ~Busy(p)
    /\ todo' = [p \in Processes |-> IF p \in DOMAIN f THEN f[p].plan ELSE todo[p]]
    /\ loc' = [p \in Processes |-> IF p \in DOMAIN f THEN f[p].local ELSE loc[p]]
    /\ LET others(p) == {q \in Processes \ {p} : Busy(q) \/ q \in DOMAIN f} IN
       calm' = [p \in Processes |->
                  IF p \in DOMAIN f THEN others(p) = {} /\ ~FindsStream(f[p].plan)
                  ELSE calm[p] /\ (Busy(p) => DOMAIN f = {})]
    /\ UNCHANGED quiet

\* A window's effects fire a set of requests, each in a slot of its own.
Fire(requests) ==
    LET free == {p \in Slots : ~Busy(p)}
        f == CHOOSE g \in [requests -> free] : \A r, s \in requests : r # s => g[r] # g[s]
    IN  /\ Cardinality(requests) <= Cardinality(free)
        /\ Launch([p \in {f[r] : r \in requests} |-> CHOOSE r \in requests : f[r] = p])

Request(plan, local) == [plan |-> plan, local |-> local]

\* A call that opened, or stopped, the XLog stream and met no other call
\* leaves the stream as the registered windows want it.
GoOn(p, rest, local) ==
    /\ todo' = [todo EXCEPT ![p] = rest]
    /\ loc' = [loc EXCEPT ![p] = IF rest = <<>> THEN Idle ELSE local]
    /\ quiet' = IF rest = <<>> THEN calm[p] /\ (quiet \/ local.heals) ELSE quiet
    /\ UNCHANGED <<calm, bounds, up>>

Keep(p) == GoOn(p, Tail(todo[p]), loc[p])
Drop(p, n) == SubSeq(todo[p], n + 1, Len(todo[p]))

-----------------------------------------------------------------------------
(* The dialog, the refresh button and the windows.                         *)

\* The dialog has rendered the outcome of its last command.
Command(plan, local) ==
    /\ queue[Main] = <<>>
    /\ commands < MaxCommands /\ commands' = commands + 1
    /\ Launch([p \in {"ui"} |-> Request(plan, local)])
    /\ UNCHANGED <<backend, windows, up, picks, faults>>

StartConnect(c) ==
    \/ ~screen[Main].on /\ Command(Connect, [Idle EXCEPT !.target = c])
    \/ screen[Main].on /\ Command(Switch, [Idle EXCEPT !.win = Main, !.target = c])
StartDisconnect == screen[Main].on /\ Command(Leave, [Idle EXCEPT !.win = Main])
StartMock == ~screen[Main].on /\ Command(MockStream, Idle)

StartRefresh ==
    /\ commands < MaxCommands /\ commands' = commands + 1
    /\ screen[Main].on
    /\ Launch([p \in {"f5"} |-> Request(Refresh, Local("XLog", Main, {}))])
    /\ UNCHANGED <<backend, windows, up, picks, faults>>

\* What the XLog effect of a window asks for, when it last asked for asked.
XLogRequests(w, pick, asked) ==
    IF pick = asked THEN {}
    ELSE IF pick = {} THEN {Request(StopXLog, Local("XLog", w, {}))}
    ELSE {Request(StartXLog, Local("XLog", w, pick))}

\* React renders the events that have come in at once: a window that is told
\* that the connection ended and began again may see neither, but for the
\* number of the connection.  The end of a connection clears the picks, a new
\* connection and a refresh forget what was asked, and the alerts are started
\* when the window goes from disconnected to connected.
Alerts(w, on) ==
    IF w = Main /\ on /\ ~screen[w].on /\ "Alert" \in Kinds
    THEN {Request(StartFeed, Local("Alert", w, {}))} ELSE {}

\* Whether window w is connected after the first n events.
Connected(w, n) ==
    \/ screen[w].on /\ \A i \in 1..n : queue[w][i] # "off"
    \/ \E i \in 1..n : queue[w][i] = "on" /\ \A j \in i..n : queue[w][j] # "off"

Render(w) ==
    \E n \in 1..Len(queue[w]) :
        LET seen  == {queue[w][i] : i \in 1..n}
            on    == Connected(w, n)
            pick  == IF "off" \in seen THEN {} ELSE screen[w].pick
            asked == IF on THEN {} ELSE screen[w].asked
        IN  /\ screen[w].open
            /\ queue' = [queue EXCEPT ![w] = SubSeq(@, n + 1, Len(@))]
            /\ screen' = [screen EXCEPT ![w].on = on, ![w].pick = pick,
                                       ![w].asked = IF on THEN pick ELSE {}]
            /\ Fire(XLogRequests(w, IF on THEN pick ELSE {}, asked) \cup Alerts(w, on))
            /\ UNCHANGED <<backend, up, bounds>>

Pick(w, pick) ==
    /\ picks < MaxPicks /\ picks' = picks + 1
    /\ screen[w].open /\ screen[w].on
    /\ screen' = [screen EXCEPT ![w].pick = pick, ![w].asked = pick]
    /\ Fire(XLogRequests(w, pick, screen[w].asked)
            \cup (IF w # Main \/ "Counter" \notin Kinds THEN {}
                  ELSE IF pick = {} THEN {Request(StopFeed, Local("Counter", w, {}))}
                  ELSE {Request(StartFeed, Local("Counter", w, pick))}))
    /\ UNCHANGED <<backend, queue, up, commands, faults>>

\* A detached window is closed: the shell forgets what it registered.
Close(w) ==
    /\ w # Main /\ screen[w].open
    /\ screen' = [screen EXCEPT ![w].open = FALSE]
    /\ Fire({Request(ForgetWindow, Local("XLog", w, {}))})
    /\ UNCHANGED <<backend, queue, up, bounds>>

-----------------------------------------------------------------------------
(* Steps on the registered objects and on the session.                     *)

Insert(p) ==
    /\ At(p, "insert")
    /\ xlog_subs' = [w \in DOMAIN xlog_subs \cup {loc[p].win} |->
                        IF w = loc[p].win THEN loc[p].objs ELSE xlog_subs[w]]
    /\ Keep(p) /\ UNCHANGED <<server, host, streams, tokens, windows>>

Without(w) == [v \in DOMAIN xlog_subs \ {w} |-> xlog_subs[v]]

Remove(p) ==
    /\ At(p, "remove")
    /\ xlog_subs' = Without(loc[p].win)
    /\ Keep(p) /\ UNCHANGED <<server, host, streams, tokens, windows>>

\* A window that had registered nothing leaves the stream alone.
Forget(p) ==
    /\ At(p, "forget")
    /\ xlog_subs' = Without(loc[p].win)
    /\ IF loc[p].win \in DOMAIN xlog_subs THEN Keep(p) ELSE GoOn(p, <<>>, loc[p])
    /\ UNCHANGED <<server, host, streams, tokens, windows>>

ClearSubs(p) ==
    /\ At(p, "noSubs")
    /\ xlog_subs' = [w \in {} |-> {}]
    /\ Keep(p) /\ UNCHANGED <<server, host, streams, tokens, windows>>

SetHost(p) ==
    /\ At(p, "setHost")
    /\ \/ host' = loc[p].target /\ Keep(p)
       \/ host' = host /\ GoOn(p, <<>>, loc[p])    \* no collector, or no login
    /\ UNCHANGED <<server, xlog_subs, streams, tokens, windows>>

SetServer(p, step, name) ==
    /\ At(p, step)
    /\ server' = name
    /\ Keep(p) /\ UNCHANGED <<host, xlog_subs, streams, tokens, windows>>
SetSid(p) == SetServer(p, "setSid", loc[p].target)
NoSid(p) == SetServer(p, "noSid", None)
DemoSid(p) == SetServer(p, "demoSid", Demo)

NeedSid(p) ==
    /\ At(p, "needSid")
    /\ \/ server \notin {None, Demo} /\ Keep(p)
       \/ GoOn(p, <<"again">>, loc[p])     \* no collector on screen, or no answer
    /\ UNCHANGED <<backend, windows>>

Tell(p, step, event) ==
    /\ At(p, step)
    /\ queue' = [w \in Windows |-> IF screen[w].open THEN Append(queue[w], event)
                                   ELSE queue[w]]
    /\ Keep(p) /\ UNCHANGED <<backend, screen>>
TellOn(p) == Tell(p, "tellOn", "on")
TellOff(p) == Tell(p, "tellOff", "off")

\* The refresh button has the XLog effect of its window ask again, whether or
\* not the connection could be renewed.
Again(p) ==
    /\ At(p, "again")
    /\ queue' = [queue EXCEPT ![loc[p].win] = Append(@, "again")]
    /\ Keep(p) /\ UNCHANGED <<backend, screen>>

-----------------------------------------------------------------------------
(* Steps on the tokens.                                                    *)

\* The demo stream has the place of the XLog stream, and is left there.
DemoCheck(p) ==
    /\ At(p, "demo")
    /\ GoOn(p, IF server = Demo THEN Drop(p, Len(Restart)) ELSE Tail(todo[p]), loc[p])
    /\ UNCHANGED <<backend, windows>>

Union_OwnOnly(p) ==
    /\ At(p, "union")
    /\ GoOn(p, IF loc[p].objs = {} THEN <<"stopXLog">> \o Drop(p, Len(Restart) - 1)
               ELSE Tail(todo[p]), loc[p])
    /\ UNCHANGED <<backend, windows>>

Union_NoStop(p) ==
    /\ At(p, "union")
    /\ LET union == UNION {xlog_subs[w] : w \in DOMAIN xlog_subs} IN
       GoOn(p, IF union = {} THEN Drop(p, Len(Restart) - 1) ELSE Tail(todo[p]),
            [loc[p] EXCEPT !.objs = union])
    /\ UNCHANGED <<backend, windows>>

\* With nothing to receive the stream is stopped and the call returns.
Union(p) ==
    /\ At(p, "union")
    /\ LET union == UNION {xlog_subs[w] : w \in DOMAIN xlog_subs} IN
       GoOn(p, IF union = {} THEN <<"stopXLog">> \o Drop(p, Len(Restart) - 1) ELSE Tail(todo[p]),
            [loc[p] EXCEPT !.objs = union])
    /\ UNCHANGED <<backend, windows>>

Stopped(k) == [t \in DOMAIN tokens |->
                 IF t = streams[k] THEN [tokens[t] EXCEPT !.stopped = TRUE] ELSE tokens[t]]

StopStep(p, step, k) ==
    /\ At(p, step)
    /\ tokens' = Stopped(k)
    /\ streams' = [streams EXCEPT ![k] = None]
    /\ GoOn(p, Tail(todo[p]), [loc[p] EXCEPT !.heals = k = "XLog" \/ @])
    /\ UNCHANGED <<server, host, xlog_subs, windows>>
StopAll(p) == \/ StopStep(p, "stopXLog", "XLog") \/ StopStep(p, "stopCounter", "Counter")
              \/ StopStep(p, "stopAlert", "Alert")
Stop(p) == StopStep(p, "stop", loc[p].kind)

TakeToken_KeepsOld(p) ==
    /\ At(p, "take") /\ Len(tokens) < MaxTokens
    /\ tokens' = Append(tokens, [kind |-> loc[p].kind, stopped |-> FALSE, state |-> "new",
                                 objs |-> {}, to |-> None])
    /\ streams' = [streams EXCEPT ![loc[p].kind] = Len(tokens) + 1]
    /\ GoOn(p, Tail(todo[p]), [loc[p] EXCEPT !.token = Len(tokens) + 1])
    /\ UNCHANGED <<server, host, xlog_subs, windows>>

TakeToken(p) ==
    /\ At(p, "take") /\ Len(tokens) < MaxTokens
    /\ tokens' = Append(Stopped(loc[p].kind),
                        [kind |-> loc[p].kind, stopped |-> FALSE, state |-> "new",
                         objs |-> {}, to |-> None])
    /\ streams' = [streams EXCEPT ![loc[p].kind] = Len(tokens) + 1]
    /\ GoOn(p, Tail(todo[p]), [loc[p] EXCEPT !.token = Len(tokens) + 1])
    /\ UNCHANGED <<server, host, xlog_subs, windows>>

Params(p) ==
    /\ At(p, "params")
    /\ GoOn(p, Tail(todo[p]), [loc[p] EXCEPT !.to = host])
    /\ UNCHANGED <<backend, windows>>

SpawnAs(p, step, state) ==
    /\ At(p, step)
    /\ tokens' = [tokens EXCEPT ![loc[p].token].state = state,
                                ![loc[p].token].objs = loc[p].objs,
                                ![loc[p].token].to = loc[p].to]
    /\ GoOn(p, Tail(todo[p]), [loc[p] EXCEPT !.heals = @ \/ loc[p].kind = "XLog"])
    /\ UNCHANGED <<server, host, xlog_subs, streams, windows>>
Spawn(p) == SpawnAs(p, "spawn", "open")
Mock(p) == SpawnAs(p, "mock", "mock")

Step(p) ==
    \/ Insert(p) \/ Remove(p) \/ Forget(p) \/ ClearSubs(p)
    \/ SetHost(p) \/ SetSid(p) \/ NoSid(p) \/ DemoSid(p) \/ NeedSid(p)
    \/ TellOn(p) \/ TellOff(p) \/ Again(p) \/ DemoCheck(p) \/ Union(p)
    \/ StopAll(p) \/ Stop(p) \/ TakeToken(p) \/ Params(p) \/ Spawn(p) \/ Mock(p)

-----------------------------------------------------------------------------
(* The tasks.  A task looks at its token before it connects, before every  *)
(* poll and while it waits to try again.                                   *)

Move(t, state) ==
    /\ tokens' = [tokens EXCEPT ![t].state = state]
    /\ UNCHANGED <<server, host, xlog_subs, streams, windows, todo, loc, up, history, bounds>>

End_OpenOnly(t) ==
    /\ tokens[t].stopped
    /\ tokens[t].state \in {"open", "wait"}
    /\ Move(t, "done")

End(t) ==
    /\ tokens[t].stopped
    /\ tokens[t].state \in {"open", "poll", "dead", "mock", "wait"}
    /\ Move(t, "done")

\* The XLog task tries until it succeeds; the other tasks try once.
Open(t) ==
    /\ tokens[t].state = "open" /\ ~tokens[t].stopped
    /\ Move(t, IF tokens[t].to \in up THEN "poll"
               ELSE IF tokens[t].kind = "XLog" THEN "wait" ELSE "done")

Broken_GivesUp(t) ==
    /\ tokens[t].state = "dead" /\ ~tokens[t].stopped /\ tokens[t].kind = "XLog"
    /\ Move(t, "done")

\* A poll fails once the session is gone: the XLog task opens a new connection,
\* the other tasks go on with the old one.
Broken(t) ==
    /\ tokens[t].state = "dead" /\ ~tokens[t].stopped /\ tokens[t].kind = "XLog"
    /\ Move(t, "wait")

Retry(t) == tokens[t].state = "wait" /\ ~tokens[t].stopped /\ Move(t, "open")

Task(t) == End(t) \/ Open(t) \/ Broken(t) \/ Retry(t)

\* A collector goes down, and the sessions it had with it; it comes up again.
Down(c) ==
    /\ faults < MaxFaults /\ faults' = faults + 1
    /\ c \in up /\ up' = up \ {c}
    /\ tokens' = [t \in DOMAIN tokens |->
                     IF tokens[t].state = "poll" /\ tokens[t].to = c
                     THEN [tokens[t] EXCEPT !.state = "dead"] ELSE tokens[t]]
    /\ UNCHANGED <<server, host, xlog_subs, streams, windows, todo, loc, history, commands, picks>>

Up(c) ==
    /\ c \notin up /\ up' = up \cup {c}
    /\ UNCHANGED <<backend, windows, todo, loc, history, bounds>>

Start ==
    \/ \E c \in Collectors : StartConnect(c)
    \/ StartDisconnect \/ StartMock \/ StartRefresh
    \/ \E w \in Windows : Render(w) \/ Close(w) \/ \E pick \in Picks \cup {{}} : Pick(w, pick)

Next ==
    \/ Start
    \/ \E p \in Processes : Step(p)
    \/ \E t \in DOMAIN tokens : Task(t)
    \/ \E c \in Collectors : Down(c) \/ Up(c)

Spec == Init /\ [][Next]_vars

\* The runtime polls every ready task, and a collector that has gone down is
\* brought up again.  Nothing is asked of the calls and of the windows: a task
\* waits for neither.
FairSpec ==
    /\ Spec
    /\ \A t \in 1..MaxTokens : WF_vars(t \in DOMAIN tokens /\ Task(t))
    /\ \A c \in Collectors : WF_vars(Up(c))

-----------------------------------------------------------------------------
(* Properties.                                                             *)

Token == [kind : AllKinds, stopped : BOOLEAN, to : Collectors \cup {None},
          state : {"new", "open", "poll", "dead", "wait", "mock", "done"},
          objs : SUBSET UNION Picks]

TypeOK ==
    /\ server \in Collectors \cup {None, Demo} /\ host \in Collectors \cup {None}
    /\ DOMAIN xlog_subs \subseteq Windows
    /\ \A w \in DOMAIN xlog_subs : xlog_subs[w] \in Picks
    /\ streams \in [AllKinds -> DOMAIN tokens \cup {None}]
    /\ tokens \in Seq(Token)
    /\ \A w \in Windows : queue[w] \in Seq({"on", "off", "again"})

\* However many times a stream is started and whatever overlaps, of each kind
\* one task at most is left that nothing will stop, and it is the one the
\* token of the kind belongs to (StreamTokens, state.rs:28-29).
OneLiveTask ==
    \A t \in DOMAIN tokens : ~tokens[t].stopped => streams[tokens[t].kind] = t

Events == UNION {{queue[w][i] : i \in DOMAIN queue[w]} : w \in {v \in Windows : screen[v].open}}
AtRest == (\A p \in Processes : ~Busy(p)) /\ Events = {}

Wanted == UNION {xlog_subs[w] : w \in DOMAIN xlog_subs}
LiveFor(objs, c) ==
    /\ streams["XLog"] # None
    /\ tokens[streams["XLog"]].objs = objs /\ tokens[streams["XLog"]].to = c

\* Once every call and event is through, and a restart that ran alone has repaired
\* what calls that met one another may have left, or a connect that found a
\* stream, the stream is for the union of what the windows registered, from the
\* collector on screen (restart_xlog_stream).
SettledUnion ==
    AtRest /\ quiet /\ server # Demo =>
        IF Wanted = {} THEN streams["XLog"] = None ELSE LiveFor(Wanted, host)

\* A task whose token is set ends.
StoppedEnds ==
    \A t \in 1..MaxTokens :
        (t \in DOMAIN tokens /\ tokens[t].stopped /\ tokens[t].state # "new")
            ~> (t \in DOMAIN tokens /\ tokens[t].state = "done")

\* The XLog stream comes back by itself after its collector has been down.
Recovers ==
    \A t \in 1..MaxTokens :
        (t \in DOMAIN tokens /\ tokens[t].kind = "XLog" /\ tokens[t].state = "dead")
            ~> (t \in DOMAIN tokens /\ (tokens[t].state = "poll" \/ tokens[t].stopped))

=============================================================================
