---------------------------- MODULE StreamsProofs ----------------------------
(***************************************************************************)
(* Of each kind of stream at most one task is left that nothing will stop, *)
(* for every number of windows, calls, commands and tokens.  The property  *)
(* is inductive together with the types of what it is about: the place of  *)
(* a kind holds the only token of that kind that is not set, because a     *)
(* token is put there, and the one before it set, in one step.             *)
(*                                                                         *)
(* The XLog stream is for what the windows registered.  A call that meets  *)
(* no other one is followed from stage to stage: before its restart the    *)
(* stream is right, while it reopens it the call holds what is registered  *)
(* and the token it took, and after its last step the stream is right      *)
(* again.  A call that has met another one leaves nothing to be shown but  *)
(* that it is not taken for the last word.                                 *)
(***************************************************************************)
EXTENDS Streams, SequenceTheorems, TLAPS

Locals == [kind : AllKinds, win : Windows \cup {None}, objs : SUBSET UNION Picks,
           to : Collectors \cup {None}, token : Nat \cup {None},
           target : Collectors \cup {None}, heals : BOOLEAN]

\* What the steps rely on; the lists of steps themselves need no type.
Typed ==
    /\ host \in Collectors \cup {None}
    /\ \A w \in DOMAIN xlog_subs : xlog_subs[w] \in SUBSET UNION Picks
    /\ streams \in [AllKinds -> Nat \cup {None}]
    /\ tokens \in Seq(Token)
    /\ loc \in [Processes -> Locals]

TaskInv == Typed /\ OneLiveTask

\* What the windows ask for is made of what they have rendered.
ScreenTyped ==
    screen \in [Windows -> [on : BOOLEAN, pick : SUBSET UNION Picks,
                            asked : SUBSET UNION Picks, open : BOOLEAN]]

IInv == TaskInv /\ ScreenTyped

\* The locals of a call that has not begun, and of the calls of a window.
LEMMA IdleTyped ==
    /\ Idle \in Locals
    /\ \A k \in AllKinds, w \in Windows, objs \in SUBSET UNION Picks : Local(k, w, objs) \in Locals
BY DEF Idle, Local, Locals, AllKinds

\* The requests of the effects of a window carry locals of their type.
LEMMA RequestsTyped ==
    ASSUME NEW w \in Windows, NEW pick \in SUBSET UNION Picks, NEW asked
    PROVE  \A r \in XLogRequests(w, pick, asked) : r.local \in Locals
BY IdleTyped DEF XLogRequests, Request, AllKinds

\* Calls that begin have the locals they were given.
LEMMA LaunchTyped ==
    ASSUME Typed, NEW f, Launch(f), \A p \in DOMAIN f : f[p].local \in Locals
    PROVE  loc' \in [Processes -> Locals]
BY DEF Launch, Typed

\* The calls that the effects of a window fire carry locals of their type,
\* whatever slots they are given.
LEMMA FireTyped ==
    ASSUME Typed, NEW requests, Fire(requests), \A r \in requests : r.local \in Locals
    PROVE  loc' \in [Processes -> Locals]
<1> DEFINE free == {p \in Slots : ~Busy(p)}
           f == CHOOSE g \in [requests -> free] : \A r, s \in requests : r # s => g[r] # g[s]
           F == [p \in {f[r] : r \in requests} |-> CHOOSE r \in requests : f[r] = p]
<1>1. Launch(F)
  BY DEF Fire
<1>2. \A p \in DOMAIN F : F[p].local \in Locals
  OBVIOUS
<1> HIDE DEF F
<1> QED BY <1>1, <1>2, LaunchTyped

\* A step of a call leaves the locals of the other calls alone.
LEMMA GoOnTyped ==
    ASSUME Typed, NEW p \in Processes, NEW rest, NEW local \in Locals, GoOn(p, rest, local)
    PROVE  loc' \in [Processes -> Locals]
BY IdleTyped DEF GoOn, Typed

\* A step that goes on with the locals it has keeps their types.
LEMMA KeepTyped ==
    ASSUME Typed, NEW p \in Processes, Keep(p)
    PROVE  loc' \in [Processes -> Locals]
<1>1. loc[p] \in Locals
  BY DEF Typed
<1> QED BY <1>1, GoOnTyped DEF Keep

\* Setting the token of a kind keeps the tokens a sequence, and sets it.
LEMMA StoppedTokens ==
    ASSUME Typed, NEW k \in AllKinds
    PROVE  /\ Stopped(k) \in Seq(Token)
           /\ Len(Stopped(k)) = Len(tokens)
           /\ \A t \in DOMAIN tokens :
                 /\ Stopped(k)[t].kind = tokens[t].kind
                 /\ ~Stopped(k)[t].stopped => ~tokens[t].stopped /\ t # streams[k]
<1>1. tokens \in Seq(Token) /\ Len(tokens) \in Nat /\ DOMAIN tokens = 1..Len(tokens)
  BY DEF Typed
<1>2. \A t \in DOMAIN tokens : tokens[t] \in Token
  BY <1>1
<1>3. \A t \in DOMAIN tokens : [tokens[t] EXCEPT !.stopped = TRUE] \in Token
  BY <1>2 DEF Token
<1>4. Stopped(k) \in [1..Len(tokens) -> Token]
  BY <1>1, <1>2, <1>3 DEF Stopped
<1>5. Stopped(k) \in Seq(Token) /\ Len(Stopped(k)) = Len(tokens)
  BY <1>1, <1>4
<1>6. ASSUME NEW t \in DOMAIN tokens
      PROVE  /\ Stopped(k)[t].kind = tokens[t].kind
             /\ ~Stopped(k)[t].stopped => ~tokens[t].stopped /\ t # streams[k]
  BY <1>2, <1>6 DEF Stopped, Token
<1> QED BY <1>5, <1>6

\* A token that is issued takes the place of the one that is set.
LEMMA IssuePreserves ==
    ASSUME TaskInv, NEW k \in AllKinds, NEW new \in Token, new.kind = k,
           tokens' = Append(Stopped(k), new),
           streams' = [streams EXCEPT ![k] = Len(tokens) + 1]
    PROVE  tokens' \in Seq(Token) /\ streams' \in [AllKinds -> Nat \cup {None}] /\ OneLiveTask'
<1> DEFINE n == Len(tokens)
<1>0. Typed /\ OneLiveTask /\ n \in Nat
  BY DEF TaskInv, Typed
<1>1. /\ Stopped(k) \in Seq(Token) /\ Len(Stopped(k)) = n
      /\ \A t \in DOMAIN tokens :
            /\ Stopped(k)[t].kind = tokens[t].kind
            /\ ~Stopped(k)[t].stopped => ~tokens[t].stopped /\ t # streams[k]
  BY <1>0, StoppedTokens
<1>2. tokens' \in Seq(Token) /\ DOMAIN tokens' = 1..(n + 1) /\ DOMAIN tokens = 1..n
  BY <1>0, <1>1 DEF Typed
<1>3. streams' \in [AllKinds -> Nat \cup {None}]
  BY <1>0 DEF Typed
<1>4. ASSUME NEW t \in DOMAIN tokens', ~tokens'[t].stopped
      PROVE  streams'[tokens'[t].kind] = t
  <2>1. CASE t = n + 1
    <3>1. tokens'[t] = new
      BY <2>1, <1>1
    <3> QED BY <3>1, <2>1, <1>0 DEF Typed
  <2>2. CASE t \in DOMAIN tokens
    <3>1. tokens'[t] = Stopped(k)[t]
      BY <2>2, <1>1, <1>2
    <3>2. tokens'[t].kind = tokens[t].kind /\ streams[tokens[t].kind] = t /\ t # streams[k]
      BY <3>1, <2>2, <1>4, <1>1, <1>0 DEF OneLiveTask
    <3> QED BY <3>2, <1>0 DEF Typed
  <2> QED BY <2>1, <2>2, <1>2
<1> QED BY <1>2, <1>3, <1>4 DEF OneLiveTask

\* A change that leaves the kind of every token, and whether it is set, alone.
LEMMA ChangePreserves ==
    ASSUME TaskInv, tokens' \in Seq(Token), DOMAIN tokens' = DOMAIN tokens, UNCHANGED streams,
           \A t \in DOMAIN tokens : tokens'[t].kind = tokens[t].kind
                                    /\ (tokens[t].stopped => tokens'[t].stopped)
    PROVE  OneLiveTask'
BY DEF TaskInv, OneLiveTask

\* The initial state has no token.
LEMMA StreamsInit == Init => IInv
<1> SUFFICES ASSUME Init PROVE IInv
  OBVIOUS
<1>1. tokens = <<>> /\ tokens \in Seq(Token) /\ DOMAIN tokens = {}
  BY DEF Init
<1>2. Typed
  BY <1>1, IdleTyped DEF Init, Typed, AllKinds
<1>3. ScreenTyped
  BY DEF Init, ScreenTyped
<1> QED BY <1>1, <1>2, <1>3 DEF IInv, TaskInv, OneLiveTask

\* No step of a call leaves a second task that nothing will stop.
LEMMA CallKeeps == ASSUME TaskInv, NEW p \in Processes, Step(p) PROVE TaskInv'
<1>0. Typed /\ OneLiveTask /\ loc[p] \in Locals
  BY DEF TaskInv, Typed
<1>a. ASSUME loc' \in [Processes -> Locals], UNCHANGED <<host, xlog_subs, streams, tokens>>
      PROVE  TaskInv'
  BY <1>0, <1>a DEF TaskInv, Typed, OneLiveTask
<1>b. ASSUME loc' \in [Processes -> Locals], UNCHANGED <<host, streams, tokens>>,
             \A w \in DOMAIN xlog_subs' : xlog_subs'[w] \in SUBSET UNION Picks
      PROVE  TaskInv'
  BY <1>0, <1>b DEF TaskInv, Typed, OneLiveTask
<1>1. CASE Insert(p)
  BY <1>0, <1>1, <1>b, KeepTyped DEF Insert, Typed, Locals
<1>2. CASE Remove(p)
  BY <1>0, <1>2, <1>b, KeepTyped DEF Remove, Without, Typed
<1>3. CASE Forget(p)
  BY <1>0, <1>3, <1>b, KeepTyped, GoOnTyped DEF Forget, Without, Typed
<1>4. CASE ClearSubs(p)
  BY <1>0, <1>4, <1>b, KeepTyped DEF ClearSubs
<1>5. CASE SetHost(p)
  <2>1. loc' \in [Processes -> Locals] /\ host' \in Collectors \cup {None}
    BY <1>0, <1>5, KeepTyped, GoOnTyped DEF SetHost, Typed, Locals
  <2> QED BY <2>1, <1>0, <1>5 DEF SetHost, TaskInv, Typed, OneLiveTask
<1>6. CASE SetSid(p) \/ NoSid(p) \/ DemoSid(p)
  BY <1>0, <1>6, <1>a, KeepTyped DEF SetSid, NoSid, DemoSid, SetServer
<1>7. CASE NeedSid(p)
  BY <1>0, <1>7, <1>a, KeepTyped, GoOnTyped DEF NeedSid, backend
<1>8. CASE TellOn(p) \/ TellOff(p) \/ Again(p)
  BY <1>0, <1>8, <1>a, KeepTyped DEF TellOn, TellOff, Tell, Again, backend
<1>9. CASE DemoCheck(p)
  BY <1>0, <1>9, <1>a, GoOnTyped DEF DemoCheck, backend
<1>10. CASE Union(p)
  <2> DEFINE union == UNION {xlog_subs[w] : w \in DOMAIN xlog_subs}
             local == [loc[p] EXCEPT !.objs = union]
  <2>a. union \in SUBSET UNION Picks
    BY <1>0 DEF Typed
  <2> HIDE DEF union
  <2>1. local \in Locals
    BY <2>a, <1>0 DEF Locals
  <2> USE DEF union
  <2>2. \E rest : GoOn(p, rest, local)
    BY <1>10 DEF Union
  <2> HIDE DEF local
  <2>3. loc' \in [Processes -> Locals]
    BY <2>1, <2>2, <1>0, GoOnTyped
  <2> QED BY <2>3, <1>10, <1>a DEF Union, backend
<1>11. ASSUME NEW step, NEW k \in AllKinds, StopStep(p, step, k)
       PROVE  TaskInv'
  <2> DEFINE local == [loc[p] EXCEPT !.heals = k = "XLog" \/ @]
  <2>1. local \in Locals /\ GoOn(p, Tail(todo[p]), local)
    BY <1>0, <1>11 DEF StopStep, Locals
  <2> HIDE DEF local
  <2>2. loc' \in [Processes -> Locals]
    BY <2>1, <1>0, GoOnTyped
  <2>3. tokens' \in Seq(Token) /\ DOMAIN tokens' = DOMAIN tokens
    BY <1>0, <1>11, StoppedTokens DEF StopStep, Typed
  <2>4. OneLiveTask'
    <3>1. tokens' = Stopped(k) /\ streams' = [streams EXCEPT ![k] = None]
      BY <1>11 DEF StopStep
    <3>2. streams \in [AllKinds -> Nat \cup {None}]
      BY <1>0 DEF Typed
    <3>3. ASSUME NEW t \in DOMAIN tokens, ~tokens'[t].stopped
          PROVE  streams'[tokens'[t].kind] = t
      <4>1. tokens'[t].kind = tokens[t].kind /\ ~tokens[t].stopped /\ t # streams[k]
        BY <1>0, <3>1, <3>3, StoppedTokens
      <4>2. streams[tokens[t].kind] = t
        BY <1>0, <4>1 DEF OneLiveTask
      <4>3. tokens[t].kind # k
        BY <4>1, <4>2
      <4> QED BY <3>1, <3>2, <4>1, <4>2, <4>3
    <3> QED BY <2>3, <3>3 DEF OneLiveTask
  <2>5. UNCHANGED <<host, xlog_subs>> /\ streams' \in [AllKinds -> Nat \cup {None}]
    BY <1>0, <1>11 DEF StopStep, Typed
  <2> QED BY <2>2, <2>3, <2>4, <2>5, <1>0 DEF TaskInv, Typed
<1>12. CASE StopAll(p)
  BY <1>11, <1>12 DEF StopAll, AllKinds
<1>13. CASE Stop(p)
  BY <1>0, <1>11, <1>13 DEF Stop, Locals
<1>14. CASE TakeToken(p)
  <2> DEFINE new == [kind |-> loc[p].kind, stopped |-> FALSE, state |-> "new",
                     objs |-> {}, to |-> None]
             local == [loc[p] EXCEPT !.token = Len(tokens) + 1]
  <2>1. new \in Token /\ new.kind = loc[p].kind /\ loc[p].kind \in AllKinds
    BY <1>0 DEF Locals, Token
  <2>a. Len(tokens) + 1 \in Nat
    BY <1>0 DEF Typed
  <2>2. local \in Locals /\ GoOn(p, Tail(todo[p]), local)
    BY <2>a, <1>0, <1>14 DEF TakeToken, Locals
  <2>3. tokens' = Append(Stopped(loc[p].kind), new)
        /\ streams' = [streams EXCEPT ![loc[p].kind] = Len(tokens) + 1]
    BY <1>14 DEF TakeToken
  <2> HIDE DEF local, new
  <2>4. loc' \in [Processes -> Locals]
    BY <2>2, <1>0, GoOnTyped
  <2>5. tokens' \in Seq(Token) /\ streams' \in [AllKinds -> Nat \cup {None}] /\ OneLiveTask'
    BY <2>1, <2>3, IssuePreserves
  <2> QED BY <2>4, <2>5, <1>0, <1>14 DEF TakeToken, TaskInv, Typed
<1>15. CASE Params(p)
  <2> DEFINE local == [loc[p] EXCEPT !.to = host]
  <2>1. local \in Locals /\ GoOn(p, Tail(todo[p]), local)
    BY <1>0, <1>15 DEF Params, Locals, Typed
  <2> HIDE DEF local
  <2>2. loc' \in [Processes -> Locals]
    BY <2>1, <1>0, GoOnTyped
  <2> QED BY <2>2, <1>15, <1>a DEF Params, backend
<1>16. ASSUME NEW step, NEW state \in {"open", "mock"}, SpawnAs(p, step, state)
       PROVE  TaskInv'
  <2> DEFINE local == [loc[p] EXCEPT !.heals = @ \/ loc[p].kind = "XLog"]
             t == loc[p].token
  <2>1. local \in Locals /\ GoOn(p, Tail(todo[p]), local)
    BY <1>0, <1>16 DEF SpawnAs, Locals
  <2> HIDE DEF local
  <2>2. loc' \in [Processes -> Locals]
    BY <2>1, <1>0, GoOnTyped
  <2>3. loc[p].objs \in SUBSET UNION Picks /\ loc[p].to \in Collectors \cup {None}
    BY <1>0 DEF Locals
  <2>4. /\ tokens \in Seq(Token)
        /\ tokens' = [tokens EXCEPT ![t].state = state, ![t].objs = loc[p].objs, ![t].to = loc[p].to]
    BY <1>0, <1>16 DEF SpawnAs, Typed
  <2>a. /\ tokens \in [1..Len(tokens) -> Token] /\ Len(tokens) \in Nat
        /\ DOMAIN tokens = 1..Len(tokens)
    BY <2>4
  <2>b. DOMAIN tokens' = 1..Len(tokens)
    BY <2>4, <2>a
  <2>5. ASSUME NEW i \in DOMAIN tokens
        PROVE  /\ tokens'[i] \in Token
               /\ tokens'[i].kind = tokens[i].kind /\ tokens'[i].stopped = tokens[i].stopped
    <3>1. tokens[i] \in Token
      BY <2>a
    <3>2. CASE i = t
      <4>1. tokens'[i] = [tokens[i] EXCEPT !.state = state, !.objs = loc[p].objs, !.to = loc[p].to]
        BY <3>2, <2>4, <2>a
      <4> QED BY <4>1, <3>1, <2>3 DEF Token
    <3>3. CASE i # t
      BY <3>1, <3>3, <2>4, <2>a
    <3> QED BY <3>2, <3>3
  <2>6. DOMAIN tokens' = DOMAIN tokens /\ tokens' \in Seq(Token)
    <3>1. tokens' \in [1..Len(tokens) -> Token]
      BY <2>4, <2>5, <2>a, <2>b
    <3> QED BY <3>1, <2>a
  <2>7. OneLiveTask'
    BY <2>5, <2>6, <1>16, ChangePreserves DEF SpawnAs
  <2> QED BY <2>2, <2>6, <2>7, <1>0, <1>16 DEF SpawnAs, TaskInv, Typed
<1>17. CASE Spawn(p) \/ Mock(p)
  BY <1>16, <1>17 DEF Spawn, Mock
<1> QED
  BY <1>1, <1>2, <1>3, <1>4, <1>5, <1>6, <1>7, <1>8, <1>9, <1>10, <1>12, <1>13, <1>14, <1>15,
     <1>17 DEF Step

\* The steps of a call draw nothing.
LEMMA CallDrawsNothing == \A p \in Processes : Step(p) => UNCHANGED screen
<1> TAKE p \in Processes
<1>1. Insert(p) \/ Remove(p) \/ Forget(p) \/ ClearSubs(p) => UNCHANGED screen
  BY DEF Insert, Remove, Forget, ClearSubs, windows
<1>2. SetHost(p) \/ SetSid(p) \/ NoSid(p) \/ DemoSid(p) \/ NeedSid(p) => UNCHANGED screen
  BY DEF SetHost, SetSid, NoSid, DemoSid, SetServer, NeedSid, windows
<1>3. TellOn(p) \/ TellOff(p) \/ Again(p) => UNCHANGED screen
  BY DEF TellOn, TellOff, Tell, Again
<1>4. DemoCheck(p) \/ Union(p) \/ StopAll(p) \/ Stop(p) => UNCHANGED screen
  BY DEF DemoCheck, Union, StopAll, Stop, StopStep, windows
<1>5. TakeToken(p) \/ Params(p) \/ Spawn(p) \/ Mock(p) => UNCHANGED screen
  BY DEF TakeToken, Params, Spawn, Mock, SpawnAs, windows
<1> QED BY <1>1, <1>2, <1>3, <1>4, <1>5 DEF Step

\* A command, a render or a pick begins calls and touches no token.
LEMMA BeginKeeps ==
    ASSUME TaskInv, UNCHANGED backend, loc' \in [Processes -> Locals]
    PROVE  TaskInv'
BY DEF TaskInv, Typed, OneLiveTask, backend

\* A command of the dialog begins a call, and touches neither token nor window.
LEMMA CommandKeeps ==
    ASSUME IInv, NEW plan, NEW local \in Locals, Command(plan, local)
    PROVE  IInv'
<1> DEFINE f == [q \in {"ui"} |-> Request(plan, local)]
<1>1. Launch(f) /\ UNCHANGED <<backend, screen>>
  BY DEF Command, windows
<1>2. \A q \in DOMAIN f : f[q].local \in Locals
  BY DEF Request
<1> HIDE DEF f
<1>3. loc' \in [Processes -> Locals]
  BY <1>1, <1>2, LaunchTyped DEF IInv, TaskInv
<1> QED BY <1>1, <1>3, BeginKeeps DEF IInv, ScreenTyped

\* So does the refresh button.
LEMMA RefreshKeeps == ASSUME IInv, StartRefresh PROVE IInv'
<1> DEFINE f == [q \in {"f5"} |-> Request(Refresh, Local("XLog", Main, {}))]
<1>1. Launch(f) /\ UNCHANGED <<backend, screen>>
  BY DEF StartRefresh, windows
<1>2. \A q \in DOMAIN f : f[q].local \in Locals
  BY IdleTyped, StreamsAssumption DEF Request, AllKinds
<1> HIDE DEF f
<1>3. loc' \in [Processes -> Locals]
  BY <1>1, <1>2, LaunchTyped DEF IInv, TaskInv
<1> QED BY <1>1, <1>3, BeginKeeps DEF IInv, ScreenTyped

\* What a window draws, and asks for, stays made of what a user may pick.
LEMMA RenderKeeps == ASSUME IInv, NEW w \in Windows, Render(w) PROVE IInv'
<1>0. TaskInv /\ Typed /\ screen[w].pick \in SUBSET UNION Picks
  BY DEF IInv, TaskInv, ScreenTyped
<1>1. PICK n \in 1..Len(queue[w]) :
        LET seen  == {queue[w][i] : i \in 1..n}
            on    == Connected(w, n)
            pick  == IF "off" \in seen THEN {} ELSE screen[w].pick
            asked == IF on THEN {} ELSE screen[w].asked
        IN  /\ screen' = [screen EXCEPT ![w].on = on, ![w].pick = pick,
                                       ![w].asked = IF on THEN pick ELSE {}]
            /\ Fire(XLogRequests(w, IF on THEN pick ELSE {}, asked) \cup Alerts(w, on))
            /\ UNCHANGED backend
  BY DEF Render
<1> DEFINE seen  == {queue[w][i] : i \in 1..n}
           on    == Connected(w, n)
           pick  == IF "off" \in seen THEN {} ELSE screen[w].pick
           asked == IF on THEN {} ELSE screen[w].asked
           want  == IF on THEN pick ELSE {}
           requests == XLogRequests(w, want, asked) \cup Alerts(w, on)
<1>2. pick \in SUBSET UNION Picks /\ want \in SUBSET UNION Picks /\ on \in BOOLEAN
  BY <1>0 DEF Connected, IInv, ScreenTyped
<1>3. /\ screen' = [screen EXCEPT ![w].on = on, ![w].pick = pick, ![w].asked = want]
      /\ Fire(requests) /\ UNCHANGED backend
  BY <1>1
<1> HIDE DEF on, pick, asked, want, seen
<1>4. \A r \in Alerts(w, on) : r.local \in Locals
  BY IdleTyped DEF Alerts, Request, AllKinds
<1>5. \A r \in requests : r.local \in Locals
  BY <1>2, <1>4, RequestsTyped
<1> HIDE DEF requests
<1>6. loc' \in [Processes -> Locals]
  BY <1>0, <1>3, <1>5, FireTyped
<1>7. ScreenTyped'
  <2>1. screen' = [screen EXCEPT ![w] =
                     [screen[w] EXCEPT !.on = on, !.pick = pick, !.asked = want]]
    BY <1>3 DEF IInv, ScreenTyped
  <2>2. [screen[w] EXCEPT !.on = on, !.pick = pick, !.asked = want]
          \in [on : BOOLEAN, pick : SUBSET UNION Picks, asked : SUBSET UNION Picks, open : BOOLEAN]
    BY <1>2 DEF IInv, ScreenTyped
  <2> QED BY <2>1, <2>2 DEF IInv, ScreenTyped
<1> QED BY <1>0, <1>3, <1>6, <1>7, BeginKeeps DEF IInv

\* A pick changes what its window asks for, within what may be picked.
LEMMA PickKeeps ==
    ASSUME IInv, NEW w \in Windows, NEW pick \in Picks \cup {{}}, Pick(w, pick)
    PROVE  IInv'
<1> DEFINE feed == IF w # Main \/ "Counter" \notin Kinds THEN {}
                   ELSE IF pick = {} THEN {Request(StopFeed, Local("Counter", w, {}))}
                   ELSE {Request(StartFeed, Local("Counter", w, pick))}
           requests == XLogRequests(w, pick, screen[w].asked) \cup feed
<1>0. TaskInv /\ Typed /\ pick \in SUBSET UNION Picks
  BY DEF IInv, TaskInv
<1>1. /\ screen' = [screen EXCEPT ![w].pick = pick, ![w].asked = pick]
      /\ Fire(requests) /\ UNCHANGED backend
  BY DEF Pick
<1>2. \A r \in feed : r.local \in Locals
  BY <1>0, IdleTyped DEF Request, AllKinds
<1> HIDE DEF feed
<1>3. \A r \in requests : r.local \in Locals
  BY <1>0, <1>2, RequestsTyped
<1> HIDE DEF requests
<1>4. loc' \in [Processes -> Locals]
  BY <1>0, <1>1, <1>3, FireTyped
<1>5. ScreenTyped'
  <2> DEFINE Screen == [on : BOOLEAN, pick : SUBSET UNION Picks,
                        asked : SUBSET UNION Picks, open : BOOLEAN]
  <2>1. screen \in [Windows -> Screen]
    BY DEF IInv, ScreenTyped
  <2>2. [screen[w] EXCEPT !.pick = pick, !.asked = pick] \in Screen
    BY <2>1, <1>0
  <2>3. screen' = [screen EXCEPT ![w] = [screen[w] EXCEPT !.pick = pick, !.asked = pick]]
    BY <2>1, <1>1
  <2> HIDE DEF Screen
  <2>4. screen' \in [Windows -> Screen]
    BY <2>1, <2>2, <2>3
  <2> QED BY <2>4 DEF ScreenTyped, Screen
<1> QED BY <1>0, <1>1, <1>4, <1>5, BeginKeeps DEF IInv

\* A window that closes begins the call that forgets it.
LEMMA CloseKeeps == ASSUME IInv, NEW w \in Windows, Close(w) PROVE IInv'
<1> DEFINE requests == {Request(ForgetWindow, Local("XLog", w, {}))}
<1>1. /\ screen' = [screen EXCEPT ![w].open = FALSE]
      /\ Fire(requests) /\ UNCHANGED backend
  BY DEF Close
<1>2. \A r \in requests : r.local \in Locals
  BY IdleTyped DEF Request, AllKinds
<1> HIDE DEF requests
<1>3. loc' \in [Processes -> Locals]
  BY <1>1, <1>2, FireTyped DEF IInv, TaskInv
<1>4. ScreenTyped'
  BY <1>1 DEF IInv, ScreenTyped
<1> QED BY <1>1, <1>3, <1>4, BeginKeeps DEF IInv

\* Whatever begins.
LEMMA StartKeeps == ASSUME IInv, Start PROVE IInv'
<1>1. ASSUME NEW c \in Collectors, StartConnect(c)
      PROVE  IInv'
  <2>1. /\ [Idle EXCEPT !.target = c] \in Locals
        /\ [Idle EXCEPT !.win = Main, !.target = c] \in Locals
    BY IdleTyped, StreamsAssumption DEF Locals
  <2> QED BY <1>1, <2>1, CommandKeeps DEF StartConnect
<1>2. CASE StartDisconnect
  <2>1. [Idle EXCEPT !.win = Main] \in Locals
    BY IdleTyped, StreamsAssumption DEF Locals
  <2> QED BY <1>2, <2>1, CommandKeeps DEF StartDisconnect
<1>3. CASE StartMock
  BY <1>3, IdleTyped, CommandKeeps DEF StartMock
<1> QED BY <1>1, <1>2, <1>3, RefreshKeeps, RenderKeeps, PickKeeps, CloseKeeps DEF Start

\* A task changes its own state and nothing else of any token.
LEMMA TaskKeeps == ASSUME IInv, NEW t \in DOMAIN tokens, Task(t) PROVE IInv'
<1>0. tokens \in [1..Len(tokens) -> Token] /\ Len(tokens) \in Nat /\ DOMAIN tokens = 1..Len(tokens)
  BY DEF IInv, TaskInv, Typed
<1>1. PICK state \in {"open", "poll", "wait", "done"} : Move(t, state)
  BY DEF Task, End, Open, Broken, Retry
<1>2. tokens' = [tokens EXCEPT ![t].state = state]
  BY <1>1 DEF Move
<1>3. \A i \in DOMAIN tokens :
         /\ tokens'[i] \in Token
         /\ tokens'[i].kind = tokens[i].kind /\ tokens'[i].stopped = tokens[i].stopped
  <2> TAKE i \in DOMAIN tokens
  <2>1. tokens[i] \in Token
    BY <1>0
  <2>2. tokens'[i] = IF i = t THEN [tokens[i] EXCEPT !.state = state] ELSE tokens[i]
    BY <1>0, <1>2
  <2> QED BY <2>1, <2>2 DEF Token
<1>4. tokens' \in [1..Len(tokens) -> Token]
  BY <1>0, <1>2, <1>3
<1>5. tokens' \in Seq(Token) /\ DOMAIN tokens' = DOMAIN tokens
  BY <1>0, <1>4
<1>6. OneLiveTask'
  BY <1>1, <1>3, <1>5, ChangePreserves DEF IInv, Move
<1>7. UNCHANGED <<host, xlog_subs, streams, loc, screen>>
  BY <1>1 DEF Move, windows
<1>8. Typed'
  BY <1>5, <1>7 DEF IInv, TaskInv, Typed
<1>9. ScreenTyped'
  BY <1>7 DEF IInv, ScreenTyped
<1> QED BY <1>6, <1>8, <1>9 DEF IInv, TaskInv

\* A collector that goes down ends the sessions it had, and sets no token.
LEMMA DownKeeps == ASSUME IInv, NEW c \in Collectors, Down(c) PROVE IInv'
<1>0. tokens \in [1..Len(tokens) -> Token] /\ Len(tokens) \in Nat /\ DOMAIN tokens = 1..Len(tokens)
  BY DEF IInv, TaskInv, Typed
<1>1. tokens' = [t \in DOMAIN tokens |->
                   IF tokens[t].state = "poll" /\ tokens[t].to = c
                   THEN [tokens[t] EXCEPT !.state = "dead"] ELSE tokens[t]]
  BY DEF Down
<1>2. \A t \in DOMAIN tokens :
         /\ tokens'[t] \in Token
         /\ tokens'[t].kind = tokens[t].kind /\ tokens'[t].stopped = tokens[t].stopped
  <2> TAKE t \in DOMAIN tokens
  <2>1. tokens[t] \in Token
    BY <1>0
  <2>2. tokens'[t] \in {tokens[t], [tokens[t] EXCEPT !.state = "dead"]}
    BY <1>1
  <2> QED BY <2>1, <2>2 DEF Token
<1>3. tokens' \in [1..Len(tokens) -> Token]
  BY <1>0, <1>1, <1>2
<1>4. tokens' \in Seq(Token) /\ DOMAIN tokens' = DOMAIN tokens
  BY <1>0, <1>3
<1>5. OneLiveTask'
  BY <1>2, <1>4, ChangePreserves DEF IInv, Down
<1>6. UNCHANGED <<host, xlog_subs, streams, loc, screen>>
  BY DEF Down, windows
<1>7. Typed'
  BY <1>4, <1>6 DEF IInv, TaskInv, Typed
<1>8. ScreenTyped'
  BY <1>6 DEF IInv, ScreenTyped
<1> QED BY <1>5, <1>7, <1>8 DEF IInv, TaskInv

\* The invariant is inductive.
LEMMA NextKeeps == IInv /\ [Next]_vars => IInv'
<1> SUFFICES ASSUME IInv, [Next]_vars PROVE IInv'
  OBVIOUS
<1>1. ASSUME NEW p \in Processes, Step(p)
      PROVE  IInv'
  BY <1>1, CallKeeps, CallDrawsNothing DEF IInv, ScreenTyped
<1>2. ASSUME NEW c \in Collectors, Up(c)
      PROVE  IInv'
  BY <1>2 DEF Up, backend, windows, IInv, TaskInv, Typed, OneLiveTask, ScreenTyped
<1>3. CASE UNCHANGED vars
  BY <1>3 DEF vars, backend, windows, IInv, TaskInv, Typed, OneLiveTask, ScreenTyped
<1> QED BY <1>1, <1>2, <1>3, StartKeeps, TaskKeeps, DownKeeps DEF Next

\* However many windows and calls there are, and whatever overlaps, at most one
\* task of a kind is left that nothing will stop, and the stop of that kind
\* reaches it (StreamTokens, state.rs:28-71).
THEOREM OneTask == Spec => []OneLiveTask
<1>1. IInv => OneLiveTask
  BY DEF IInv, TaskInv
<1> QED BY StreamsInit, NextKeeps, <1>1, PTL DEF Spec

-----------------------------------------------------------------------------
(* The plans of the calls.                                                 *)

\* The rests of a restart, of the start of a feed, of a disconnect, of a connect
\* and of the demo mode.
R4 == <<"union", "take", "params", "spawn">>
R3 == <<"take", "params", "spawn">>
R2 == <<"params", "spawn">>
R1 == <<"spawn">>
F2 == <<"take", "spawn">>
D6 == <<"stopXLog">>
D5 == <<"stopCounter", "stopAlert", "noSid", "noSubs", "tellOff">>
D4 == <<"stopAlert", "noSid", "noSubs", "tellOff">>
D3 == <<"noSid", "noSubs", "tellOff">>
D2 == <<"noSubs", "tellOff">>
D1 == <<"tellOff">>
C2 == <<"setSid", "tellOn">>
C1 == <<"tellOn">>
M3 == <<"demoSid", "tellOn", "mock">>
M2 == <<"tellOn", "mock">>
M1 == <<"mock">>

Steps == {"demo", "union", "take", "params", "spawn", "insert", "remove", "forget", "stop",
          "stopXLog", "stopCounter", "stopAlert", "noSid", "noSubs", "tellOff", "setHost",
          "setSid", "tellOn", "demoSid", "mock", "needSid", "again"}
Plans == Seq(Steps)
\* What may follow a restart: nothing, the end of a refresh, or the disconnect of
\* a window that leaves, and then the connect of a switch.
Tails == {<<>>, <<"again">>, Disconnect, Disconnect \o Connect}

\* The first step of plan s is head, and u is what it goes on with.
First(s, head, u) == s \in Plans /\ s # <<>> /\ Head(s) = head /\ Tail(s) = u

\* What a list followed by another begins with, and what it goes on with.
LEMMA HeadTailConcat ==
    ASSUME NEW S, NEW s \in Seq(S), NEW t \in Seq(S), s # <<>>
    PROVE  /\ Head(s \o t) = Head(s) /\ Tail(s \o t) = Tail(s) \o t
           /\ s \o t \in Seq(S) /\ s \o t # <<>>
<1>1. Len(s \o t) = Len(s) + Len(t) /\ Len(s) \in Nat \ {0} /\ Len(t) \in Nat
    OBVIOUS
<1>2. Head(s \o t) = Head(s)
    BY <1>1
<1>3. /\ Tail(s \o t) \in Seq(S) /\ Tail(s) \o t \in Seq(S)
      /\ Len(Tail(s \o t)) = Len(Tail(s) \o t)
    BY <1>1
<1>4. ASSUME NEW i \in 1 .. Len(Tail(s \o t)) PROVE Tail(s \o t)[i] = (Tail(s) \o t)[i]
    BY <1>1
<1>5. Tail(s \o t) = Tail(s) \o t
    BY <1>3, <1>4, SeqEqual
<1>6. s \o t \in Seq(S) /\ s \o t # <<>>
    BY <1>1, EmptySeq
<1> QED BY <1>2, <1>5, <1>6

\* A plan that is followed by another one goes on as it did.
LEMMA FirstThen ==
  ASSUME NEW s, NEW head, NEW u, NEW t \in Plans, First(s, head, u)
  PROVE  First(s \o t, head, u \o t)
BY HeadTailConcat DEF First, Plans

\* The plans of the calls, step by step.
LEMMA PlansGo ==
  /\ First(Restart, "demo", R4) /\ First(R4, "union", R3) /\ First(R3, "take", R2)
  /\ First(R2, "params", R1) /\ First(R1, "spawn", <<>>)
  /\ First(Disconnect, "stopXLog", D5) /\ First(D5, "stopCounter", D4)
  /\ First(D4, "stopAlert", D3) /\ First(D3, "noSid", D2) /\ First(D2, "noSubs", D1)
  /\ First(D1, "tellOff", <<>>)
  /\ First(Connect, "setHost", C2) /\ First(C2, "setSid", C1) /\ First(C1, "tellOn", <<>>)
  /\ First(MockStream, "take", M3) /\ First(M3, "demoSid", M2) /\ First(M2, "tellOn", M1)
  /\ First(M1, "mock", <<>>) /\ First(StartFeed, "params", F2) /\ First(F2, "take", R1)
  /\ \A x \in Steps : First(<<x>>, x, <<>>)
<1>1. First(Restart, "demo", R4)
  BY DEF First, Plans, Steps, Restart, R4
<1>2. First(R4, "union", R3) /\ First(R3, "take", R2)
      /\ First(R2, "params", R1) /\ First(R1, "spawn", <<>>)
  BY DEF First, Plans, Steps, R4, R3, R2, R1
<1>3. First(Disconnect, "stopXLog", D5)
  BY DEF First, Plans, Steps, Disconnect, D5
<1>4. First(D5, "stopCounter", D4) /\ First(D4, "stopAlert", D3)
  BY DEF First, Plans, Steps, D5, D4, D3
<1>5. First(D3, "noSid", D2) /\ First(D2, "noSubs", D1) /\ First(D1, "tellOff", <<>>)
  BY DEF First, Plans, Steps, D3, D2, D1
<1>6. First(Connect, "setHost", C2) /\ First(C2, "setSid", C1) /\ First(C1, "tellOn", <<>>)
  BY DEF First, Plans, Steps, Connect, C2, C1
<1>7. First(MockStream, "take", M3) /\ First(M3, "demoSid", M2) /\ First(M2, "tellOn", M1)
      /\ First(M1, "mock", <<>>)
  BY DEF First, Plans, Steps, MockStream, M3, M2, M1
<1>8. First(StartFeed, "params", F2) /\ First(F2, "take", R1)
  BY DEF First, Plans, Steps, StartFeed, F2, R1
<1>9. \A x \in Steps : First(<<x>>, x, <<>>)
  BY DEF First, Plans
<1> QED BY <1>1, <1>2, <1>3, <1>4, <1>5, <1>6, <1>7, <1>8, <1>9

\* Dropping the first of two plans leaves the second one.
LEMMA DropFirst ==
  ASSUME NEW s \in Plans, NEW t \in Plans
  PROVE  SubSeq(s \o t, Len(s) + 1, Len(s \o t)) = t
<1>1. Len(s) \in Nat /\ Len(t) \in Nat /\ Len(s \o t) = Len(s) + Len(t)
  BY DEF Plans
<1>2. CASE t = <<>>
  BY <1>1, <1>2, SubSeqEmpty
<1>3. CASE t # <<>>
  <2>1. Len(t) # 0
    BY <1>3, EmptySeq DEF Plans
  <2>2. SubSeq(s \o t, Len(s) + 1, Len(s) + Len(t)) = SubSeq(t, 1, Len(t))
    <3>1. /\ Len(s) + 1 \in Len(s) + 1 .. Len(s) + Len(t)
          /\ Len(s) + Len(t) \in Len(s) + 1 .. Len(s) + Len(t)
          /\ (Len(s) + 1) - Len(s) = 1 /\ (Len(s) + Len(t)) - Len(s) = Len(t)
      BY <1>1, <2>1
    <3>2. SubSeq(s \o t, Len(s) + 1, Len(s) + Len(t))
            = SubSeq(t, (Len(s) + 1) - Len(s), (Len(s) + Len(t)) - Len(s))
      BY <3>1, SubSeqOfConcat2, Zenon DEF Plans
    <3> QED BY <3>1, <3>2
  <2> QED BY <1>1, <2>2, SubSeqFull DEF Plans
<1> QED BY <1>2, <1>3

\* What the plans are made of, and how long those are that a step drops.
LEMMA PlansAre ==
  /\ Restart \in Plans /\ Disconnect \in Plans /\ Connect \in Plans /\ R4 \in Plans
  /\ Tails \subseteq Plans
  /\ Len(Restart) = 5 /\ Len(R4) = 4
<1>1. Restart \in Plans /\ Disconnect \in Plans /\ Connect \in Plans /\ R4 \in Plans
  BY PlansGo DEF First
<1>2. <<>> \in Plans /\ <<"again">> \in Plans
  BY PlansGo DEF First, Plans, Steps
<1>3. Disconnect \o Connect \in Plans
  BY <1>1 DEF Plans
<1>4. Len(Restart) = 5 /\ Len(R4) = 4
  BY DEF Restart, R4
<1> QED BY <1>1, <1>2, <1>3, <1>4 DEF Tails

\* A restart, and a disconnect, step by step, when more is to follow.
LEMMA TailsGo ==
  ASSUME NEW t \in Plans
  PROVE  /\ First(Restart \o t, "demo", R4 \o t) /\ First(R4 \o t, "union", R3 \o t)
         /\ First(R3 \o t, "take", R2 \o t) /\ First(R2 \o t, "params", R1 \o t)
         /\ First(R1 \o t, "spawn", t) /\ First(D6 \o t, "stopXLog", t)
         /\ First(Disconnect \o t, "stopXLog", D5 \o t) /\ First(D5 \o t, "stopCounter", D4 \o t)
         /\ First(D4 \o t, "stopAlert", D3 \o t) /\ First(D3 \o t, "noSid", D2 \o t)
         /\ First(D2 \o t, "noSubs", D1 \o t) /\ First(D1 \o t, "tellOff", t)
<1>1. <<>> \o t = t
  BY ConcatEmptySeq DEF Plans
<1>2. First(D6, "stopXLog", <<>>)
  BY PlansGo DEF D6, Steps
<1>3. /\ First(Restart \o t, "demo", R4 \o t) /\ First(R4 \o t, "union", R3 \o t)
      /\ First(R3 \o t, "take", R2 \o t) /\ First(R2 \o t, "params", R1 \o t)
      /\ First(R1 \o t, "spawn", <<>> \o t) /\ First(D6 \o t, "stopXLog", <<>> \o t)
  BY <1>2, PlansGo, FirstThen
<1>4. /\ First(Disconnect \o t, "stopXLog", D5 \o t) /\ First(D5 \o t, "stopCounter", D4 \o t)
      /\ First(D4 \o t, "stopAlert", D3 \o t) /\ First(D3 \o t, "noSid", D2 \o t)
      /\ First(D2 \o t, "noSubs", D1 \o t) /\ First(D1 \o t, "tellOff", <<>> \o t)
  BY PlansGo, FirstThen
<1> QED BY <1>1, <1>3, <1>4

\* The calls that end in a restart, whatever follows it.
LEMMA CallsGo ==
  /\ First(StartXLog, "insert", Restart \o <<>>) /\ First(StopXLog, "remove", Restart \o <<>>)
  /\ First(ForgetWindow, "forget", Restart \o <<>>)
  /\ First(Refresh, "needSid", Restart \o <<"again">>)
  /\ First(Leave, "remove", Restart \o Disconnect)
  /\ First(Switch, "remove", Restart \o (Disconnect \o Connect))
<1>1. Restart \o <<>> = Restart /\ <<>> \o Restart = Restart
  BY PlansAre, ConcatEmptySeq DEF Plans
<1>2. ASSUME NEW x \in Steps PROVE First(<<x>> \o Restart, x, Restart)
  BY <1>1, PlansGo, PlansAre, FirstThen
<1>3. /\ First(StartXLog, "insert", Restart) /\ First(StopXLog, "remove", Restart)
      /\ First(ForgetWindow, "forget", Restart) /\ First(<<"needSid">> \o Restart, "needSid", Restart)
  BY <1>2 DEF StartXLog, StopXLog, ForgetWindow, Steps
<1>4. First(Refresh, "needSid", Restart \o <<"again">>)
  BY <1>3, PlansAre, FirstThen DEF Refresh, Tails
<1>5. First(Leave, "remove", Restart \o Disconnect)
  BY <1>3, PlansAre, FirstThen DEF Leave
<1>6. First(Switch, "remove", (Restart \o Disconnect) \o Connect)
  BY <1>5, PlansAre, FirstThen DEF Switch
<1>7. (Restart \o Disconnect) \o Connect = Restart \o (Disconnect \o Connect)
  BY PlansAre, ConcatAssociative DEF Plans
<1> QED BY <1>1, <1>3, <1>4, <1>5, <1>6, <1>7

-----------------------------------------------------------------------------
(* The invariant.                                                          *)

\* The stream is for what is registered, from the collector of the session; in
\* the demo mode it is left as it is, and there is one.
UnionOpen == IF Wanted = {} THEN streams["XLog"] = None ELSE LiveFor(Wanted, host)
InStep == IF server = Demo THEN streams["XLog"] # None ELSE UnionOpen
\* No stream is open, and none should be.
Closed == Wanted = {} /\ streams["XLog"] = None /\ server # Demo

\* Where a call that met no other one is, and what is then true: it starts or
\* stops the counters or the alerts; it is about to change what is registered,
\* or to refresh; it reopens the stream; it ends a refresh; it disconnects; it
\* connects; it begins the demo mode.
Feeding(p) ==
    /\ loc[p].kind \in {"Counter", "Alert"} /\ ~loc[p].heals
    /\ todo[p] \in {StartFeed, F2, R1, StopFeed}
    /\ todo[p] = R1 => /\ loc[p].token \in DOMAIN tokens
                       /\ tokens[loc[p].token].kind = loc[p].kind
    /\ quiet => InStep
Asking(p) ==
    /\ loc[p].kind = "XLog" /\ ~loc[p].heals
    /\ \E t \in Tails, x \in {"insert", "remove", "forget", "needSid"} :
          First(todo[p], x, Restart \o t)
    /\ quiet => InStep
Opening(p) ==
    /\ loc[p].kind = "XLog" /\ ~loc[p].heals
    /\ \E t \in Tails :
        \/ todo[p] = Restart \o t /\ (quiet /\ server = Demo => streams["XLog"] # None)
        \/ /\ server # Demo
           /\ \/ todo[p] = R4 \o t
              \/ todo[p] = D6 \o t /\ Wanted = {}
              \/ /\ loc[p].objs = Wanted /\ Wanted # {}
                 /\ \/ todo[p] = R3 \o t
                    \/ /\ loc[p].token = streams["XLog"] /\ streams["XLog"] # None
                       /\ \/ todo[p] = R2 \o t
                          \/ todo[p] = R1 \o t /\ loc[p].to = host
Reloading(p) == todo[p] = <<"again">> /\ (quiet \/ loc[p].heals => InStep)
Leaving(p) ==
    \E t \in {<<>>, Connect} :
        \/ todo[p] = Disconnect \o t
        \/ /\ loc[p].heals /\ streams["XLog"] = None
           /\ \/ todo[p] \in {D5 \o t, D4 \o t, D3 \o t}
              \/ todo[p] = D2 \o t /\ server # Demo
              \/ todo[p] = D1 \o t /\ Closed
Connecting(p) ==
    /\ todo[p] \in {Connect, C2, C1}
    /\ quiet \/ loc[p].heals => Closed
Mocking(p) ==
    /\ loc[p].kind = "XLog"
    /\ \/ todo[p] = MockStream
       \/ /\ streams["XLog"] # None
          /\ \/ todo[p] = M3
             \/ todo[p] \in {M2, M1} /\ server = Demo
Stage(p) ==
    \/ Feeding(p) \/ Asking(p) \/ Opening(p) \/ Reloading(p)
    \/ Leaving(p) \/ Connecting(p) \/ Mocking(p)

\* The place of a kind holds a token of that kind.
Places == \A k \in AllKinds : streams[k] # None =>
             streams[k] \in DOMAIN tokens /\ tokens[streams[k]].kind = k
\* A call is calm only while it is the only one.
Alone == \A p, q \in Processes : Busy(p) /\ calm[p] /\ Busy(q) => q = p
\* When no call is in flight, and no race is left to repair, the stream is right.
Ease == quiet /\ (\A p \in Processes : ~Busy(p)) => InStep
Sound(p) == Busy(p) /\ calm[p] => Stage(p)
\* The inductive invariant.
UnionInv ==
    /\ DOMAIN todo = Processes /\ DOMAIN loc = Processes
    /\ Places /\ Alone /\ Ease
    /\ \A p \in Processes : Sound(p)

\* What a call leaves behind, whether it has ended or not.
Fine(p) == IF Busy(p) THEN Stage(p) ELSE quiet => InStep

\* Call p, which met no other one, has made a step.
After(p, rest, local) ==
    /\ todo'[p] = rest
    /\ rest # <<>> => loc'[p] = local /\ (quiet' => quiet)
    /\ rest = <<>> => (quiet' => quiet \/ local.heals)

\* What a step of a call does to the lists of steps and to the history.
LEMMA Went ==
    ASSUME UnionInv, NEW p \in Processes, NEW rest, NEW local, GoOn(p, rest, local)
    PROVE  /\ After(p, rest, local)
           /\ DOMAIN todo' = Processes /\ DOMAIN loc' = Processes /\ calm' = calm
           /\ \A q \in Processes : q # p => todo'[q] = todo[q]
           /\ rest = <<>> => (quiet' => calm[p])
BY DEF GoOn, UnionInv, After

\* The step a call takes is the one its list begins with.
LEMMA StepOf ==
    ASSUME NEW p, Step(p), NEW head, NEW u, First(todo[p], head, u)
    PROVE  /\ head = "insert" => Insert(p)
           /\ head = "remove" => Remove(p)
           /\ head = "forget" => Forget(p)
           /\ head = "noSubs" => ClearSubs(p)
           /\ head = "setHost" => SetHost(p)
           /\ head = "setSid" => SetSid(p)
           /\ head = "noSid" => NoSid(p)
           /\ head = "demoSid" => DemoSid(p)
           /\ head = "needSid" => NeedSid(p)
           /\ head = "tellOn" => TellOn(p)
           /\ head = "tellOff" => TellOff(p)
           /\ head = "again" => Again(p)
           /\ head = "demo" => DemoCheck(p)
           /\ head = "union" => Union(p)
           /\ head = "stopXLog" => StopStep(p, "stopXLog", "XLog")
           /\ head = "stopCounter" => StopStep(p, "stopCounter", "Counter")
           /\ head = "stopAlert" => StopStep(p, "stopAlert", "Alert")
           /\ head = "stop" => Stop(p)
           /\ head = "take" => TakeToken(p)
           /\ head = "params" => Params(p)
           /\ head = "spawn" => Spawn(p)
           /\ head = "mock" => Mock(p)
<1>1. Head(todo[p]) = head
  BY DEF First
<1>2. /\ Insert(p) => head = "insert"
      /\ Remove(p) => head = "remove"
      /\ Forget(p) => head = "forget"
      /\ ClearSubs(p) => head = "noSubs"
      /\ SetHost(p) => head = "setHost"
  BY <1>1 DEF Insert, Remove, Forget, ClearSubs, SetHost, At
<1>3. /\ SetSid(p) => head = "setSid"
      /\ NoSid(p) => head = "noSid"
      /\ DemoSid(p) => head = "demoSid"
      /\ NeedSid(p) => head = "needSid"
  BY <1>1 DEF SetSid, NoSid, DemoSid, SetServer, NeedSid, At
<1>4. /\ TellOn(p) => head = "tellOn"
      /\ TellOff(p) => head = "tellOff"
      /\ Again(p) => head = "again"
      /\ DemoCheck(p) => head = "demo"
      /\ Union(p) => head = "union"
  BY <1>1 DEF TellOn, TellOff, Tell, Again, DemoCheck, Union, At
<1>5. /\ StopStep(p, "stopXLog", "XLog") => head = "stopXLog"
      /\ StopStep(p, "stopCounter", "Counter") => head = "stopCounter"
      /\ StopStep(p, "stopAlert", "Alert") => head = "stopAlert"
      /\ Stop(p) => head = "stop"
  BY <1>1 DEF StopStep, Stop, At
<1>6. /\ TakeToken(p) => head = "take"
      /\ Params(p) => head = "params"
      /\ Spawn(p) => head = "spawn"
      /\ Mock(p) => head = "mock"
  BY <1>1 DEF TakeToken, Params, Spawn, Mock, SpawnAs, At
<1> QED BY <1>2, <1>3, <1>4, <1>5, <1>6 DEF Step, StopAll

\* The XLog stream, and what it is to be for, are left as they are.
Unmoved ==
    /\ UNCHANGED <<server, host, xlog_subs>>
    /\ streams'["XLog"] = streams["XLog"]
    /\ streams["XLog"] # None =>
          /\ tokens'[streams["XLog"]].objs = tokens[streams["XLog"]].objs
          /\ tokens'[streams["XLog"]].to = tokens[streams["XLog"]].to

\* What is true of the stream stays true while neither it nor what is wanted changes.
LEMMA InStepStays == ASSUME Unmoved PROVE InStep => InStep'
BY DEF Unmoved, InStep, UnionOpen, LiveFor, Wanted

\* Issuing a token of a kind puts it in the place of that kind, and disturbs no other.
LEMMA TakePlaces ==
    ASSUME Typed, Places, NEW k \in AllKinds, NEW new, new.kind = k, new \in Token,
           tokens' = Append(Stopped(k), new),
           streams' = [streams EXCEPT ![k] = Len(tokens) + 1]
    PROVE  /\ Places'
           /\ Len(tokens) + 1 \in DOMAIN tokens' /\ tokens'[Len(tokens) + 1] = new
           /\ streams'[k] = Len(tokens) + 1 /\ streams'[k] # None
           /\ k # "XLog" /\ UNCHANGED <<server, host, xlog_subs>> => Unmoved
<1>1. /\ Stopped(k) \in Seq(Token) /\ Len(Stopped(k)) = Len(tokens) /\ Len(tokens) \in Nat
      /\ \A t \in DOMAIN tokens : Stopped(k)[t].kind = tokens[t].kind
  BY StoppedTokens DEF Typed
<1>2. /\ DOMAIN tokens = 1 .. Len(tokens) /\ DOMAIN tokens' = 1 .. Len(tokens) + 1
      /\ tokens'[Len(tokens) + 1] = new
      /\ \A t \in DOMAIN tokens : tokens'[t] = Stopped(k)[t]
  BY <1>1 DEF Typed
<1>3. /\ \A j \in AllKinds : streams'[j] = IF j = k THEN Len(tokens) + 1 ELSE streams[j]
      /\ Len(tokens) + 1 # None
  BY <1>1, StreamsAssumption DEF Typed
<1>4. Places'
  BY <1>1, <1>2, <1>3 DEF Places
<1>5. ASSUME k # "XLog", UNCHANGED <<server, host, xlog_subs>>, streams["XLog"] # None
      PROVE  tokens'[streams["XLog"]] = tokens[streams["XLog"]]
  <2>1. streams["XLog"] \in DOMAIN tokens /\ tokens[streams["XLog"]].kind = "XLog"
    BY <1>5 DEF Places, AllKinds
  <2>2. streams["XLog"] # streams[k]
    BY <1>5, <2>1 DEF Places
  <2> QED BY <2>1, <2>2, <1>2 DEF Stopped
<1>6. k # "XLog" /\ UNCHANGED <<server, host, xlog_subs>> => Unmoved
  BY <1>3, <1>5 DEF Unmoved, AllKinds
<1> QED BY <1>1, <1>2, <1>3, <1>4, <1>6

\* Stopping a kind empties its place, and disturbs no other.
LEMMA StopPlaces ==
    ASSUME Typed, Places, NEW k \in AllKinds, tokens' = Stopped(k),
           streams' = [streams EXCEPT ![k] = None]
    PROVE  /\ Places' /\ streams'[k] = None
           /\ k # "XLog" => streams'["XLog"] = streams["XLog"]
           /\ k # "XLog" /\ UNCHANGED <<server, host, xlog_subs>> => Unmoved
<1>1. /\ DOMAIN tokens' = DOMAIN tokens
      /\ \A t \in DOMAIN tokens : tokens'[t].kind = tokens[t].kind
  BY StoppedTokens DEF Typed, Stopped
<1>2. \A j \in AllKinds : streams'[j] = IF j = k THEN None ELSE streams[j]
  BY DEF Typed
<1>3. Places'
  BY <1>1, <1>2 DEF Places
<1>4. ASSUME k # "XLog", streams["XLog"] # None
      PROVE  tokens'[streams["XLog"]] = tokens[streams["XLog"]]
  <2>1. streams["XLog"] \in DOMAIN tokens /\ tokens[streams["XLog"]].kind = "XLog"
    BY <1>4 DEF Places, AllKinds
  <2>2. streams["XLog"] # streams[k]
    BY <1>4, <2>1 DEF Places
  <2> QED BY <2>1, <2>2 DEF Stopped
<1> QED BY <1>2, <1>3, <1>4 DEF Unmoved, AllKinds

\* The task of a token is for what its call asked, and no other token is touched.
LEMMA SpawnPlaces ==
    ASSUME Typed, Places, NEW t, NEW state, NEW objs, NEW to, UNCHANGED streams,
           tokens' = [tokens EXCEPT ![t].state = state, ![t].objs = objs, ![t].to = to]
    PROVE  /\ Places'
           /\ t \in DOMAIN tokens => tokens'[t].objs = objs /\ tokens'[t].to = to
           /\ /\ t \in DOMAIN tokens /\ tokens[t].kind # "XLog"
              /\ UNCHANGED <<server, host, xlog_subs>>
              => Unmoved
<1>1. DOMAIN tokens' = DOMAIN tokens
  OBVIOUS
<1>2. \A i \in DOMAIN tokens : tokens[i] \in Token
  BY DEF Typed
<1>3. ASSUME NEW i \in DOMAIN tokens
      PROVE  /\ i # t => tokens'[i] = tokens[i]
             /\ i = t => tokens'[i] = [tokens[i] EXCEPT !.state = state, !.objs = objs, !.to = to]
  OBVIOUS
<1>4. \A i \in DOMAIN tokens : tokens'[i].kind = tokens[i].kind
  BY <1>2, <1>3 DEF Token
<1>5. Places'
  BY <1>1, <1>4 DEF Places
<1>6. t \in DOMAIN tokens => tokens'[t].objs = objs /\ tokens'[t].to = to
  BY <1>2, <1>3 DEF Token
<1>7. ASSUME t \in DOMAIN tokens, tokens[t].kind # "XLog", streams["XLog"] # None
      PROVE  tokens'[streams["XLog"]] = tokens[streams["XLog"]]
  BY <1>7, <1>3 DEF Places, AllKinds
<1> QED BY <1>5, <1>6, <1>7 DEF Unmoved

-----------------------------------------------------------------------------
(* The stages, step by step.                                               *)

\* What every step lemma starts from.
Going(p) == Typed /\ UnionInv /\ p \in Processes /\ calm[p] /\ Step(p)

\* A call that takes a step has steps left, and locals of its type.
LEMMA GoingTyped ==
    ASSUME NEW p, Going(p)
    PROVE  loc[p] \in Locals /\ Places /\ Busy(p)
BY DEF Going, UnionInv, Typed, Step, Insert, Remove, Forget, ClearSubs, SetHost, SetSid, NoSid,
       DemoSid, SetServer, NeedSid, TellOn, TellOff, Tell, Again, DemoCheck, Union, StopAll,
       StopStep, Stop, TakeToken, Params, Spawn, Mock, SpawnAs, At

\* A call that has come to the end of a restart goes on with what follows it.
LEMMA Rests ==
    ASSUME NEW p \in Processes, NEW t \in Tails, NEW local, After(p, t, local),
           quiet \/ local.heals => InStep'
    PROVE  Fine(p)'
<1>1. CASE t = <<>>
  BY <1>1 DEF After, Fine, Busy
<1>2. CASE t = <<"again">>
  <2>1. t # <<>>
    BY <1>2
  <2>2. Reloading(p)'
    BY <1>2, <2>1 DEF After, Reloading
  <2> QED BY <2>1, <2>2 DEF After, Fine, Busy, Stage
<1>3. CASE t \in {Disconnect, Disconnect \o Connect}
  <2>a. Disconnect = Disconnect \o <<>> /\ Disconnect # <<>>
    BY PlansAre, PlansGo, ConcatEmptySeq DEF First, Plans
  <2>b. Disconnect \o Connect # <<>>
    BY PlansAre, TailsGo DEF First
  <2>1. t # <<>> /\ Disconnect = Disconnect \o <<>>
    BY <1>3, <2>a, <2>b
  <2>2. Leaving(p)'
    BY <1>3, <2>1 DEF After, Leaving
  <2> QED BY <2>1, <2>2 DEF After, Fine, Busy, Stage
<1> QED BY <1>1, <1>2, <1>3 DEF Tails

\* A call for the counters or the alerts leaves the XLog stream alone.
LEMMA FeedingStep == ASSUME NEW p, Going(p), Feeding(p) PROVE Fine(p)'
<1>0. Typed /\ UnionInv /\ p \in Processes /\ loc[p] \in Locals /\ Places
  BY GoingTyped DEF Going
<1>1. CASE todo[p] = StartFeed
  <2>1. First(todo[p], "params", F2)
    BY <1>1, PlansGo
  <2>2. Params(p) /\ Tail(todo[p]) = F2
    BY <2>1, StepOf DEF Going, First
  <2>3. After(p, F2, [loc[p] EXCEPT !.to = host]) /\ UNCHANGED backend
    BY <2>2, <1>0, Went DEF Params
  <2>4. F2 # <<>> /\ F2 # R1 /\ Unmoved
    BY <2>3 DEF backend, Unmoved, F2, R1
  <2>5. [loc[p] EXCEPT !.to = host].kind = loc[p].kind /\ [loc[p] EXCEPT !.to = host].heals = loc[p].heals
    BY <1>0 DEF Locals
  <2>6. Feeding(p)'
    BY <2>3, <2>4, <2>5, InStepStays DEF After, Feeding
  <2> QED BY <2>3, <2>4, <2>6 DEF After, Fine, Busy, Stage
<1>2. CASE todo[p] = F2
  <2>1. First(todo[p], "take", R1)
    BY <1>2, PlansGo
  <2>2. TakeToken(p) /\ Tail(todo[p]) = R1
    BY <2>1, StepOf DEF Going, First
  <2> DEFINE local == [loc[p] EXCEPT !.token = Len(tokens) + 1]
             new == [kind |-> loc[p].kind, stopped |-> FALSE, state |-> "new",
                     objs |-> {}, to |-> None]
  <2>3. /\ GoOn(p, R1, local) /\ UNCHANGED <<server, host, xlog_subs>>
        /\ tokens' = Append(Stopped(loc[p].kind), new)
        /\ streams' = [streams EXCEPT ![loc[p].kind] = Len(tokens) + 1]
    BY <2>2 DEF TakeToken
  <2>4. local.kind = loc[p].kind /\ local.heals = loc[p].heals /\ local.token = Len(tokens) + 1
    BY <1>0 DEF Locals
  <2>5. new \in Token /\ new.kind = loc[p].kind /\ loc[p].kind \in AllKinds /\ loc[p].kind # "XLog"
    BY <1>0 DEF Token, Locals, Feeding
  <2> HIDE DEF local, new
  <2>6. /\ Unmoved /\ Len(tokens) + 1 \in DOMAIN tokens'
        /\ tokens'[Len(tokens) + 1] = new
    BY <2>3, <2>5, <1>0, TakePlaces
  <2>7. After(p, R1, local) /\ R1 # <<>>
    BY <2>3, <1>0, Went DEF R1
  <2>8. Feeding(p)'
    BY <2>4, <2>5, <2>6, <2>7, InStepStays DEF After, Feeding
  <2> QED BY <2>7, <2>8 DEF After, Fine, Busy, Stage
<1>3. CASE todo[p] = R1
  <2>1. First(todo[p], "spawn", <<>>)
    BY <1>3, PlansGo
  <2>2. Spawn(p) /\ Tail(todo[p]) = <<>>
    BY <2>1, StepOf DEF Going, First
  <2> DEFINE local == [loc[p] EXCEPT !.heals = @ \/ loc[p].kind = "XLog"]
  <2>3. /\ GoOn(p, <<>>, local) /\ UNCHANGED <<server, host, xlog_subs, streams>>
        /\ tokens' = [tokens EXCEPT ![loc[p].token].state = "open", ![loc[p].token].objs = loc[p].objs,
                                    ![loc[p].token].to = loc[p].to]
    BY <2>2 DEF Spawn, SpawnAs
  <2>4. ~local.heals
    BY <1>0 DEF Locals, Feeding
  <2> HIDE DEF local
  <2>5. Unmoved
    BY <2>3, <1>0, <1>3, SpawnPlaces DEF Feeding
  <2>6. After(p, <<>>, local)
    BY <2>3, <1>0, Went
  <2> QED BY <2>4, <2>5, <2>6, InStepStays DEF After, Fine, Busy, Feeding
<1>4. CASE todo[p] = StopFeed
  <2>1. First(todo[p], "stop", <<>>)
    BY <1>4, PlansGo DEF StopFeed, Steps
  <2>2. Stop(p) /\ Tail(todo[p]) = <<>>
    BY <2>1, StepOf DEF Going, First
  <2> DEFINE local == [loc[p] EXCEPT !.heals = loc[p].kind = "XLog" \/ @]
  <2>3. /\ GoOn(p, <<>>, local) /\ UNCHANGED <<server, host, xlog_subs>>
        /\ tokens' = Stopped(loc[p].kind)
        /\ streams' = [streams EXCEPT ![loc[p].kind] = None]
    BY <2>2 DEF Stop, StopStep
  <2>4. ~local.heals /\ loc[p].kind \in AllKinds /\ loc[p].kind # "XLog"
    BY <1>0 DEF Locals, Feeding
  <2> HIDE DEF local
  <2>5. Unmoved
    BY <2>3, <2>4, <1>0, StopPlaces
  <2>6. After(p, <<>>, local)
    BY <2>3, <1>0, Went
  <2> QED BY <2>4, <2>5, <2>6, InStepStays DEF After, Fine, Busy, Feeding
<1> QED BY <1>1, <1>2, <1>3, <1>4 DEF Feeding

\* A call that changes the registered objects has a restart before it.
LEMMA AskingStep == ASSUME NEW p, Going(p), Asking(p) PROVE Fine(p)'
<1>0. Typed /\ UnionInv /\ p \in Processes /\ loc[p] \in Locals /\ Places
  BY GoingTyped DEF Going
<1>1. PICK t \in Tails, x \in {"insert", "remove", "forget", "needSid"} :
         First(todo[p], x, Restart \o t)
  BY DEF Asking
<1>2. t \in Plans /\ Restart \o t # <<>> /\ Tail(todo[p]) = Restart \o t
  <2>1. t \in Plans
    BY PlansAre
  <2> QED BY <2>1, <1>1, TailsGo DEF First
<1>a. ASSUME Keep(p), UNCHANGED <<server, streams>>
      PROVE  Fine(p)'
  <2>1. After(p, Restart \o t, loc[p])
    BY <1>0, <1>2, <1>a, Went DEF Keep
  <2>2. Opening(p)'
    BY <2>1, <1>2, <1>a DEF After, Opening, Asking, InStep
  <2> QED BY <2>1, <2>2, <1>2 DEF After, Fine, Busy, Stage
<1>3. CASE x \in {"insert", "remove"}
  <2>1. Insert(p) \/ Remove(p)
    BY <1>1, <1>3, StepOf DEF Going
  <2> QED BY <2>1, <1>a DEF Insert, Remove
<1>4. CASE x = "forget"
  <2>1. Forget(p)
    BY <1>1, <1>4, StepOf DEF Going
  <2>2. CASE loc[p].win \in DOMAIN xlog_subs
    BY <2>1, <2>2, <1>a DEF Forget
  <2>3. CASE loc[p].win \notin DOMAIN xlog_subs
    <3>1. /\ GoOn(p, <<>>, loc[p]) /\ UNCHANGED <<server, host, streams, tokens>>
          /\ xlog_subs' = Without(loc[p].win)
      BY <2>1, <2>3 DEF Forget
    <3>2. DOMAIN xlog_subs' = DOMAIN xlog_subs /\ \A w \in DOMAIN xlog_subs : xlog_subs'[w] = xlog_subs[w]
      BY <3>1, <2>3 DEF Without
    <3>3. Wanted' = Wanted
      BY <3>2 DEF Wanted
    <3>4. InStep => InStep'
      BY <3>1, <3>3 DEF InStep, UnionOpen, LiveFor
    <3>5. After(p, <<>>, loc[p])
      BY <3>1, <1>0, Went
    <3> QED BY <3>4, <3>5 DEF After, Fine, Busy, Asking
  <2> QED BY <2>2, <2>3
<1>5. CASE x = "needSid"
  <2>1. NeedSid(p)
    BY <1>1, <1>5, StepOf DEF Going
  <2>2. UNCHANGED backend
    BY <2>1 DEF NeedSid
  <2>3. CASE Keep(p)
    BY <2>2, <2>3, <1>a DEF backend
  <2>4. CASE GoOn(p, <<"again">>, loc[p])
    <3>1. After(p, <<"again">>, loc[p]) /\ <<"again">> # <<>> /\ Unmoved
      BY <2>2, <2>4, <1>0, Went DEF backend, Unmoved
    <3>2. Reloading(p)'
      BY <3>1, InStepStays DEF After, Reloading, Asking
    <3> QED BY <3>1, <3>2 DEF After, Fine, Busy, Stage
  <2> QED BY <2>1, <2>3, <2>4 DEF NeedSid
<1> QED BY <1>3, <1>4, <1>5

\* A restart that meets no other call opens the stream for what is registered,
\* from the collector of the session, or stops it when nothing is.
LEMMA OpeningStep == ASSUME NEW p, Going(p), Opening(p) PROVE Fine(p)'
<1>0. Typed /\ UnionInv /\ p \in Processes /\ loc[p] \in Locals /\ Places
  BY GoingTyped DEF Going
<1>k. loc[p].kind = "XLog" /\ ~loc[p].heals
  BY DEF Opening
<1>1. PICK t \in Tails :
        \/ todo[p] = Restart \o t /\ (quiet /\ server = Demo => streams["XLog"] # None)
        \/ /\ server # Demo
           /\ \/ todo[p] = R4 \o t
              \/ todo[p] = D6 \o t /\ Wanted = {}
              \/ /\ loc[p].objs = Wanted /\ Wanted # {}
                 /\ \/ todo[p] = R3 \o t
                    \/ /\ loc[p].token = streams["XLog"] /\ streams["XLog"] # None
                       /\ \/ todo[p] = R2 \o t
                          \/ todo[p] = R1 \o t /\ loc[p].to = host
  BY DEF Opening
<1>t. t \in Plans
  BY PlansAre
<1>go. /\ First(Restart \o t, "demo", R4 \o t) /\ First(R4 \o t, "union", R3 \o t)
       /\ First(R3 \o t, "take", R2 \o t) /\ First(R2 \o t, "params", R1 \o t)
       /\ First(R1 \o t, "spawn", t) /\ First(D6 \o t, "stopXLog", t)
  BY <1>t, TailsGo
<1>some. R4 \o t # <<>> /\ R3 \o t # <<>> /\ R2 \o t # <<>> /\ R1 \o t # <<>> /\ D6 \o t # <<>>
  BY <1>go DEF First
<1>o. ASSUME Opening(p)', todo'[p] # <<>>
      PROVE  Fine(p)'
  BY <1>o DEF Fine, Busy, Stage
<1>2. CASE todo[p] = Restart \o t /\ (quiet /\ server = Demo => streams["XLog"] # None)
  <2>1. DemoCheck(p) /\ Tail(todo[p]) = R4 \o t
    BY <1>2, <1>go, StepOf DEF Going, First
  <2>2. Drop(p, Len(Restart)) = t
    BY <1>2, <1>t, PlansAre, DropFirst DEF Drop
  <2>3. UNCHANGED backend /\ Unmoved
    BY <2>1 DEF DemoCheck, backend, Unmoved
  <2>4. CASE server = Demo
    <3>1. After(p, t, loc[p])
      BY <2>1, <2>2, <2>4, <1>0, Went DEF DemoCheck
    <3>2. quiet => InStep
      BY <1>2, <2>4 DEF InStep
    <3> QED BY <3>1, <3>2, <1>0, <1>k, <2>3, InStepStays, Rests
  <2>5. CASE server # Demo
    <3>1. After(p, R4 \o t, loc[p])
      BY <2>1, <2>5, <1>0, Went DEF DemoCheck
    <3> QED BY <3>1, <1>o, <1>some, <1>k, <2>3, <2>5 DEF After, Opening, backend
  <2> QED BY <2>4, <2>5
<1>3. CASE todo[p] = R4 \o t /\ server # Demo
  <2>1. Union(p) /\ Tail(todo[p]) = R3 \o t
    BY <1>3, <1>go, StepOf DEF Going, First
  <2>2. Drop(p, Len(Restart) - 1) = t
    <3>1. Len(Restart) - 1 = Len(R4)
      BY PlansAre
    <3> QED BY <3>1, <1>3, <1>t, PlansAre, DropFirst DEF Drop
  <2>3. UNCHANGED backend
    BY <2>1 DEF Union
  <2> DEFINE local == [loc[p] EXCEPT !.objs = Wanted]
  <2>4. GoOn(p, IF Wanted = {} THEN D6 \o t ELSE R3 \o t, local)
    BY <2>1, <2>2 DEF Union, Wanted, D6
  <2>5. local.kind = "XLog" /\ ~local.heals /\ local.objs = Wanted
    BY <1>0, <1>k DEF Locals
  <2> HIDE DEF local
  <2>6. Wanted' = Wanted /\ server' # Demo
    BY <1>3, <2>3 DEF backend, Wanted
  <2>7. CASE Wanted = {}
    <3>1. After(p, D6 \o t, local)
      BY <2>4, <2>7, <1>0, Went
    <3> QED BY <3>1, <1>o, <1>some, <2>5, <2>6, <2>7 DEF After, Opening
  <2>8. CASE Wanted # {}
    <3>1. After(p, R3 \o t, local)
      BY <2>4, <2>8, <1>0, Went
    <3> QED BY <3>1, <1>o, <1>some, <2>5, <2>6, <2>8 DEF After, Opening
  <2> QED BY <2>7, <2>8
<1>4. CASE todo[p] = D6 \o t /\ Wanted = {} /\ server # Demo
  <2>1. StopStep(p, "stopXLog", "XLog") /\ Tail(todo[p]) = t
    BY <1>4, <1>go, StepOf DEF Going, First
  <2>2. /\ streams' = [streams EXCEPT !["XLog"] = None]
        /\ UNCHANGED <<server, host, xlog_subs>>
    BY <2>1 DEF StopStep
  <2>3. streams'["XLog"] = None
    BY <2>2, <1>0 DEF Typed, AllKinds
  <2>4. InStep'
    BY <2>2, <2>3, <1>4 DEF InStep, UnionOpen, Wanted
  <2>5. PICK local : After(p, t, local)
    BY <2>1, <1>0, Went DEF StopStep
  <2> QED BY <2>4, <2>5, <1>0, Rests
<1>5. CASE todo[p] = R3 \o t /\ server # Demo /\ loc[p].objs = Wanted /\ Wanted # {}
  <2>1. TakeToken(p) /\ Tail(todo[p]) = R2 \o t
    BY <1>5, <1>go, StepOf DEF Going, First
  <2> DEFINE local == [loc[p] EXCEPT !.token = Len(tokens) + 1]
             new == [kind |-> loc[p].kind, stopped |-> FALSE, state |-> "new",
                     objs |-> {}, to |-> None]
  <2>2. /\ GoOn(p, R2 \o t, local) /\ UNCHANGED <<server, host, xlog_subs>>
        /\ tokens' = Append(Stopped("XLog"), new)
        /\ streams' = [streams EXCEPT !["XLog"] = Len(tokens) + 1]
    BY <2>1, <1>k DEF TakeToken
  <2>3. /\ local.kind = "XLog" /\ ~local.heals /\ local.token = Len(tokens) + 1
        /\ local.objs = loc[p].objs
    BY <1>0, <1>k DEF Locals
  <2>4. new \in Token /\ new.kind = "XLog" /\ "XLog" \in AllKinds
    BY <1>k DEF Token, AllKinds
  <2> HIDE DEF local, new
  <2>5. streams'["XLog"] = Len(tokens) + 1 /\ streams'["XLog"] # None
    BY <2>2, <2>4, <1>0, TakePlaces
  <2>6. After(p, R2 \o t, local)
    BY <2>2, <1>0, Went
  <2>7. Wanted' = Wanted
    BY <2>2 DEF Wanted
  <2> QED BY <1>5, <1>o, <1>some, <2>2, <2>3, <2>5, <2>6, <2>7 DEF After, Opening
<1>6. CASE /\ todo[p] = R2 \o t /\ server # Demo /\ loc[p].objs = Wanted /\ Wanted # {}
           /\ loc[p].token = streams["XLog"] /\ streams["XLog"] # None
  <2>1. Params(p) /\ Tail(todo[p]) = R1 \o t
    BY <1>6, <1>go, StepOf DEF Going, First
  <2> DEFINE local == [loc[p] EXCEPT !.to = host]
  <2>2. GoOn(p, R1 \o t, local) /\ UNCHANGED backend
    BY <2>1 DEF Params
  <2>3. /\ local.kind = "XLog" /\ ~local.heals /\ local.token = loc[p].token
        /\ local.objs = loc[p].objs /\ local.to = host
    BY <1>0, <1>k DEF Locals
  <2> HIDE DEF local
  <2>4. After(p, R1 \o t, local)
    BY <2>2, <1>0, Went
  <2>5. Wanted' = Wanted
    BY <2>2 DEF Wanted, backend
  <2> QED BY <1>6, <1>o, <1>some, <2>2, <2>3, <2>4, <2>5 DEF After, Opening, backend
<1>7. CASE /\ todo[p] = R1 \o t /\ server # Demo /\ loc[p].objs = Wanted /\ Wanted # {}
           /\ loc[p].token = streams["XLog"] /\ streams["XLog"] # None /\ loc[p].to = host
  <2>1. Spawn(p) /\ Tail(todo[p]) = t
    BY <1>7, <1>go, StepOf DEF Going, First
  <2>2. /\ UNCHANGED <<server, host, xlog_subs, streams>>
        /\ tokens' = [tokens EXCEPT ![loc[p].token].state = "open", ![loc[p].token].objs = loc[p].objs,
                                    ![loc[p].token].to = loc[p].to]
    BY <2>1 DEF Spawn, SpawnAs
  <2>3. loc[p].token \in DOMAIN tokens
    BY <1>7, <1>0 DEF Places, AllKinds
  <2>4. tokens'[loc[p].token].objs = loc[p].objs /\ tokens'[loc[p].token].to = loc[p].to
    <3>1. UNCHANGED streams
      BY <2>2
    <3> QED BY <3>1, <2>2, <2>3, <1>0, SpawnPlaces
  <2>5. InStep'
    <3>1. Wanted' = Wanted /\ UNCHANGED <<server, host, streams>>
      BY <2>2 DEF Wanted
    <3>2. LiveFor(Wanted, host)'
      BY <1>7, <2>4, <3>1 DEF LiveFor
    <3> QED BY <1>7, <3>1, <3>2 DEF InStep, UnionOpen
  <2>6. PICK local : After(p, t, local)
    BY <2>1, <1>0, Went DEF Spawn, SpawnAs
  <2> QED BY <2>5, <2>6, <1>0, Rests
<1> QED BY <1>1, <1>2, <1>3, <1>4, <1>5, <1>6, <1>7

\* The last step of a refresh asks a window to draw again, and no more.
LEMMA ReloadingStep == ASSUME NEW p, Going(p), Reloading(p) PROVE Fine(p)'
<1>0. Typed /\ UnionInv /\ p \in Processes /\ loc[p] \in Locals /\ Places
  BY GoingTyped DEF Going
<1>1. First(todo[p], "again", <<>>)
  BY PlansGo DEF Reloading, Steps
<1>2. Again(p) /\ Tail(todo[p]) = <<>>
  BY <1>1, StepOf DEF Going, First
<1>3. GoOn(p, <<>>, loc[p]) /\ UNCHANGED backend
  BY <1>2 DEF Again, Keep
<1>4. After(p, <<>>, loc[p]) /\ Unmoved
  BY <1>0, <1>3, Went DEF backend, Unmoved
<1> QED BY <1>4, InStepStays DEF After, Fine, Busy, Reloading

\* A connect that meets no other call begins and ends without a stream.
LEMMA ConnectingStep == ASSUME NEW p, Going(p), Connecting(p) PROVE Fine(p)'
<1>0. Typed /\ UnionInv /\ p \in Processes /\ loc[p] \in Locals /\ Places
  BY GoingTyped DEF Going
<1>c. ASSUME NEW s \in {C2, C1}, After(p, s, loc[p]), quiet \/ loc[p].heals => Closed'
      PROVE  Fine(p)'
  <2>1. s # <<>>
    BY DEF C2, C1
  <2>2. Connecting(p)'
    BY <1>c, <2>1 DEF After, Connecting
  <2> QED BY <1>c, <2>1, <2>2 DEF After, Fine, Busy, Stage
<1>e. ASSUME After(p, <<>>, loc[p]), quiet \/ loc[p].heals => Closed'
      PROVE  Fine(p)'
  BY <1>e DEF After, Fine, Busy, Closed, InStep, UnionOpen
<1>1. CASE todo[p] = Connect
  <2>1. First(todo[p], "setHost", C2)
    BY <1>1, PlansGo
  <2>2. SetHost(p) /\ Tail(todo[p]) = C2
    BY <2>1, StepOf DEF Going, First
  <2>3. Closed => Closed'
    BY <2>2 DEF SetHost, Closed, Wanted
  <2>4. After(p, C2, loc[p]) \/ After(p, <<>>, loc[p])
    BY <2>2, <1>0, Went DEF SetHost, Keep
  <2> QED BY <2>3, <2>4, <1>c, <1>e DEF Connecting
<1>2. CASE todo[p] = C2
  <2>1. First(todo[p], "setSid", C1)
    BY <1>2, PlansGo
  <2>2. SetSid(p) /\ Tail(todo[p]) = C1
    BY <2>1, StepOf DEF Going, First
  <2>3. server' # Demo
    BY <2>2, <1>0, StreamsAssumption DEF SetSid, SetServer, Locals
  <2>4. Closed => Closed'
    BY <2>2, <2>3 DEF SetSid, SetServer, Closed, Wanted
  <2>5. After(p, C1, loc[p])
    BY <2>2, <1>0, Went DEF SetSid, SetServer, Keep
  <2> QED BY <2>4, <2>5, <1>c DEF Connecting
<1>3. CASE todo[p] = C1
  <2>1. First(todo[p], "tellOn", <<>>)
    BY <1>3, PlansGo
  <2>2. TellOn(p) /\ Tail(todo[p]) = <<>>
    BY <2>1, StepOf DEF Going, First
  <2>3. Closed => Closed'
    BY <2>2 DEF TellOn, Tell, Closed, Wanted, backend
  <2>4. After(p, <<>>, loc[p])
    BY <2>2, <1>0, Went DEF TellOn, Tell, Keep
  <2> QED BY <2>3, <2>4, <1>e DEF Connecting
<1> QED BY <1>1, <1>2, <1>3 DEF Connecting

\* The demo mode has the place of the XLog stream before it is on screen.
LEMMA MockingStep == ASSUME NEW p, Going(p), Mocking(p) PROVE Fine(p)'
<1>0. Typed /\ UnionInv /\ p \in Processes /\ loc[p] \in Locals /\ Places
  BY GoingTyped DEF Going
<1>k. loc[p].kind = "XLog"
  BY DEF Mocking
<1>some. M3 # <<>> /\ M2 # <<>> /\ M1 # <<>>
  BY DEF M3, M2, M1
<1>o. ASSUME Mocking(p)', todo'[p] # <<>>
      PROVE  Fine(p)'
  BY <1>o DEF Fine, Busy, Stage
<1>1. CASE todo[p] = MockStream
  <2>1. First(todo[p], "take", M3)
    BY <1>1, PlansGo
  <2>2. TakeToken(p) /\ Tail(todo[p]) = M3
    BY <2>1, StepOf DEF Going, First
  <2> DEFINE local == [loc[p] EXCEPT !.token = Len(tokens) + 1]
             new == [kind |-> loc[p].kind, stopped |-> FALSE, state |-> "new",
                     objs |-> {}, to |-> None]
  <2>3. /\ GoOn(p, M3, local)
        /\ tokens' = Append(Stopped("XLog"), new)
        /\ streams' = [streams EXCEPT !["XLog"] = Len(tokens) + 1]
    BY <2>2, <1>k DEF TakeToken
  <2>4. local.kind = "XLog"
    BY <1>0, <1>k DEF Locals
  <2>5. new \in Token /\ new.kind = "XLog" /\ "XLog" \in AllKinds
    BY <1>k DEF Token, AllKinds
  <2> HIDE DEF local, new
  <2>6. streams'["XLog"] # None
    BY <2>3, <2>5, <1>0, TakePlaces
  <2>7. After(p, M3, local)
    BY <2>3, <1>0, Went
  <2> QED BY <1>o, <1>some, <2>4, <2>6, <2>7 DEF After, Mocking
<1>2. CASE todo[p] = M3 /\ streams["XLog"] # None
  <2>1. First(todo[p], "demoSid", M2)
    BY <1>2, PlansGo
  <2>2. DemoSid(p) /\ Tail(todo[p]) = M2
    BY <2>1, StepOf DEF Going, First
  <2>3. After(p, M2, loc[p]) /\ server' = Demo /\ UNCHANGED streams
    BY <2>2, <1>0, Went DEF DemoSid, SetServer, Keep
  <2> QED BY <1>k, <1>o, <1>some, <1>2, <2>3 DEF After, Mocking
<1>3. CASE todo[p] = M2 /\ streams["XLog"] # None /\ server = Demo
  <2>1. First(todo[p], "tellOn", M1)
    BY <1>3, PlansGo
  <2>2. TellOn(p) /\ Tail(todo[p]) = M1
    BY <2>1, StepOf DEF Going, First
  <2>3. After(p, M1, loc[p]) /\ UNCHANGED <<server, streams>>
    BY <2>2, <1>0, Went DEF TellOn, Tell, Keep, backend
  <2> QED BY <1>k, <1>o, <1>some, <1>3, <2>3 DEF After, Mocking
<1>4. CASE todo[p] = M1 /\ streams["XLog"] # None /\ server = Demo
  <2>1. First(todo[p], "mock", <<>>)
    BY <1>4, PlansGo
  <2>2. Mock(p) /\ Tail(todo[p]) = <<>>
    BY <2>1, StepOf DEF Going, First
  <2>3. UNCHANGED <<server, streams>> /\ \E local : After(p, <<>>, local)
    BY <2>2, <1>0, Went DEF Mock, SpawnAs
  <2> QED BY <1>4, <2>3 DEF After, Fine, Busy, InStep
<1> QED BY <1>1, <1>2, <1>3, <1>4 DEF Mocking

\* A disconnect leaves no stream, no server and no registered object.
LEMMA LeavingStep == ASSUME NEW p, Going(p), Leaving(p) PROVE Fine(p)'
<1>0. Typed /\ UnionInv /\ p \in Processes /\ loc[p] \in Locals /\ Places
  BY GoingTyped DEF Going
<1>1. PICK t \in {<<>>, Connect} :
        \/ todo[p] = Disconnect \o t
        \/ /\ loc[p].heals /\ streams["XLog"] = None
           /\ \/ todo[p] \in {D5 \o t, D4 \o t, D3 \o t}
              \/ todo[p] = D2 \o t /\ server # Demo
              \/ todo[p] = D1 \o t /\ Closed
  BY DEF Leaving
<1>t. t \in Plans
  BY PlansAre DEF Tails
<1>go. /\ First(Disconnect \o t, "stopXLog", D5 \o t) /\ First(D5 \o t, "stopCounter", D4 \o t)
       /\ First(D4 \o t, "stopAlert", D3 \o t) /\ First(D3 \o t, "noSid", D2 \o t)
       /\ First(D2 \o t, "noSubs", D1 \o t) /\ First(D1 \o t, "tellOff", t)
  BY <1>t, TailsGo
<1>some. D5 \o t # <<>> /\ D4 \o t # <<>> /\ D3 \o t # <<>> /\ D2 \o t # <<>> /\ D1 \o t # <<>>
  BY <1>go DEF First
<1>o. ASSUME Leaving(p)', todo'[p] # <<>>
      PROVE  Fine(p)'
  BY <1>o DEF Fine, Busy, Stage
<1>s. ASSUME NEW step, NEW k \in AllKinds, NEW rest \in {D5 \o t, D4 \o t, D3 \o t},
             StopStep(p, step, k), Tail(todo[p]) = rest,
             k = "XLog" \/ (loc[p].heals /\ streams["XLog"] = None)
      PROVE  Fine(p)'
  <2> DEFINE local == [loc[p] EXCEPT !.heals = k = "XLog" \/ @]
  <2>1. /\ GoOn(p, rest, local)
        /\ tokens' = Stopped(k) /\ streams' = [streams EXCEPT ![k] = None]
    BY <1>s DEF StopStep
  <2>2. local.heals
    BY <1>s, <1>0 DEF Locals
  <2> HIDE DEF local
  <2>3. streams'["XLog"] = None
    BY <2>1, <1>s, <1>0, StopPlaces
  <2>4. After(p, rest, local)
    BY <2>1, <1>0, Went
  <2> QED BY <1>s, <1>o, <1>some, <2>2, <2>3, <2>4 DEF After, Leaving
<1>2. CASE todo[p] = Disconnect \o t
  <2>1. StopStep(p, "stopXLog", "XLog") /\ Tail(todo[p]) = D5 \o t
    BY <1>2, <1>go, StepOf DEF Going, First
  <2> QED BY <2>1, <1>s DEF AllKinds
<1>3. CASE todo[p] = D5 \o t /\ loc[p].heals /\ streams["XLog"] = None
  <2>1. StopStep(p, "stopCounter", "Counter") /\ Tail(todo[p]) = D4 \o t
    BY <1>3, <1>go, StepOf DEF Going, First
  <2> QED BY <2>1, <1>3, <1>s DEF AllKinds
<1>4. CASE todo[p] = D4 \o t /\ loc[p].heals /\ streams["XLog"] = None
  <2>1. StopStep(p, "stopAlert", "Alert") /\ Tail(todo[p]) = D3 \o t
    BY <1>4, <1>go, StepOf DEF Going, First
  <2> QED BY <2>1, <1>4, <1>s DEF AllKinds
<1>5. CASE todo[p] = D3 \o t /\ loc[p].heals /\ streams["XLog"] = None
  <2>1. NoSid(p) /\ Tail(todo[p]) = D2 \o t
    BY <1>5, <1>go, StepOf DEF Going, First
  <2>2. After(p, D2 \o t, loc[p]) /\ server' = None /\ UNCHANGED streams
    BY <2>1, <1>0, Went DEF NoSid, SetServer, Keep
  <2>3. server' # Demo
    BY <2>2, StreamsAssumption
  <2> QED BY <1>o, <1>some, <1>5, <2>2, <2>3 DEF After, Leaving
<1>6. CASE todo[p] = D2 \o t /\ loc[p].heals /\ streams["XLog"] = None /\ server # Demo
  <2>1. ClearSubs(p) /\ Tail(todo[p]) = D1 \o t
    BY <1>6, <1>go, StepOf DEF Going, First
  <2>2. After(p, D1 \o t, loc[p]) /\ UNCHANGED <<server, streams>> /\ DOMAIN xlog_subs' = {}
    BY <2>1, <1>0, Went DEF ClearSubs, Keep
  <2>3. Closed'
    BY <2>2, <1>6 DEF Closed, Wanted
  <2> QED BY <1>o, <1>some, <1>6, <2>2, <2>3 DEF After, Leaving
<1>7. CASE todo[p] = D1 \o t /\ loc[p].heals /\ streams["XLog"] = None /\ Closed
  <2>1. TellOff(p) /\ Tail(todo[p]) = t
    BY <1>7, <1>go, StepOf DEF Going, First
  <2>2. After(p, t, loc[p]) /\ UNCHANGED backend
    BY <2>1, <1>0, Went DEF TellOff, Tell, Keep
  <2>3. Closed'
    BY <2>2, <1>7 DEF Closed, Wanted, backend
  <2>4. CASE t = <<>>
    BY <2>2, <2>3, <2>4 DEF After, Fine, Busy, Closed, InStep, UnionOpen
  <2>5. CASE t = Connect
    <3>1. t # <<>>
      BY <2>5, PlansGo DEF First
    <3>2. Connecting(p)'
      BY <3>1, <2>2, <2>3, <2>5 DEF After, Connecting
    <3> QED BY <3>1, <3>2, <2>2 DEF After, Fine, Busy, Stage
  <2> QED BY <2>4, <2>5
<1> QED BY <1>1, <1>2, <1>3, <1>4, <1>5, <1>6, <1>7

\* A call that met no other one is in a stage again after each of its steps.
LEMMA StageStep == ASSUME NEW p, Going(p) PROVE Fine(p)'
<1>1. Stage(p)
  BY GoingTyped DEF Going, UnionInv, Sound
<1> QED BY <1>1, FeedingStep, AskingStep, OpeningStep, ReloadingStep, LeavingStep, ConnectingStep,
           MockingStep DEF Stage

\* Every step of a call is one of the steps it has left.
LEMMA StepGoes ==
    ASSUME NEW p, Step(p)
    PROVE  Busy(p) /\ \E rest, local : GoOn(p, rest, local)
<1>1. ASSUME Insert(p) \/ Remove(p) \/ Forget(p) \/ ClearSubs(p) \/ SetHost(p)
      PROVE  Busy(p) /\ \E rest, local : GoOn(p, rest, local)
  BY <1>1 DEF Insert, Remove, Forget, ClearSubs, SetHost, At, Keep
<1>2. ASSUME SetSid(p) \/ NoSid(p) \/ DemoSid(p) \/ NeedSid(p)
      PROVE  Busy(p) /\ \E rest, local : GoOn(p, rest, local)
  BY <1>2 DEF SetSid, NoSid, DemoSid, SetServer, NeedSid, At, Keep
<1>3. ASSUME TellOn(p) \/ TellOff(p) \/ Again(p) \/ DemoCheck(p) \/ Union(p)
      PROVE  Busy(p) /\ \E rest, local : GoOn(p, rest, local)
  BY <1>3 DEF TellOn, TellOff, Tell, Again, DemoCheck, Union, At, Keep
<1>4. ASSUME StopAll(p) \/ Stop(p) \/ TakeToken(p) \/ Params(p) \/ Spawn(p) \/ Mock(p)
      PROVE  Busy(p) /\ \E rest, local : GoOn(p, rest, local)
  BY <1>4 DEF StopAll, Stop, StopStep, TakeToken, Params, Spawn, Mock, SpawnAs, At
<1> QED BY <1>1, <1>2, <1>3, <1>4 DEF Step

\* Whatever overlaps, the place of a kind holds a token of that kind.
LEMMA PlacesStep == ASSUME Typed, Places, NEW p \in Processes, Step(p) PROVE Places'
<1>0. loc[p] \in Locals
  BY DEF Typed
<1>1. ASSUME UNCHANGED <<streams, tokens>>
      PROVE  Places'
  BY <1>1 DEF Places
<1>2. CASE Insert(p) \/ Remove(p) \/ Forget(p) \/ ClearSubs(p) \/ SetHost(p)
  BY <1>1, <1>2 DEF Insert, Remove, Forget, ClearSubs, SetHost
<1>3. CASE SetSid(p) \/ NoSid(p) \/ DemoSid(p) \/ NeedSid(p)
  BY <1>1, <1>3 DEF SetSid, NoSid, DemoSid, SetServer, NeedSid, backend
<1>4. CASE TellOn(p) \/ TellOff(p) \/ Again(p) \/ DemoCheck(p) \/ Union(p) \/ Params(p)
  BY <1>1, <1>4 DEF TellOn, TellOff, Tell, Again, DemoCheck, Union, Params, backend
<1>5. ASSUME NEW step, NEW k \in AllKinds, StopStep(p, step, k)
      PROVE  Places'
  BY <1>5, StopPlaces DEF StopStep
<1>6. CASE StopAll(p) \/ Stop(p)
  BY <1>0, <1>5, <1>6 DEF StopAll, Stop, Locals, AllKinds
<1>7. CASE TakeToken(p)
  <2> DEFINE new == [kind |-> loc[p].kind, stopped |-> FALSE, state |-> "new",
                     objs |-> {}, to |-> None]
  <2>1. new \in Token /\ new.kind = loc[p].kind /\ loc[p].kind \in AllKinds
    BY <1>0 DEF Token, Locals
  <2>2. /\ tokens' = Append(Stopped(loc[p].kind), new)
        /\ streams' = [streams EXCEPT ![loc[p].kind] = Len(tokens) + 1]
    BY <1>7 DEF TakeToken
  <2> HIDE DEF new
  <2> QED BY <2>1, <2>2, TakePlaces
<1>8. ASSUME NEW step, NEW state, SpawnAs(p, step, state)
      PROVE  Places'
  <2>1. UNCHANGED streams
    BY <1>8 DEF SpawnAs
  <2> QED BY <2>1, <1>8, SpawnPlaces DEF SpawnAs
<1>9. CASE Spawn(p) \/ Mock(p)
  BY <1>8, <1>9 DEF Spawn, Mock
<1> QED BY <1>2, <1>3, <1>4, <1>6, <1>7, <1>9 DEF Step

\* No step of a call, alone or not, disturbs the invariant.
LEMMA CallUnion == ASSUME Typed, UnionInv, NEW p \in Processes, Step(p) PROVE UnionInv'
<1>1. Busy(p) /\ Places'
  BY StepGoes, PlacesStep DEF UnionInv
<1>2. PICK rest, local : GoOn(p, rest, local)
  BY StepGoes
<1>3. /\ DOMAIN todo' = Processes /\ DOMAIN loc' = Processes /\ calm' = calm
      /\ \A q \in Processes : q # p => (Busy(q)' <=> Busy(q))
      /\ ~Busy(p)' => (quiet' => calm[p])
  BY <1>2, Went DEF After, Busy
<1>4. CASE calm[p]
  <2>1. Fine(p)'
    BY <1>4, StageStep DEF Going
  <2>2. \A q \in Processes : q # p => ~Busy(q)'
    BY <1>1, <1>3, <1>4 DEF UnionInv, Alone
  <2>3. Alone'
    BY <2>2 DEF Alone
  <2>4. Ease'
    BY <2>1 DEF Ease, Fine
  <2>5. \A q \in Processes : Sound(q)'
    BY <2>1, <2>2 DEF Sound, Fine
  <2> QED BY <1>1, <1>3, <2>3, <2>4, <2>5 DEF UnionInv
<1>5. CASE ~calm[p]
  <2>1. \A q \in Processes : Busy(q)' => ~calm'[q]
    BY <1>1, <1>3, <1>5 DEF UnionInv, Alone
  <2>2. Alone' /\ \A q \in Processes : Sound(q)'
    BY <2>1 DEF Alone, Sound
  <2>3. Ease'
    BY <1>3, <1>5 DEF Ease
  <2> QED BY <1>1, <1>3, <2>2, <2>3 DEF UnionInv
<1> QED BY <1>4, <1>5

\* A change that leaves what each token is for as it is.
SameTokens ==
    /\ UNCHANGED <<server, host, xlog_subs, streams>> /\ DOMAIN tokens' = DOMAIN tokens
    /\ \A t \in DOMAIN tokens : /\ tokens'[t].kind = tokens[t].kind
                                /\ tokens'[t].objs = tokens[t].objs
                                /\ tokens'[t].to = tokens[t].to

\* A stage stays what it is while its call rests and no token changes what it is for.
LEMMA StageStays ==
    ASSUME Places, SameTokens, NEW p, UNCHANGED quiet, todo'[p] = todo[p], loc'[p] = loc[p]
    PROVE  /\ Places' /\ (InStep => InStep')
           /\ Stage(p) => Stage(p)'
<1>1. Places'
  BY DEF Places, SameTokens
<1>2. Unmoved
  BY DEF Places, SameTokens, Unmoved, AllKinds
<1>3. InStep => InStep'
  BY <1>2, InStepStays
<1>4. Wanted' = Wanted
  BY DEF SameTokens, Wanted
<1>5. Feeding(p) => Feeding(p)'
  BY <1>3 DEF Feeding, SameTokens
<1>6. Asking(p) => Asking(p)'
  BY <1>3 DEF Asking
<1>7. Opening(p) => Opening(p)'
  BY <1>4 DEF Opening, SameTokens
<1>8. Reloading(p) => Reloading(p)'
  BY <1>3 DEF Reloading
<1>9. Leaving(p) => Leaving(p)'
  BY <1>4 DEF Leaving, SameTokens, Closed
<1>10. Connecting(p) => Connecting(p)'
  BY <1>4 DEF Connecting, SameTokens, Closed
<1>11. Mocking(p) => Mocking(p)'
  BY DEF Mocking, SameTokens
<1> QED BY <1>1, <1>3, <1>5, <1>6, <1>7, <1>8, <1>9, <1>10, <1>11 DEF Stage

\* Neither does a change of the states of the tasks.
LEMMA SameUnion ==
    ASSUME UnionInv, SameTokens, UNCHANGED <<todo, loc, calm, quiet>>
    PROVE  UnionInv'
<1>0. Places
  BY DEF UnionInv
<1>1. \A p : Stage(p) => Stage(p)'
  BY <1>0, StageStays
<1>2. Places' /\ (InStep => InStep')
  BY <1>0, StageStays
<1>3. Alone' /\ Ease'
  BY <1>2 DEF UnionInv, Alone, Ease, Busy
<1>4. \A p \in Processes : Sound(p)'
  BY <1>1 DEF UnionInv, Sound, Busy
<1> QED BY <1>2, <1>3, <1>4 DEF UnionInv

-----------------------------------------------------------------------------
(* The calls that begin, and the theorem.                                  *)

\* What a call is when it begins.
Begins(r) ==
    \/ /\ r.plan \in {StartFeed, StopFeed}
       /\ r.local.kind \in {"Counter", "Alert"} /\ ~r.local.heals
    \/ /\ \E t \in Tails, x \in {"insert", "remove", "forget", "needSid"} :
             First(r.plan, x, Restart \o t)
       /\ r.local.kind = "XLog" /\ ~r.local.heals
    \/ r.plan = Connect /\ ~r.local.heals
    \/ r.plan = MockStream /\ r.local.kind = "XLog"

\* A call that begins when no other is in flight is in a stage.
LEMMA BeginsStage ==
    ASSUME NEW p, NEW r, Begins(r), ~FindsStream(r.plan), quiet => InStep, UNCHANGED <<backend, quiet>>,
           todo'[p] = r.plan, loc'[p] = r.local
    PROVE  Stage(p)'
<1>0. Unmoved
  BY DEF Unmoved, backend
<1>1. quiet' => InStep'
  BY <1>0, InStepStays
<1>2. CASE r.plan \in {StartFeed, StopFeed} /\ r.local.kind \in {"Counter", "Alert"} /\ ~r.local.heals
  <2>1. r.plan # R1
    BY <1>2 DEF StartFeed, StopFeed, R1
  <2>2. Feeding(p)'
    BY <1>1, <1>2, <2>1 DEF Feeding
  <2> QED BY <2>2 DEF Stage
<1>3. CASE /\ \E t \in Tails, x \in {"insert", "remove", "forget", "needSid"} :
                First(r.plan, x, Restart \o t)
           /\ r.local.kind = "XLog" /\ ~r.local.heals
  <2>1. Asking(p)'
    BY <1>1, <1>3 DEF Asking
  <2> QED BY <2>1 DEF Stage
<1>4. CASE r.plan = Connect /\ ~r.local.heals
  <2>1. Head(Connect) = "setHost"
    BY PlansGo DEF First
  <2>2. streams["XLog"] = None
    BY <1>4, <2>1 DEF FindsStream
  <2>3. quiet => Closed
    BY <2>2 DEF InStep, UnionOpen, LiveFor, Closed
  <2>4. Closed => Closed'
    BY DEF Closed, Wanted, backend
  <2>5. Connecting(p)'
    BY <1>4, <2>3, <2>4 DEF Connecting
  <2> QED BY <2>5 DEF Stage
<1>5. CASE r.plan = MockStream /\ r.local.kind = "XLog"
  <2>1. Mocking(p)'
    BY <1>5 DEF Mocking
  <2> QED BY <2>1 DEF Stage
<1> QED BY <1>2, <1>3, <1>4, <1>5 DEF Begins

\* A call that begins has a step to take.
LEMMA BeginsSome == ASSUME NEW r, Begins(r) PROVE r.plan # <<>>
<1>1. StartFeed # <<>> /\ StopFeed # <<>> /\ Connect # <<>> /\ MockStream # <<>>
  BY DEF StartFeed, StopFeed, Connect, MockStream
<1> QED BY <1>1 DEF Begins, First

\* The calls that begin, alone or together, do not disturb the invariant.
LEMMA LaunchUnion ==
    ASSUME UnionInv, NEW f, Launch(f), UNCHANGED backend, \A p \in DOMAIN f : Begins(f[p])
    PROVE  UnionInv'
<1>0. /\ DOMAIN todo' = Processes /\ DOMAIN loc' = Processes /\ UNCHANGED quiet
      /\ \A p \in Processes : ~(p \in DOMAIN f) => todo'[p] = todo[p] /\ loc'[p] = loc[p]
      /\ \A p \in Processes : p \in DOMAIN f =>
            ~Busy(p) /\ todo'[p] = f[p].plan /\ loc'[p] = f[p].local
  BY DEF Launch
<1>1. ASSUME NEW p \in Processes, calm'[p], Busy(p)'
      PROVE  \/ /\ p \in DOMAIN f /\ ~FindsStream(f[p].plan)
                /\ \A q \in Processes : ~Busy(q) /\ (q # p => ~(q \in DOMAIN f))
             \/ p \notin DOMAIN f /\ calm[p] /\ Busy(p) /\ DOMAIN f = {}
  <2>1. CASE p \in DOMAIN f
    BY <1>0, <1>1, <2>1 DEF Launch
  <2>2. CASE p \notin DOMAIN f
    <3>1. Busy(p)
      BY <1>0, <1>1, <2>2 DEF Busy
    <3> QED BY <3>1, <1>1, <2>2 DEF Launch
  <2> QED BY <2>1, <2>2
<1>2. SameTokens /\ Places
  BY DEF SameTokens, backend, UnionInv
<1>3. Places' /\ (InStep => InStep')
  BY <1>2 DEF SameTokens, Places, InStep, UnionOpen, LiveFor, Wanted, backend
<1>4. Alone'
  <2> SUFFICES ASSUME NEW p \in Processes, NEW q \in Processes, Busy(p)', calm'[p], Busy(q)'
               PROVE  q = p
    BY DEF Alone
  <2>1. Busy(q) \/ q \in DOMAIN f
    BY <1>0 DEF Busy
  <2> QED BY <1>1, <2>1 DEF UnionInv, Alone
<1>5. ASSUME NEW p \in Processes, Busy(p)', calm'[p]
      PROVE  Stage(p)'
  <2>1. CASE p \in DOMAIN f
    <3>1. /\ ~FindsStream(f[p].plan) /\ \A q \in Processes : ~Busy(q)
          /\ todo'[p] = f[p].plan /\ loc'[p] = f[p].local /\ Begins(f[p])
      BY <1>0, <1>1, <1>5, <2>1
    <3>2. quiet => InStep
      BY <3>1 DEF UnionInv, Ease
    <3>3. UNCHANGED <<backend, quiet>>
      BY <1>0
    <3> QED BY <3>1, <3>2, <3>3, BeginsStage
  <2>2. CASE p \notin DOMAIN f
    <3>1. calm[p] /\ Busy(p) /\ todo'[p] = todo[p] /\ loc'[p] = loc[p]
      BY <1>0, <1>1, <1>5, <2>2
    <3>2. Stage(p)
      BY <3>1 DEF UnionInv, Sound
    <3> QED BY <3>1, <3>2, <1>0, <1>2, StageStays
  <2> QED BY <2>1, <2>2
<1>6. Ease'
  <2> SUFFICES ASSUME quiet', \A p \in Processes : ~Busy(p)' PROVE InStep'
    BY DEF Ease
  <2>1. \A p \in Processes : ~(p \in DOMAIN f)
    BY <1>0, BeginsSome DEF Busy
  <2>2. \A p \in Processes : ~Busy(p)
    BY <1>0, <2>1 DEF Busy
  <2> QED BY <1>0, <1>3, <2>2 DEF UnionInv, Ease
<1> QED BY <1>0, <1>3, <1>4, <1>5, <1>6 DEF UnionInv, Sound

\* Nor do those that the effects of a window fire, whatever slots they are given.
LEMMA FireUnion ==
    ASSUME UnionInv, NEW requests, Fire(requests), UNCHANGED backend, \A r \in requests : Begins(r)
    PROVE  UnionInv'
<1> DEFINE free == {p \in Slots : ~Busy(p)}
           f == CHOOSE g \in [requests -> free] : \A r, s \in requests : r # s => g[r] # g[s]
           F == [p \in {f[r] : r \in requests} |-> CHOOSE r \in requests : f[r] = p]
<1>1. Launch(F)
  BY DEF Fire
<1>2. \A p \in DOMAIN F : Begins(F[p])
  <2>1. ASSUME NEW p \in DOMAIN F PROVE F[p] \in requests
    OBVIOUS
  <2> QED BY <2>1
<1> HIDE DEF F
<1> QED BY <1>1, <1>2, LaunchUnion

\* The calls for the counters and for the alerts.
LEMMA FeedsBegin ==
    ASSUME NEW w \in Windows, NEW objs, NEW kind \in {"Counter", "Alert"},
           NEW plan \in {StartFeed, StopFeed}
    PROVE  Begins(Request(plan, Local(kind, w, objs)))
BY DEF Begins, Request, Local, Idle

\* The calls for the XLog stream.
LEMMA XLogBegins ==
    ASSUME NEW w \in Windows, NEW pick, NEW asked
    PROVE  \A r \in XLogRequests(w, pick, asked) : Begins(r)
<1>1. \A objs : /\ Begins(Request(StartXLog, Local("XLog", w, objs)))
                /\ Begins(Request(StopXLog, Local("XLog", w, objs)))
                /\ Begins(Request(ForgetWindow, Local("XLog", w, objs)))
                /\ Begins(Request(Refresh, Local("XLog", w, objs)))
  BY CallsGo DEF Begins, Request, Local, Idle, Tails
<1> QED BY <1>1 DEF XLogRequests

\* A command of the dialog.
LEMMA CommandUnion ==
    ASSUME UnionInv, NEW plan, NEW local, Command(plan, local), Begins(Request(plan, local))
    PROVE  UnionInv'
<1> DEFINE f == [q \in {"ui"} |-> Request(plan, local)]
<1>1. Launch(f) /\ UNCHANGED backend /\ \A p \in DOMAIN f : Begins(f[p])
  BY DEF Command
<1> HIDE DEF f
<1> QED BY <1>1, LaunchUnion

\* Whatever begins.
LEMMA StartUnion == ASSUME UnionInv, Start PROVE UnionInv'
<1>1. ASSUME NEW c \in Collectors, StartConnect(c)
      PROVE  UnionInv'
  <2>1. Begins(Request(Connect, [Idle EXCEPT !.target = c]))
    BY DEF Begins, Request, Idle
  <2>2. Begins(Request(Switch, [Idle EXCEPT !.win = Main, !.target = c]))
    BY CallsGo DEF Begins, Request, Idle, Tails
  <2> QED BY <1>1, <2>1, <2>2, CommandUnion DEF StartConnect
<1>2. CASE StartDisconnect
  <2>1. Begins(Request(Leave, [Idle EXCEPT !.win = Main]))
    BY CallsGo DEF Begins, Request, Idle, Tails
  <2> QED BY <1>2, <2>1, CommandUnion DEF StartDisconnect
<1>3. CASE StartMock
  <2>1. Begins(Request(MockStream, Idle))
    BY DEF Begins, Request, Idle
  <2> QED BY <1>3, <2>1, CommandUnion DEF StartMock
<1>4. CASE StartRefresh
  <2> DEFINE f == [q \in {"f5"} |-> Request(Refresh, Local("XLog", Main, {}))]
  <2>1. Begins(Request(Refresh, Local("XLog", Main, {})))
    BY CallsGo DEF Begins, Request, Local, Idle, Tails
  <2>2. Launch(f) /\ UNCHANGED backend /\ \A p \in DOMAIN f : Begins(f[p])
    BY <1>4, <2>1 DEF StartRefresh
  <2> HIDE DEF f
  <2> QED BY <2>2, LaunchUnion
<1>5. ASSUME NEW w \in Windows, Render(w)
      PROVE  UnionInv'
  <2>1. PICK pick, asked, on : Fire(XLogRequests(w, pick, asked) \cup Alerts(w, on)) /\ UNCHANGED backend
    BY <1>5 DEF Render
  <2>2. \A r \in Alerts(w, on) : Begins(r)
    BY FeedsBegin DEF Alerts
  <2>3. \A r \in XLogRequests(w, pick, asked) : Begins(r)
    BY XLogBegins
  <2> QED BY <2>1, <2>2, <2>3, FireUnion
<1>6. ASSUME NEW w \in Windows, Close(w)
      PROVE  UnionInv'
  <2>1. Begins(Request(ForgetWindow, Local("XLog", w, {})))
    BY CallsGo DEF Begins, Request, Local, Idle, Tails
  <2> QED BY <1>6, <2>1, FireUnion DEF Close
<1>7. ASSUME NEW w \in Windows, NEW pick, Pick(w, pick)
      PROVE  UnionInv'
  <2> DEFINE feeds == IF w # Main \/ "Counter" \notin Kinds THEN {}
                      ELSE IF pick = {} THEN {Request(StopFeed, Local("Counter", w, {}))}
                      ELSE {Request(StartFeed, Local("Counter", w, pick))}
             asks == XLogRequests(w, pick, screen[w].asked)
  <2>1. \A r \in feeds : Begins(r)
    BY FeedsBegin
  <2>2. \A r \in asks : Begins(r)
    BY XLogBegins
  <2>3. Fire(asks \cup feeds) /\ UNCHANGED backend
    BY <1>7 DEF Pick
  <2> HIDE DEF feeds, asks
  <2> QED BY <2>1, <2>2, <2>3, FireUnion
<1> QED BY <1>1, <1>2, <1>3, <1>4, <1>5, <1>6, <1>7 DEF Start

\* A task changes its own state only.
LEMMA TaskUnion == ASSUME Typed, UnionInv, NEW t \in DOMAIN tokens, Task(t) PROVE UnionInv'
<1>1. PICK state : Move(t, state)
  BY DEF Task, End, Open, Broken, Retry
<1>2. /\ tokens' = [tokens EXCEPT ![t].state = state]
      /\ UNCHANGED <<server, host, xlog_subs, streams, todo, loc, calm, quiet>>
  BY <1>1 DEF Move, history
<1>3. \A i \in DOMAIN tokens : tokens[i] \in Token
  BY DEF Typed
<1>4. ASSUME NEW i \in DOMAIN tokens
      PROVE  /\ tokens'[i].kind = tokens[i].kind
             /\ tokens'[i].objs = tokens[i].objs /\ tokens'[i].to = tokens[i].to
  <2>1. tokens'[i] = IF i = t THEN [tokens[i] EXCEPT !.state = state] ELSE tokens[i]
    BY <1>2
  <2> QED BY <2>1, <1>3 DEF Token
<1>5. SameTokens
  BY <1>2, <1>4 DEF SameTokens
<1> QED BY <1>2, <1>5, SameUnion

\* So does a collector that goes down, for the tasks it had sessions with.
LEMMA DownUnion == ASSUME Typed, UnionInv, NEW c, Down(c) PROVE UnionInv'
<1>1. /\ tokens' = [t \in DOMAIN tokens |->
                     IF tokens[t].state = "poll" /\ tokens[t].to = c
                     THEN [tokens[t] EXCEPT !.state = "dead"] ELSE tokens[t]]
      /\ UNCHANGED <<server, host, xlog_subs, streams, todo, loc, calm, quiet>>
  BY DEF Down, history
<1>3. \A i \in DOMAIN tokens : tokens[i] \in Token
  BY DEF Typed
<1>4. \A i \in DOMAIN tokens :
         /\ tokens'[i].kind = tokens[i].kind
         /\ tokens'[i].objs = tokens[i].objs /\ tokens'[i].to = tokens[i].to
  BY <1>1, <1>3 DEF Token
<1>5. SameTokens
  BY <1>1, <1>4 DEF SameTokens
<1> QED BY <1>1, <1>5, SameUnion

\* In the initial state no call is in flight and no stream is open.
LEMMA UnionInit == Init => UnionInv
<1> SUFFICES ASSUME Init PROVE UnionInv
  OBVIOUS
<1>1. \A p \in Processes : ~Busy(p)
  BY DEF Init, Busy
<1>2. InStep
  BY StreamsAssumption DEF Init, InStep, UnionOpen, Wanted, AllKinds
<1>3. Places
  BY DEF Init, Places
<1>4. DOMAIN todo = Processes /\ DOMAIN loc = Processes
  BY DEF Init
<1> QED BY <1>1, <1>2, <1>3, <1>4 DEF UnionInv, Alone, Ease, Sound

\* The invariant is inductive.
LEMMA NextUnion == Typed /\ UnionInv /\ [Next]_vars => UnionInv'
<1> SUFFICES ASSUME Typed, UnionInv, [Next]_vars PROVE UnionInv'
  OBVIOUS
<1>1. ASSUME NEW p \in Processes, Step(p)
      PROVE  UnionInv'
  BY <1>1, CallUnion
<1>2. ASSUME NEW c \in Collectors, Up(c)
      PROVE  UnionInv'
  BY <1>2, SameUnion DEF Up, backend, history, SameTokens
<1>3. CASE UNCHANGED vars
  BY <1>3, SameUnion DEF vars, backend, history, SameTokens
<1> QED BY <1>1, <1>2, <1>3, StartUnion, TaskUnion, DownUnion DEF Next

\* However many windows, collectors and calls there are, once every call and every
\* event is through, and a restart that ran alone has repaired what earlier races
\* left, the stream is for the union of what the windows registered, from the
\* collector on screen (restart_xlog_stream, commands.rs:158-214).
THEOREM StreamSettles == Spec => []SettledUnion
<1>1. UnionInv => SettledUnion
  BY DEF UnionInv, Ease, SettledUnion, AtRest, InStep, UnionOpen
<1>2. IInv => Typed
  BY DEF IInv, TaskInv
<1> QED BY StreamsInit, NextKeeps, UnionInit, NextUnion, <1>1, <1>2, PTL DEF Spec
=============================================================================
