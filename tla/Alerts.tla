------------------------------- MODULE Alerts -------------------------------
(***************************************************************************)
(* The objects of a server over time and the alerts about them: the list   *)
(* that is asked for every 10 s (App.tsx, hooks/objectRefresh.ts), when    *)
(* each object was seen and until when it lived (hooks/objectTimeline.ts), *)
(* with the file that keeps it, the alert buffer (hooks/useAlertStream.ts) *)
(* and the judgement that a service was replaced, by a deployment, or went *)
(* down (utils/alertGroups.ts).                                            *)
(*                                                                         *)
(* The objects are those of one service.  A tick is REPLACE_OVERLAP_MS.    *)
(***************************************************************************)
EXTENDS Naturals, FiniteSets, Sequences, SequencesExt

CONSTANTS Objs,
          Grace, Gap,   \* REPLACE_GRACE_MS, BURST_GAP_MS in ticks
          Overlap,      \* REPLACE_OVERLAP_MS in ticks
          Keep,         \* TERMINATED_KEEP_MS in ticks
          MaxAlerts,    \* MAX_ALERTS
          MaxTime,      \* bounds: the clock; connections, starts
          MaxTurns, MaxAsks   \* and deaths together; the lists under way

VARIABLES now,
          up,           \* on the server: objects that live
          beat,         \* on the server: [Objs -> time of the last heartbeat]
          turns,        \* on the server: starts and deaths so far (bound)
          listed,       \* on the server: objects its list still names
          epoch,        \* connectionEpoch; 0 before the first connection
          connected,
          reading,      \* loadObjectHistory is under way
          readFailed,   \* and failed, in this connection
          asks,         \* lists under way: [epoch, list]
          seen, primed, \* objectTimeline.ts: {[obj, first, last, alive]}
          shown,        \* objectsRef: {[obj, alive, wakeup]}
          file,         \* the history file of the server
          alerts,       \* newest first: <<[obj, down, time]>>
          unread,
          tab           \* the alert tab is open

server == <<up, beat, turns, listed>>
link   == <<epoch, connected, reading, readFailed, asks>>
past   == <<seen, primed, shown, file>>
bell   == <<alerts, unread, tab>>
vars   == <<now, server, link, past, bell>>

Known == {s.obj : s \in seen}
Past(o) == CHOOSE s \in seen : s.obj = o
Larger(a, b) == IF a > b THEN a ELSE b

----------------------------------------------------------------------------
\* objectRefresh.ts: an object that left the list stays a while, as dead.
MergeObjects(list, t) ==
  list \union
  {[old EXCEPT !.alive = FALSE] :
     old \in {x \in shown : /\ ~\E a \in list : a.obj = x.obj
                            /\ t - (IF x.wakeup > 0 THEN x.wakeup ELSE t) <= Keep}}

\* objectTimeline.ts.  What the list does not name is left as it was.
ObserveObjects(list, t) ==
  {s \in seen : ~\E a \in list : a.obj = s.obj} \union
  {[obj   |-> a.obj,
    first |-> IF a.obj \in Known THEN Past(a.obj).first ELSE IF primed THEN t ELSE 0,
    last  |-> IF a.alive THEN t
              ELSE IF a.obj \in Known THEN Larger(a.wakeup, Past(a.obj).last) ELSE a.wakeup,
    alive |-> a.alive] : a \in list}
PersistableHistory(ss) == ss          \* younger than 7 days, fewer than 5000
RestoreObjectHistory ==
  seen \union {[s EXCEPT !.alive = FALSE] : s \in {x \in file : x.obj \notin Known}}

----------------------------------------------------------------------------
\* alertGroups.ts.  An object that is not known is of no service: its alert
\* stays single.
DownAt(a) == LET x == Past(a.obj)
             IN  IF ~x.alive /\ x.last > 0 /\ x.last <= a.time THEN x.last ELSE a.time
\* Mutant: a successor need not outlive the one that went.
Covered_NoOverlap(a) == \E y \in seen :
  /\ y.obj # a.obj
  /\ y.first <= DownAt(a) + Grace

Covered(a) == \E y \in seen :
  /\ y.obj # a.obj
  /\ y.first <= DownAt(a) + Grace
  /\ y.alive \/ y.last >= DownAt(a) + Overlap

InService == {i \in DOMAIN alerts : alerts[i].obj \in Known}
\* Alerts of the service with no pause longer than Gap between them.
SameBurst(i, j) ==
  LET lo == IF alerts[i].time < alerts[j].time THEN alerts[i].time ELSE alerts[j].time
      hi == Larger(alerts[i].time, alerts[j].time)
  IN  \A t \in lo..(hi - 1) :
        (\E k \in InService : alerts[k].time = t) =>
          \E k \in InService : alerts[k].time \in (t + 1)..(t + Gap)
Burst(i) == {j \in InService : SameBurst(i, j)}
IsDown(b) == \E i \in b : alerts[i].down /\ ~Covered(alerts[i])

\* The alerts of bursts that were judged a replacement are not counted.
Quiet == {i \in InService : ~IsDown(Burst(i))}
UnreadShown == Cardinality({i \in DOMAIN alerts : i <= unread} \ Quiet)

----------------------------------------------------------------------------
\* The server.
Tick ==
  /\ now < MaxTime
  /\ now' = now + 1
  /\ beat' = [o \in Objs |-> IF o \in up THEN now' ELSE beat[o]]
  /\ UNCHANGED <<up, turns, listed, link, past, bell>>

Ring(o, down) ==
  IF connected
  THEN /\ alerts' = SubSeq(<<[obj |-> o, down |-> down, time |-> now]>> \o alerts,
                           1, IF Len(alerts) < MaxAlerts THEN Len(alerts) + 1 ELSE MaxAlerts)
       /\ unread' = IF tab THEN 0 ELSE unread + 1
  ELSE UNCHANGED <<alerts, unread>>

Starts(o) ==
  /\ o \notin up /\ epoch + turns < MaxTurns /\ turns' = turns + 1
  /\ up' = up \union {o} /\ listed' = listed \union {o}
  /\ beat' = [beat EXCEPT ![o] = now]
  /\ Ring(o, FALSE)
  /\ UNCHANGED <<now, tab, link, past>>

\* The collector notices that an object is silent, rings, and after a list or
\* more forgets it.
Dies(o) ==
  /\ o \in up /\ epoch + turns < MaxTurns /\ turns' = turns + 1
  /\ up' = up \ {o}
  /\ UNCHANGED <<beat, listed>>
  /\ Ring(o, TRUE)
  /\ UNCHANGED <<now, tab, link, past>>
Forgets(o) ==
  /\ o \in listed \ up
  /\ listed' = listed \ {o}
  /\ UNCHANGED <<now, up, beat, turns, link, past, bell>>

----------------------------------------------------------------------------
Connect ==
  /\ ~connected /\ epoch + turns < MaxTurns
  /\ connected' = TRUE /\ epoch' = epoch + 1
  /\ reading' = TRUE /\ readFailed' = FALSE
  /\ UNCHANGED <<now, server, asks, past, bell>>

\* onDisconnected: the history of the process is emptied, the alerts stay.
Disconnect ==
  /\ connected
  /\ connected' = FALSE /\ reading' = FALSE
  /\ seen' = {} /\ primed' = FALSE /\ shown' = {}
  /\ UNCHANGED <<now, server, epoch, readFailed, asks, file, bell>>

HistoryRead ==
  /\ reading
  /\ reading' = FALSE
  /\ \/ seen' = RestoreObjectHistory /\ UNCHANGED readFailed
     \/ readFailed' = TRUE /\ UNCHANGED seen
  /\ UNCHANGED <<now, server, epoch, connected, asks, primed, shown, file, bell>>

\* The list is asked for; the timer asks again while one is under way.
AskList ==
  /\ connected /\ Cardinality(asks) < MaxAsks
  /\ asks' = asks \union
       {[epoch |-> epoch,
         list |-> {[obj |-> o, alive |-> o \in up, wakeup |-> beat[o]] : o \in listed}]}
  /\ UNCHANGED <<now, server, epoch, connected, reading, readFailed, past, bell>>

\* Mutant: a list is written before the file was read.
ListArrives_NoWait(a) ==
  /\ asks' = asks \ {a}
  /\ IF a.epoch = epoch /\ connected
     THEN /\ shown' = MergeObjects(a.list, now)
          /\ seen' = ObserveObjects(a.list, now)
          /\ primed' = TRUE
          /\ file' \in {file, PersistableHistory(seen')}
     ELSE UNCHANGED past
  /\ UNCHANGED <<now, server, epoch, connected, reading, readFailed, bell>>

\* It is used when the history has been read, and only by the connection that
\* asked; saveObjectHistory writes at most once a minute.
ListArrives(a) ==
  /\ asks' = asks \ {a}
  /\ IF a.epoch = epoch /\ connected
     THEN /\ ~reading
          /\ shown' = MergeObjects(a.list, now)
          /\ seen' = ObserveObjects(a.list, now)
          /\ primed' = TRUE
          /\ file' \in {file, PersistableHistory(seen')}
     ELSE UNCHANGED past
  /\ UNCHANGED <<now, server, epoch, connected, reading, readFailed, bell>>

ListFails(a) ==
  /\ asks' = asks \ {a}
  /\ UNCHANGED <<now, server, epoch, connected, reading, readFailed, past, bell>>

OpenTab ==
  /\ tab' = ~tab
  /\ unread' = IF tab' THEN 0 ELSE unread
  /\ UNCHANGED <<now, server, link, past, alerts>>

Clear ==
  /\ alerts # <<>>
  /\ alerts' = <<>> /\ unread' = 0
  /\ UNCHANGED <<now, server, link, past, tab>>

Init ==
  /\ now = 1 /\ up \in SUBSET Objs
  /\ beat = [o \in Objs |-> IF o \in up THEN 1 ELSE 0]
  /\ listed = up /\ turns = 0
  /\ epoch = 0 /\ connected = FALSE /\ reading = FALSE /\ readFailed = FALSE
  /\ asks = {}
  /\ seen = {} /\ primed = FALSE /\ shown = {}
  /\ file \in {{}, {[obj |-> o, first |-> 0, last |-> 0, alive |-> TRUE] : o \in Objs}}
  /\ alerts = <<>> /\ unread = 0 /\ tab = FALSE

Next ==
  \/ Tick \/ Connect \/ Disconnect \/ HistoryRead \/ AskList \/ OpenTab \/ Clear
  \/ \E o \in Objs : Starts(o) \/ Dies(o) \/ Forgets(o)
  \/ \E a \in asks : ListArrives(a) \/ ListFails(a)

Spec == Init /\ [][Next]_vars
----------------------------------------------------------------------------
TypeOK ==
  /\ Len(alerts) <= MaxAlerts
  /\ Cardinality(Known) = Cardinality(seen)
  /\ \A s \in seen : s.first <= now /\ s.last <= now
  /\ Cardinality({x.obj : x \in shown}) = Cardinality(shown)

\* A service whose every known object is dead, and rang when it died, is not
\* taken for a deployment: some of its alerts count (alertGroups.ts:114-157).
LossIsLoud ==
  (/\ seen # {} /\ \A s \in seen : ~s.alive
   /\ \A s \in seen : \E i \in DOMAIN alerts :
        alerts[i].obj = s.obj /\ alerts[i].down /\ s.last <= alerts[i].time)
  => InService \ Quiet # {}

\* The file of what lived when never loses an object, whatever the order of the
\* read, the lists and the connections, unless it could not be read at all:
\* the lists wait for the read (App.tsx:763-769).
FileStep == \A s \in file : readFailed \/ \E r \in file' : r.obj = s.obj
FileKept == [][FileStep]_vars
============================================================================
