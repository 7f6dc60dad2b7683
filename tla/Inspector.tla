------------------------------ MODULE Inspector ------------------------------
(***************************************************************************)
(* The dialog that looks into one object: its threads, dumps, stacks,      *)
(* sockets, classes and what an agent can be told to do.                   *)
(*                                                                         *)
(* ObjectInspector.tsx asks for its list when it opens, when the page      *)
(* changes and when the user says so, and takes every answer there is; it  *)
(* opens one dump or stack at a time.  ObjectActions.tsx sends commands to *)
(* the agent.  What comes for a dialog that was closed is dropped.         *)
(*                                                                         *)
(* A row is [id, n, busy, txid, hit]: n is what its table is sorted by,    *)
(* hit says whether the text of the search box is found in it.             *)
(***************************************************************************)
EXTENDS Integers, Sequences, FiniteSets, SequencesExt, Listing

CONSTANTS Jvms, Others,   \* objects: javaee, and hosts, pools and so on
          Lists,          \* bound: what the collector may answer, by kind
          Names,          \* of dumps and times of stacks
          Commands, Dangerous,  \* of ObjectActions; those asked about twice
          HeapVisible,    \* HEAP_VISIBLE
          TotalPages,     \* of the list of classes
          MaxMoves        \* bound: commands of the user

VARIABLES inspect,    \* NoOne, or [obj, kind]
          page, rows, answered,   \* rows: the list; the page it is of
          loading, error,
          loads,      \* pages asked for, on their way
          query,      \* is there a text in the search box
          busy, ops,  \* the dump or stack that is being opened, and how far it is
          text,       \* what is open instead of the list
          wanted,     \* history: what the user opened last; any name when a dump is made
          thread,     \* pickedActive and what its dialog has
          action,     \* of ObjectActions: [busy, message, failed, confirming]
          running,    \* commands on their way
          moves

list == <<page, rows, answered, loading, error, loads>>
dump == <<busy, ops, text, wanted>>
vars == <<inspect, list, query, dump, thread, action, running, moves>>

None  == "none"
Fresh == "fresh"     \* the dump that is made now
Quiet == [busy |-> None, message |-> FALSE, failed |-> FALSE, confirming |-> None]
NoOne == [obj |-> None, kind |-> None]
NoThread == [id |-> None, load |-> None]
Kind  == inspect.kind

----------------------------------------------------------------------------
\* The menu of the agent list: other objects than JVMs have properties only.
KindsOf(obj) == IF obj \in Jvms THEN DOMAIN Lists \cup {"actions"} ELSE {"properties"}

\* load
Load(p) == loading' = TRUE /\ error' = FALSE /\ loads' = Append(loads, p)

Closed ==
  /\ page' = 1 /\ rows' = <<>> /\ answered' = 0
  /\ query' = FALSE /\ busy' = FALSE /\ ops' = <<>> /\ text' = None /\ wanted' = None
  /\ thread' = NoThread /\ action' = Quiet /\ running' = <<>>

User == moves < MaxMoves /\ moves' = moves + 1

Open(obj, k) ==
  /\ User /\ inspect = NoOne /\ k \in KindsOf(obj)
  /\ inspect' = [obj |-> obj, kind |-> k]
  /\ Closed
  /\ IF k = "actions" THEN loading' = FALSE /\ error' = FALSE /\ loads' = <<>>
     ELSE loading' = TRUE /\ error' = FALSE /\ loads' = <<1>>

Close ==
  /\ User /\ inspect # NoOne /\ thread = NoThread
  /\ inspect' = NoOne /\ Closed
  /\ loading' = FALSE /\ error' = FALSE /\ loads' = <<>>

Refresh ==
  /\ User /\ Kind \notin {None, "actions"} /\ thread = NoThread
  /\ Load(page)
  /\ UNCHANGED <<inspect, page, rows, answered, query, dump, thread, action, running>>

\* The footer of the list of classes.
Turn ==
  /\ User /\ Kind = "classes" /\ rows # <<>>
  /\ page' \in {page - 1, page + 1} \cap (1..TotalPages)
  /\ Load(page')
  /\ UNCHANGED <<inspect, rows, answered, query, dump, thread, action, running>>

\* Any of the loads that are on their way ends; the first to end hides the others.
Answer(i) ==
  /\ loads' = RemoveAt(loads, i) /\ loading' = FALSE
  /\ \/ /\ rows' \in Lists[Kind] /\ answered' = loads[i] /\ UNCHANGED error
     \/ error' = TRUE /\ UNCHANGED <<rows, answered>>
  /\ UNCHANGED <<inspect, page, query, dump, thread, action, running, moves>>

Search ==
  /\ User /\ inspect # NoOne /\ thread = NoThread /\ query' = ~query
  /\ UNCHANGED <<inspect, list, dump, thread, action, running>>

----------------------------------------------------------------------------
\* The tables, each in its order.
Found == IF query THEN Only(rows, {r \in ToSet(rows) : r.hit}) ELSE rows

Pairs(in) == (DOMAIN in) \X (DOMAIN in)
LargestFirst(in) == Ordered(in, {p \in Pairs(in) : in[p[1]].n > in[p[2]].n})

ThreadTable(in) ==
  Ordered(in, {p \in Pairs(in) :
                 \/ in[p[1]].busy /\ ~in[p[2]].busy
                 \/ in[p[1]].busy = in[p[2]].busy /\ in[p[1]].n > in[p[2]].n})
HeapTable(in)   == LET by == LargestFirst(in)
                   IN  SubSeq(by, 1, IF Len(by) < HeapVisible THEN Len(by) ELSE HeapVisible)
ActiveTable(in) == LargestFirst(in)
SocketTable(in) == LargestFirst(in)
StackTimeTable(in) == Reverse(in)

TableShown ==
  CASE Kind = "threads" -> ThreadTable(Found)
    [] Kind = "heap"    -> HeapTable(Found)
    [] Kind = "active"  -> ActiveTable(Found)
    [] Kind = "sockets" -> SocketTable(Found)
    [] Kind = "stack"   -> StackTimeTable(Found)
    [] OTHER -> IF Kind = "dump" THEN rows ELSE Found

\* The body of the dialog is the text that is open, else the table, when nothing loads.
Body == IF Kind \in {None, "actions"} \/ loading \/ error THEN <<None>>
        ELSE IF Kind \in {"dump", "stack"} /\ text # None THEN <<"text", text>>
        ELSE <<"table", TableShown>>
Shows == Body[1] = "table"

----------------------------------------------------------------------------
\* A dump or a stack that the table offers is opened; a dump may be made before.
OpenText(name) ==
  /\ User /\ Kind \in {"dump", "stack"} /\ Shows /\ ~busy /\ thread = NoThread
  /\ \E r \in ToSet(TableShown) : r.id = name
  /\ busy' = TRUE /\ error' = FALSE
  /\ ops' = Append(ops, <<"content", name>>) /\ wanted' = name
  /\ UNCHANGED <<inspect, page, rows, answered, loading, loads, query, text, thread, action, running>>

\* Mutant: a dump may be made while a text is on its way.
CreateDump_Busy ==
  /\ User /\ Kind = "dump" /\ text = None
  /\ busy' = TRUE /\ error' = FALSE
  /\ ops' = Append(ops, <<"trigger", Fresh>>) /\ wanted' = Fresh
  /\ UNCHANGED <<inspect, page, rows, answered, loading, loads, query, text, thread, action, running>>

CreateDump ==
  /\ User /\ Kind = "dump" /\ text = None /\ ~busy
  /\ busy' = TRUE /\ error' = FALSE
  /\ ops' = Append(ops, <<"trigger", Fresh>>) /\ wanted' = Fresh
  /\ UNCHANGED <<inspect, page, rows, answered, loading, loads, query, text, thread, action, running>>

\* The next answer of it: triggerDump, getDumpFileContent, getDumpFileList.
Step(i) ==
  LET stage == ops[i][1]
      name  == ops[i][2]
      ended == ops' = RemoveAt(ops, i) /\ busy' = FALSE
  IN  /\ \/ error' = TRUE /\ ended /\ UNCHANGED <<rows, text>>
         \/ /\ stage = "trigger" /\ ops' = [ops EXCEPT ![i] = <<"content", name>>]
            /\ UNCHANGED <<rows, text, error, busy>>
         \/ /\ stage = "content" /\ text' = name /\ UNCHANGED <<rows, error>>
            /\ IF name = Fresh THEN ops' = [ops EXCEPT ![i] = <<"list", name>>] /\ UNCHANGED busy
               ELSE ended
         \/ stage = "list" /\ rows' \in Lists["dump"] /\ ended /\ UNCHANGED <<text, error>>
      /\ UNCHANGED <<inspect, page, answered, loading, loads, query, wanted, thread, action, running, moves>>

Back ==
  /\ User /\ text # None /\ text' = None
  /\ UNCHANGED <<inspect, list, query, busy, ops, wanted, thread, action, running>>

----------------------------------------------------------------------------
\* ThreadDetailDialog: what a transaction that runs is doing; it may be gone.
PickActive(r) ==
  /\ User /\ Kind = "active" /\ Shows /\ thread = NoThread /\ r.txid
  /\ thread' = [id |-> r.id, load |-> "loading"]
  /\ UNCHANGED <<inspect, list, query, dump, action, running>>

ThreadAnswer ==
  /\ thread # NoThread /\ thread.load = "loading"
  /\ thread' \in {[thread EXCEPT !.load = l] : l \in {"ok", "gone", "error"}}
  /\ UNCHANGED <<inspect, list, query, dump, action, running, moves>>

CloseThread ==
  /\ User /\ thread # NoThread /\ thread' = NoThread
  /\ UNCHANGED <<inspect, list, query, dump, action, running>>

----------------------------------------------------------------------------
\* ObjectActions: a dangerous one is asked about first; the button that runs is off.
AskOrCancel(c) ==
  /\ User /\ Kind = "actions" /\ c \in Dangerous
  /\ \/ action.confirming # c /\ action.busy # c /\ action' = [action EXCEPT !.confirming = c]
     \/ action.confirming = c /\ action' = [action EXCEPT !.confirming = None]
  /\ UNCHANGED <<inspect, list, query, dump, thread, running>>

Run(c) ==
  /\ User /\ Kind = "actions"
  /\ IF c \in Dangerous THEN action.confirming = c ELSE action.busy # c
  /\ action' = [Quiet EXCEPT !.busy = c] /\ running' = Append(running, c)
  /\ UNCHANGED <<inspect, list, query, dump, thread>>

RunEnds(i) ==
  /\ running' = RemoveAt(running, i)
  /\ \E ok \in BOOLEAN : action' = [action EXCEPT !.busy = None, !.message = @ \/ ok,
                                                  !.failed = @ \/ ~ok]
  /\ UNCHANGED <<inspect, list, query, dump, thread, moves>>

Init ==
  /\ inspect = NoOne /\ page = 1 /\ rows = <<>> /\ answered = 0
  /\ loading = FALSE /\ error = FALSE /\ loads = <<>>
  /\ query = FALSE /\ busy = FALSE /\ ops = <<>> /\ text = None /\ wanted = None
  /\ thread = NoThread /\ action = Quiet /\ running = <<>> /\ moves = 0

Next ==
  \/ \E obj \in Jvms \cup Others : \E k \in KindsOf(obj) : Open(obj, k)
  \/ Close \/ Refresh \/ Turn \/ Search
  \/ \E i \in DOMAIN loads : Answer(i)
  \/ \E name \in Names : OpenText(name)
  \/ CreateDump \/ Back
  \/ \E i \in DOMAIN ops : Step(i)
  \/ \E r \in ToSet(rows) : PickActive(r)
  \/ ThreadAnswer \/ CloseThread
  \/ \E c \in Commands \cup Dangerous : AskOrCancel(c) \/ Run(c)
  \/ \E i \in DOMAIN running : RunEnds(i)

Spec == Init /\ [][Next]_vars

----------------------------------------------------------------------------
(* A dump that is open is the one the user opened last, though its text    *)
(* comes later than it is asked for and a dump that is made comes in three *)
(* answers; a list never offers what an operation on its way would open    *)
(* over the next; and a found row is missing only where a table is cut.    *)
TextIsPicked ==
  /\ text # None => text = wanted
  /\ Len(ops) <= 1 /\ (ops # <<>>) = busy
  /\ Shows /\ Kind # "heap" => ToSet(TableShown) = ToSet(IF Kind = "dump" THEN rows ELSE Found)

(* Not so for the list: when nothing loads the classes on the screen may   *)
(* be of another page than the one the footer turned to.                   *)
PageIsAsked == loads = <<>> /\ ~error /\ Kind = "classes" /\ rows # <<>> => answered = page

(* Nor for the commands: a button is off while its command runs, but only  *)
(* until another command ends.                                             *)
RunsOnce == \A i, j \in DOMAIN running : i # j => running[i] # running[j]
=============================================================================
