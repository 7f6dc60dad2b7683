----------------------------- MODULE XLogCache -----------------------------
(***************************************************************************)
(* The local cache of past transactions (XLogs) of ONE collector:          *)
(* src/src-tauri/src/cache/xlog.rs, with the callers of past_page in       *)
(* commands.rs and mcp/server.rs as clients and the settings dialog as the *)
(* actor that changes the size limit and empties the cache.                *)
(*                                                                         *)
(* A client pages through [s, e] of some objects.  For every page it reads *)
(* the seal ("collector clock minus five minutes"), asks the cache whether *)
(* the sealed part of the window is covered, and takes the page either     *)
(* from the cache or from the collector.  Collector pages are stored, the  *)
(* store may evict, and the last page marks the sealed part as covered.    *)
(* Every SQLite call holds the mutex of CacheDb and is one step; between   *)
(* two calls any other actor may run.  Eviction is two autocommitted       *)
(* statements per round, so a crash may fall between them.                 *)
(***************************************************************************)
EXTENDS Integers, FiniteSets

CONSTANTS
  Client,     \* callers of past_page: screen loads, searches, distribution, MCP scans
  Batch,      \* the clients that read the seal once per query (distribution, MCP)
  Settings,   \* the settings dialog: sets the size limit, clears the cache
  Obj,        \* monitored objects
  Txn,        \* transactions that may finish during the run
  ObjOf,      \* Txn -> Obj
  EndOf,      \* Txn -> end time
  Windows,    \* the time windows [s, e] a client may ask for
  PageCount,  \* rows per page
  SealMs,     \* SEAL_MS
  EvictStep,  \* EVICT_STEP_MS
  Limits,     \* the sizes the cache may be limited to, in rows (max_bytes)
  Lag,        \* a transaction reaches the collector at most Lag after its end
  Span,       \* a query takes at most Span from its first page to its last
  MaxNow,     \* bound on the clock
  CanClear, CanFail, CanCrash   \* which faults the instance contains

NoOne == "no one"   \* nobody holds the lock

ASSUME ActorAssumption == /\ Batch \subseteq Client
                          /\ Settings \notin Client
                          /\ NoOne \notin Client \cup {Settings}
ASSUME DataAssumption  == /\ ObjOf \in [Txn -> Obj]
                          /\ EndOf \in [Txn -> Nat \ {0}]
                          /\ Windows \subseteq [s : Nat \ {0}, e : Nat \ {0}]
ASSUME BoundAssumption == /\ PageCount \in Nat \ {0}
                          /\ {SealMs, EvictStep, Lag, Span, MaxNow} \subseteq Nat
                          /\ EvictStep > 0 /\ MaxNow > 0
                          /\ Limits \subseteq Nat
                          /\ {CanClear, CanFail, CanCrash} \subseteq BOOLEAN

\* What the collector and the network must grant for the marks to be right:
\* nothing arrives below a seal the query uses.  A Batch client reads its seal
\* when it begins, the others up to Span later.
Drift(c)   == IF c \in Batch THEN 0 ELSE Span
SealMargin == \A c \in Client : Lag + Drift(c) < SealMs

\* Fewer transactions end at one instant than fit on a page.
IsFull(P) == Cardinality(P) >= PageCount
FewTies   == \A P \in SUBSET Txn :
               (\A x, y \in P : EndOf[x] = EndOf[y]) => ~IsFull(P)

VARIABLES
  now,        \* the collector's clock
  collector,  \* transactions the collector holds
  rows,       \* table xlog
  cover,      \* table xlog_cover
  limit,      \* max_bytes, counted in rows
  lock,       \* who is inside an eviction or a clear (holds CacheDb.db), or NoOne
  cut,        \* xlog rows below it are deleted, xlog_cover not yet trimmed; 0: none
  pc,         \* where each actor is
  goal,       \* the limit each actor last read, and evicts down to
  job,        \* the query of each client
  cursor,     \* PastCursor.last_xlog_time
  seal,       \* seal_before of the page
  reply,      \* the collector's page
  got,        \* rows the query has returned so far
  lost,       \* history: rows below it may have left the cache during the query
  hole        \* history: rows below it may be covered and yet missing

db     == <<rows, cover, limit, lock, cut>>
client == <<pc, goal, job, cursor, seal, reply, got, lost>>
vars   == <<now, collector, rows, cover, limit, lock, cut,
            pc, goal, job, cursor, seal, reply, got, lost, hole>>

Actor   == Client \cup {Settings}
Cover   == [obj : Obj, s : Int, e : Int]
NoJob   == [objs |-> {}, s |-> 0, e |-> 0, began |-> 0, owed |-> {}]
NoReply == [rows |-> {}, more |-> FALSE, last |-> 0]

Least(a, b)    == IF a <= b THEN a ELSE b
Greatest(a, b) == IF a >= b THEN a ELSE b

Busy(c) == pc[c] # "idle"

----------------------------------------------------------------------------
(* The queries on the tables *)

Within(O, s, e) == {x \in Txn : ObjOf[x] \in O /\ s <= EndOf[x] /\ EndOf[x] <= e}

\* CacheDb::xlog_covered: one row of the table spans [s, e], for every object.
XlogCovered_AnyObject(O, s, e) ==
  s <= e /\ \E o \in O, c \in cover : c.obj = o /\ c.s <= s /\ e <= c.e

XlogCovered(O, s, e) ==
  /\ O # {}
  /\ s <= e
  /\ \A o \in O : \E c \in cover : c.obj = o /\ c.s <= s /\ e <= c.e

\* P is a page of S: its first PageCount rows by end time.  xlog_page breaks
\* ties by txid, the collector in an order of its own: any order here.
IsPage(P, S) ==
  /\ P \subseteq S
  /\ IF Cardinality(S) <= PageCount THEN P = S ELSE Cardinality(P) = PageCount
  /\ \A p \in P, x \in S \ P : EndOf[p] <= EndOf[x]

\* The time of the last row of a page, 0 when it has none.
IsLast(t, P) ==
  IF P = {} THEN t = 0
  ELSE t \in {EndOf[x] : x \in P} /\ \A x \in P : EndOf[x] <= t

\* What mark_xlog does to the rows of xlog_cover for the objects O: the rows
\* that overlap or touch [s, e] give way to one row that spans them and [s, e].
Near_OverlapOnly(o, s, e) == {c \in cover : c.obj = o /\ c.e >= s /\ c.s <= e}

Near(o, s, e) == {c \in cover : c.obj = o /\ c.e >= s - 1 /\ c.s <= e + 1}

IsHull(c, s, e) ==
  LET starts == {s} \cup {d.s : d \in Near(c.obj, s, e)}
      ends   == {e} \cup {d.e : d \in Near(c.obj, s, e)}
  IN  /\ c.s \in starts /\ \A t \in starts : c.s <= t
      /\ c.e \in ends   /\ \A t \in ends   : t <= c.e

MarkXlog_NoMerge(O, s, e) ==
  IF e < s THEN cover
  ELSE {c \in cover : c.obj \notin O \/ c \notin Near(c.obj, s, e)}
       \cup {[obj |-> o, s |-> s, e |-> e] : o \in O}

MarkXlog_EveryObject(O, s, e) ==
  IF e < s THEN cover ELSE cover \cup {[obj |-> o, s |-> s, e |-> e] : o \in Obj}

MarkXlog(O, s, e) ==
  IF e < s THEN cover
  ELSE {c \in cover : c.obj \notin O \/ c \notin Near(c.obj, s, e)}
       \cup {c \in [obj : O, s : {s} \cup {d.s : d \in cover},
                             e : {e} \cup {d.e : d \in cover}] : IsHull(c, s, e)}

\* UPDATE xlog_cover SET s = t WHERE s < t; DELETE FROM xlog_cover WHERE e < s
Trimmed_Not(t)  == cover
Trimmed_Drop(t) == {c \in cover : c.s >= t}

Trimmed(t) == {[c EXCEPT !.s = Greatest(@, t)] : c \in {d \in cover : d.e >= t}}

----------------------------------------------------------------------------
(* The paging of one query.  Operators whose name has a suffix (XlogCovered_AnyObject) are *)
(* deliberate mistakes, the likely bugs of the definition they precede; no action uses them. *)

Front(c)    == IF cursor[c] # 0 THEN cursor[c] ELSE job[c].s

\* How far the window may count as settled: cache_to, and the end of a mark.
SealedTo_NoSeal(c) == job[c].e

SealedTo(c) == Least(job[c].e, seal[c])

\* load_past_xlog and search_xlog_page read the seal for every page, the
\* distribution and the MCP scan once.
NextPage(c) == IF c \in Batch THEN "check" ELSE "seal"

Init ==
  /\ now = 1
  /\ collector = {} /\ rows = {} /\ cover = {}
  /\ limit \in Limits
  /\ lock = NoOne /\ cut = 0
  /\ pc = [a \in Actor |-> "idle"]
  /\ goal = [a \in Actor |-> 0]
  /\ job = [c \in Client |-> NoJob]
  /\ cursor = [c \in Client |-> 0]
  /\ seal = [c \in Client |-> 0]
  /\ reply = [c \in Client |-> NoReply]
  /\ got = [c \in Client |-> {}]
  /\ lost = [c \in Client |-> 0]
  /\ hole = 0

\* Time passes, but no query runs longer than Span.
Tick ==
  /\ now < MaxNow
  /\ \A c \in Client : Busy(c) => now < job[c].began + Span
  /\ now' = now + 1
  /\ UNCHANGED <<collector, db, client, hole>>

\* An agent delivers a finished transaction to the collector, late by up to Lag.
Arrive(x) ==
  /\ x \notin collector
  /\ EndOf[x] <= now /\ now <= EndOf[x] + Lag
  /\ collector' = collector \cup {x}
  /\ UNCHANGED <<now, db, client, hole>>

\* A query begins by reading the seal.
Start(c, O, w) ==
  /\ pc[c] = "idle"
  /\ job' = [job EXCEPT ![c] = [objs |-> O, s |-> w.s, e |-> w.e, began |-> now,
                                owed |-> collector \cap Within(O, w.s, w.e)]]
  /\ seal' = [seal EXCEPT ![c] = now - SealMs]
  /\ pc' = [pc EXCEPT ![c] = "check"]
  /\ UNCHANGED <<now, collector, db, goal, cursor, reply, got, lost, hole>>

\* A client that reads the seal for every page reads it again.
ReadSeal(c) ==
  /\ pc[c] = "seal"
  /\ seal' = [seal EXCEPT ![c] = now - SealMs]
  /\ pc' = [pc EXCEPT ![c] = "check"]
  /\ UNCHANGED <<now, collector, db, goal, job, cursor, reply, got, lost, hole>>

\* past_page: does the cache cover the sealed part of the window?  A query on
\* the tables that fails counts as no.
Check(c) ==
  /\ pc[c] = "check" /\ lock = NoOne
  /\ \E failed \in {FALSE, CanFail} :
       pc' = [pc EXCEPT ![c] =
                IF /\ ~failed
                   /\ Front(c) < SealedTo(c)
                   /\ XlogCovered(job[c].objs, job[c].s, SealedTo(c))
                THEN "serve" ELSE "ask"]
  /\ UNCHANGED <<now, collector, db, goal, job, cursor, seal, reply, got, lost, hole>>

\* The page made of the rows P of the cache, the last of them at t.  When the
\* cache's part is exhausted the cursor is left at its end, so that the next
\* page comes from the collector.
CachePage_NoHandoff(c, P, t) == [rows |-> P, more |-> IsFull(P), last |-> t]

CachePage(c, P, t) ==
  LET handoff == ~IsFull(P) /\ SealedTo(c) < job[c].e
  IN  [rows |-> P, more |-> IsFull(P) \/ handoff,
       last |-> IF handoff THEN SealedTo(c) ELSE t]

Served(c, P, t) ==
  LET page == CachePage(c, P, t)
      done == ~page.more \/ page.last <= cursor[c]
  IN  /\ got' = [got EXCEPT ![c] = @ \cup P]
      /\ cursor' = [cursor EXCEPT ![c] = IF done THEN @ ELSE page.last]
      /\ pc' = [pc EXCEPT ![c] = IF done THEN "done" ELSE NextPage(c)]

Serve(c) ==
  /\ pc[c] = "serve" /\ lock = NoOne
  /\ \E P \in SUBSET (rows \cap Within(job[c].objs, Front(c), SealedTo(c))),
        t \in {0} \cup {EndOf[x] : x \in rows} :
       /\ IsPage(P, rows \cap Within(job[c].objs, Front(c), SealedTo(c)))
       /\ IsLast(t, P)
       /\ Served(c, P, t)
  /\ UNCHANGED <<now, collector, db, goal, job, seal, reply, lost, hole>>

\* The read of the page fails: it counts as a page without rows, and the query
\* goes on behind it.  Nothing can be owed to that query any more.
ServeFail(c) ==
  /\ CanFail
  /\ pc[c] = "serve" /\ lock = NoOne
  /\ Served(c, {}, 0)
  /\ job' = [job EXCEPT ![c].owed = {}]
  /\ UNCHANGED <<now, collector, db, goal, seal, reply, lost, hole>>

\* A page from the collector.  It always reports more rows when there are
\* more, and may do so after a full page that was the last one.
Answer(c) ==
  /\ pc[c] = "ask"
  /\ LET S == collector \cap Within(job[c].objs, Front(c), job[c].e)
     IN  \E P \in SUBSET S, more \in BOOLEAN, t \in {0} \cup {EndOf[x] : x \in S} :
           /\ IsPage(P, S) /\ IsLast(t, P)
           /\ P # S => more
           /\ more => Cardinality(P) = PageCount
           /\ reply' = [reply EXCEPT ![c] = [rows |-> P, more |-> more, last |-> t]]
  /\ pc' = [pc EXCEPT ![c] = "put"]
  /\ UNCHANGED <<now, collector, db, goal, job, cursor, seal, got, lost, hole>>

\* CacheDb::put_xlogs; an empty page is not written and evicts nothing.
Put(c) ==
  /\ pc[c] = "put" /\ lock = NoOne
  /\ rows' = rows \cup reply[c].rows
  /\ pc' = [pc EXCEPT ![c] = IF reply[c].rows = {} THEN "mark" ELSE "evict"]
  /\ goal' = [goal EXCEPT ![c] = IF reply[c].rows = {} THEN @ ELSE limit]
  /\ UNCHANGED <<now, collector, cover, limit, lock, cut,
                 job, cursor, seal, reply, got, lost, hole>>

\* The write fails (disk full, locked file): a warning is logged, and the
\* caller goes on as if the rows were stored.
PutFail(c) ==
  /\ CanFail
  /\ pc[c] = "put" /\ lock = NoOne /\ reply[c].rows # {}
  /\ pc' = [pc EXCEPT ![c] = "mark"]
  /\ lost' = [lost EXCEPT ![c] = now + 1]
  /\ UNCHANGED <<now, collector, db, goal, job, cursor, seal, reply, got, hole>>

----------------------------------------------------------------------------
(* CacheDb::evict_xlog, by a client after a put or by the settings dialog *)

OverLimit(a) == Cardinality(rows) > goal[a]
Release_ToMark(a) == [pc EXCEPT ![a] = "mark"]

Release(a) == [pc EXCEPT ![a] = IF a = Settings THEN "idle" ELSE "mark"]

LoseBelow(t) == lost' = [c \in Client |-> IF Busy(c) THEN Greatest(lost[c], t) ELSE lost[c]]

EvictRows(a) ==
  /\ pc[a] = "evict" /\ lock \in {NoOne, a} /\ cut = 0
  /\ OverLimit(a)
  /\ \E oldest \in rows :
       /\ \A x \in rows : EndOf[oldest] <= EndOf[x]
       /\ cut' = EndOf[oldest] + EvictStep
  /\ rows' = {x \in rows : EndOf[x] >= cut'}
  /\ LoseBelow(cut')
  /\ lock' = a
  /\ UNCHANGED <<now, collector, cover, limit, pc, goal, job, cursor, seal, reply, got, hole>>

TrimCover(a) ==
  /\ pc[a] = "evict" /\ lock = a /\ cut # 0
  /\ cover' = Trimmed(cut)
  /\ cut' = 0
  /\ UNCHANGED <<now, collector, rows, limit, lock, client, hole>>

EvictEnd(a) ==
  /\ pc[a] = "evict" /\ lock \in {NoOne, a} /\ cut = 0
  /\ ~OverLimit(a)
  /\ lock' = NoOne
  /\ pc' = Release(a)
  /\ goal' = [goal EXCEPT ![a] = 0]
  /\ UNCHANGED <<now, collector, rows, cover, limit, cut,
                 job, cursor, seal, reply, got, lost, hole>>

\* A statement of an eviction or a clear fails: a warning is logged and the rest
\* is left out.  Rows deleted before keep their place in xlog_cover.
EvictFail(a) ==
  /\ CanFail
  /\ pc[a] \in {"evict", "clear"} /\ lock \in {NoOne, a}
  /\ lock' = NoOne /\ cut' = 0
  /\ hole' = Greatest(hole, cut)
  /\ pc' = Release(a)
  /\ goal' = [goal EXCEPT ![a] = 0]
  /\ UNCHANGED <<now, collector, rows, cover, limit, job, cursor, seal, reply, got, lost>>

----------------------------------------------------------------------------
(* The end of a collector page *)

\* The collector has no more: mark the sealed part of the window as covered.
Mark_AnyPage(c) ==
  /\ pc[c] = "mark" /\ lock = NoOne
  /\ cover' = MarkXlog(job[c].objs, job[c].s, SealedTo(c))
  /\ got' = [got EXCEPT ![c] = @ \cup reply[c].rows]
  /\ reply' = [reply EXCEPT ![c] = NoReply]
  /\ pc' = [pc EXCEPT ![c] = "done"]
  /\ UNCHANGED <<now, collector, rows, limit, lock, cut, goal, job, cursor, seal, lost, hole>>

Mark(c) ==
  /\ pc[c] = "mark" /\ lock = NoOne /\ ~reply[c].more
  /\ cover' = MarkXlog(job[c].objs, job[c].s, SealedTo(c))
  /\ hole' = IF job[c].s <= SealedTo(c) THEN Greatest(hole, lost[c]) ELSE hole
  /\ got' = [got EXCEPT ![c] = @ \cup reply[c].rows]
  /\ reply' = [reply EXCEPT ![c] = NoReply]
  /\ pc' = [pc EXCEPT ![c] = "done"]
  /\ UNCHANGED <<now, collector, rows, limit, lock, cut, goal, job, cursor, seal, lost>>

\* The mark is a transaction; when it fails the cover stays as it was.
MarkFail(c) ==
  /\ CanFail
  /\ pc[c] = "mark" /\ lock = NoOne /\ ~reply[c].more
  /\ got' = [got EXCEPT ![c] = @ \cup reply[c].rows]
  /\ reply' = [reply EXCEPT ![c] = NoReply]
  /\ pc' = [pc EXCEPT ![c] = "done"]
  /\ UNCHANGED <<now, collector, db, goal, job, cursor, seal, lost, hole>>

\* There is more: go on from the last row, unless the cursor did not advance.
Turn_NoStop(c) ==
  /\ pc[c] = "mark" /\ reply[c].more
  /\ cursor' = [cursor EXCEPT ![c] = reply[c].last]
  /\ pc' = [pc EXCEPT ![c] = NextPage(c)]
  /\ got' = [got EXCEPT ![c] = @ \cup reply[c].rows]
  /\ reply' = [reply EXCEPT ![c] = NoReply]
  /\ UNCHANGED <<now, collector, db, goal, job, seal, lost, hole>>

Turn(c) ==
  /\ pc[c] = "mark" /\ reply[c].more
  /\ LET done == reply[c].rows = {} \/ reply[c].last <= cursor[c]
     IN  /\ cursor' = [cursor EXCEPT ![c] = IF done THEN @ ELSE reply[c].last]
         /\ pc' = [pc EXCEPT ![c] = IF done THEN "done" ELSE NextPage(c)]
  /\ got' = [got EXCEPT ![c] = @ \cup reply[c].rows]
  /\ reply' = [reply EXCEPT ![c] = NoReply]
  /\ UNCHANGED <<now, collector, db, goal, job, seal, lost, hole>>

Forget(c) ==
  /\ pc' = [pc EXCEPT ![c] = "idle"]
  /\ job' = [job EXCEPT ![c] = NoJob]
  /\ cursor' = [cursor EXCEPT ![c] = 0]
  /\ seal' = [seal EXCEPT ![c] = 0]
  /\ got' = [got EXCEPT ![c] = {}]
  /\ lost' = [lost EXCEPT ![c] = 0]
  /\ UNCHANGED <<now, collector, db, goal, reply, hole>>

Return(c) == pc[c] = "done" /\ Forget(c)

\* No connection, a broken request, a cancelled or capped query.
Fail(c) == pc[c] \in {"seal", "check", "ask"} /\ Forget(c)

----------------------------------------------------------------------------
(* The settings dialog and the process *)

\* CacheDb::set_max_bytes: a smaller limit evicts at once.
SetMax(m) ==
  /\ pc[Settings] = "idle" /\ m # limit
  /\ limit' = m
  /\ pc' = [pc EXCEPT ![Settings] = IF m < limit THEN "evict" ELSE "idle"]
  /\ goal' = [goal EXCEPT ![Settings] = IF m < limit THEN m ELSE @]
  /\ UNCHANGED <<now, collector, rows, cover, lock, cut,
                 job, cursor, seal, reply, got, lost, hole>>

\* CacheDb::clear: DELETE FROM xlog, then DELETE FROM xlog_cover.
ClearRows ==
  /\ CanClear
  /\ pc[Settings] = "idle" /\ lock = NoOne /\ (rows # {} \/ cover # {})
  /\ pc' = [pc EXCEPT ![Settings] = "clear"]
  /\ lock' = Settings
  /\ rows' = {}
  /\ cut' = now + 1
  /\ LoseBelow(cut')
  /\ UNCHANGED <<now, collector, cover, limit, goal, job, cursor, seal, reply, got, hole>>

ClearCover_RowsOnly ==
  /\ pc[Settings] = "clear"
  /\ pc' = [pc EXCEPT ![Settings] = "idle"]
  /\ lock' = NoOne
  /\ cut' = 0
  /\ UNCHANGED <<now, collector, rows, cover, limit, goal, job, cursor, seal, reply, got, lost, hole>>

ClearCover ==
  /\ pc[Settings] = "clear"
  /\ pc' = [pc EXCEPT ![Settings] = "idle"]
  /\ lock' = NoOne
  /\ cover' = {}
  /\ cut' = 0
  /\ UNCHANGED <<now, collector, rows, limit, goal, job, cursor, seal, reply, got, lost, hole>>

\* The process ends and is started again: the tables stay as they are.
Crash ==
  /\ CanCrash
  /\ \E a \in Actor : pc[a] # "idle"
  /\ pc' = [a \in Actor |-> "idle"]
  /\ goal' = [a \in Actor |-> 0]
  /\ job' = [c \in Client |-> NoJob]
  /\ cursor' = [c \in Client |-> 0]
  /\ seal' = [c \in Client |-> 0]
  /\ reply' = [c \in Client |-> NoReply]
  /\ got' = [c \in Client |-> {}]
  /\ lost' = [c \in Client |-> 0]
  /\ lock' = NoOne /\ cut' = 0
  /\ hole' = Greatest(hole, cut)
  /\ UNCHANGED <<now, collector, rows, cover, limit>>

----------------------------------------------------------------------------
Step(c) ==
  \/ ReadSeal(c) \/ Check(c) \/ Serve(c) \/ Answer(c) \/ Put(c)
  \/ Mark(c) \/ Turn(c) \/ Return(c)

Evict(a) == EvictRows(a) \/ TrimCover(a) \/ EvictEnd(a)

Next ==
  \/ Tick
  \/ \E x \in Txn : Arrive(x)
  \/ \E c \in Client, O \in SUBSET Obj, w \in Windows : O # {} /\ Start(c, O, w)
  \/ \E c \in Client : Step(c) \/ ServeFail(c) \/ PutFail(c) \/ MarkFail(c) \/ Fail(c)
  \/ \E a \in Actor : Evict(a) \/ EvictFail(a)
  \/ \E m \in Limits : SetMax(m)
  \/ ClearRows \/ ClearCover
  \/ Crash

Spec == Init /\ [][Next]_vars

\* The calls of a client run to their end: no SQLite call blocks for ever and
\* the collector answers or the socket times out (Fail).
Fairness == /\ \A c \in Client : WF_vars(Step(c))
            /\ \A a \in Actor : WF_vars(Evict(a))
            /\ WF_vars(ClearCover)

FairSpec == Spec /\ Fairness

----------------------------------------------------------------------------
(* Properties *)

TypeOK ==
  /\ now \in Nat
  /\ collector \subseteq Txn /\ rows \subseteq collector
  /\ cover \subseteq Cover
  /\ limit \in Nat /\ lock \in Actor \cup {NoOne} /\ cut \in Nat
  /\ pc \in [Actor -> {"idle", "seal", "check", "serve", "ask", "put", "evict",
                       "mark", "done", "clear"}]
  /\ pc[Settings] \in {"idle", "evict", "clear"} /\ \A c \in Client : pc[c] # "clear"
  /\ goal \in [Actor -> Nat]
  /\ job \in [Client -> [objs : SUBSET Obj, s : Nat, e : Nat, began : Nat,
                         owed : SUBSET Txn]]
  /\ cursor \in [Client -> Int] /\ seal \in [Client -> Int]
  /\ reply \in [Client -> [rows : SUBSET Txn, more : BOOLEAN, last : Nat]]
  /\ got \in [Client -> SUBSET Txn]
  /\ lost \in [Client -> Nat] /\ hole \in Nat

InCover(o, t) == \E c \in cover : c.obj = o /\ c.s <= t /\ t <= c.e
Covered(x)    == InCover(ObjOf[x], EndOf[x])

\* The rows of xlog_cover of one object are non-empty intervals that neither
\* overlap nor touch: mark_xlog merges them.  xlog_covered looks for one row
\* that spans the window and would miss a window split over two.
CoverMerged ==
  \A c, d \in cover :
    /\ c.s <= c.e
    /\ c.obj = d.obj /\ c # d => c.e < d.s - 1 \/ d.e < c.s - 1

\* Nothing newer than SEAL_MS is recorded as covered.
CoverSealed == \A c \in cover : c.e <= now - SealMs

\* What is recorded as covered is in the cache: no transaction of a covered
\* instant is on the collector and not in the table.
CoverSound == cut = 0 => \A x \in collector : Covered(x) => x \in rows

\* The same with evictions, clears, failed writes and crashes: only below
\* "hole" may a covered transaction be missing, and "hole" is raised only by a
\* query that marks across rows lost while it ran, or by a crash or a failure
\* between a deletion and its trimming.
CoverSoundAboveHole ==
  cut = 0 => \A x \in collector : Covered(x) /\ EndOf[x] >= hole => x \in rows

\* A query that ran to its end returned every transaction of its window that
\* the collector held when it began.
AnswerComplete == \A c \in Client : pc[c] = "done" => job[c].owed \subseteq got[c]

\* The same with faults: only rows that left the cache while the query ran,
\* and rows below "hole", may be missing from the answer of a query that could
\* read its pages.
AnswerCompleteAboveHole ==
  \A c \in Client : pc[c] = "done" =>
    \A x \in job[c].owed : EndOf[x] >= Greatest(hole, lost[c]) => x \in got[c]

\* Merging and marking never uncover an instant: the cache forgets only by
\* evicting or clearing, and then only the oldest part.
ForgetOnlyOldest ==
  [][\A o \in Obj, t \in 1..MaxNow :
       InCover(o, t) /\ ~InCover(o, t)' => t < cut]_vars

\* The intervals of xlog_cover implement a set of known instants per object.
Known == {k \in Obj \X (1 .. MaxNow) : InCover(k[1], k[2])}
Promise == INSTANCE PastCover WITH known <- Known
ImplementsPastCover == Promise!Spec

\* Every query comes to an end, even when the cursor cannot advance.
QueryEnds == \A c \in Client : Busy(c) ~> ~Busy(c)

============================================================================
