----------------------------- MODULE WideSearch -----------------------------
(***************************************************************************)
(* The search for transactions in a wide range (wideSearchAll.ts).         *)
(*                                                                         *)
(* The range is cut into pieces; workers take the next piece, wait for the *)
(* objects of its day and page through it until the range is through, the  *)
(* cap is reached or the user stops.  What is kept is complete up to the   *)
(* end of the last piece of the gapless front.  A page that fails ends the *)
(* search for the window, the other workers go on and report to it.        *)
(*                                                                         *)
(* A row of a server is [id, t, server, gone]: gone rows are those of      *)
(* objects only the list of the day knows.  A piece [s, e] takes both ends.*)
(***************************************************************************)
EXTENDS Integers, Sequences, FiniteSets, FiniteSetsExt, Functions

CONSTANTS Hits,                   \* rows that match, of all servers
          Ranges,                 \* bound: what may be asked: <<stime, etime>>
          Piece, Parallel, Cap, PageCount,  \* PIECE_MS, scan_parallel, wide_search_max, rows of a page
          Days,                   \* midnights
          MaxRuns, MaxSwitches, MaxFaults   \* bounds

VARIABLES server, switches,
          showWideSearch, wideRunning, wideProgress, wideCancel, wideTruncated,
          selected,               \* what the list of the window holds
          runs,                   \* searchAll calls
          answer,                 \* history: the run whose result is in the list, or 0
          faults
vars == <<server, switches, showWideSearch, wideRunning, wideProgress, wideCancel, wideTruncated,
          selected, runs, answer, faults>>

NoProgress == [found |-> -1, done |-> 0, requests |-> 0]
NotCut == [kind |-> "none", stoppedAt |-> -1]
Ended == [piece |-> 0, at |-> "ended", all |-> TRUE, from |-> 0]

----------------------------------------------------------------------------
\* planPieces: no piece is longer than Piece or goes over midnight; each begins where the
\* one before it ends.
CutAfter(range, s) == Min({s + Piece, range[2]} \cup {m \in Days : m > s})
PlanPieces(range) ==
  LET bound[n \in 0..(range[2] - range[1])] ==
        IF n = 0 THEN range[1] ELSE CutAfter(range, bound[n - 1])
      last == Min({n \in DOMAIN bound : bound[n] = range[2]})
  IN  [i \in 1..last |-> <<bound[i - 1], bound[i]>>]

\* A worker at the top of its loop: it takes the next piece, unless something stopped it.
Takes(r) == IF r.stop = "no" /\ r.next <= Len(r.pieces)
            THEN [run |-> [r EXCEPT !.next = @ + 1],
                  worker |-> [piece |-> r.next, at |-> "objects", all |-> TRUE, from |-> 0]]
            ELSE [run |-> r, worker |-> Ended]
Puts(r, w) == LET x == Takes(r) IN [x.run EXCEPT !.workers[w] = x.worker]

ProgressOf(r) ==
  [found |-> Cardinality(r.out), requests |-> r.requests,
   done |-> MapThenSumSet(LAMBDA i : r.pieces[i][2] - r.pieces[i][1], r.finished)]

NewRun(range) ==
  LET pieces == PlanPieces(range)
      n == Min({Parallel, Len(pieces)})
  IN  [range |-> range, pieces |-> pieces, next |-> n + 1, finished |-> {}, out |-> {},
       stop |-> "no", requests |-> 0, rejected |-> FALSE, over |-> FALSE,
       whole |-> TRUE, began |-> switches,
       workers |-> [w \in 1..n |-> [piece |-> w, at |-> "objects", all |-> TRUE, from |-> 0]]]

RunWideSearch(range) ==
  /\ wideRunning' = TRUE /\ wideCancel' = FALSE
  /\ wideProgress' = [found |-> 0, done |-> 0, requests |-> 0]
  /\ runs' = Append(runs, NewRun(range))
  /\ UNCHANGED <<server, switches, showWideSearch, wideTruncated, selected, answer, faults>>

\* The dialog: one search at a time, of a range that goes forward.
Search(range) ==
  /\ showWideSearch /\ ~wideRunning /\ range[1] < range[2]
  /\ Len(runs) < MaxRuns /\ RunWideSearch(range)

Open   == ~showWideSearch /\ showWideSearch' = TRUE /\ UNCHANGED <<server, switches, wideRunning,
            wideProgress, wideCancel, wideTruncated, selected, runs, answer, faults>>
Close  == showWideSearch /\ showWideSearch' = FALSE /\ UNCHANGED <<server, switches, wideRunning,
            wideProgress, wideCancel, wideTruncated, selected, runs, answer, faults>>
Cancel == showWideSearch /\ wideRunning /\ ~wideCancel /\ wideCancel' = TRUE /\ UNCHANGED <<server,
            switches, showWideSearch, wideRunning, wideProgress, wideTruncated, selected, runs,
            answer, faults>>

----------------------------------------------------------------------------
\* What a search gives: all of the gapless front, when it was cut.
StoppedAt(r) == LET front == {i \in DOMAIN r.pieces : 1..i \subseteq r.finished}
                IN  IF front = {} THEN r.range[1] ELSE r.pieces[Max(front)][2]
\* Mutant: rows beyond the stop stay.
Kept_All(r) == r.out

Kept(r) == IF r.stop = "no" THEN r.out ELSE {x \in r.out : x.t <= StoppedAt(r)}
CutOf(r) == IF r.stop = "no" THEN NotCut ELSE [kind |-> r.stop, stoppedAt |-> StoppedAt(r)]

\* The run after a step of a worker; the last one that ends brings the result.
Goes(i, r, reports) ==
  LET ended == Range(r.workers) = {Ended} /\ ~r.rejected
  IN  /\ runs' = [runs EXCEPT ![i] = [r EXCEPT !.over = @ \/ ended]]
      /\ IF ended
         THEN /\ showWideSearch' = FALSE /\ selected' = Kept(r) /\ wideTruncated' = CutOf(r)
              /\ wideRunning' = FALSE /\ wideProgress' = NoProgress /\ answer' = i
         ELSE /\ UNCHANGED <<showWideSearch, selected, wideTruncated, wideRunning, answer>>
              /\ wideProgress' = IF reports THEN ProgressOf(r) ELSE wideProgress
  /\ UNCHANGED <<server, switches, wideCancel>>

\* Before each page a worker looks whether it is stopped.
Asks(r, w, from) ==
  LET stop == IF r.stop = "no" /\ wideCancel THEN "cancelled" ELSE r.stop
  IN  [r EXCEPT !.stop = stop,
                !.workers[w] = IF stop # "no" THEN Ended ELSE [@ EXCEPT !.at = "page", !.from = from]]

\* The objects of a day: without the list of the day only those that are there now.
Objects(i, w) ==
  /\ runs[i].workers[w].at = "objects"
  /\ \E all \in BOOLEAN :
       /\ faults' = IF all THEN faults ELSE faults + 1
       /\ faults' <= MaxFaults
       /\ Goes(i, Asks([runs[i] EXCEPT !.workers[w].all = all, !.whole = @ /\ all], w, 0), FALSE)

\* What a server has of a piece, and the place of a row in the order of time, which the
\* cursor keeps.
RowsOf(r, k) == LET piece == r.pieces[r.workers[k].piece]
                IN  {x \in Hits : /\ x.server = server /\ x.t \in piece[1]..piece[2]
                                  /\ x.gone => r.workers[k].all}
Rank(x, rows) ==
  Cardinality({y \in rows : y.t < x.t \/ (y.t = x.t /\ y.id <= x.id)})

PageAnswer(i, w) ==
  LET old  == runs[i]
      rows == RowsOf(old, w)
      from == old.workers[w].from
      to   == Min({from + PageCount, Cardinality(rows)})
      new  == {x \in rows : Rank(x, rows) \in (from + 1)..to}
      r    == [old EXCEPT !.requests = @ + 1, !.out = @ \cup new]
      done == to = Cardinality(rows)
      full == Cardinality(r.out) >= Cap
      stop == IF full /\ r.stop = "no" THEN "cap" ELSE r.stop
  IN  /\ old.workers[w].at = "page"
      /\ Goes(i, IF done
                 THEN Puts([r EXCEPT !.finished = @ \cup {r.workers[w].piece}, !.stop = stop], w)
                 ELSE IF full THEN [r EXCEPT !.stop = stop, !.workers[w] = Ended]
                 ELSE Asks(r, w, to),
              done \/ full)
      /\ UNCHANGED faults

\* A page that fails: the window is told at once, the other workers are not.
PageFails(i, w) ==
  /\ runs[i].workers[w].at = "page" /\ faults < MaxFaults /\ faults' = faults + 1
  /\ runs' = [runs EXCEPT ![i] = [@ EXCEPT !.workers[w] = Ended, !.rejected = TRUE]]
  /\ IF runs[i].rejected THEN UNCHANGED <<wideRunning, wideProgress>>
     ELSE wideRunning' = FALSE /\ wideProgress' = NoProgress
  /\ UNCHANGED <<server, switches, showWideSearch, wideCancel, wideTruncated, selected, answer>>

\* The connection goes to another server; the search is not told.
SwitchServer(s) ==
  /\ s # server /\ switches < MaxSwitches /\ server' = s /\ switches' = switches + 1
  /\ selected' = {} /\ answer' = 0
  /\ UNCHANGED <<showWideSearch, wideRunning, wideProgress, wideCancel, wideTruncated, runs, faults>>

ClearSelection ==
  /\ selected # {} /\ selected' = {} /\ wideTruncated' = NotCut /\ answer' = 0
  /\ UNCHANGED <<server, switches, showWideSearch, wideRunning, wideProgress, wideCancel, runs, faults>>

----------------------------------------------------------------------------
Servers == {x.server : x \in Hits}
Init ==
  /\ server \in Servers /\ switches = 0 /\ showWideSearch = FALSE /\ wideRunning = FALSE
  /\ wideProgress = NoProgress /\ wideCancel = FALSE /\ wideTruncated = NotCut
  /\ selected = {} /\ runs = <<>> /\ answer = 0 /\ faults = 0

Next ==
  \/ \E range \in Ranges : Search(range)
  \/ Open \/ Close \/ Cancel \/ ClearSelection
  \/ \E i \in DOMAIN runs : \E w \in DOMAIN runs[i].workers :
       Objects(i, w) \/ PageAnswer(i, w) \/ PageFails(i, w)
  \/ \E s \in Servers : SwitchServer(s)

Spec == Init /\ [][Next]_vars

----------------------------------------------------------------------------
EndOf(r) == IF r.stop = "no" THEN r.range[2] + 1 ELSE StoppedAt(r)
Matches(r, end) == {x \in Hits : x.server = server /\ x.t \in r.range[1]..(end - 1)}

(* What the list says of a search is so.  Before the time it names, or to  *)
(* the end of the range when it names none, it holds every match, and      *)
(* nothing that is not one or comes after it, whatever order the pages     *)
(* came in: if the lists of the days came and the server stayed.           *)
WideTrue ==
  answer # 0 => LET r == runs[answer] IN
    r.whole /\ r.began = switches => /\ Matches(r, EndOf(r)) \subseteq selected
                                     /\ selected \subseteq Matches(r, EndOf(r) + 1)

(* Only a running search shows progress.  Workers of a failed one do, too. *)
ProgressTrue == ~wideRunning => wideProgress = NoProgress

(* Claimed by the comment of wideTruncated in App.tsx: what is marked as   *)
(* cut was not searched to its end.  The cap may be met by the last piece. *)
CutIsCut == answer # 0 /\ wideTruncated.kind = "cap" => runs[answer].finished # DOMAIN runs[answer].pieces

(* The list holds transactions of the server the window shows.  A search   *)
(* that was on its way brings those of the server before.                  *)
ListOfServer == \A x \in selected : x.server = server
=============================================================================
