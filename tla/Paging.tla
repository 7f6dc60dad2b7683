------------------------------- MODULE Paging -------------------------------
(***************************************************************************)
(* The two loops that read an interval of the past page by page, several   *)
(* pieces at once: loadPastXLogs (api/pastXLog.ts), which cuts the         *)
(* interval in slices and gives every page to the caller, and searchAll    *)
(* (wideSearchAll.ts), whose workers take pieces from a list and keep what *)
(* matches up to a cap.                                                    *)
(*                                                                         *)
(* The collector answers the rows of an interval (with both of its ends)   *)
(* from the time of the cursor on, in the order of time, a page at most;   *)
(* the time of the last row is the next cursor.                            *)
(***************************************************************************)
EXTENDS Integers, Sequences, FiniteSets

CONSTANTS
    Contents,      \* what the collector may hold: sequences of times, in order
    Intervals,     \* the intervals asked: pairs
    PageCount,     \* rows of a page
    Width,         \* MIN_SLICE_MS and PIECE_MS: the least width of a piece
    Parallel,      \* PAST_PARALLEL and WIDE_PARALLEL
    MaxPages,      \* MAX_PAGES: pages of a load
    Cap            \* WIDE_TOTAL_CAP: rows of a search

VARIABLES
    wide,          \* a search, or a load
    times,         \* times[i]: the end time of row i
    interval,
    pieces,        \* the pieces, in order, with what each is at
    next,          \* searchAll: the first piece no worker has taken
    seen,          \* the rows kept; none is kept twice
    pages,         \* pages asked
    stop,          \* why the loops end: "no", "capped", "cancelled", "aborted"
    result         \* what the caller is told at the end, or Running

vars == <<wide, times, interval, pieces, next, seen, pages, stop, result>>
constants == <<wide, times, interval>>

Running == [end |-> "running", rows |-> {}, upTo |-> 0]
Min(a, b) == IF a < b THEN a ELSE b
Max(a, b) == IF a > b THEN a ELSE b
Lo == interval[1]
Hi == interval[2]
Rows == DOMAIN times
Asked == {r \in Rows : times[r] \in Lo .. Hi}

-----------------------------------------------------------------------------
(* Cutting the interval.                                                   *)

\* planSlices: even slices, as many as the width and the parallelism allow.
PlanSlices(s, e) ==
    LET span == Max(0, e - s)
        n == Max(1, Min(Parallel, (span + Width - 1) \div Width))
    IN  [i \in 1 .. n |-> [s |-> s + (span * (i - 1)) \div n,
                           e |-> IF i = n THEN e ELSE s + (span * i) \div n]]

\* planPieces: pieces of the width, the last one shorter.
PlanPieces(s, e) ==
    [i \in 1 .. (e - s + Width - 1) \div Width |->
        [s |-> s + (i - 1) * Width, e |-> Min(s + i * Width, e)]]

-----------------------------------------------------------------------------
(* A page.                                                                 *)

None == -1
From(p) == IF p.cursor = None THEN p.s ELSE p.cursor
Left(p) == {r \in Rows : times[r] \in From(p) .. p.e}
Answer(p) == {r \in Left(p) : Cardinality({q \in Left(p) : q < r}) < PageCount}
HasMore(p) == Cardinality(Left(p)) > PageCount
LastTime(p) == IF Answer(p) = {} THEN None
               ELSE times[CHOOSE r \in Answer(p) : \A q \in Answer(p) : q <= r]
Stuck(p) == p.cursor # None /\ LastTime(p) = p.cursor
Done(p) == ~HasMore(p) \/ Stuck(p)

Waiting(i) == pieces[i].at = "wait"
Idle == \A i \in DOMAIN pieces : ~Waiting(i)
Piece(p, at) == [s |-> p.s, e |-> p.e, cursor |-> None, at |-> at]

-----------------------------------------------------------------------------
(* loadPastXLogs.                                                          *)

\* The head of the loop of a slice: it asks, unless it has to end.
AskSlice(i, cursor) ==
    IF stop # "no"
    THEN pieces' = [pieces EXCEPT ![i].at = "end"] /\ UNCHANGED <<pages, stop>>
    ELSE IF pages >= MaxPages
    THEN pieces' = [pieces EXCEPT ![i].at = "end"] /\ stop' = "capped" /\ UNCHANGED pages
    ELSE /\ pieces' = [pieces EXCEPT ![i].cursor = cursor, ![i].at = "wait"]
         /\ pages' = pages + 1
         /\ UNCHANGED stop

\* A page comes: its new rows go to the caller, and the loop goes on.
SlicePage(i) ==
    /\ ~wide /\ Waiting(i)
    /\ seen' = IF stop = "aborted" THEN seen ELSE seen \cup Answer(pieces[i])
    /\ IF stop = "aborted" \/ Done(pieces[i])
       THEN pieces' = [pieces EXCEPT ![i].at = "end"] /\ UNCHANGED <<pages, stop>>
       ELSE AskSlice(i, LastTime(pieces[i]))
    /\ UNCHANGED <<constants, next, result>>

\* Promise.all: the caller hears the end when every slice has ended.
SlicesEnd ==
    /\ ~wide /\ Idle /\ result = Running /\ stop # "aborted"
    /\ result' = [end |-> IF stop = "capped" THEN "truncated" ELSE "all",
                  rows |-> seen, upTo |-> Hi]
    /\ UNCHANGED <<constants, pieces, next, seen, pages, stop>>

Abort ==
    /\ ~wide /\ result = Running /\ stop # "aborted"
    /\ stop' = "aborted"
    /\ UNCHANGED <<constants, pieces, next, seen, pages, result>>

-----------------------------------------------------------------------------
(* searchAll.                                                              *)

\* A worker that is through with a piece takes the next one, if any.
TakePiece(ps, ended) ==
    IF ended = "no" /\ next <= Len(pieces)
    THEN /\ pieces' = [ps EXCEPT ![next].at = "wait"]
         /\ next' = next + 1 /\ pages' = pages + 1
    ELSE pieces' = ps /\ UNCHANGED <<next, pages>>

\* A page comes: its rows are kept; the piece is finished, or the cap ends the
\* search, or the next page is asked unless another worker ended it.
SearchPage(i) ==
    /\ wide /\ Waiting(i)
    /\ LET p == pieces[i]
           kept == seen \cup Answer(p)
           full == Cardinality(kept) >= Cap
       IN  /\ seen' = kept
           /\ stop' = IF stop = "no" /\ full THEN "capped" ELSE stop
           /\ IF Done(p)
              THEN TakePiece([pieces EXCEPT ![i].at = "finished"], stop')
              ELSE IF stop' # "no"
              THEN /\ pieces' = [pieces EXCEPT ![i].at = "end"]
                   /\ UNCHANGED <<next, pages>>
              ELSE /\ pieces' = [pieces EXCEPT ![i].cursor = LastTime(p)]
                   /\ pages' = pages + 1 /\ UNCHANGED next
    /\ UNCHANGED <<constants, result>>

\* The user stops it; the workers see it at their next page.
Cancel ==
    /\ wide /\ result = Running /\ stop = "no"
    /\ stop' = "cancelled"
    /\ UNCHANGED <<constants, pieces, next, seen, pages, result>>

\* Mutant: the end of the last finished piece, not of the unbroken front.
StoppedAt_Furthest ==
    LET ended == {i \in DOMAIN pieces : pieces[i].at = "finished"}
    IN  IF ended = {} THEN Lo ELSE pieces[CHOOSE i \in ended : \A j \in ended : j <= i].e

\* Only what lies before the first unfinished piece is complete, and kept.
StoppedAt ==
    LET open == {i \in DOMAIN pieces : pieces[i].at # "finished"}
        first == CHOOSE i \in open : \A j \in open : i <= j
    IN  IF open = {} THEN Hi ELSE IF first = 1 THEN Lo ELSE pieces[first - 1].e

SearchEnds ==
    /\ wide /\ Idle /\ result = Running
    /\ result' = IF stop = "no" THEN [end |-> "all", rows |-> seen, upTo |-> Hi]
                 ELSE [end |-> stop, upTo |-> StoppedAt,
                       rows |-> {r \in seen : times[r] <= StoppedAt}]
    /\ UNCHANGED <<constants, pieces, next, seen, pages, stop>>

\* A request fails: the caller gets the error, what was found is lost, and the
\* other workers go on for nobody.
SearchFails ==
    /\ wide /\ result = Running
    /\ \E i \in DOMAIN pieces : Waiting(i) /\ pieces' = [pieces EXCEPT ![i].at = "end"]
    /\ result' = [end |-> "failed", rows |-> {}, upTo |-> Lo]
    /\ UNCHANGED <<constants, next, seen, pages, stop>>

-----------------------------------------------------------------------------
Init ==
    /\ wide \in BOOLEAN
    /\ times \in Contents
    /\ interval \in Intervals
    /\ LET plan == IF wide THEN PlanPieces(Lo, Hi) ELSE PlanSlices(Lo, Hi)
           first == IF wide THEN Min(Parallel, Len(plan)) ELSE Min(Len(plan), MaxPages)
       IN  /\ pieces = [i \in DOMAIN plan |->
                          Piece(plan[i], IF i <= first THEN "wait"
                                         ELSE IF wide THEN "open" ELSE "end")]
           /\ next = first + 1
           /\ pages = first
           /\ stop = IF ~wide /\ Len(plan) > MaxPages THEN "capped" ELSE "no"
    /\ seen = {}
    /\ result = Running

Next ==
    \/ \E i \in DOMAIN pieces : SlicePage(i) \/ SearchPage(i)
    \/ SlicesEnd \/ Abort \/ SearchEnds \/ Cancel \/ SearchFails

Spec == Init /\ [][Next]_vars
FairSpec == Spec /\ WF_vars(\/ SlicesEnd \/ SearchEnds
                            \/ \E i \in DOMAIN pieces : SlicePage(i) \/ SearchPage(i))

-----------------------------------------------------------------------------
(* Properties.                                                             *)

\* As many rows as a page holds may end at the same time: the cursor does not
\* move then, and both loops stop there.
Crowded == \E t \in Lo .. Hi : Cardinality({r \in Rows : times[r] = t}) >= PageCount

\* What the caller is told is true: "all" is every row of the interval, and a
\* search that was stopped has every row up to the time it names and none
\* beyond, whichever worker stopped first.
ResultTrue ==
    result # Running /\ ~Crowded =>
      /\ result.end = "all" => result.rows = Asked
      /\ result.end \in {"capped", "cancelled"} /\ wide =>
           result.rows = {r \in Asked : times[r] <= result.upTo}

\* A load that is not complete says so: it must not look cut in silence.
CutIsTold == result.end = "all" => result.rows = Asked

\* The loops end, whatever the collector holds.
PagingEnds == <>(result # Running \/ (~wide /\ stop = "aborted"))
=============================================================================
