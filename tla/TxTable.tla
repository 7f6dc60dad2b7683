------------------------------ MODULE TxTable ------------------------------
(***************************************************************************)
(* The list of the selected transactions, and the conditions it is         *)
(* filtered by.                                                            *)
(*                                                                         *)
(* What a drag takes from the chart is kept unfiltered and goes through    *)
(* the filter at each render; what a search brings stays as it came.  The  *)
(* result is memoised: it is made again when the selection, the filter or  *)
(* textVersion changes, not when a name comes in.  The slowest Limit are   *)
(* shown, in the order of the column.  FilterDialog edits all rules, the   *)
(* toolbar the first of each field.  Kept filters go to config.json by a   *)
(* read and a write that other saves may come between.                     *)
(*                                                                         *)
(* A transaction is [id, time, elapsed, service, ip, error]; Found[n] are  *)
(* the texts that are in the name n.  Widths are pixels of a small table.  *)
(***************************************************************************)
EXTENDS Integers, Sequences, FiniteSets, SequencesExt, FiniteSetsExt, Listing

CONSTANTS Txs, Found,     \* transactions, and the texts in a service name or an address
          Words,           \* what the user may type; "" is no condition
          Names,           \* bound: names for kept filters
          Elapsed,         \* bound: elapsedMs of a filter; 0 is no condition
          Limit,           \* XLOG_TABLE_LIMIT
          Total, MinCol, MinUrl, Width,  \* width of the table, MIN_COL_W, MIN_URL_W, default of a column
          MaxRules, MaxMoves             \* bounds: lines of a filter, steps of the user

VARIABLES filter,          \* XLogFilterState: [patterns, errorOnly, elapsedMs, elapsedExclude]
          draftExclude,    \* TextCond: the direction of a field without a text
          known,           \* service names the window has
          picked,          \* [xlogs, refilter]
          resolving,       \* is the answer about the names of the selection on its way
          missed,          \* names it did not bring
          selectedXLogs,   \* the memo
          searchHits,      \* of a search in the profiles; NoSearch is null
          sort,            \* [key, dir]
          widths, showY,   \* columns that were dragged; is the y column shown
          saved,           \* savedFilters
          file, saving,    \* saved_filters of config.json; saves between read and write
          moves

table == <<picked, resolving, missed, selectedXLogs, searchHits>>
kept  == <<saved, file, saving>>
vars  == <<filter, draftExclude, known, table, sort, widths, showY, kept, moves>>

NoSearch == {[id |-> "none"]}
DEFAULT_FILTER == [patterns |-> <<>>, errorOnly |-> FALSE, elapsedMs |-> 0, elapsedExclude |-> FALSE]
Fields == {"service", "ip"}
User == moves < MaxMoves /\ moves' = moves + 1

----------------------------------------------------------------------------
\* passesFilter: one of the including rules of a field, none of the excluding ones;
\* a name that is not known contains nothing.
ValueOf(x, field, names) == IF field = "ip" THEN Found[x.ip]
                            ELSE IF x.service \in names THEN Found[x.service] ELSE {}
RulesOf(rules, field) == {r \in Range(rules) : r.field = field /\ r.text # ""}
PassesPatterns(x, rules, names) ==
  \A field \in Fields :
    LET own == RulesOf(rules, field)
        inc == {r \in own : ~r.exclude}
    IN  /\ \A r \in own \ inc : r.text \notin ValueOf(x, field, names)
        /\ inc # {} => \E r \in inc : r.text \in ValueOf(x, field, names)
PassesFilter(x, f, names) ==
  /\ f.errorOnly => x.error
  /\ f.elapsedMs > 0 => (f.elapsedExclude <=> x.elapsed < f.elapsedMs)
  /\ PassesPatterns(x, f.patterns, names)

Filtered(p, f, names) ==
  IF p.refilter THEN {x \in p.xlogs : PassesFilter(x, f, names)} ELSE p.xlogs

\* The rule of a field the toolbar shows.
First(rules, field) == {i \in DOMAIN rules : rules[i].field = field
                                             /\ \A j \in 1..(i - 1) : rules[j].field # field}
FirstRule(rules, field) == IF First(rules, field) = {} THEN [text |-> "", exclude |-> FALSE]
                           ELSE LET r == rules[Min(First(rules, field))]
                                IN  [text |-> r.text, exclude |-> r.exclude]

\* A changed filter is seen by the memo at once; the toolbar keeps the direction it showed.
FilterBecomes(f, draft) ==
  /\ filter' = f /\ selectedXLogs' = Filtered(picked, f, known)
  /\ draftExclude' = [field \in Fields |-> LET r == FirstRule(f.patterns, field)
                                           IN  IF r.text # "" THEN r.exclude ELSE draft[field]]
  /\ UNCHANGED <<known, picked, resolving, missed, searchHits, sort, widths, showY, kept>>

----------------------------------------------------------------------------
\* FilterDialog
Change(f) == User /\ FilterBecomes(f, draftExclude)
AddRule(field, exclude) ==
  /\ Len(filter.patterns) < MaxRules
  /\ Change([filter EXCEPT !.patterns = Append(@, [field |-> field, text |-> "", exclude |-> exclude])])
UpdateRule(i, rule) == Change([filter EXCEPT !.patterns[i] = rule])
RemoveRule(i) == Change([filter EXCEPT !.patterns = RemoveAt(@, i)])
ClearRules == filter # DEFAULT_FILTER /\ Change(DEFAULT_FILTER)
EditNumbers ==
  \/ Change([filter EXCEPT !.errorOnly = ~@])
  \/ Change([filter EXCEPT !.elapsedExclude = ~@])
  \/ \E ms \in Elapsed \ {filter.elapsedMs} : Change([filter EXCEPT !.elapsedMs = ms])

\* The toolbar edits the first rule of a field.
SetFirstRule(rules, field, next) ==
  LET rule == [field |-> field, text |-> next.text, exclude |-> next.exclude]
  IN  IF First(rules, field) = {} THEN IF next.text = "" THEN rules ELSE Append(rules, rule)
      ELSE LET i == Min(First(rules, field))
           IN  IF next.text = "" THEN RemoveAt(rules, i) ELSE [rules EXCEPT ![i] = rule]
ExcludeShown(field) == LET r == FirstRule(filter.patterns, field)
                       IN  IF r.text = "" THEN draftExclude[field] ELSE r.exclude
TextCond(field, next) ==
  LET rules == SetFirstRule(filter.patterns, field, next)
      typed == next.text # FirstRule(filter.patterns, field).text
  IN  /\ User /\ Len(rules) <= MaxRules
      /\ next.exclude = IF typed THEN ExcludeShown(field) ELSE ~ExcludeShown(field)
      /\ FilterBecomes([filter EXCEPT !.patterns = rules],
                       IF typed THEN draftExclude ELSE [draftExclude EXCEPT ![field] = next.exclude])

----------------------------------------------------------------------------
\* A new selection: names that are missing are asked for; the answer bumps textVersion.
PickBecomes(p) ==
  /\ picked' = p /\ selectedXLogs' = Filtered(p, filter, known)
  /\ resolving' = (p.xlogs # {}) /\ missed' = {}
  /\ UNCHANGED <<filter, draftExclude, known, sort, widths, showY, kept>>

Drag(xs)  == User /\ PickBecomes([xlogs |-> xs, refilter |-> TRUE]) /\ searchHits' = NoSearch
Bring(xs) == User /\ PickBecomes([xlogs |-> xs, refilter |-> FALSE]) /\ searchHits' = NoSearch
ClearSelection ==
  /\ User /\ selectedXLogs # {}
  /\ PickBecomes([xlogs |-> {}, refilter |-> FALSE]) /\ UNCHANGED searchHits

\* Mutant: the list is not filtered again when the names came.
Resolved_KeepsList ==
  \E got \in SUBSET {x.service : x \in picked.xlogs} :
    /\ resolving /\ resolving' = FALSE
    /\ known' = known \cup got
    /\ missed' = {x.service : x \in picked.xlogs} \ known'
    /\ UNCHANGED selectedXLogs
    /\ UNCHANGED <<filter, draftExclude, picked, searchHits, sort, widths, showY, kept, moves>>

\* resolve never fails: what it did not get stays unknown, and textVersion is bumped.
Resolved ==
  \E got \in SUBSET {x.service : x \in picked.xlogs} :
    /\ resolving /\ resolving' = FALSE
    /\ known' = known \cup got
    /\ missed' = {x.service : x \in picked.xlogs} \ known'
    /\ selectedXLogs' = Filtered(picked, filter, known')
    /\ UNCHANGED <<filter, draftExclude, picked, searchHits, sort, widths, showY, kept, moves>>

\* Another part of the window resolves a name: nothing renders.
NameComes(n) ==
  /\ n \notin known /\ known' = known \cup {n}
  /\ UNCHANGED <<filter, draftExclude, table, sort, widths, showY, kept, moves>>

\* A search in the profiles of the selection went to its end.
Searched(hits) ==
  /\ User /\ selectedXLogs # {} /\ hits \subseteq selectedXLogs /\ searchHits' = hits
  /\ UNCHANGED <<filter, draftExclude, known, picked, resolving, missed, selectedXLogs, sort,
                 widths, showY, kept>>

----------------------------------------------------------------------------
\* The rows of hits, of all when there was no search; the first n of them in an order.
Base(xlogs, hits) == IF hits = NoSearch THEN xlogs ELSE xlogs \cap hits
FirstOf(base, up, n) == ToSet(SubSeq(SortedSet(base, up), 1, Min({n, Cardinality(base)})))

\* Mutant: the latest are kept, not the slowest.
PickTableRows_Latest(xlogs, hits) ==
  LET base  == Base(xlogs, hits)
      later == {p \in base \X base : p[1].time > p[2].time}
  IN  [matched |-> Cardinality(base), rows |-> FirstOf(base, later, Limit)]

\* pickTableRows, then sortXLogs: the slowest, in the order of the column, newest first.
PickTableRows(xlogs, hits) ==
  LET base   == Base(xlogs, hits)
      slower == {p \in base \X base : p[1].elapsed > p[2].elapsed}
  IN  [matched |-> Cardinality(base), rows |-> FirstOf(base, slower, Limit)]
Before(a, b) == IF a[sort.key] = b[sort.key] THEN a.time > b.time
                ELSE IF sort.dir = "asc" THEN a[sort.key] < b[sort.key] ELSE a[sort.key] > b[sort.key]
Shown ==
  LET rows == PickTableRows(selectedXLogs, searchHits).rows
  IN  SortedSet(rows, {p \in rows \X rows : Before(p[1], p[2])})
CutShown == LET n == PickTableRows(selectedXLogs, searchHits).matched IN IF n > Limit THEN n ELSE 0

NextSort(key) == IF sort.key = key THEN [sort EXCEPT !.dir = IF @ = "asc" THEN "desc" ELSE "asc"]
                 ELSE [key |-> key, dir |-> "desc"]
SortBy(key) ==
  /\ User /\ sort' = NextSort(key)
  /\ UNCHANGED <<filter, draftExclude, known, table, widths, showY, kept>>

\* selectionStats of what is selected; parts of zero are told apart from no answer.
SelectionStats ==
  LET n == Cardinality(selectedXLogs)
      times == {x.time : x \in selectedXLogs}
  IN  IF n = 0 THEN [count |-> 0, errors |-> 0, sum |-> 0, max |-> 0, spanMs |-> 0]
      ELSE [count |-> n, errors |-> Cardinality({x \in selectedXLogs : x.error}),
            sum |-> SumOf([x \in selectedXLogs |-> x.elapsed]), max |-> Max({x.elapsed : x \in selectedXLogs}),
            spanMs |-> Max(times) - Min(times)]

----------------------------------------------------------------------------
\* Columns: url takes what the others leave, but is drawn no narrower than MinUrl; a drag
\* moves the one on the outer side.
VisibleCols == IF showY THEN <<"time", "url", "elapsed", "y">> ELSE <<"time", "url", "elapsed">>
WidthOf(col) == IF col \in DOMAIN widths THEN widths[col] ELSE Width
UrlWidth == Total - SumOf([col \in Range(VisibleCols) \ {"url"} |-> WidthOf(col)])
TargetOf(boundary) == IF boundary < 2 THEN VisibleCols[boundary] ELSE VisibleCols[boundary + 1]

\* Mutant: a column grows beyond what the address can give.
ResizeAt_NoRoom(boundary, delta) ==
  LET target == TargetOf(boundary)
      grow   == IF boundary < 2 THEN delta ELSE -delta
      room   == Total
      next   == Max({WidthOf(target) + Min({grow, room}), MinCol})
  IN  /\ User /\ next # WidthOf(target)
      /\ widths' = [c \in DOMAIN widths \cup {target} |-> IF c = target THEN next ELSE widths[c]]
      /\ UNCHANGED <<filter, draftExclude, known, table, sort, showY, kept>>

ResizeAt(boundary, delta) ==
  LET target == TargetOf(boundary)
      grow   == IF boundary < 2 THEN delta ELSE -delta
      room   == Max({0, UrlWidth - MinUrl})
      next   == Max({WidthOf(target) + Min({grow, room}), MinCol})
  IN  /\ User /\ next # WidthOf(target)
      /\ widths' = [c \in DOMAIN widths \cup {target} |-> IF c = target THEN next ELSE widths[c]]
      /\ UNCHANGED <<filter, draftExclude, known, table, sort, showY, kept>>
ResetAt(boundary) ==
  /\ User /\ TargetOf(boundary) \in DOMAIN widths
  /\ widths' = [c \in DOMAIN widths \ {TargetOf(boundary)} |-> widths[c]]
  /\ UNCHANGED <<filter, draftExclude, known, table, sort, showY, kept>>
SetYAxis ==
  /\ User /\ showY' = ~showY
  /\ UNCHANGED <<filter, draftExclude, known, table, sort, widths, kept>>

----------------------------------------------------------------------------
\* Kept filters: the conditions under a name, without the servers and without empty lines.
FromFilter(name) ==
  [name |-> name, of |-> [filter EXCEPT !.patterns = Only(@, {r \in Range(@) : r.text # ""})]]
Without(list, name) == Only(list, {f \in Range(list) : f.name # name})
Upsert(list, entry) ==
  LET at == {i \in DOMAIN list : list[i].name = entry.name}
  IN  IF at = {} THEN Append(list, entry) ELSE [list EXCEPT ![Min(at)] = entry]
IsSame(f) == FromFilter(f.name).of = f.of

\* saveCurrentFilter, deleteSavedFilter: the list changes at once, the file by a save of
\* its own.
Persist(next) ==
  /\ User /\ saved' = next /\ saving' = Append(saving, [list |-> next, read |-> FALSE])
  /\ UNCHANGED <<filter, draftExclude, known, table, sort, widths, showY, file>>
SaveFilter(name) == Persist(Upsert(saved, FromFilter(name)))
DeleteFilter(name) == (\E f \in Range(saved) : f.name = name) /\ Persist(Without(saved, name))
PersistStep(i) ==
  /\ \/ ~saving[i].read /\ saving' = [saving EXCEPT ![i].read = TRUE] /\ UNCHANGED file
     \/ saving[i].read /\ file' = saving[i].list /\ saving' = RemoveAt(saving, i)
     \/ saving' = RemoveAt(saving, i) /\ UNCHANGED file
  /\ UNCHANGED <<filter, draftExclude, known, table, sort, widths, showY, saved, moves>>
ApplySaved(f) == ~IsSame(f) /\ Change(f.of)

----------------------------------------------------------------------------
Init ==
  /\ filter = DEFAULT_FILTER /\ draftExclude = [f \in Fields |-> FALSE]
  /\ known = {} /\ picked = [xlogs |-> {}, refilter |-> FALSE] /\ resolving = FALSE /\ missed = {}
  /\ selectedXLogs = {} /\ searchHits = NoSearch /\ sort = [key |-> "time", dir |-> "desc"]
  /\ widths = <<>> /\ showY = FALSE /\ saved = <<>> /\ file = <<>> /\ saving = <<>> /\ moves = 0

Next ==
  \/ \E field \in Fields :
       \/ \E ex \in BOOLEAN : AddRule(field, ex)
       \/ \E w \in Words, ex \in BOOLEAN : TextCond(field, [text |-> w, exclude |-> ex])
  \/ \E i \in DOMAIN filter.patterns :
       \/ RemoveRule(i)
       \/ \E w \in Words : UpdateRule(i, [filter.patterns[i] EXCEPT !.text = w])
       \/ UpdateRule(i, [filter.patterns[i] EXCEPT !.exclude = ~@])
  \/ ClearRules \/ EditNumbers
  \/ \E xs \in SUBSET Txs : Drag(xs) \/ Bring(xs) \/ Searched(xs)
  \/ ClearSelection \/ Resolved
  \/ \E x \in Txs : NameComes(x.service)
  \/ \E key \in {"time", "elapsed"} : SortBy(key)
  \/ \E b \in 1..(Len(VisibleCols) - 1) : ResetAt(b) \/ \E d \in {-1, 1, 3} : ResizeAt(b, d)
  \/ SetYAxis
  \/ \E n \in Names : SaveFilter(n) \/ DeleteFilter(n)
  \/ \E i \in DOMAIN saving : PersistStep(i)
  \/ \E f \in Range(saved) : ApplySaved(f)

Spec == Init /\ [][Next]_vars

----------------------------------------------------------------------------
(* The list tells the truth.  When the names of the selection came, what   *)
(* is listed is what passes the filter with the names known now; no row    *)
(* that was cut off is slower than one that is shown, the figures beside   *)
(* the list count what it stands for, and each kept filter has a name of   *)
(* its own.                                                                *)
TableTrue ==
  /\ ~resolving /\ missed = {} => selectedXLogs = Filtered(picked, filter, known)
  /\ LET base == Base(selectedXLogs, searchHits)
     IN  /\ \A x \in base \ Range(Shown), y \in Range(Shown) : x.elapsed <= y.elapsed
         /\ Len(Shown) = Min({Limit, Cardinality(base)})
         /\ CutShown > 0 <=> Range(Shown) # base
  /\ \A x \in selectedXLogs : SelectionStats.max >= x.elapsed
  /\ \A i, j \in DOMAIN saved : saved[i].name = saved[j].name => i = j

(* A column that is dragged never makes the row wider than the table: what *)
(* it grows by, the url has beyond its least width (xlogColumns.ts).       *)
Drags == widths' # widths /\ DOMAIN widths \subseteq DOMAIN widths'
DragStep == Drags => UrlWidth' >= MinUrl \/ UrlWidth' >= UrlWidth

(* A row is not wider than the table: why xlogColumns.ts keeps no width of *)
(* the url.  Drags keep it so; a column that is put back to its default    *)
(* width does not ask what the url has.                                    *)
RowFits == ~showY => UrlWidth >= MinUrl

(* When all saves have ended without a fault the file holds the list the   *)
(* user sees.  It does not: two saves may write in the other order.        *)
FileFollows == saving = <<>> => file = saved
=============================================================================
