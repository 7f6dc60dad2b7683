---------------------------- MODULE ProfileView ----------------------------
(***************************************************************************)
(* The profile of the transaction in the detail panel, and the search that *)
(* goes through the profiles of the selected transactions.                 *)
(*                                                                         *)
(* XLogDetailPanel.tsx shows the steps as a list or summed up, finds a     *)
(* text in them and lights one step: the one picked in the summary, else   *)
(* the hit the user stands at.  useProfileSearch.ts asks for the profiles  *)
(* in batches, one after the other; a run that was replaced drops what     *)
(* still comes for it.  The panel of each tab is a new one, and a change   *)
(* takes two renders: the effects of the first put the hit back.           *)
(*                                                                         *)
(* A step is [kind, name, has, ms, parent, to, long]: has are the texts    *)
(* that are found in it, long says that it overflows its lines.  Layout,   *)
(* colours and the wording of the full text are left out.                  *)
(***************************************************************************)
EXTENDS Integers, Sequences, FiniteSets, FiniteSetsExt, Functions, Listing

CONSTANTS Txs, Profiles,  \* transactions, and the steps of each
          Texts,          \* what the user may look for; "" is nothing
          BodyHits,       \* how often a text is in a body, as it came and put in order
          Selections,     \* bound: what may be selected on the chart
          Batch,          \* BATCH
          MaxDepth,       \* MAX_DEPTH of stepLayout.ts
          MaxMoves        \* bound: commands of the user

VARIABLES tab, loaded,    \* the transaction of the panel, and whether its profile is there
          panelQuery, hitIdx, picked, profileMode,  \* state of XLogDetailPanel
          expanded,       \* long steps of the list that are open
          sort,           \* of the summary
          dialog,         \* StepDetailDialog: [step, pretty, query, hit]
          fullText,       \* is ProfileTextDialog open
          chosen,         \* selectedXLogs
          search,         \* useProfileSearch: [running, hits, done, total, failed, error, query]
          gen, cancelled, \* genRef, cancelRef
          onTheWay,       \* runs that wait for a batch: [gen, targets, query, at]
          asked, lost,    \* history: what the last run was asked, what of it could not be read
          moves

panel   == <<tab, loaded, panelQuery, hitIdx, picked, profileMode, expanded, sort, dialog, fullText>>
finding == <<search, gen, cancelled, onTheWay, asked, lost>>
vars    == <<panel, chosen, finding, moves>>

Nobody == "nobody"
NoStep == 0
NoDialog == [step |-> NoStep, pretty |-> FALSE, query |-> "", hit |-> 0]
IDLE == [running |-> FALSE, hits |-> {}, done |-> 0, total |-> 0, failed |-> 0,
         error |-> FALSE, query |-> ""]
Steps == IF tab # Nobody /\ loaded THEN Profiles[tab] ELSE <<>>
User  == moves < MaxMoves /\ moves' = moves + 1

----------------------------------------------------------------------------
\* findStepHits; the query of the panel comes before the one of the search.
Matches(step, q) == q # "" /\ step.kind # "Unknown" /\ q \in step.has
FindStepHits(steps, q) ==
  Only([i \in DOMAIN steps |-> i], {i \in DOMAIN steps : Matches(steps[i], q)})
QueryOf(typed, searched) == IF typed # "" THEN typed ELSE searched
Query    == QueryOf(panelQuery, search.query)
StepHits == FindStepHits(Steps, Query)

Lit(hits, h, p) == IF p # NoStep THEN p
                   ELSE IF h + 1 \in DOMAIN hits THEN hits[h + 1] ELSE NoStep
Highlight == Lit(StepHits, hitIdx, picked)

\* Mutant: a new query keeps the number of the hit.
Renders_KeepsHit(steps, q, h, p, m) ==
  LET hits  == FindStepHits(steps, q)
      first == Lit(hits, h, p)
      fresh == q # Query
      last  == Lit(hits, IF fresh THEN 0 ELSE h, IF fresh THEN NoStep ELSE p)
      lights == (IF first # Highlight THEN {first} ELSE {})
                \cup (IF last # first THEN {last} ELSE {})
      before == IF profileMode = "list" THEN expanded ELSE {}
      opens  == IF profileMode = "list" THEN lights ELSE {last}
  IN  /\ hitIdx' = h
      /\ picked' = IF fresh THEN NoStep ELSE p
      /\ profileMode' = IF lights \ {NoStep} # {} THEN "list" ELSE m
      /\ expanded' = IF profileMode' # "list" THEN {}
                     ELSE before \cup {i \in opens \ {NoStep} : steps[i].long}

\* What a render with query q, hit h, picked step p and mode m leaves behind: a new query
\* puts both back, a step that lights up brings the list back and opens what is long.
Renders(steps, q, h, p, m) ==
  LET hits  == FindStepHits(steps, q)
      first == Lit(hits, h, p)
      fresh == q # Query
      last  == Lit(hits, IF fresh THEN 0 ELSE h, IF fresh THEN NoStep ELSE p)
      lights == (IF first # Highlight THEN {first} ELSE {})
                \cup (IF last # first THEN {last} ELSE {})
      before == IF profileMode = "list" THEN expanded ELSE {}
      opens  == IF profileMode = "list" THEN lights ELSE {last}
  IN  /\ hitIdx' = IF fresh THEN 0 ELSE h
      /\ picked' = IF fresh THEN NoStep ELSE p
      /\ profileMode' = IF lights \ {NoStep} # {} THEN "list" ELSE m
      /\ expanded' = IF profileMode' # "list" THEN {}
                     ELSE before \cup {i \in opens \ {NoStep} : steps[i].long}

SearchBecomes(s) ==
  /\ search' = s
  /\ Renders(Steps, QueryOf(panelQuery, s.query), hitIdx, picked, profileMode)
  /\ UNCHANGED <<tab, loaded, panelQuery, sort, dialog, fullText>>

----------------------------------------------------------------------------
\* Another tab, or none: its panel starts afresh, and with the query of the search.
Show(x) ==
  /\ User /\ x # tab /\ dialog = NoDialog /\ ~fullText
  /\ tab' = x /\ loaded' = FALSE /\ panelQuery' = "" /\ hitIdx' = 0 /\ picked' = NoStep
  /\ profileMode' = "list" /\ expanded' = {} /\ sort' = "sum"
  /\ dialog' = NoDialog /\ fullText' = FALSE
  /\ UNCHANGED <<chosen, finding>>

Loaded ==
  /\ tab # Nobody /\ ~loaded /\ loaded' = TRUE
  /\ Renders(Profiles[tab], Query, hitIdx, picked, profileMode)
  /\ UNCHANGED <<tab, panelQuery, sort, dialog, fullText, chosen, finding, moves>>

Type(q) ==
  /\ User /\ Steps # <<>> /\ dialog = NoDialog /\ ~fullText
  /\ q # panelQuery /\ panelQuery' = q
  /\ Renders(Steps, QueryOf(q, search.query), hitIdx, picked, profileMode)
  /\ UNCHANGED <<tab, loaded, sort, dialog, fullText, chosen, finding>>

\* moveHit: the next or the previous hit, round the end.
MoveHit(d) ==
  /\ User /\ StepHits # <<>> /\ dialog = NoDialog /\ ~fullText
  /\ Renders(Steps, Query, (hitIdx + d + Len(StepHits)) % Len(StepHits), picked, profileMode)
  /\ UNCHANGED <<tab, loaded, panelQuery, sort, dialog, fullText, chosen, finding>>

SetMode(m) ==
  /\ User /\ Steps # <<>> /\ m # profileMode /\ dialog = NoDialog /\ ~fullText
  /\ Renders(Steps, Query, hitIdx, picked, m)
  /\ UNCHANGED <<tab, loaded, panelQuery, sort, dialog, fullText, chosen, finding>>

----------------------------------------------------------------------------
\* summarizeSteps: one row for what has one kind and one name.
KeyOf(step) == <<step.kind, step.name>>
Known(steps) == {i \in DOMAIN steps : steps[i].kind # "Unknown"}
SummarizeSteps(steps) ==
  LET of(k) == {i \in Known(steps) : KeyOf(steps[i]) = k}
      sum(k) == SumOf([i \in of(k) |-> IF steps[i].kind = "Message" THEN 0 ELSE steps[i].ms])
  IN  {[key |-> k, count |-> Cardinality(of(k)), sum |-> sum(k),
        avg |-> (2 * sum(k) + Cardinality(of(k))) \div (2 * Cardinality(of(k)))]
         : k \in {KeyOf(steps[i]) : i \in Known(steps)}}
SortSummary(rows) == SortedSet(rows, {p \in rows \X rows : p[1][sort] > p[2][sort]})
FirstStepIndexOf(steps, k) == Min({i \in Known(steps) : KeyOf(steps[i]) = k})

SortBy(by) ==
  /\ User /\ profileMode = "summary" /\ Steps # <<>> /\ by # sort /\ sort' = by
  /\ UNCHANGED <<tab, loaded, panelQuery, hitIdx, picked, profileMode, expanded, dialog, fullText,
                 chosen, finding>>

\* A row of the summary leads to the first step of it, in the list.
Pick(row) ==
  /\ User /\ profileMode = "summary" /\ Steps # <<>> /\ ~fullText
  /\ Renders(Steps, Query, hitIdx, FirstStepIndexOf(Steps, row.key), "list")
  /\ UNCHANGED <<tab, loaded, panelQuery, sort, dialog, fullText, chosen, finding>>

----------------------------------------------------------------------------
\* The list: each step under its parent, at most MaxDepth in; a circle of parents ends.
StepDepth(steps, i) ==
  LET parent(j) == IF steps[j].kind = "Unknown" THEN NoStep ELSE steps[j].parent
      line[n \in 0..MaxDepth] ==
        IF n = 0 THEN <<i>>
        ELSE LET l == line[n - 1]
                 up == parent(l[Len(l)])
             IN  IF up \notin DOMAIN steps \/ up \in Range(l) THEN l ELSE Append(l, up)
  IN  Len(line[MaxDepth]) - 1

\* The row of a step, its body, and where a thread it started is opened.
StepRow(i) == [step |-> i, depth |-> StepDepth(Steps, i), lit |-> i = Highlight,
               thread |-> IF Steps[i].kind = "ThreadCall" THEN Steps[i].to ELSE Nobody]
ListRows == IF profileMode = "list" THEN {StepRow(i) : i \in Known(Steps)} ELSE {}

Toggle(i) ==
  /\ User /\ profileMode = "list" /\ i \in Known(Steps) /\ Steps[i].long /\ dialog = NoDialog
  /\ ~fullText
  /\ expanded' = IF i \in expanded THEN expanded \ {i} ELSE expanded \cup {i}
  /\ UNCHANGED <<tab, loaded, panelQuery, hitIdx, picked, profileMode, sort, dialog, fullText,
                 chosen, finding>>

OpenThread(row) ==
  /\ profileMode = "list" /\ row.thread # Nobody /\ Show(row.thread)

----------------------------------------------------------------------------
\* StepDetailDialog: the whole body of a step, put in order or as it came.
HitsIn(d) == IF d.query = "" THEN 0 ELSE BodyHits[d.query][d.pretty]

OpenBody(i) ==
  /\ User /\ profileMode = "list" /\ i \in Known(Steps) /\ Steps[i].long
  /\ dialog = NoDialog /\ ~fullText
  /\ dialog' = [NoDialog EXCEPT !.step = i, !.pretty = TRUE]
  /\ UNCHANGED <<tab, loaded, panelQuery, hitIdx, picked, profileMode, expanded, sort, fullText,
                 chosen, finding>>

\* A new text and a new shape put its hit back to the first; the arrows go round.
InDialog ==
  /\ User /\ dialog # NoDialog
  /\ \/ \E q \in Texts : dialog' = [dialog EXCEPT !.query = q, !.hit = 0] /\ q # dialog.query
     \/ dialog' = [dialog EXCEPT !.pretty = ~@, !.hit = 0]
     \/ \E d \in {1, -1} :
          /\ HitsIn(dialog) > 0
          /\ dialog' = [dialog EXCEPT !.hit = (@ + d + HitsIn(dialog)) % HitsIn(dialog)]
     \/ dialog' = NoDialog
  /\ UNCHANGED <<tab, loaded, panelQuery, hitIdx, picked, profileMode, expanded, sort, fullText,
                 chosen, finding>>

\* profileFullText: every step, the unknown ones too, one after the other.
FullText == [i \in DOMAIN Steps |-> [step |-> i, depth |-> StepDepth(Steps, i)]]
TextDialog ==
  /\ User /\ Steps # <<>> /\ dialog = NoDialog /\ fullText' = ~fullText
  /\ UNCHANGED <<tab, loaded, panelQuery, hitIdx, picked, profileMode, expanded, sort, dialog,
                 chosen, finding>>

----------------------------------------------------------------------------
\* useProfileSearch
Run(q) ==
  /\ User /\ chosen # <<>> /\ ~search.running /\ q # ""
  /\ cancelled' = FALSE /\ gen' = gen + 1
  /\ SearchBecomes([IDLE EXCEPT !.running = TRUE, !.total = Len(chosen), !.query = q])
  /\ onTheWay' = onTheWay \cup {[gen |-> gen + 1, targets |-> chosen, query |-> q, at |-> 0]}
  /\ asked' = chosen /\ lost' = {}
  /\ UNCHANGED chosen

Cancel ==
  /\ User /\ search.running /\ cancelled' = TRUE
  /\ UNCHANGED <<panel, chosen, search, gen, onTheWay, asked, lost>>

\* Mutant: a reset does not disown the run under way.
Reset_SameRun == cancelled' = TRUE /\ UNCHANGED gen /\ SearchBecomes(IDLE) /\ UNCHANGED <<onTheWay, asked, lost>>

Reset == cancelled' = TRUE /\ gen' = gen + 1 /\ SearchBecomes(IDLE) /\ UNCHANGED <<onTheWay, asked, lost>>

ClearSearch == User /\ search.query # "" /\ ~search.running /\ Reset /\ UNCHANGED chosen

Select(s) == User /\ chosen' = s /\ Reset
ClearSelection == User /\ chosen # <<>> /\ chosen' = <<>> /\ UNCHANGED <<panel, finding>>

\* Mutant: the failures of earlier batches are forgotten.
BatchAnswer_CountsOnce(r) ==
  LET batch == SubSeq(r.targets, r.at + 1, Min({r.at + Batch, Len(r.targets)}))
      next  == r.at + Len(batch)
      others == onTheWay \ {r}
  IN  /\ IF r.gen # gen THEN onTheWay' = others /\ UNCHANGED <<panel, search, lost>>
         ELSE \/ \E out \in SUBSET Range(batch) :
                   /\ lost' = lost \cup out
                   /\ LET goes == next < Len(r.targets) /\ ~cancelled
                      IN  /\ onTheWay' = IF goes THEN others \cup {[r EXCEPT !.at = next]} ELSE others
                          /\ SearchBecomes([search EXCEPT
                               !.running = goes, !.done = next, !.failed = Cardinality(out),
                               !.hits = @ \cup {x \in Range(batch) \ out :
                                                  FindStepHits(Profiles[x], r.query) # <<>>}])
              \/ /\ SearchBecomes([search EXCEPT !.running = FALSE, !.error = TRUE])
                 /\ onTheWay' = others /\ UNCHANGED lost
      /\ UNCHANGED <<chosen, gen, cancelled, asked, moves>>

\* The answer to a batch: the next one follows it, unless the search was cancelled.
BatchAnswer(r) ==
  LET batch == SubSeq(r.targets, r.at + 1, Min({r.at + Batch, Len(r.targets)}))
      next  == r.at + Len(batch)
      others == onTheWay \ {r}
  IN  /\ IF r.gen # gen THEN onTheWay' = others /\ UNCHANGED <<panel, search, lost>>
         ELSE \/ \E out \in SUBSET Range(batch) :
                   /\ lost' = lost \cup out
                   /\ LET goes == next < Len(r.targets) /\ ~cancelled
                      IN  /\ onTheWay' = IF goes THEN others \cup {[r EXCEPT !.at = next]} ELSE others
                          /\ SearchBecomes([search EXCEPT
                               !.running = goes, !.done = next, !.failed = @ + Cardinality(out),
                               !.hits = @ \cup {x \in Range(batch) \ out :
                                                  FindStepHits(Profiles[x], r.query) # <<>>}])
              \/ /\ SearchBecomes([search EXCEPT !.running = FALSE, !.error = TRUE])
                 /\ onTheWay' = others /\ UNCHANGED lost
      /\ UNCHANGED <<chosen, gen, cancelled, asked, moves>>

Init ==
  /\ tab = Nobody /\ loaded = FALSE /\ panelQuery = "" /\ hitIdx = 0 /\ picked = NoStep
  /\ profileMode = "list" /\ expanded = {} /\ sort = "sum" /\ dialog = NoDialog /\ fullText = FALSE
  /\ chosen = <<>> /\ search = IDLE /\ gen = 0 /\ cancelled = FALSE /\ onTheWay = {}
  /\ asked = <<>> /\ lost = {} /\ moves = 0

Next ==
  \/ \E x \in Txs \cup {Nobody} : Show(x)
  \/ Loaded
  \/ \E q \in Texts : Type(q) \/ Run(q)
  \/ \E d \in {1, -1} : MoveHit(d)
  \/ \E m \in {"list", "summary"} : SetMode(m)
  \/ \E by \in {"sum", "count", "avg"} : SortBy(by)
  \/ \E row \in SummarizeSteps(Steps) : Pick(row)
  \/ \E i \in DOMAIN Steps : Toggle(i) \/ OpenBody(i)
  \/ \E row \in ListRows : OpenThread(row)
  \/ InDialog \/ TextDialog
  \/ Cancel \/ ClearSearch \/ ClearSelection
  \/ \E s \in Selections : Select(s)
  \/ \E r \in onTheWay : BatchAnswer(r)

Spec == Init /\ [][Next]_vars

----------------------------------------------------------------------------
(* The counters tell the truth: "n of m" never stands beyond the hits of   *)
(* the present text, in the panel and in a body; what is lit is a step of  *)
(* the list, and the whole of a long one is open when it lights up.        *)
HitsTrue ==
  /\ hitIdx < Len(StepHits) \/ hitIdx = 0
  /\ dialog # NoDialog => dialog.hit < HitsIn(dialog) \/ dialog.hit = 0
  /\ Highlight # NoStep => Highlight \in Known(Steps)
  /\ loaded /\ profileMode = "summary" =>
       /\ SumOf([r \in SummarizeSteps(Steps) |-> r.count]) = Cardinality(Known(Steps))
       /\ \A i, j \in DOMAIN SortSummary(SummarizeSteps(Steps)) :
            i < j => SortSummary(SummarizeSteps(Steps))[i][sort]
                       >= SortSummary(SummarizeSteps(Steps))[j][sort]

(* A search that went to its end found what there is: the hits are the     *)
(* transactions it was asked about in which the text is, less those that   *)
(* could not be read, whose number it tells; nothing of an older run.      *)
SearchExact ==
  /\ search.hits \subseteq Range(asked) /\ search.done <= search.total
  /\ search.query # "" /\ ~search.running /\ ~search.error /\ ~cancelled =>
       /\ search.done = Len(asked) /\ search.failed = Cardinality(lost)
       /\ search.hits = {x \in Range(asked) \ lost : FindStepHits(Profiles[x], search.query) # <<>>}

(* Claimed by XLogDetailPanel.tsx, which keeps the picked step and the hit *)
(* apart so that after a pick the arrows of the search do not go astray:   *)
(* an arrow leads to a hit.  The picked step stays lit instead.            *)
MoveStep == hitIdx' # hitIdx /\ tab' = tab /\ Query' = Query => Highlight' = Lit(StepHits, hitIdx', NoStep)
MoveReaches == [][MoveStep]_vars
=============================================================================
