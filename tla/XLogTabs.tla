------------------------------ MODULE XLogTabs ------------------------------
(***************************************************************************)
(* The tabs of the XLog screen, as hooks/xlogTabs.ts and hooks/uiState.ts  *)
(* keep them: pure functions on a record                                   *)
(*    [tabs |-> <<[key, id], ...>>, active |-> key, panes |-> <<key, ..>>] *)
(* A tab is its key, which one window gives it and nobody else knows, and  *)
(* the conditions the user set in it, which travel with it: `id' stands    *)
(* for them.  The direction and the ratio of a split are layout and are    *)
(* left out.                                                               *)
(***************************************************************************)
EXTENDS Naturals, Sequences, SequencesExt, FiniteSets

CONSTANTS
    MaxTabs,    \* MAX_XLOG_TABS
    MaxPanes    \* MAX_PANES

Keys(s) == {s.tabs[i].key : i \in DOMAIN s.tabs}
Ids(s) == [i \in DOMAIN s.tabs |-> s.tabs[i].id]

(* nextKey: a key this window has not given to a tab it still has.         *)
FreshKey(s) == CHOOSE k \in 1..(Len(s.tabs) + 1) :
                  /\ k \notin Keys(s)
                  /\ \A j \in 1..(k - 1) : j \in Keys(s)

Alone(id) == [tabs |-> <<[key |-> 1, id |-> id]>>, active |-> 1, panes |-> <<1>>]

At(seq, x) == CHOOSE i \in DOMAIN seq : seq[i] = x
TabAt(s, key) == CHOOSE i \in DOMAIN s.tabs : s.tabs[i].key = key
Without(seq, x) == SelectSeq(seq, LAMBDA y : y # x)
Replaced(seq, x, y) == [i \in DOMAIN seq |-> IF seq[i] = x THEN y ELSE seq[i]]
Least(a, b) == IF a < b THEN a ELSE b

(* A copy of the active tab, next to it and in its pane.                   *)
AddTab(s, id) ==
    IF Len(s.tabs) >= MaxTabs THEN s
    ELSE LET k == FreshKey(s)
             at == TabAt(s, s.active)
         IN [tabs   |-> InsertAt(s.tabs, at + 1, [key |-> k, id |-> id]),
             active |-> k,
             panes  |-> Replaced(s.panes, s.active, k)]

(* The last tab is not closed; the focus goes to another pane, or to the   *)
(* neighbour in the tab row, which takes the pane.                         *)
\* Mutant: a tab in a pane without the focus leaves its pane behind.
CloseTab_KeepsPane(s, key) ==
    IF Len(s.tabs) <= 1 \/ key \notin Keys(s) THEN s
    ELSE LET at == TabAt(s, key)
             tabs == RemoveAt(s.tabs, at)
             panes == Without(s.panes, key)
             next == tabs[Least(at, Len(tabs))].key
         IN CASE key # s.active ->
                   [tabs |-> tabs, active |-> s.active,
                    panes |-> s.panes]
              [] key = s.active /\ panes # <<>> ->
                   [tabs |-> tabs, panes |-> panes,
                    active |-> panes[Least(At(s.panes, key), Len(panes))]]
              [] OTHER -> [tabs |-> tabs, active |-> next, panes |-> <<next>>]

CloseTab(s, key) ==
    IF Len(s.tabs) <= 1 \/ key \notin Keys(s) THEN s
    ELSE LET at == TabAt(s, key)
             tabs == RemoveAt(s.tabs, at)
             panes == Without(s.panes, key)
             next == tabs[Least(at, Len(tabs))].key
         IN CASE key # s.active ->
                   [tabs |-> tabs, active |-> s.active,
                    panes |-> IF panes # <<>> THEN panes ELSE <<s.active>>]
              [] key = s.active /\ panes # <<>> ->
                   [tabs |-> tabs, panes |-> panes,
                    active |-> panes[Least(At(s.panes, key), Len(panes))]]
              [] OTHER -> [tabs |-> tabs, active |-> next, panes |-> <<next>>]

Activate(s, key) ==
    IF key \notin Keys(s) THEN s
    ELSE IF Contains(s.panes, key) THEN [s EXCEPT !.active = key]
    ELSE [s EXCEPT !.active = key, !.panes = Replaced(s.panes, s.active, key)]

(* A tab dropped in the middle of a pane takes it; at an edge it stands    *)
(* beside it, unless the screen is full.                                   *)
DropTab(s, key, target, side) ==
    IF key \notin Keys(s) \/ ~Contains(s.panes, target) THEN s
    ELSE IF key = target THEN [s EXCEPT !.active = key]
    ELSE IF side = "center"
            \/ (Len(s.panes) >= MaxPanes /\ ~Contains(s.panes, key))
    THEN [s EXCEPT !.active = key,
                   !.panes = [i \in DOMAIN s.panes |->
                                CASE s.panes[i] = target -> key
                                  [] s.panes[i] = key -> target
                                  [] OTHER -> s.panes[i]]]
    ELSE LET rest == Without(s.panes, key)
             at == At(rest, target)
         IN [s EXCEPT !.active = key,
                      !.panes = InsertAt(rest, IF side = "before" THEN at ELSE at + 1, key)]

(* Tabs that come from another window get new keys and no limit; the first *)
(* of them takes the active pane.                                          *)
\* Mutant: what does not fit into the limit is left out.
ImportTabs_UpToLimit(s, ids) ==
    LET step(t, id) == AddTab(t, id) IN FoldLeft(step, s, ids)

ImportTabs(s, ids) ==
    IF ids = <<>> THEN s
    ELSE LET step(t, id) == [t EXCEPT !.tabs = Append(@, [key |-> FreshKey(t), id |-> id])]
         IN Activate(FoldLeft(step, s, ids), FreshKey(s))

ClosePane(s, key) ==
    IF Len(s.panes) <= 1 \/ ~Contains(s.panes, key) THEN s
    ELSE LET panes == Without(s.panes, key)
         IN IF key # s.active THEN [s EXCEPT !.panes = panes]
            ELSE [s EXCEPT !.panes = panes,
                           !.active = panes[Least(At(s.panes, key), Len(panes))]]

-----------------------------------------------------------------------------
(* What is saved: the conditions of the tabs, and the panes by position.   *)
FromTabs(s) == [tabs |-> Ids(s),
                panes |-> [i \in DOMAIN s.panes |-> TabAt(s, s.panes[i])],
                active |-> TabAt(s, s.active)]

(* What is read back: at most MaxTabs tabs, the positions that still       *)
(* exist, each once, at most MaxPanes of them, at least one.               *)
ToTabs(p) ==
    LET tabs == [i \in 1..Least(Len(p.tabs), MaxTabs) |-> [key |-> i, id |-> p.tabs[i]]]
        keep(acc, i) == IF i \in DOMAIN tabs /\ ~Contains(acc, i) /\ Len(acc) < MaxPanes
                        THEN Append(acc, i) ELSE acc
        kept == FoldLeft(keep, <<>>, p.panes)
        panes == IF kept = <<>> THEN <<1>> ELSE kept
    IN [tabs |-> tabs, panes |-> panes,
        active |-> IF Contains(panes, p.active) THEN p.active ELSE panes[1]]

(* The screen can show this: panes that exist, each once, and the active   *)
(* one among them.                                                         *)
Showable(s) ==
    /\ Len(s.tabs) > 0
    /\ Cardinality(Keys(s)) = Len(s.tabs)
    /\ Len(s.panes) \in 1..MaxPanes
    /\ IsInjective(s.panes)
    /\ \A i \in DOMAIN s.panes : s.panes[i] \in Keys(s)
    /\ Contains(s.panes, s.active)
=============================================================================
