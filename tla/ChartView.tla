----------------------------- MODULE ChartView -----------------------------
(***************************************************************************)
(* What the canvas of one XLog pane shows, and what the mouse does to it.  *)
(*                                                                         *)
(* useXLogCanvas.ts paints when something changed and only then: the store *)
(* is dirty, the message about the stream changed, or an effect asked for  *)
(* it.  XLogChartRenderer.ts draws the dots over one another and keeps     *)
(* which transaction is at which pixel, as a position in the store's array *)
(* at that time; a click and a drag are answered from it.  The wheel moves *)
(* the range of the past (timeRange.ts).                                   *)
(*                                                                         *)
(* One behaviour is a live pane or a pane of the past.  The plot is in     *)
(* pixels of a tick and of a step of the value; a dot covers Half of them  *)
(* around.  Colours, grids, density and labels are left out.               *)
(***************************************************************************)
EXTENDS Integers, Sequences, FiniteSets, SequencesExt

CONSTANTS Values,       \* of a transaction on the y axis; 3 when it is a failure
          Ceilings,     \* yMax
          Height,       \* pixels of the plot
          Span, Stale,  \* timeRangeMs, STALE_AFTER_MS
          Half, Radius, \* half a dot, and how near a click must be
          Cap,          \* transactions the store holds
          Places,       \* bound: pixels of the plot where the mouse may be
          DayLength, MinSpan, MaxSpan,   \* the past: MIN_PAST_SPAN_MS and so on
          MaxTime, MaxSent, MaxMoves  \* bounds: clock, transactions, commands

VARIABLES mode,         \* "live" or "past"
          now,
          items,        \* the store: <<[t, v, err]>>
          dirty, lastAt,\* of the store
          needs,        \* needsRedrawRef
          status,       \* lastStatusMsg of the loop
          connected, active,
          errorOnly, ceiling, frozen,   \* the filter, yMax, the paused window
          rect, from,   \* the selection on the canvas; where the drag began
          chosen,       \* selectedXLogs
          pic,          \* what was painted last
          mapped,       \* pixelToXLogIndex
          skipped,      \* history: clearSelection has put off what was due
          range,        \* the range of the past
          sent, moves

store == <<items, dirty, lastAt>>
view  == <<connected, active, errorOnly, ceiling, frozen>>
mouse == <<rect, from, chosen>>
paper == <<pic, mapped, skipped>>
vars  == <<mode, now, store, needs, status, view, mouse, paper, range, sent, moves>>

Never == -1
None   == <<"none", 0>>              \* no message
NoRect == [x |-> {}, y |-> {}]
NoDrag == <<Never, Never>>
Least(a, b) == IF a < b THEN a ELSE b
Most(a, b)  == IF a < b THEN b ELSE a
Apart(a, b) == IF a < b THEN b - a ELSE a - b

----------------------------------------------------------------------------
\* CoordinateMapper.ts and yScale.ts: a value above the ceiling is drawn at it.
Clamped(v, top) == Least(v, top)
RollingWindow   == [start |-> now - Span, end |-> now]
Window          == IF frozen = Never THEN RollingWindow
                   ELSE [start |-> frozen - Span, end |-> frozen]
Pixel(p, w, top) == <<p.t - w.start, Height - (Clamped(p.v, top) * Height) \div top>>
InPlot(px, w)    == px[1] \in 0..(w.end - w.start) /\ px[2] \in 0..Height

Passes(p) == ~errorOnly \/ p.err
Visible(s, w, top) == {i \in DOMAIN s : Passes(s[i]) /\ InPlot(Pixel(s[i], w, top), w)}

\* PointMap.ts: a dot is not drawn where an earlier one of its layer lies.
Near(p, q, r) == Apart(p[1], q[1]) <= r /\ Apart(p[2], q[2]) <= r
\* Mutant: the pixel is skipped when any dot of the layer is near, drawn or not.
DrawnOf_Thinned(layer, at) ==
  FoldLeft(LAMBDA got, i : IF \E j \in layer \ {i} : Near(at[i], at[j], Half) THEN got ELSE got \cup {i},
           {}, SetToSortSeq(layer, <))

DrawnOf(layer, at) ==
  FoldLeft(LAMBDA got, i : IF \E j \in got : Near(at[i], at[j], Half) THEN got ELSE got \cup {i},
           {}, SetToSortSeq(layer, <))

\* drawDataPoints: failures last, over everything but other failures.
Drawn(s, w, top) ==
  LET at == [i \in DOMAIN s |-> Pixel(s[i], w, top)]
      seen == Visible(s, w, top)
  IN  DrawnOf({i \in seen : ~s[i].err}, at) \cup DrawnOf({i \in seen : s[i].err}, at)

\* One entry per pixel; a failure takes it over.
Mapped(s, w, top) ==
  LET At(i) == Pixel(s[i], w, top)
      on(px) == {i \in Drawn(s, w, top) : At(i) = px}
  IN  [px \in {At(i) : i \in Drawn(s, w, top)} |->
         IF \E i \in on(px) : s[i].err THEN CHOOSE i \in on(px) : s[i].err
         ELSE CHOOSE i \in on(px) : TRUE]

Message ==
  IF frozen # Never THEN None
  ELSE IF ~connected THEN <<"idle", 0>>
  ELSE IF lastAt = Never THEN <<"waiting", 0>>
  ELSE IF now - lastAt > Stale THEN <<"stale", now - lastAt>> ELSE <<"live", 0>>

\* render, with the window of the frame or of the last one.
Paint(w, sel, note) ==
  /\ pic' = [win |-> w, top |-> ceiling', over |-> {i \in Visible(items, w, ceiling') :
                                                        items[i].v > ceiling'},
             rect |-> sel, note |-> note]
  /\ mapped' = Mapped(items, w, ceiling')

----------------------------------------------------------------------------
Live == mode = "live"
Steady == UNCHANGED <<mode, range>>
Quiet  == Steady /\ UNCHANGED sent

\* The store takes a batch in and drops the oldest above its limit, or forgets.
Arrive(v) ==
  /\ Live /\ connected /\ sent < MaxSent /\ sent' = sent + 1
  /\ LET s == Append(items, [t |-> now, v |-> v, err |-> v = 3])
     IN  items' = SubSeq(s, Most(1, Len(s) - Cap + 1), Len(s))
  /\ dirty' = TRUE /\ lastAt' = now
  /\ Steady /\ UNCHANGED <<now, needs, status, view, mouse, paper, moves>>

Tick ==
  /\ Live /\ now < MaxTime /\ now' = now + 1
  /\ LET cut == (IF frozen = Never THEN now' ELSE frozen) - Span
         s == SelectSeq(items, LAMBDA p : p.t >= cut)
     IN  items' = s /\ dirty' = (dirty \/ s # items)
  /\ Quiet /\ UNCHANGED <<lastAt, needs, status, view, mouse, paper, moves>>

\* One run of the loop, 60 times a second, of a pane that is shown.
Frame ==
  /\ Live /\ active
  /\ (dirty \/ needs \/ Message # status)
  /\ needs' = FALSE /\ dirty' = FALSE /\ status' = Message
  /\ UNCHANGED <<view, items, lastAt>>
  /\ Paint(Window, rect, Message)
  /\ skipped' = FALSE
  /\ Quiet /\ UNCHANGED <<now, mouse, moves>>

\* Mutant: a change of the view waits for the next data.
Redraws_Lazily == UNCHANGED needs /\ status' = None

\* The effects whose cleanup and start a change of the user brings about.
Redraws == needs' = TRUE /\ status' = None

Change ==
  /\ Live /\ moves < MaxMoves /\ moves' = moves + 1
  /\ \/ /\ errorOnly' = ~errorOnly
        /\ UNCHANGED <<ceiling, frozen, connected, active>>
     \/ /\ ceiling' \in Ceilings \ {ceiling}
        /\ UNCHANGED <<errorOnly, frozen, connected, active>>
     \/ /\ frozen' = IF frozen = Never THEN now ELSE Never
        /\ UNCHANGED <<errorOnly, ceiling, connected, active>>
     \/ /\ connected' = ~connected
        /\ UNCHANGED <<errorOnly, ceiling, frozen, active>>
     \/ /\ active' = ~active
        /\ UNCHANGED <<errorOnly, ceiling, frozen, connected>>
  /\ Redraws
  /\ Quiet /\ UNCHANGED <<now, store, mouse, paper>>

\* The signal to clear what is chosen: it also marks the store as painted.
\* A new selection starts the loop again; one that was empty does not.
ClearSelection ==
  /\ Live /\ moves < MaxMoves /\ moves' = moves + 1
  /\ rect' = NoRect /\ chosen' = {}
  /\ dirty' = FALSE
  /\ skipped' = (skipped \/ (dirty /\ rect = NoRect /\ ~needs))
  /\ IF rect # NoRect THEN Redraws ELSE UNCHANGED <<needs, status>>
  /\ Quiet /\ UNCHANGED <<now, items, lastAt, view, from, pic, mapped>>

----------------------------------------------------------------------------
\* The mouse.  A press and every move set the selection, hence the loop again.
Box(a, b) == [x |-> Least(a[1], b[1])..Most(a[1], b[1]), y |-> Least(a[2], b[2])..Most(a[2], b[2])]
Inside(px, box) == px[1] \in box.x /\ px[2] \in box.y

Press(px) ==
  /\ Live /\ active /\ from = NoDrag /\ moves < MaxMoves /\ moves' = moves + 1
  /\ from' = px /\ rect' = Box(px, px)
  /\ Redraws
  /\ Quiet /\ UNCHANGED <<now, store, view, chosen, paper>>

\* A move paints at once, in the window of the last frame and without a message.
Move(px) ==
  /\ Live /\ from # NoDrag
  /\ rect' = Box(from, px) /\ rect' # rect
  /\ UNCHANGED view
  /\ Paint(pic.win, rect', None)
  /\ skipped' = FALSE
  /\ Redraws
  /\ Quiet /\ UNCHANGED <<now, store, from, chosen, moves>>

\* findNearestPixel: the drawn pixel nearest to the pointer.
Dist(p, q) == (p[1] - q[1]) * (p[1] - q[1]) + (p[2] - q[2]) * (p[2] - q[2])
NearestPixel(px) ==
  LET hits == {p \in DOMAIN mapped : Near(p, px, Radius)}
  IN  {p \in hits : \A q \in hits : Dist(p, px) <= Dist(q, px)}

\* selectInRect: everything in the rectangle, drawn or not, whatever the filter.
SelectInRect(box) ==
  {items[i] : i \in {j \in DOMAIN items :
     LET px == Pixel(items[j], pic.win, pic.top)
     IN  InPlot(px, pic.win) /\ Inside(px, box)}}

Release(px) ==
  /\ Live /\ from # NoDrag
  /\ from' = NoDrag
  /\ IF px # from
     THEN /\ rect' = Box(from, px)
          /\ chosen' = SelectInRect(rect')
     ELSE /\ rect' = NoRect
          /\ \/ NearestPixel(px) = {} /\ chosen' = {}
             \/ \E p \in NearestPixel(px) :
                  chosen' = IF mapped[p] \in DOMAIN items THEN {items[mapped[p]]} ELSE {}
  /\ Redraws
  /\ Quiet /\ UNCHANGED <<now, store, view, paper, moves>>

----------------------------------------------------------------------------
\* The past: the wheel keeps the time under the pointer, or slides the range.
DayOf(t) == t \div DayLength
ClampToDay(s, span, anchor) ==
  LET start == DayOf(anchor) * DayLength
      end == start + DayLength - 1
      width == Least(span, end - start)
      left == Least(Most(s, start), end - width)
  IN  [stime |-> left, etime |-> left + width]

\* The pointer is at a quarter of the width; a step widens or narrows by half.
ZoomRange(r, quarter, out) ==
  LET span == r.etime - r.stime
      anchor == r.stime + (span * quarter) \div 4
      next == Least(MaxSpan, Most(MinSpan, IF out THEN (span * 3) \div 2 ELSE (span * 2) \div 3))
  IN  ClampToDay(anchor - (next * quarter) \div 4, next, anchor)
\* Mutant: a pan keeps the span and forgets the day.
PanRange_Slides(r, dir) ==
  LET step == dir * Most(1, (r.etime - r.stime) \div 5)
  IN  [stime |-> r.stime + step, etime |-> r.etime + step]

PanRange(r, dir) ==
  LET span == r.etime - r.stime
  IN  ClampToDay(r.stime + dir * Most(1, span \div 5), span, r.stime + span \div 2)

Wheel ==
  /\ ~Live /\ moves < MaxMoves /\ moves' = moves + 1
  /\ \/ \E quarter \in 0..4, out \in BOOLEAN : range' = ZoomRange(range, quarter, out)
     \/ \E dir \in {-1, 1} : range' = PanRange(range, dir)
  /\ UNCHANGED <<mode, now, store, needs, status, view, mouse, paper, sent>>

\* checkRange, for a range typed into the toolbar.
CheckRange(r) ==
  /\ r.stime < r.etime
  /\ r.etime - r.stime <= MaxSpan
  /\ DayOf(r.stime) = DayOf(r.etime)

Init ==
  /\ mode \in {"live", "past"}
  /\ now = Span /\ items = <<>> /\ dirty = FALSE /\ lastAt = Never
  /\ needs = TRUE /\ status = None
  /\ connected = TRUE /\ active = TRUE /\ errorOnly = FALSE
  /\ ceiling \in Ceilings /\ frozen = Never
  /\ rect = NoRect /\ from = NoDrag /\ chosen = {}
  /\ pic = [win |-> RollingWindow, top |-> ceiling, over |-> {}, rect |-> NoRect, note |-> None]
  /\ mapped = <<>> /\ skipped = FALSE
  /\ range \in IF mode = "live" THEN {[stime |-> 0, etime |-> 1]}
               ELSE {r \in [stime : 0..(2 * DayLength), etime : 0..(2 * DayLength)] : CheckRange(r)}
  /\ sent = 0 /\ moves = 0

Next ==
  \/ \E v \in Values : Arrive(v)
  \/ Tick \/ Frame \/ Change \/ ClearSelection \/ Wheel
  \/ \E px \in Places : Press(px) \/ Move(px) \/ Release(px)

Spec == Init /\ [][Next]_vars
----------------------------------------------------------------------------
\* Nothing waits to be painted, and nothing that waited was put off.
Painted == Live /\ active /\ ~dirty /\ ~needs /\ ~skipped

(***************************************************************************)
(* With nothing left to paint the canvas is true to the store: every       *)
(* transaction of the window that passes the filter has a dot within half  *)
(* a dot of its place, a failure has the dot of a failure there however    *)
(* many others lie on it, and each pixel leads to a transaction that is    *)
(* there now, also after the store has dropped its oldest                  *)
(* (XLogChartRenderer.ts:232-315, useXLogCanvas.ts:152-217).               *)
(***************************************************************************)
CanvasTrue == Painted =>
  LET At(i) == Pixel(items[i], pic.win, ceiling)
      dots == {mapped[px] : px \in DOMAIN mapped}
  IN  /\ \A px \in DOMAIN mapped :
           mapped[px] \in Visible(items, pic.win, ceiling) /\ At(mapped[px]) = px
      /\ \A i \in Visible(items, pic.win, ceiling) :
           \E j \in dots : Near(At(i), At(j), Half) /\ (items[i].err => items[j].err)

(***************************************************************************)
(* The wheel leaves the past in the day it was in, and in a range the      *)
(* collector can be asked for at once, wherever the pointer is and however *)
(* near midnight the range lies (timeRange.ts:85-129).                     *)
(***************************************************************************)
WheelStep ==
  range' # range => CheckRange(range') /\ DayOf(range'.stime) = DayOf(range.stime)
WheelStaysInDay == [][WheelStep]_vars

(***************************************************************************)
(* clearSelection says of its call of clearDirty that it forces the canvas *)
(* to be painted (useXLogCanvas.ts:222).                                   *)
(***************************************************************************)
ClearRedraws == ~skipped
=============================================================================
