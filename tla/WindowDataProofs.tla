-------------------------- MODULE WindowDataProofs --------------------------
(***************************************************************************)
(* The data of the window, for every value of the constants of three of    *)
(* its components.  The past chart (PastChart): the buffer never mixes the *)
(* points of two targets, and what counts as held is held, whatever is     *)
(* looked at, aimed at and reloaded while pages arrive.  The hooks that    *)
(* ask (Askers): none that cancels rests on the answer to an earlier       *)
(* question, and a spinner that turns has a query under way.  The wide     *)
(* search (WideSearch): its list holds every match before the time it      *)
(* names, whatever is cancelled and in whatever order the pages come.      *)
(***************************************************************************)
EXTENDS MCWindowData, ListingProofs

\* A step of the window is of the component the behaviour is of.
LEMMA Turns ==
  ASSUME Next
  PROVE  /\ which' = which
         /\ which = "PastChart" => PastChartC!Next
         /\ which = "Askers" => AskersC!Next
         /\ which = "WideSearch" => WideSearchC!Next
BY DEF Next, LiveChartTurn, PastChartTurn, PagingTurn, WideSearchTurn, AskersTurn,
       ActiveServicesTurn, AlertsTurn

-----------------------------------------------------------------------------
(* The past chart: what each action does to the buffer and to the load.     *)

PcSpan == [s : Int, e : Int]
PcLoads == [parts : Seq(PcSpan), left : SUBSET Int, of : PcTargets, then : PcSpan,
    aborted : BOOLEAN]

PcTypes ==
    /\ pc_view \in PcSpan /\ pc_loaded \in PcSpan /\ pc_target \in PcTargets
    /\ pc_copies \in [PastChartC!Points -> Nat]
    /\ pc_load \in PcLoads

\* A load that may still add points is for the objects on the screen.
LoadIsAsked == PastChartC!Live => pc_load.of = pc_target

PcInv == PcTypes /\ LoadIsAsked /\ PastChartC!PastOneTarget

-----------------------------------------------------------------------------
LEMMA EmptyIs == PastChartC!Empty \in [PastChartC!Points -> Nat]
    /\ \A p \in PastChartC!Points : PastChartC!Empty[p] = 0
BY DEF PastChartC!Empty

LEMMA NoLoadIs == PcTargets # {}
    => PastChartC!NoLoad \in PcLoads /\ PastChartC!NoLoad.parts = <<>>
BY DEF PastChartC!NoLoad, PastChartC!NoView, PcLoads, PcSpan

LEMMA NoViewIs == PastChartC!NoView \in PcSpan
BY DEF PastChartC!NoView, PcSpan

LEMMA BeginIs ==
    ASSUME NEW parts \in Seq(PcSpan), parts # <<>>, NEW of \in PcTargets, NEW then \in PcSpan
    PROVE  PastChartC!Begin(parts, of, then) \in PcLoads
           /\ PastChartC!Begin(parts, of, then).of = of
<1>1. Head(parts) \in PcSpan
    OBVIOUS
<1>2. Head(parts).s .. Head(parts).e \subseteq Int
    BY <1>1 DEF PcSpan
<1> QED BY <1>2 DEF PastChartC!Begin, PcLoads

LEMMA OneOrNone ==
    ASSUME NEW S, NEW x \in S, NEW b \in BOOLEAN
    PROVE  (IF b THEN <<x>> ELSE <<>>) \in Seq(S)
OBVIOUS

LEMMA TailIs ==
    ASSUME NEW S, NEW seq \in Seq(S), Len(seq) > 1
    PROVE  Tail(seq) \in Seq(S) /\ Tail(seq) # <<>>
<1>1. seq # <<>>
    OBVIOUS
<1>2. Tail(seq) \in Seq(S) /\ Len(Tail(seq)) = Len(seq) - 1
    BY <1>1
<1>3. Len(seq) \in Nat
    OBVIOUS
<1>4. Len(Tail(seq)) # 0
    BY <1>2, <1>3
<1>5. Len(<<>>) = 0
    OBVIOUS
<1> QED BY <1>2, <1>4, <1>5

LEMMA PlanIs ==
    ASSUME NEW v \in PcSpan, NEW held \in PcSpan
    PROVE  /\ PastChartC!PlanFetch(v, held).fetch \in Seq(PcSpan)
           /\ PastChartC!PlanFetch(v, held).loaded \in PcSpan
           /\ held = PastChartC!NoView => PastChartC!PlanFetch(v, held).reset
<1>1. v.s \in Int /\ v.e \in Int /\ held.s \in Int /\ held.e \in Int
    BY DEF PcSpan
<1>2. CASE held = PastChartC!NoView \/ PastChartC!Apart(v, held)
    BY <1>2 DEF PastChartC!PlanFetch
<1>3. CASE ~(held = PastChartC!NoView \/ PastChartC!Apart(v, held)) /\ PastChartC!Within(v, held)
    BY <1>3 DEF PastChartC!PlanFetch
<1>4. CASE ~(held = PastChartC!NoView \/ PastChartC!Apart(v, held)) /\ ~PastChartC!Within(v, held)
    <2> DEFINE l == IF v.s < held.s THEN <<[s |-> v.s, e |-> held.s]>> ELSE <<>>
               r == IF v.e > held.e THEN <<[s |-> held.e, e |-> v.e]>> ELSE <<>>
    <2>0. [s |-> v.s, e |-> held.s] \in PcSpan /\ [s |-> held.e, e |-> v.e] \in PcSpan
        BY <1>1 DEF PcSpan
    <2>1. l \in Seq(PcSpan)
        BY <2>0, OneOrNone
    <2>2. r \in Seq(PcSpan)
        BY <2>0, OneOrNone
    <2>3. l \o r \in Seq(PcSpan)
        BY <2>1, <2>2
    <2>4. [s |-> PastChartC!Min(v.s, held.s), e |-> PastChartC!Max(v.e, held.e)] \in PcSpan
        BY <1>1 DEF PcSpan, PastChartC!Min, PastChartC!Max
    <2>5. PastChartC!PlanFetch(v, held) = [reset |-> FALSE, fetch |-> l \o r,
                                loaded |-> [s |-> PastChartC!Min(v.s, held.s),
                                    e |-> PastChartC!Max(v.e, held.e)]]
        BY <1>4 DEF PastChartC!PlanFetch
    <2> HIDE DEF l, r
    <2> QED BY <2>3, <2>4, <2>5, <1>4
<1> QED BY <1>2, <1>3, <1>4

-----------------------------------------------------------------------------
(* The effect keeps the points only when it keeps the objects.             *)
LEMMA EffectHolds ==
    ASSUME PcTypes, NEW v \in PcSpan, NEW tg \in PcTargets, NEW held \in PcSpan,
           NEW buffer \in [PastChartC!Points -> Nat], PastChartC!Effect(v, tg, held, buffer)
    PROVE  /\ pc_copies' \in [PastChartC!Points -> Nat] /\ pc_load' \in PcLoads
           /\ held = pc_loaded \/ held = PastChartC!NoView => pc_loaded' \in PcSpan
           /\ PastChartC!Live' => pc_load'.of = tg
           /\ pc_copies' = PastChartC!Empty \/ (pc_copies' = buffer /\ held # PastChartC!NoView)
<1> DEFINE plan == PastChartC!PlanFetch(v, held)
<1>1. /\ plan.fetch \in Seq(PcSpan) /\ plan.loaded \in PcSpan
           /\ (held = PastChartC!NoView => plan.reset)
    BY PlanIs
<1>2. [pc_load EXCEPT !.aborted = TRUE] \in PcLoads /\ [pc_load EXCEPT !.aborted = TRUE].aborted
    BY DEF PcTypes, PcLoads
<1>3. CASE v = PastChartC!NoView
    BY <1>3, <1>2, EmptyIs, NoViewIs DEF PastChartC!Effect, PastChartC!Live
<1>4. CASE v # PastChartC!NoView /\ plan.fetch = <<>>
    BY <1>4, <1>1, <1>2, EmptyIs DEF PastChartC!Effect, PastChartC!Live
<1>5. CASE v # PastChartC!NoView /\ plan.fetch # <<>>
    <2>1. pc_load' = PastChartC!Begin(plan.fetch, tg, plan.loaded) /\ pc_loaded' = held
        BY <1>5 DEF PastChartC!Effect
    <2>2. pc_load' \in PcLoads /\ pc_load'.of = tg
        BY <2>1, <1>1, <1>5, BeginIs
    <2>3. pc_copies' = IF plan.reset THEN PastChartC!Empty ELSE buffer
        BY <1>5 DEF PastChartC!Effect
    <2> QED BY <2>1, <2>2, <2>3, <1>1, EmptyIs
<1> QED BY <1>3, <1>4, <1>5

\* What is left in the buffer is of the objects the next view is of.
LEMMA EffectKeeps ==
    ASSUME PcInv, NEW v \in PcSpan, NEW tg \in PcTargets,
           NEW held \in {pc_loaded, PastChartC!NoView},
           NEW buffer \in {pc_copies, PastChartC!Empty}, held # PastChartC!NoView
               => tg = pc_target,
           pc_view' \in PcSpan, pc_target' = tg, PastChartC!Effect(v, tg, held, buffer)
    PROVE  PcInv'
<1>1. held \in PcSpan /\ buffer \in [PastChartC!Points -> Nat]
    BY NoViewIs, EmptyIs DEF PcInv, PcTypes
<1>2. /\ pc_copies' \in [PastChartC!Points -> Nat] /\ pc_load' \in PcLoads
           /\ pc_loaded' \in PcSpan
      /\ PastChartC!Live' => pc_load'.of = tg
      /\ pc_copies' = PastChartC!Empty \/ (pc_copies' = buffer /\ held # PastChartC!NoView)
    BY <1>1, EffectHolds DEF PcInv
<1>3. PastChartC!PastOneTarget'
    <2>1. CASE pc_copies' = PastChartC!Empty
        BY <2>1, EmptyIs DEF PastChartC!PastOneTarget
    <2>2. CASE pc_copies' = pc_copies /\ held # PastChartC!NoView
        BY <2>2 DEF PcInv, PastChartC!PastOneTarget
    <2> QED BY <2>1, <2>2, <1>2
<1> QED BY <1>2, <1>3 DEF PcInv, PcTypes, LoadIsAsked

LEMMA UserHolds ==
    ASSUME PcInv,
           \/ \E v \in PastChartC!Views \cup {PastChartC!NoView} : PastChartC!Look(v)
           \/ \E tg \in PcTargets : PastChartC!Aim(tg)
           \/ PastChartC!Reload \/ PastChartC!Disconnect \/ PastChartC!Connect
    PROVE  PcInv'
<1>0. pc_view \in PcSpan /\ pc_target \in PcTargets
    BY DEF PcInv, PcTypes
<1>1. ASSUME NEW v \in PastChartC!Views \cup {PastChartC!NoView}, PastChartC!Look(v) PROVE PcInv'
    <2>1. v \in PcSpan
        BY NoViewIs DEF PastChartC!Views, PastChartC!Intervals, PastChartC!Ticks, PcSpan
    <2>2. pc_view' = v /\ pc_target' = pc_target
              /\ PastChartC!Effect(v, pc_target, pc_loaded, pc_copies)
        BY <1>1 DEF PastChartC!Look
    <2> QED BY <2>1, <2>2, <1>0, EffectKeeps
<1>2. ASSUME NEW tg \in PcTargets, PastChartC!Aim(tg) PROVE PcInv'
    <2>1. pc_view' = pc_view /\ pc_target' = tg
              /\ PastChartC!Effect(pc_view, tg, PastChartC!NoView, pc_copies)
        BY <1>2 DEF PastChartC!Aim
    <2> QED BY <2>1, <1>0, EffectKeeps
<1>3. CASE PastChartC!Reload
    BY <1>3, <1>0, EffectKeeps DEF PastChartC!Reload
<1>4. CASE PastChartC!Disconnect
    BY <1>4, EmptyIs DEF PastChartC!Disconnect, PcInv, PcTypes, LoadIsAsked, PastChartC!Live,
       PastChartC!Busy, PastChartC!PastOneTarget
<1>5. CASE PastChartC!Connect
    BY <1>5, <1>0, EffectKeeps DEF PastChartC!Connect
<1> QED BY <1>1, <1>2, <1>3, <1>4, <1>5

-----------------------------------------------------------------------------
(* The load: a page is added only while its objects are the ones asked for. *)
LEMMA PageHolds ==
    ASSUME PcInv, PastChartC!Page
    PROVE  PcInv'
<1>1. PICK t \in pc_load.left :
        /\ pc_load' = [pc_load EXCEPT !.left = @ \ {t}]
        /\ pc_copies' = IF pc_load.aborted THEN pc_copies
                     ELSE [pc_copies EXCEPT ![<<pc_load.of, t>>] = PastChartC!Min(2, @ + 1)]
    BY DEF PastChartC!Page
<1>2. /\ pc_load' \in PcLoads /\ pc_load'.of = pc_load.of /\ pc_load'.aborted = pc_load.aborted
      /\ pc_load'.parts = pc_load.parts
    BY <1>1 DEF PcInv, PcTypes, PcLoads
<1>3. pc_view' = pc_view /\ pc_loaded' = pc_loaded /\ pc_target' = pc_target /\ PastChartC!Busy
    BY DEF PastChartC!Page
<1>4. CASE pc_load.aborted
    BY <1>1, <1>2, <1>3, <1>4
        DEF PcInv, PcTypes, LoadIsAsked, PastChartC!Live, PastChartC!Busy,
            PastChartC!PastOneTarget
<1>5. CASE ~pc_load.aborted
    <2>1. pc_load.of = pc_target
        BY <1>3, <1>5 DEF PcInv, LoadIsAsked, PastChartC!Live
    <2>2. pc_copies' = [pc_copies EXCEPT ![<<pc_target, t>>] = PastChartC!Min(2, @ + 1)]
        BY <1>1, <1>5, <2>1
    <2>3. pc_copies' \in [PastChartC!Points -> Nat]
        <3>1. <<pc_target, t>> \in PastChartC!Points
                  => PastChartC!Min(2, pc_copies[<<pc_target, t>>] + 1) \in Nat
            BY DEF PcInv, PcTypes, PastChartC!Min
        <3> QED BY <3>1, <2>2 DEF PcInv, PcTypes
    <2>4. \A p \in PastChartC!Points : p # <<pc_target, t>> => pc_copies'[p] = pc_copies[p]
        BY <2>2 DEF PcInv, PcTypes
    <2>5. PastChartC!PastOneTarget'
        BY <2>4, <1>3 DEF PcInv, PastChartC!PastOneTarget
    <2> QED BY <1>2, <1>3, <2>1, <2>3, <2>5 DEF PcInv, PcTypes, LoadIsAsked
<1> QED BY <1>4, <1>5

LEMMA EndHolds ==
    ASSUME PcInv, PastChartC!PartEnds \/ PastChartC!LoadFails
    PROVE  PcInv'
<1>1. PastChartC!NoLoad \in PcLoads /\ PastChartC!NoLoad.parts = <<>>
    BY NoLoadIs DEF PcInv, PcTypes
<1>2. pc_view' = pc_view /\ pc_copies' = pc_copies /\ pc_target' = pc_target /\ PastChartC!Busy
    BY DEF PastChartC!PartEnds, PastChartC!LoadFails
<1>3. pc_load \in PcLoads /\ pc_load.then \in PcSpan
    BY DEF PcInv, PcTypes, PcLoads
<1>4. CASE pc_load' = PastChartC!NoLoad
    <2>1. pc_loaded' \in {pc_loaded, pc_load.then}
        BY <1>1, <1>2, <1>4
            DEF PastChartC!PartEnds, PastChartC!LoadFails, PastChartC!Begin, PastChartC!Busy
    <2> QED BY <2>1, <1>1, <1>2, <1>3, <1>4
            DEF PcInv, PcTypes, LoadIsAsked, PastChartC!Live, PastChartC!Busy,
                PastChartC!PastOneTarget
<1>5. CASE pc_load' # PastChartC!NoLoad
    <2>1. /\ ~pc_load.aborted /\ Len(pc_load.parts) > 1
          /\ pc_load' = PastChartC!Begin(Tail(pc_load.parts), pc_load.of, pc_load.then)
               /\ pc_loaded' = pc_loaded
        BY <1>5 DEF PastChartC!PartEnds, PastChartC!LoadFails
    <2>2. Tail(pc_load.parts) \in Seq(PcSpan) /\ Tail(pc_load.parts) # <<>>
              /\ pc_load.of \in PcTargets
        BY <2>1, <1>3, TailIs DEF PcLoads
    <2>3. pc_load' \in PcLoads /\ pc_load'.of = pc_load.of
        BY <2>1, <2>2, <1>3, BeginIs
    <2>4. pc_load.of = pc_target
        BY <2>1, <1>2 DEF PcInv, LoadIsAsked, PastChartC!Live
    <2> QED BY <2>1, <2>3, <2>4, <1>2 DEF PcInv, PcTypes, LoadIsAsked, PastChartC!PastOneTarget
<1> QED BY <1>4, <1>5

-----------------------------------------------------------------------------
LEMMA PcInitHolds == PastChartC!Init => PcInv
<1> SUFFICES ASSUME PastChartC!Init PROVE PcInv
    OBVIOUS
<1>1. PastChartC!NoLoad \in PcLoads /\ PastChartC!NoLoad.parts = <<>>
    BY NoLoadIs DEF PastChartC!Init
<1> QED BY <1>1, NoViewIs, EmptyIs
        DEF PastChartC!Init, PcInv, PcTypes, LoadIsAsked, PastChartC!Live, PastChartC!Busy,
            PastChartC!PastOneTarget


LEMMA PcStepHolds == PcInv /\ [PastChartC!Next]_PastChartVars => PcInv'
<1> SUFFICES ASSUME PcInv, [PastChartC!Next]_PastChartVars PROVE PcInv'
    OBVIOUS
<1>1. CASE PastChartC!Page
    BY <1>1, PageHolds
<1>2. CASE PastChartC!PartEnds \/ PastChartC!LoadFails
    BY <1>2, EndHolds
<1>3. CASE UNCHANGED PastChartVars
    BY <1>3 DEF PastChartVars, PcInv, PcTypes, LoadIsAsked, PastChartC!Live, PastChartC!Busy,
                PastChartC!PastOneTarget
<1> QED BY <1>1, <1>2, <1>3, UserHolds DEF PastChartC!Next

-----------------------------------------------------------------------------
(* What the buffer holds while a load fills it.                            *)

Covers(p) == p.s .. p.e
CanBeHeld == PastChartC!Views \cup {PastChartC!NoView}

\* What the running load has yet to bring.
Ahead == pc_load.left \cup (IF Len(pc_load.parts) > 1 THEN Covers(pc_load.parts[2]) ELSE {})

\* A load has one part, or two that meet on a seam at the most.
Shape ==
    PastChartC!Live =>
      /\ pc_load.then \in PastChartC!Views
      /\ Len(pc_load.parts) <= 2
      /\ pc_load.left \subseteq Covers(pc_load.parts[1])
      /\ \A i \in 1 .. Len(pc_load.parts) : Covers(pc_load.parts[i]) \subseteq Covers(pc_load.then)

\* Without a load: each point of what counts as held, once, and no other.
Settled ==
    \A t \in PastChartC!Ticks :
      /\ (t \in Covers(pc_loaded)) <=> (pc_copies[<<pc_target, t>>] > 0)
      /\ pc_copies[<<pc_target, t>>] > 1 => t \in pc_seams

\* With a load: what is there and what is ahead make up what will count as held,
\* and meet on seams alone.
Filling ==
    /\ \A t \in PastChartC!Ticks :
         LET n == pc_copies[<<pc_target, t>>] IN
         /\ n > 0 => t \in Covers(pc_load.then)
         /\ t \in Covers(pc_load.then) /\ n = 0 => t \in Ahead
         /\ t \in Ahead /\ n > 0 => t \in pc_seams
         /\ n > 1 => t \in pc_seams
    /\ Len(pc_load.parts) > 1 =>
         Covers(pc_load.parts[1]) \cap Covers(pc_load.parts[2]) \subseteq pc_seams

Calm == pc_connected /\ ~pc_disturbed
Exactly == Calm => IF PastChartC!Live THEN Filling ELSE Settled

PcHeld == PcInv /\ pc_view \in CanBeHeld /\ pc_loaded \in CanBeHeld /\ Shape /\ Exactly

LEMMA ViewIs ==
    ASSUME NEW v \in PastChartC!Views
    PROVE  /\ v \in PcSpan /\ v.s \in Int /\ v.e \in Int /\ v.s < v.e
           /\ v = [s |-> v.s, e |-> v.e] /\ v # PastChartC!NoView
           /\ v.s \in PastChartC!Ticks /\ v.e \in PastChartC!Ticks
BY WindowDataAssumption
   DEF PastChartC!Views, PastChartC!Intervals, PastChartC!Ticks, PcSpan, PastChartC!NoView

\* What is planned for a view that overlaps what is held, and is not inside of it.
LEMMA OfOne == ASSUME NEW x PROVE <<x>> # <<>> /\ Len(<<x>>) = 1
<1>1. Len(<<x>>) = 1 /\ Len(<<>>) = 0
    OBVIOUS
<1> QED BY <1>1

LEMMA OfTwo ==
    ASSUME NEW S, NEW x \in S, NEW y \in S
    PROVE  /\ <<x>> \o <<y>> = <<x, y>> /\ <<x>> \o <<>> = <<x>> /\ <<>> \o <<y>> = <<y>>
<1> DEFINE a == <<x>> \o <<y>>
           b == <<x, y>>
<1>1. Len(a) = 2 /\ a[1] = x /\ a[2] = y /\ a \in Seq(S)
    OBVIOUS
<1>2. Len(b) = 2 /\ b[1] = x /\ b[2] = y /\ b \in Seq(S)
    OBVIOUS
<1>3. <<x>> \o <<>> = <<x>> /\ <<>> \o <<y>> = <<y>>
    OBVIOUS
<1> HIDE DEF a, b
<1>4. \A i \in 1 .. Len(a) : a[i] = b[i]
    BY <1>1, <1>2
<1>5. a = b
    BY <1>1, <1>2, <1>4, SeqEqual
<1> QED BY <1>3, <1>5 DEF a, b

LEMMA JoinIs ==
    ASSUME NEW v \in PastChartC!Views, NEW held \in PastChartC!Views,
           ~PastChartC!Apart(v, held), ~PastChartC!Within(v, held)
    PROVE  LET plan == PastChartC!PlanFetch(v, held)
               l == [s |-> v.s, e |-> held.s]
               r == [s |-> held.e, e |-> v.e]
           IN  /\ ~plan.reset
               /\ \/ v.s < held.s /\ v.e <= held.e /\ plan.fetch = <<l>>
                     /\ plan.loaded = [s |-> v.s, e |-> held.e]
                  \/ v.s >= held.s /\ v.e > held.e /\ plan.fetch = <<r>>
                     /\ plan.loaded = [s |-> held.s, e |-> v.e]
                  \/ v.s < held.s /\ v.e > held.e /\ plan.fetch = <<l, r>>
                     /\ plan.loaded = [s |-> v.s, e |-> v.e]
<1> DEFINE l == [s |-> v.s, e |-> held.s]
           r == [s |-> held.e, e |-> v.e]
<1>1. /\ v.s \in Int /\ v.e \in Int /\ held.s \in Int /\ held.e \in Int
      /\ held # PastChartC!NoView
    BY ViewIs
<1>2. PastChartC!PlanFetch(v, held) =
        [reset |-> FALSE,
         fetch |-> (IF v.s < held.s THEN <<l>> ELSE <<>>)
                   \o (IF v.e > held.e THEN <<r>> ELSE <<>>),
         loaded |-> [s |-> PastChartC!Min(v.s, held.s), e |-> PastChartC!Max(v.e, held.e)]]
    BY <1>1 DEF PastChartC!PlanFetch
<1>3. v.s < held.s \/ v.e > held.e
    BY <1>1 DEF PastChartC!Within
<1>4. <<l>> \o <<>> = <<l>> /\ <<>> \o <<r>> = <<r>> /\ <<l>> \o <<r>> = <<l, r>>
    <2>1. l \in {l, r} /\ r \in {l, r}
        OBVIOUS
    <2> HIDE DEF l, r
    <2> QED BY <2>1, OfTwo
<1> HIDE DEF l, r
<1>8. PastChartC!PlanFetch(v, held).fetch = (IF v.s < held.s THEN <<l>> ELSE <<>>)
                                            \o (IF v.e > held.e THEN <<r>> ELSE <<>>)
    BY <1>2
<1>9. (v.e <= held.e => ~(v.e > held.e)) /\ (v.s >= held.s => ~(v.s < held.s))
    BY <1>1
<1>5. CASE v.s < held.s /\ v.e <= held.e
    <2>1. PastChartC!PlanFetch(v, held).fetch = <<l>> \o <<>>
        BY <1>8, <1>9, <1>5, Zenon
    <2> QED BY <1>1, <1>2, <1>4, <1>5, <2>1 DEF PastChartC!Min, PastChartC!Max, l, r
<1>6. CASE v.s >= held.s /\ v.e > held.e
    <2>1. PastChartC!PlanFetch(v, held).fetch = <<>> \o <<r>>
        BY <1>8, <1>9, <1>6, Zenon
    <2> QED BY <1>1, <1>2, <1>4, <1>6, <2>1 DEF PastChartC!Min, PastChartC!Max, l, r
<1>7. CASE v.s < held.s /\ v.e > held.e
    <2>1. PastChartC!PlanFetch(v, held).fetch = <<l>> \o <<r>>
        BY <1>8, <1>9, <1>7, Zenon
    <2> QED BY <1>1, <1>2, <1>4, <1>7, <2>1 DEF PastChartC!Min, PastChartC!Max, l, r
<1> QED BY <1>1, <1>3, <1>5, <1>6, <1>7

LEMMA FreshFills ==
    ASSUME NEW v \in PastChartC!Views, NEW tg \in PcTargets, pc_target' = tg,
           pc_copies' = PastChartC!Empty, pc_load' = PastChartC!Begin(<<v>>, tg, v)
    PROVE  PastChartC!Live' /\ Shape' /\ Filling'
<1>1. /\ pc_load'.parts = <<v>> /\ pc_load'.left = v.s .. v.e /\ pc_load'.then = v
      /\ ~pc_load'.aborted /\ Len(pc_load'.parts) = 1 /\ pc_load'.parts[1] = v
      /\ pc_load'.parts # <<>>
    BY OfOne DEF PastChartC!Begin
<1>2. \A t \in PastChartC!Ticks : pc_copies'[<<pc_target', t>>] = 0
    BY DEF PastChartC!Empty, PastChartC!Points
<1>6. Len(pc_load'.parts) = 1
    BY <1>1, Zenon
<1>7. Len(pc_load'.parts) <= 2 /\ ~(Len(pc_load'.parts) > 1)
    <2>1. \A n : n = 1 => n <= 2 /\ ~(n > 1)
        BY SMT
    <2> QED BY <1>6, <2>1, Zenon
<1>3. PastChartC!Live'
    BY <1>1 DEF PastChartC!Live, PastChartC!Busy
<1>4. Shape'
    <2>1. \A i \in 1 .. Len(pc_load'.parts) : pc_load'.parts[i] = v
        BY <1>1
    <2>2. pc_load'.left \subseteq Covers(v)
        BY <1>1 DEF Covers
    <2>3. Covers(v) \subseteq Covers(v)
        OBVIOUS
    <2>4. pc_load'.left \subseteq Covers(pc_load'.parts[1]) /\ pc_load'.then \in PastChartC!Views
        BY <1>1, <2>2, Zenon
    <2>5. \A i \in 1 .. Len(pc_load'.parts) : Covers(pc_load'.parts[i]) \subseteq Covers(pc_load'.then)
        BY <1>1, <2>1, <2>3, Zenon
    <2> QED BY <1>7, <2>4, <2>5, Zenon DEF Shape
<1>5. Filling'
    <2>1. pc_load'.left = Covers(v)
        BY <1>1 DEF Covers
    <2>2. Ahead' = Covers(v)
        BY <1>7, <2>1 DEF Ahead
    <2>3. \A t \in PastChartC!Ticks : ~(pc_copies'[<<pc_target', t>>] > 0)
                                     /\ ~(pc_copies'[<<pc_target', t>>] > 1)
        BY <1>2
    <2> QED BY <1>1, <1>7, <2>2, <2>3, Zenon DEF Filling
<1> QED BY <1>3, <1>4, <1>5

LEMMA JoinFills ==
    ASSUME PcTypes, Settled, pc_loaded \in PastChartC!Views, NEW v \in PastChartC!Views,
           ~PastChartC!Apart(v, pc_loaded), ~PastChartC!Within(v, pc_loaded),
           pc_target' = pc_target, pc_copies' = pc_copies,
           pc_seams' = pc_seams \cup {pc_loaded.s, pc_loaded.e},
           pc_load' = PastChartC!Begin(PastChartC!PlanFetch(v, pc_loaded).fetch, pc_target,
                                       PastChartC!PlanFetch(v, pc_loaded).loaded)
    PROVE  Filling'
<1> DEFINE held == pc_loaded
           plan == PastChartC!PlanFetch(v, held)
           l == [s |-> v.s, e |-> held.s]
           r == [s |-> held.e, e |-> v.e]
<1>1. /\ v.s \in Int /\ v.e \in Int /\ held.s \in Int /\ held.e \in Int
      /\ v.s < v.e /\ held.s < held.e
    BY ViewIs
<1>2. \A t \in PastChartC!Ticks : t \in Int /\ pc_copies[<<pc_target, t>>] \in Nat
    BY WindowDataAssumption DEF PcTypes, PastChartC!Ticks, PastChartC!Points
<1>3. v.e >= held.s /\ v.s <= held.e
    BY <1>1 DEF PastChartC!Apart
<1>4. /\ pc_load'.parts = plan.fetch /\ pc_load'.then = plan.loaded
      /\ pc_load'.left = Head(plan.fetch).s .. Head(plan.fetch).e
    BY DEF PastChartC!Begin
<1>5. CASE v.s < held.s /\ v.e <= held.e /\ plan.fetch = <<l>>
           /\ plan.loaded = [s |-> v.s, e |-> held.e]
    BY <1>1, <1>2, <1>3, <1>4, <1>5 DEF Settled, Filling, Ahead, Covers
<1>6. CASE v.s >= held.s /\ v.e > held.e /\ plan.fetch = <<r>>
           /\ plan.loaded = [s |-> held.s, e |-> v.e]
    BY <1>1, <1>2, <1>3, <1>4, <1>6 DEF Settled, Filling, Ahead, Covers
<1>7. CASE v.s < held.s /\ v.e > held.e /\ plan.fetch = <<l, r>>
           /\ plan.loaded = [s |-> v.s, e |-> v.e]
    BY <1>1, <1>2, <1>3, <1>4, <1>7 DEF Settled, Filling, Ahead, Covers
<1> QED BY <1>5, <1>6, <1>7, JoinIs

LEMMA JoinShapes ==
    ASSUME pc_loaded \in PastChartC!Views, NEW v \in PastChartC!Views,
           ~PastChartC!Apart(v, pc_loaded), ~PastChartC!Within(v, pc_loaded),
           pc_load' = PastChartC!Begin(PastChartC!PlanFetch(v, pc_loaded).fetch, pc_target,
                                       PastChartC!PlanFetch(v, pc_loaded).loaded)
    PROVE  Shape' /\ PastChartC!Live'
<1> DEFINE held == pc_loaded
           plan == PastChartC!PlanFetch(v, held)
           l == [s |-> v.s, e |-> held.s]
           r == [s |-> held.e, e |-> v.e]
<1>1. /\ v.s \in Int /\ v.e \in Int /\ held.s \in Int /\ held.e \in Int
      /\ v.s < v.e /\ held.s < held.e
      /\ v.s \in PastChartC!Ticks /\ v.e \in PastChartC!Ticks
      /\ held.s \in PastChartC!Ticks /\ held.e \in PastChartC!Ticks
    BY ViewIs
<1>3. v.e >= held.s /\ v.s <= held.e
    BY <1>1 DEF PastChartC!Apart
<1>4. /\ pc_load'.parts = plan.fetch /\ pc_load'.then = plan.loaded /\ ~pc_load'.aborted
      /\ pc_load'.left = Head(plan.fetch).s .. Head(plan.fetch).e
    BY DEF PastChartC!Begin
<1>5. CASE v.s < held.s /\ v.e <= held.e /\ plan.fetch = <<l>>
           /\ plan.loaded = [s |-> v.s, e |-> held.e]
    <2>1. plan.loaded \in PastChartC!Views
        BY <1>1, <1>5 DEF PastChartC!Views, PastChartC!Intervals
    <2> QED BY <1>1, <1>3, <1>4, <1>5, <2>1, OfOne
            DEF Shape, Covers, PastChartC!Live, PastChartC!Busy
<1>6. CASE v.s >= held.s /\ v.e > held.e /\ plan.fetch = <<r>>
           /\ plan.loaded = [s |-> held.s, e |-> v.e]
    <2>1. plan.loaded \in PastChartC!Views
        BY <1>1, <1>6 DEF PastChartC!Views, PastChartC!Intervals
    <2> QED BY <1>1, <1>3, <1>4, <1>6, <2>1, OfOne
            DEF Shape, Covers, PastChartC!Live, PastChartC!Busy
<1>7. CASE v.s < held.s /\ v.e > held.e /\ plan.fetch = <<l, r>>
           /\ plan.loaded = [s |-> v.s, e |-> v.e]
    <2>1. plan.loaded \in PastChartC!Views
        BY <1>1, <1>7 DEF PastChartC!Views, PastChartC!Intervals
    <2> QED BY <1>1, <1>3, <1>4, <1>7, <2>1
            DEF Shape, Covers, PastChartC!Live, PastChartC!Busy
<1> QED BY <1>5, <1>6, <1>7, JoinIs

\* The effect of a render leaves what counts as held exact, or a load that makes
\* it so.
LEMMA EffectFills ==
    ASSUME PcHeld, NEW v \in CanBeHeld, NEW tg \in PcTargets,
           NEW held \in {pc_loaded, PastChartC!NoView},
           NEW buffer \in {pc_copies, PastChartC!Empty},
           held # PastChartC!NoView =>
             tg = pc_target /\ buffer = pc_copies /\ pc_connected' = pc_connected,
           pc_view' = v, pc_target' = tg, PastChartC!Effect(v, tg, held, buffer)
    PROVE  PcHeld'
<1> DEFINE plan == PastChartC!PlanFetch(v, held)
           stopped == [pc_load EXCEPT !.aborted = TRUE]
<1>1. v \in PcSpan /\ held \in CanBeHeld
    BY NoViewIs, ViewIs DEF CanBeHeld, PcHeld
<1>2. PcInv'
    <2>1. held # PastChartC!NoView => tg = pc_target
        OBVIOUS
    <2>2. pc_view' \in PcSpan
        BY <1>1
    <2> QED BY <1>1, <2>1, <2>2, EffectKeeps DEF PcHeld
<1>3. SUFFICES pc_loaded' \in CanBeHeld /\ Shape' /\ Exactly'
    BY <1>2 DEF PcHeld
<1>4. ASSUME pc_load' = stopped PROVE ~PastChartC!Live' /\ Shape'
    <2>1. stopped.aborted
        BY DEF PcHeld, PcInv, PcTypes, PcLoads
    <2>2. ~PastChartC!Live'
        BY <2>1, <1>4 DEF PastChartC!Live
    <2> QED BY <2>2, Zenon DEF Shape
<1>5. CASE v = PastChartC!NoView
    <2>1. /\ pc_copies' = PastChartC!Empty /\ pc_loaded' = PastChartC!NoView
          /\ pc_load' = stopped
        BY <1>5 DEF PastChartC!Effect
    <2>2. Settled'
        <3>1. \A t \in PastChartC!Ticks : pc_copies'[<<pc_target', t>>] = 0
            BY <2>1 DEF PastChartC!Empty, PastChartC!Points
        <3>2. Covers(pc_loaded') = {}
            BY <2>1 DEF Covers, PastChartC!NoView
        <3> QED BY <3>1, <3>2 DEF Settled
    <2> QED BY <1>4, <2>1, <2>2 DEF CanBeHeld, Exactly
<1>6. CASE v # PastChartC!NoView /\ (held = PastChartC!NoView \/ PastChartC!Apart(v, held))
    <2>1. v \in PastChartC!Views
        BY <1>6 DEF CanBeHeld
    <2>2. plan = [reset |-> TRUE, fetch |-> <<v>>, loaded |-> v]
        BY <1>6 DEF PastChartC!PlanFetch
    <2>3. plan.fetch # <<>>
        BY <2>2, OfOne
    <2>4. /\ pc_copies' = PastChartC!Empty /\ pc_loaded' = held
          /\ pc_load' = PastChartC!Begin(<<v>>, tg, v)
        BY <1>6, <2>2, <2>3 DEF PastChartC!Effect
    <2>5. PastChartC!Live' /\ Shape' /\ Filling'
        BY <2>1, <2>4, FreshFills
    <2> QED BY <2>4, <2>5, <1>1 DEF Exactly
<1>7. CASE /\ v # PastChartC!NoView /\ held # PastChartC!NoView /\ ~PastChartC!Apart(v, held)
           /\ PastChartC!Within(v, held)
    <2>1. plan = [reset |-> FALSE, fetch |-> <<>>, loaded |-> held]
        BY <1>7 DEF PastChartC!PlanFetch
    <2>2. /\ pc_copies' = buffer /\ pc_loaded' = held /\ pc_load' = stopped
          /\ pc_seams' = pc_seams \cup {held.s, held.e}
          /\ pc_disturbed' = (pc_disturbed \/ PastChartC!Live)
        BY <1>7, <2>1 DEF PastChartC!Effect
    <2>3. held = pc_loaded /\ tg = pc_target /\ buffer = pc_copies /\ pc_connected' = pc_connected
        BY <1>7
    <2>4. ASSUME Calm' PROVE Settled'
        <3>1. Settled
            BY <2>2, <2>3, <2>4 DEF Calm, PcHeld, Exactly
        <3> QED BY <3>1, <2>2, <2>3 DEF Settled, Covers
    <2> QED BY <1>1, <1>4, <2>2, <2>4 DEF Exactly
<1>8. CASE /\ v # PastChartC!NoView /\ held # PastChartC!NoView /\ ~PastChartC!Apart(v, held)
           /\ ~PastChartC!Within(v, held)
    <2>1. /\ v \in PastChartC!Views /\ held = pc_loaded /\ pc_loaded \in PastChartC!Views
          /\ tg = pc_target /\ buffer = pc_copies /\ pc_connected' = pc_connected
        BY <1>8, <1>1 DEF CanBeHeld
    <2>2. ~plan.reset /\ plan.fetch # <<>>
        <3>1. \A x, y : <<x, y>> # <<>>
            OBVIOUS
        <3>2. ~plan.reset
            BY <1>8, <2>1, JoinIs
        <3>3. \E l, r : plan.fetch = <<l>> \/ plan.fetch = <<r>> \/ plan.fetch = <<l, r>>
            <4>1. PICK l, r : /\ l = [s |-> v.s, e |-> held.s] /\ r = [s |-> held.e, e |-> v.e]
                OBVIOUS
            <4> HIDE DEF plan
            <4>2. plan.fetch = <<l>> \/ plan.fetch = <<r>> \/ plan.fetch = <<l, r>>
                BY <1>8, <2>1, <4>1, JoinIs, Zenon DEF plan
            <4> QED BY <4>2, Zenon
        <3> HIDE DEF plan
        <3> QED BY <3>1, <3>2, <3>3, OfOne, Zenon
    <2>3. /\ pc_copies' = pc_copies /\ pc_loaded' = pc_loaded
          /\ pc_seams' = pc_seams \cup {pc_loaded.s, pc_loaded.e}
          /\ pc_disturbed' = (pc_disturbed \/ PastChartC!Live)
          /\ pc_load' = PastChartC!Begin(plan.fetch, pc_target, plan.loaded)
        BY <1>8, <2>1, <2>2 DEF PastChartC!Effect
    <2>4. Shape' /\ PastChartC!Live'
        BY <1>8, <2>1, <2>3, JoinShapes
    <2>5. ASSUME Calm' PROVE Filling'
        <3>1. Settled
            BY <2>1, <2>3, <2>5 DEF Calm, PcHeld, Exactly
        <3>2. PcTypes /\ pc_target' = pc_target
            BY <2>1 DEF PcHeld, PcInv
        <3> QED BY <1>8, <2>1, <2>3, <3>1, <3>2, JoinFills
    <2> QED BY <1>1, <2>1, <2>3, <2>4, <2>5 DEF Exactly
<1> QED BY <1>5, <1>6, <1>7, <1>8

LEMMA UserKeeps ==
    ASSUME PcHeld,
           \/ \E v \in PastChartC!Views \cup {PastChartC!NoView} : PastChartC!Look(v)
           \/ \E tg \in PcTargets : PastChartC!Aim(tg)
           \/ PastChartC!Reload \/ PastChartC!Disconnect \/ PastChartC!Connect
    PROVE  PcHeld'
<1>0. /\ pc_view \in CanBeHeld /\ pc_target \in PcTargets
      /\ pc_loaded \in {pc_loaded, PastChartC!NoView}
           /\ PastChartC!NoView \in {pc_loaded, PastChartC!NoView}
      /\ pc_copies \in {pc_copies, PastChartC!Empty}
           /\ PastChartC!Empty \in {pc_copies, PastChartC!Empty}
    BY DEF PcHeld, PcInv, PcTypes
<1>1. ASSUME NEW v \in PastChartC!Views \cup {PastChartC!NoView}, PastChartC!Look(v)
      PROVE  PcHeld'
    <2>1. /\ pc_view' = v /\ pc_target' = pc_target /\ pc_connected' = pc_connected
          /\ PastChartC!Effect(v, pc_target, pc_loaded, pc_copies)
        BY <1>1 DEF PastChartC!Look
    <2>2. v \in CanBeHeld
        BY DEF CanBeHeld
    <2> QED BY <2>1, <2>2, <1>0, EffectFills
<1>2. ASSUME NEW tg \in PcTargets, PastChartC!Aim(tg) PROVE PcHeld'
    <2>1. /\ pc_view' = pc_view /\ pc_target' = tg
          /\ PastChartC!Effect(pc_view, tg, PastChartC!NoView, pc_copies)
        BY <1>2 DEF PastChartC!Aim
    <2> QED BY <2>1, <1>0, EffectFills
<1>3. CASE PastChartC!Reload
    <2>1. /\ pc_view' = pc_view /\ pc_target' = pc_target
          /\ PastChartC!Effect(pc_view, pc_target, PastChartC!NoView, pc_copies)
        BY <1>3 DEF PastChartC!Reload
    <2> QED BY <2>1, <1>0, EffectFills
<1>4. CASE PastChartC!Disconnect
    <2>1. PcInv'
        BY <1>4, UserHolds DEF PcHeld
    <2>2. ~Calm'
        BY <1>4 DEF PastChartC!Disconnect, Calm
    <2>3. pc_view' = pc_view /\ pc_loaded' = pc_loaded /\ pc_load' = pc_load
        BY <1>4 DEF PastChartC!Disconnect
    <2>4. Shape'
        BY <2>3 DEF PcHeld, Shape, PastChartC!Live, PastChartC!Busy
    <2> QED BY <2>1, <2>2, <2>3, <2>4 DEF PcHeld, Exactly
<1>5. CASE PastChartC!Connect
    <2>1. /\ pc_view' = pc_view /\ pc_target' = pc_target
          /\ PastChartC!Effect(pc_view, pc_target, PastChartC!NoView, PastChartC!Empty)
        BY <1>5 DEF PastChartC!Connect
    <2> QED BY <2>1, <1>0, EffectFills
<1> QED BY <1>1, <1>2, <1>3, <1>4, <1>5

LEMMA PageFills ==
    ASSUME PcHeld, PastChartC!Page
    PROVE  PcHeld'
<1>1. PICK t \in pc_load.left :
        /\ pc_load' = [pc_load EXCEPT !.left = @ \ {t}]
        /\ pc_copies' = IF pc_load.aborted THEN pc_copies
                        ELSE [pc_copies EXCEPT ![<<pc_load.of, t>>] = PastChartC!Min(2, @ + 1)]
    BY DEF PastChartC!Page
<1>2. /\ pc_load'.parts = pc_load.parts /\ pc_load'.left = pc_load.left \ {t}
      /\ pc_load'.then = pc_load.then /\ pc_load'.aborted = pc_load.aborted
    BY <1>1 DEF PcHeld, PcInv, PcTypes, PcLoads
<1>3. /\ pc_view' = pc_view /\ pc_loaded' = pc_loaded /\ pc_target' = pc_target
      /\ pc_connected' = pc_connected /\ pc_seams' = pc_seams
      /\ pc_disturbed' = pc_disturbed /\ PastChartC!Busy
    BY DEF PastChartC!Page, PastChartC!history
<1>4. PcInv' /\ pc_view' \in CanBeHeld /\ pc_loaded' \in CanBeHeld
    BY <1>3, PageHolds DEF PcHeld
<1>5. PastChartC!Live' = PastChartC!Live
    BY <1>2 DEF PastChartC!Live, PastChartC!Busy
<1>6. Shape'
    <2>1. Shape
        BY DEF PcHeld
    <2> QED BY <2>1, <1>2, <1>5 DEF Shape
<1>7. Exactly'
    <2>1. CASE ~Calm' \/ pc_load.aborted
        <3>1. Calm' => Calm
            BY <1>3 DEF Calm
        <3>2. ~Calm' \/ (Calm /\ ~PastChartC!Live /\ ~PastChartC!Live' /\ pc_copies' = pc_copies)
            BY <2>1, <3>1, <1>1, <1>5 DEF PastChartC!Live
        <3> QED BY <3>2, <1>3 DEF PcHeld, Exactly, Settled, Covers
    <2>2. CASE Calm' /\ ~pc_load.aborted
        <3>1. /\ PastChartC!Live /\ Filling
              /\ t \in Covers(pc_load.parts[1])
              /\ Covers(pc_load.parts[1]) \subseteq Covers(pc_load.then)
            <4>1. PastChartC!Live /\ Calm
                BY <2>2, <1>3 DEF PastChartC!Live, Calm
            <4>2. Filling /\ Shape
                BY <4>1 DEF PcHeld, Exactly
            <4>3. 1 \in 1 .. Len(pc_load.parts)
                <5>1. pc_load.parts \in Seq(PcSpan) /\ pc_load.parts # <<>>
                    BY <1>3 DEF PastChartC!Busy, PcHeld, PcInv, PcTypes, PcLoads
                <5> QED BY <5>1
            <4> QED BY <4>1, <4>2, <4>3 DEF Shape
        <3>2. pc_load.of = pc_target
            BY <3>1 DEF PcHeld, PcInv, LoadIsAsked
        <3>3. \A u \in PastChartC!Ticks :
                /\ pc_copies[<<pc_target, u>>] \in Nat
                /\ u # t => pc_copies'[<<pc_target, u>>] = pc_copies[<<pc_target, u>>]
                /\ u = t => pc_copies'[<<pc_target, u>>] =
                              PastChartC!Min(2, pc_copies[<<pc_target, u>>] + 1)
            BY <3>2, <1>1, <2>2 DEF PcHeld, PcInv, PcTypes, PastChartC!Points
        <3>4. Ahead' = (pc_load.left \ {t})
                         \cup (IF Len(pc_load.parts) > 1 THEN Covers(pc_load.parts[2]) ELSE {})
            BY <1>2 DEF Ahead, Covers
        <3>5. t \in Ahead' => t \in pc_seams
            BY <3>1, <3>4 DEF Filling
        <3>6. Filling'
            <4>1. ASSUME NEW u \in PastChartC!Ticks
                  PROVE  LET n == pc_copies'[<<pc_target, u>>] IN
                         /\ n > 0 => u \in Covers(pc_load.then)
                         /\ u \in Covers(pc_load.then) /\ n = 0 => u \in Ahead'
                         /\ u \in Ahead' /\ n > 0 => u \in pc_seams
                         /\ n > 1 => u \in pc_seams
                <5>1. CASE u # t
                    BY <5>1, <3>1, <3>3, <3>4 DEF Filling, Ahead
                <5>2. CASE u = t
                    <6>1. t \in Ahead
                        BY DEF Ahead
                    <6> DEFINE m == pc_copies[<<pc_target, u>>]
                    <6>2. m > 0 => u \in pc_seams
                        BY <5>2, <6>1, <3>1 DEF Filling
                    <6>3. pc_copies'[<<pc_target, u>>] = PastChartC!Min(2, m + 1) /\ m \in Nat
                        BY <5>2, <3>3
                    <6> HIDE DEF m
                    <6>4. /\ pc_copies'[<<pc_target, u>>] # 0
                          /\ pc_copies'[<<pc_target, u>>] > 1 => m > 0
                        BY <6>3 DEF PastChartC!Min
                    <6> QED BY <5>2, <6>2, <6>4, <3>1, <3>5, Zenon
                <5> QED BY <5>1, <5>2
            <4> QED BY <4>1, <3>1, <1>2, <1>3 DEF Filling, Covers
        <3> QED BY <3>1, <3>6, <1>5 DEF Exactly
    <2> QED BY <2>1, <2>2
<1> QED BY <1>4, <1>6, <1>7 DEF PcHeld

LEMMA EndFills ==
    ASSUME PcHeld, PastChartC!PartEnds \/ PastChartC!LoadFails
    PROVE  PcHeld'
<1>1. PcInv'
    BY EndHolds DEF PcHeld
<1>2. /\ pc_view' = pc_view /\ pc_copies' = pc_copies /\ pc_target' = pc_target
      /\ pc_connected' = pc_connected /\ pc_seams' = pc_seams /\ PastChartC!Busy
    BY DEF PastChartC!PartEnds, PastChartC!LoadFails
<1>3. PastChartC!NoLoad.parts = <<>> /\ (PastChartC!Live <=> ~pc_load.aborted)
    BY <1>2, NoLoadIs DEF PastChartC!Live, PcHeld, PcInv, PcTypes
<1>4. PastChartC!PartEnds => (Calm' => Calm /\ (pc_load.aborted \/ pc_load.left = {}))
    BY <1>2 DEF PastChartC!PartEnds, Calm
<1>5. CASE pc_load' = PastChartC!NoLoad
    <2>1. ~PastChartC!Live' /\ Shape'
        BY <1>3, <1>5 DEF Shape, PastChartC!Live, PastChartC!Busy
    <2>2. CASE pc_load.aborted
        <3>1. pc_loaded' = pc_loaded
            BY <2>2 DEF PastChartC!PartEnds, PastChartC!LoadFails
        <3>2. Calm' => Calm
            BY <1>2, <2>2 DEF PastChartC!PartEnds, PastChartC!LoadFails, Calm
        <3>3. Exactly'
            BY <3>1, <3>2, <2>1, <2>2, <1>2, <1>3 DEF PcHeld, Exactly, Settled, Covers
        <3> QED BY <1>1, <1>2, <2>1, <3>1, <3>3 DEF PcHeld
    <2>3. CASE ~pc_load.aborted /\ PastChartC!LoadFails
        <3>1. pc_loaded' = pc_loaded /\ ~Calm'
            BY <2>3 DEF PastChartC!LoadFails, Calm
        <3> QED BY <1>1, <1>2, <2>1, <3>1 DEF PcHeld, Exactly
    <2>4. CASE ~pc_load.aborted /\ PastChartC!PartEnds
        <3>1. pc_loaded' = pc_load.then /\ ~(Len(pc_load.parts) > 1)
            <4>1. \A parts, of, then : Len(parts) > 1 /\ parts \in Seq(PcSpan)
                                       => PastChartC!Begin(Tail(parts), of,
                                           then) # PastChartC!NoLoad
                <5>1. ASSUME NEW parts, NEW of, NEW then, Len(parts) > 1, parts \in Seq(PcSpan)
                      PROVE  PastChartC!Begin(Tail(parts), of,
                             then).aborted # PastChartC!NoLoad.aborted
                    BY DEF PastChartC!Begin, PastChartC!NoLoad
                <5> QED BY <5>1
            <4>2. pc_load.parts \in Seq(PcSpan)
                BY DEF PcHeld, PcInv, PcTypes, PcLoads
            <4> QED BY <1>5, <2>4, <4>1, <4>2 DEF PastChartC!PartEnds
        <3>2. pc_load.then \in PastChartC!Views
            BY <1>3, <2>4 DEF PcHeld, Shape
        <3>3. ASSUME Calm' PROVE Settled'
            <4>1. Calm /\ (pc_load.aborted \/ pc_load.left = {})
                BY <2>4, <3>3, <1>4
            <4>2. Filling /\ Ahead = {}
                BY <4>1, <3>1, <2>4, <1>3 DEF PcHeld, Exactly, Ahead
            <4>3. \A u \in PastChartC!Ticks : pc_copies[<<pc_target, u>>] \in Nat
                BY DEF PcHeld, PcInv, PcTypes, PastChartC!Points
            <4> QED BY <4>2, <4>3, <3>1, <1>2 DEF Filling, Settled, Covers
        <3> QED BY <1>1, <1>2, <2>1, <3>1, <3>2, <3>3 DEF PcHeld, Exactly, CanBeHeld
    <2> QED BY <2>2, <2>3, <2>4
<1>6. CASE pc_load' # PastChartC!NoLoad
    <2>1. /\ ~pc_load.aborted /\ Len(pc_load.parts) > 1 /\ pc_loaded' = pc_loaded
          /\ pc_load' = PastChartC!Begin(Tail(pc_load.parts), pc_load.of, pc_load.then)
          /\ PastChartC!PartEnds
        BY <1>6 DEF PastChartC!PartEnds, PastChartC!LoadFails
    <2>2. PastChartC!Live /\ Shape
        BY <2>1, <1>3 DEF PcHeld
    <2>3. /\ Len(pc_load.parts) = 2 /\ pc_load.parts \in Seq(PcSpan)
        <3>1. pc_load.parts \in Seq(PcSpan)
            BY DEF PcHeld, PcInv, PcTypes, PcLoads
        <3>2. Len(pc_load.parts) \in Nat /\ Len(pc_load.parts) > 1 /\ Len(pc_load.parts) <= 2
            BY <2>1, <2>2, <3>1 DEF Shape
        <3>3. \A n \in Nat : n > 1 /\ n <= 2 => n = 2
            OBVIOUS
        <3> QED BY <3>1, <3>2, <3>3, Zenon
    <2>4. /\ Tail(pc_load.parts) \in Seq(PcSpan) /\ Len(Tail(pc_load.parts)) = 1
          /\ Tail(pc_load.parts)[1] = pc_load.parts[2]
          /\ Head(Tail(pc_load.parts)) = pc_load.parts[2]
        BY <2>3
    <2>5. Tail(pc_load.parts) # <<>>
        BY <2>1, <2>3, TailIs
    <2>6. /\ pc_load'.parts = Tail(pc_load.parts) /\ ~pc_load'.aborted
          /\ pc_load'.left = Covers(pc_load.parts[2]) /\ pc_load'.then = pc_load.then
        BY <2>1, <2>4 DEF PastChartC!Begin, Covers
    <2>7. PastChartC!Live'
        BY <2>5, <2>6 DEF PastChartC!Live, PastChartC!Busy
    <2>8. Len(pc_load'.parts) = 1 /\ pc_load'.parts[1] = pc_load.parts[2]
        BY <2>4, <2>6
    <2>9. 2 \in 1 .. Len(pc_load.parts)
        BY <2>3
    <2>10. Covers(pc_load.parts[2]) \subseteq Covers(pc_load.then)
               /\ pc_load.then \in PastChartC!Views
        BY <2>2, <2>9 DEF Shape
    <2>11. Shape'
        <3>1. \A i \in 1 .. Len(pc_load'.parts) : pc_load'.parts[i] = pc_load.parts[2]
            BY <2>8
        <3>2. /\ Len(pc_load'.parts) <= 2
              /\ pc_load'.left \subseteq Covers(pc_load'.parts[1])
            <4>1. \A n : n = 1 => n <= 2
                BY SMT
            <4> QED BY <2>6, <2>8, <4>1, Zenon
        <3> QED BY <2>6, <2>10, <3>1, <3>2, Zenon DEF Shape
    <2>12. ASSUME Calm' PROVE Filling'
        <3>1. Calm /\ pc_load.left = {}
            BY <2>1, <2>12, <1>4
        <3>2. Filling
            BY <3>1, <2>2 DEF PcHeld, Exactly
        <3>3. Ahead' = Ahead
            <4>1. ~(Len(pc_load'.parts) > 1)
                BY <2>8
            <4>2. Ahead' = Covers(pc_load.parts[2])
                BY <4>1, <2>6 DEF Ahead
            <4> QED BY <4>2, <3>1, <2>1 DEF Ahead
        <3> QED BY <3>2, <3>3, <1>2, <2>6, <2>8 DEF Filling, Covers
    <2> QED BY <1>1, <1>2, <2>1, <2>7, <2>11, <2>12 DEF PcHeld, Exactly
<1> QED BY <1>5, <1>6

LEMMA PcFillInit == PastChartC!Init => PcHeld
<1> SUFFICES ASSUME PastChartC!Init PROVE PcHeld
    OBVIOUS
<1>1. PcInv
    BY PcInitHolds
<1>2. PastChartC!NoLoad.parts = <<>>
    BY NoLoadIs DEF PastChartC!Init
<1>3. ~PastChartC!Live
    BY <1>2 DEF PastChartC!Init, PastChartC!Live, PastChartC!Busy
<1>4. \A t \in PastChartC!Ticks : pc_copies[<<pc_target, t>>] = 0
    BY DEF PastChartC!Init, PastChartC!Empty, PastChartC!Points
<1>5. Covers(pc_loaded) = {}
    BY DEF PastChartC!Init, Covers, PastChartC!NoView
<1> QED BY <1>1, <1>3, <1>4, <1>5 DEF PastChartC!Init, PcHeld, Shape, Exactly, Settled, CanBeHeld

LEMMA PcFillStep == PcHeld /\ [PastChartC!Next]_PastChartVars => PcHeld'
<1> SUFFICES ASSUME PcHeld, [PastChartC!Next]_PastChartVars PROVE PcHeld'
    OBVIOUS
<1>1. CASE PastChartC!Page
    BY <1>1, PageFills
<1>2. CASE PastChartC!PartEnds \/ PastChartC!LoadFails
    BY <1>2, EndFills
<1>3. CASE UNCHANGED PastChartVars
    <2>1. PcInv'
        BY <1>3, PcStepHolds DEF PcHeld
    <2> QED BY <1>3, <2>1 DEF PastChartVars, PcHeld, Shape, Exactly, Calm, Settled, Filling,
                Ahead, Covers, PastChartC!Live, PastChartC!Busy
<1> QED BY <1>1, <1>2, <1>3, UserKeeps DEF PastChartC!Next

LEMMA PcHeldIs == PcHeld => PastChartC!PastOneTarget /\ PastChartC!PastExact
BY DEF PcHeld, PcInv, Exactly, Calm, Settled, Covers, PastChartC!PastExact, PastChartC!Live

-----------------------------------------------------------------------------
(* The theorem of the past chart.                                          *)

LEMMA PastChartInit == Init => (which = "PastChart" => PcHeld)
BY PcFillInit DEF Init

LEMMA PastChartStep ==
    (which = "PastChart" => PcHeld) /\ [Next]_allVars => (which = "PastChart" => PcHeld)'
<1> SUFFICES ASSUME which = "PastChart" => PcHeld, [Next]_allVars, (which = "PastChart")'
             PROVE  PcHeld'
    OBVIOUS
<1>1. CASE Next
    BY <1>1, Turns, PcFillStep
<1>2. CASE UNCHANGED allVars
    BY <1>2, PcFillStep DEF allVars
<1> QED BY <1>1, <1>2

\* The buffer of the past chart is of one target, and when no load was cut, aborted
\* or failed since all was last loaded, it holds each point of the interval that
\* counts as held (loadedRef), twice at the seams of joined parts alone, and no
\* other: whatever the order of the pages and of the user's commands
\* (usePastXLog.ts, planFetch).
THEOREM HeldIsHeld == Spec => []PastBufferTrue
<1>1. (which = "PastChart" => PcHeld) => PastBufferTrue
    BY PcHeldIs DEF PastBufferTrue
<1> QED BY PastChartInit, PastChartStep, <1>1, PTL DEF Spec

-----------------------------------------------------------------------------
(* The hooks that ask.                                                     *)

AkQuery == [id : 0 .. (AkMaxAsks - 1), q : AkQuestions, live : BOOLEAN]

AkTypes ==
  /\ ak_hook \in DOMAIN AskersC!Policies
  /\ ak_q \in AkQuestions \union {AskersC!None}
  /\ ak_shown \in AkQuestions \union {AskersC!None}
  /\ ak_asks \subseteq AkQuery
  /\ ak_sent \in Nat

\* A hook that cancels lets only the queries for the present question answer.
AkLiveIsAsked == AskersC!P.guarded => \A a \in ak_asks : a.live => a.q = ak_q

\* Only a hook with a spinner turns it.
AkHasSpinner == ak_loading => AskersC!P.spins

AkInv == AkTypes /\ AkHasSpinner /\ AkLiveIsAsked /\ AskersC!ShownIsAsked /\ AskersC!SpinnerTrue

----------------------------------------------------------------------------
(* What the proof uses of the policies.                                    *)

Fields == {"guarded", "wipes", "empties", "spins", "stops", "quiet", "heals", "tells",
           "drops", "again"}

\* What the proof uses of the policies: no hook that cancels swallows a
\* failure, but the list of candidates, and none keeps its spinner when there
\* is nothing to ask, but the two of Sticky.
Careful(h, p) ==
  /\ p["guarded"] /\ h \notin AskersC!Mute => p["tells"]
  /\ p["guarded"] /\ p["spins"] /\ ~p["stops"] => h \in AskersC!Sticky

LEMMA CarefulIf ==
  ASSUME NEW h, NEW yes,
         "guarded" \in yes /\ h \notin AskersC!Mute => "tells" \in yes,
         "guarded" \in yes /\ "spins" \in yes /\ "stops" \notin yes => h \in AskersC!Sticky
  PROVE  Careful(h, AskersC!Policy(yes))
<1>1. \A f \in Fields : AskersC!Policy(yes)[f] = (f \in yes)
  BY DEF AskersC!Policy, Fields
<1> HIDE DEF AskersC!Policy
<1>2. /\ AskersC!Policy(yes)["guarded"] = ("guarded" \in yes)
      /\ AskersC!Policy(yes)["tells"] = ("tells" \in yes)
      /\ AskersC!Policy(yes)["spins"] = ("spins" \in yes)
      /\ AskersC!Policy(yes)["stops"] = ("stops" \in yes)
  BY <1>1 DEF Fields
<1> QED BY <1>2, Zenon DEF Careful

LEMMA OfPolicies == \A h \in DOMAIN AskersC!Policies : Careful(h, AskersC!Policies[h])
<1> USE DEF AskersC!Mute, AskersC!Sticky
<1>1. Careful("callTrace", AskersC!CallTrace)
  BY CarefulIf DEF AskersC!CallTrace
<1>2. Careful("flowProfiles", AskersC!FlowProfiles)
  BY CarefulIf DEF AskersC!FlowProfiles
<1>3. Careful("pastCandidates", AskersC!PastCandidates)
  BY CarefulIf DEF AskersC!PastCandidates
<1>4. Careful("objTypeStats", AskersC!ObjTypeStats)
  BY CarefulIf DEF AskersC!ObjTypeStats
<1>5. Careful("rangeInsight", AskersC!RangeInsight)
  BY CarefulIf DEF AskersC!RangeInsight
<1>6. Careful("pastCounters", AskersC!PastCounters)
  BY CarefulIf DEF AskersC!PastCounters
<1>7. Careful("fiveMinChart", AskersC!FiveMinChart)
  BY CarefulIf DEF AskersC!FiveMinChart
<1>8. Careful("threadDetail", AskersC!ThreadDetail)
  BY CarefulIf DEF AskersC!ThreadDetail
<1>9. Careful("queryBind", AskersC!QueryBind)
  BY CarefulIf DEF AskersC!QueryBind
<1>10. Careful("savedList", AskersC!SavedList)
  BY CarefulIf DEF AskersC!SavedList
<1>11. Careful("summary", AskersC!Summary)
  BY CarefulIf DEF AskersC!Summary
<1>12. Careful("topology", AskersC!Topology)
  BY CarefulIf DEF AskersC!Topology
<1>13. Careful("inspector", AskersC!Inspector)
  BY CarefulIf DEF AskersC!Inspector
<1>14. DOMAIN AskersC!Policies = {"callTrace", "flowProfiles", "pastCandidates", "objTypeStats",
                          "rangeInsight", "pastCounters", "fiveMinChart", "threadDetail",
                          "queryBind", "savedList", "summary", "topology",
                          "inspector"}
  BY DEF AskersC!Policies
<1> QED BY <1>1, <1>2, <1>3, <1>4, <1>5, <1>6, <1>7, <1>8, <1>9, <1>10, <1>11, <1>12, <1>13,
           <1>14 DEF AskersC!Policies

----------------------------------------------------------------------------
LEMMA AkInitHolds == AskersC!Init => AkInv
BY DEF AskersC!Init, AkInv, AkTypes, AkHasSpinner, AkLiveIsAsked, AskersC!ShownIsAsked,
   AskersC!SpinnerTrue

\* The queries under way after a cleanup and a new one.
Cancelled(a) == IF AskersC!P.guarded THEN [a EXCEPT !.live = FALSE] ELSE a
New(question) == [id |-> ak_sent, q |-> question, live |-> TRUE]

LEMMA NewIs ==
  ASSUME NEW question \in AkQuestions, ak_sent \in Nat, ak_sent < AkMaxAsks
  PROVE  /\ New(question) \in AkQuery
         /\ New(question).live /\ New(question).q = question
<1>1. ak_sent \in 0 .. (AkMaxAsks - 1)
  BY WindowDataAssumption
<1> QED BY <1>1 DEF New, AkQuery

LEMMA CleanupIs ==
  ASSUME AkTypes
  PROVE  /\ {Cancelled(a) : a \in ak_asks} \subseteq AkQuery
         /\ AskersC!P.guarded => \A b \in {Cancelled(a) : a \in ak_asks} : ~b.live
         /\ ~AskersC!P.guarded => {Cancelled(a) : a \in ak_asks} = ak_asks
BY DEF AkTypes, AkQuery, Cancelled

\* The spinner is left on with nothing to ask by the hooks of Sticky alone.
LEMMA Stopped ==
  ASSUME AkInv, AskersC!P.guarded, ak_loading, ~AskersC!P.stops
  PROVE  ak_hook \in AskersC!Sticky
BY OfPolicies DEF AkInv, AkTypes, AkHasSpinner, Careful, AskersC!P

LEMMA AskHolds ==
  ASSUME AkInv, NEW new \in AkQuestions, AskersC!Ask(new)
  PROVE  AkInv'
<1> DEFINE old == {Cancelled(a) : a \in ak_asks}
<1>1. /\ ak_asks' = old \union {New(new)} /\ ak_q' = new /\ ak_hook' = ak_hook
           /\ AskersC!P' = AskersC!P
      /\ ak_sent' = ak_sent + 1 /\ ak_sent < AkMaxAsks
      /\ ak_shown' \in {ak_shown, AskersC!None}
  BY DEF AskersC!Ask, AskersC!Send, Cancelled, New, AskersC!P
<1>2. New(new) \in AkQuery /\ New(new).live /\ New(new).q = new
  BY <1>1, NewIs DEF AkInv, AkTypes
<1>3. AkTypes'
  BY <1>1, <1>2, CleanupIs DEF AkInv, AkTypes
<1>4. AkLiveIsAsked'
  BY <1>1, <1>2, CleanupIs DEF AkInv, AkLiveIsAsked
<1>5. \E a \in ak_asks' : a.live /\ a.q = ak_q'
  BY <1>1, <1>2
<1>6. AkHasSpinner'
  BY <1>1, Zenon DEF AskersC!Ask, AkHasSpinner
<1> QED BY <1>3, <1>4, <1>5, <1>6 DEF AkInv, AskersC!ShownIsAsked, AskersC!SpinnerTrue

LEMMA QuitHolds ==
  ASSUME AkInv, AskersC!Quit
  PROVE  AkInv'
<1> DEFINE old == {Cancelled(a) : a \in ak_asks}
<1>1. /\ ak_asks' = old /\ ak_q' = AskersC!None /\ ak_hook' = ak_hook
           /\ AskersC!P' = AskersC!P /\ ak_sent' = ak_sent
      /\ ak_loading' = (ak_loading /\ ~AskersC!P.stops)
      /\ ak_shown' \in {ak_shown, AskersC!None}
  BY DEF AskersC!Quit, Cancelled, AskersC!P
<1>2. AkTypes'
  BY <1>1, CleanupIs DEF AkInv, AkTypes
<1>3. AkLiveIsAsked'
  BY <1>1, CleanupIs DEF AkInv, AkLiveIsAsked
<1>4. AskersC!ShownIsAsked'
  BY <1>1 DEF AskersC!ShownIsAsked
<1>5. AskersC!SpinnerTrue'
  <2>1. CASE AskersC!P.guarded
    BY <2>1, <1>1, Stopped DEF AskersC!SpinnerTrue
  <2>2. CASE ~AskersC!P.guarded
    BY <2>2, <1>1, CleanupIs DEF AkInv, AskersC!SpinnerTrue
  <2> QED BY <2>1, <2>2
<1>6. AkHasSpinner'
  BY <1>1 DEF AkInv, AkHasSpinner
<1> QED BY <1>2, <1>3, <1>4, <1>5, <1>6 DEF AkInv

LEMMA AgainHolds ==
  ASSUME AkInv, AskersC!Again
  PROVE  AkInv'
<1>1. /\ ak_q' = ak_q /\ ak_q # AskersC!None /\ ak_hook' = ak_hook /\ AskersC!P' = AskersC!P
           /\ ak_sent' = ak_sent + 1
      /\ ak_sent < AkMaxAsks /\ ak_shown' = ak_shown
      /\ \/ ak_asks' = {Cancelled(a) : a \in ak_asks} \union {New(ak_q)}
         \/ ak_asks' = ak_asks \union {New(ak_q)}
  BY DEF AskersC!Again, AskersC!Send, Cancelled, New, AskersC!P
<1>2. New(ak_q) \in AkQuery /\ New(ak_q).live /\ New(ak_q).q = ak_q
  BY <1>1, NewIs DEF AkInv, AkTypes
<1>3. AkTypes'
  BY <1>1, <1>2, CleanupIs DEF AkInv, AkTypes
<1>4. AkLiveIsAsked'
  BY <1>1, <1>2, CleanupIs DEF AkInv, AkLiveIsAsked
<1>5. \E a \in ak_asks' : a.live /\ a.q = ak_q'
  BY <1>1, <1>2
<1>6. AkHasSpinner'
  BY <1>1, Zenon DEF AskersC!Again, AkHasSpinner
<1> QED BY <1>3, <1>4, <1>5, <1>6 DEF AkInv, AskersC!ShownIsAsked, AskersC!SpinnerTrue

LEMMA AnswerHolds ==
  ASSUME AkInv, NEW a \in ak_asks, AskersC!Answer(a)
  PROVE  AkInv'
<1>1. /\ ak_asks' = ak_asks \ {a} /\ ak_q' = ak_q /\ ak_hook' = ak_hook
           /\ AskersC!P' = AskersC!P /\ ak_sent' = ak_sent
      /\ ak_shown' \in {ak_shown, AskersC!None, a.q}
  BY DEF AskersC!Answer, AskersC!P
<1>2. AkTypes' /\ AkLiveIsAsked'
  BY <1>1 DEF AkInv, AkTypes, AkQuery, AkLiveIsAsked
<1>5. AkHasSpinner'
  BY <1>1 DEF AskersC!Answer, AkInv, AkHasSpinner
<1>3. CASE a.live
  <2>1. AskersC!ShownIsAsked'
    <3>1. ak_shown' = a.q
      BY <1>3 DEF AskersC!Answer
    <3>2. CASE AskersC!P.guarded
      BY <3>1, <3>2, <1>1, <1>3 DEF AkInv, AkLiveIsAsked, AskersC!ShownIsAsked
    <3>3. CASE ~AskersC!P.guarded
      BY <3>3, <1>1 DEF AkInv, AkTypes, AskersC!ShownIsAsked, AskersC!Unguarded, AskersC!P
    <3> QED BY <3>2, <3>3
  <2>2. AskersC!SpinnerTrue'
    BY <1>3 DEF AskersC!Answer, AskersC!SpinnerTrue
  <2> QED BY <2>1, <2>2, <1>2, <1>5 DEF AkInv
<1>4. CASE ~a.live
  BY <1>1, <1>2, <1>4, <1>5 DEF AskersC!Answer, AkInv, AskersC!ShownIsAsked, AskersC!SpinnerTrue
<1> QED BY <1>3, <1>4

LEMMA FailsHolds ==
  ASSUME AkInv, NEW a \in ak_asks, AskersC!Fails(a)
  PROVE  AkInv'
<1>1. /\ ak_asks' = ak_asks \ {a} /\ ak_q' = ak_q /\ ak_hook' = ak_hook
           /\ AskersC!P' = AskersC!P /\ ak_sent' = ak_sent
      /\ ak_shown' \in {ak_shown, AskersC!None, a.q}
  BY DEF AskersC!Fails, AskersC!P
<1>2. AkTypes' /\ AkLiveIsAsked'
  BY <1>1 DEF AkInv, AkTypes, AkQuery, AkLiveIsAsked
<1>5. AkHasSpinner'
  BY <1>1 DEF AskersC!Fails, AkInv, AkHasSpinner
<1>3. CASE a.live
  <2>1. AskersC!ShownIsAsked'
    <3>1. CASE AskersC!P.guarded /\ ak_hook \notin AskersC!Mute
      <4>1. ak_err'
        BY <1>3, <3>1, OfPolicies DEF AskersC!Fails, AkInv, AkTypes, Careful, AskersC!P
      <4> QED BY <4>1 DEF AskersC!ShownIsAsked
    <3>2. CASE ~AskersC!P.guarded \/ ak_hook \in AskersC!Mute
      BY <3>2, <1>1 DEF AkInv, AkTypes, AskersC!ShownIsAsked, AskersC!Unguarded, AskersC!P
    <3> QED BY <3>1, <3>2
  <2>2. AskersC!SpinnerTrue'
    BY <1>3 DEF AskersC!Fails, AskersC!SpinnerTrue
  <2> QED BY <2>1, <2>2, <1>2, <1>5 DEF AkInv
<1>4. CASE ~a.live
  BY <1>1, <1>2, <1>4, <1>5 DEF AskersC!Fails, AkInv, AskersC!ShownIsAsked, AskersC!SpinnerTrue
<1> QED BY <1>3, <1>4

LEMMA AkStepHolds == AkInv /\ [AskersC!Next]_AskersVars => AkInv'
<1> SUFFICES ASSUME AkInv, [AskersC!Next]_AskersVars PROVE AkInv'
  OBVIOUS
<1>1. CASE \E new \in AkQuestions : AskersC!Ask(new)
  BY <1>1, AskHolds
<1>2. CASE AskersC!Quit
  BY <1>2, QuitHolds
<1>3. CASE AskersC!Again
  BY <1>3, AgainHolds
<1>4. CASE \E a \in ak_asks : AskersC!Answer(a) \/ AskersC!Fails(a)
  BY <1>4, AnswerHolds, FailsHolds
<1>5. CASE UNCHANGED AskersVars
  BY <1>5 DEF AskersVars, AkInv, AkTypes, AkHasSpinner, AkLiveIsAsked, AskersC!ShownIsAsked,
              AskersC!SpinnerTrue, AskersC!P
<1> QED BY <1>1, <1>2, <1>3, <1>4, <1>5 DEF AskersC!Next


-----------------------------------------------------------------------------
(* The theorem of the hooks.                                               *)

LEMMA AskersInit == Init => (which = "Askers" => AkInv)
BY AkInitHolds DEF Init

LEMMA AskersStep == (which = "Askers" => AkInv) /\ [Next]_allVars => (which = "Askers" => AkInv)'
<1> SUFFICES ASSUME which = "Askers" => AkInv, [Next]_allVars, (which = "Askers")'
             PROVE  AkInv'
  OBVIOUS
<1>1. CASE Next
  BY <1>1, Turns, AkStepHolds
<1>2. CASE UNCHANGED allVars
  BY <1>2, AkStepHolds DEF allVars
<1> QED BY <1>1, <1>2

\* No hook that cancels rests on the answer to an earlier question: such a result
\* stays only while the query for the present one is under way, or next to its
\* error; and a spinner that turns has a query under way that will stop it.
THEOREM NeverAnEarlierAnswer == Spec => []AskersTrue
<1>1. (which = "Askers" => AkInv) => AskersTrue
  BY DEF AkInv, AkTypes, AkQuery, AkHasSpinner, AskersTrue, AskersC!TypeOK
<1> QED BY AskersInit, AskersStep, <1>1, PTL DEF Spec

-----------------------------------------------------------------------------
(* The wide search: what is so of every run while its workers go on.       *)

WsWorker == [piece : Nat, at : {"objects", "page", "ended"}, all : BOOLEAN, from : Nat]
WsRun == [range : Nat \X Nat, pieces : Seq(Nat \X Nat), next : Nat \ {0}, finished : SUBSET Nat,
    out : SUBSET WsHits, stop : {"no", "cancelled", "cap"}, requests : Nat,
    rejected : BOOLEAN, over : BOOLEAN, whole : BOOLEAN, began : Nat, workers : Seq(WsWorker)]
WsIn(t, piece) == piece[1] <= t /\ t <= piece[2]

\* The pieces lie in the range, the last ends with it, and up to the end of each there
\* is no tick that it or one before it does not hold.
Cover(pieces, range) ==
  /\ pieces # <<>> /\ pieces[Len(pieces)][2] = range[2]
  /\ \A j \in DOMAIN pieces : range[1] <= pieces[j][1] /\ pieces[j][2] <= range[2]
  /\ \A m \in DOMAIN pieces : \A t \in Nat : range[1] <= t /\ t <= pieces[m][2] =>
       \E j \in 1..m : WsIn(t, pieces[j])

\* A worker works on a piece or has ended.
Manned(r) ==
  /\ r.workers # <<>> /\ r.finished \subseteq DOMAIN r.pieces
  /\ \A w \in DOMAIN r.workers :
       \/ r.workers[w] = WideSearchC!Ended
       \/ r.workers[w].at # "ended" /\ r.workers[w].piece \in DOMAIN r.pieces

\* While nothing stops a run each piece that was taken is finished or worked on, and a
\* worker ends when there is none left.
Taken(r) == r.stop = "no" /\ ~r.rejected =>
  /\ \A j \in DOMAIN r.pieces :
       j < r.next => j \in r.finished \/ \E w \in DOMAIN r.workers : r.workers[w].piece = j
  /\ \A w \in DOMAIN r.workers : r.workers[w].at = "ended" => Len(r.pieces) < r.next

\* The rows that the worker w can get of its piece from a server.
RowsAt(r, w, server) ==
  {x \in WsHits : /\ x.server = server /\ WsIn(x.t, r.pieces[r.workers[w].piece])
                  /\ x.gone => r.workers[w].all}

\* What was gathered: of finished pieces all, of those under work what comes before the cursor.
Before(r, w, server, from) ==
  \A x \in RowsAt(r, w, server) :
    WideSearchC!Rank(x, RowsAt(r, w, server)) <= from => x \in r.out
Gathered(r, server) ==
  /\ \A w \in DOMAIN r.workers : r.workers[w].all
  /\ \A x \in r.out : x.server = server /\ WsIn(x.t, r.range)
  /\ \A j \in r.finished : \A x \in WsHits :
       x.server = server /\ WsIn(x.t, r.pieces[j]) => x \in r.out
  /\ \A w \in DOMAIN r.workers :
       r.workers[w].at = "page" => Before(r, w, server, r.workers[w].from)

RunTrue(r, server, switches) ==
  /\ r.range[1] <= r.range[2] /\ r.began <= switches /\ Cover(r.pieces, r.range)
  /\ Manned(r) /\ Taken(r)
  /\ r.whole /\ r.began = switches => Gathered(r, server)

\* The run whose result is in the list is over.
Brought == ws_answer # 0 =>
  /\ ws_answer \in DOMAIN ws_runs
  /\ ~ws_runs[ws_answer].rejected
  /\ \A w \in DOMAIN ws_runs[ws_answer].workers :
       ws_runs[ws_answer].workers[w] = WideSearchC!Ended
  /\ ws_selected = WideSearchC!Kept(ws_runs[ws_answer])

WsInv == /\ ws_runs \in Seq(WsRun) /\ ws_switches \in Nat
         /\ \A i \in DOMAIN ws_runs : RunTrue(ws_runs[i], ws_server, ws_switches)
         /\ Brought

-----------------------------------------------------------------------------
(* The plan of the pieces.                                                 *)

\* Of a set of natural numbers that are bounded one is the largest.
LEMMA WsLargest ==
  ASSUME NEW S \in SUBSET Nat, S # {}, NEW n \in Nat, \A x \in S : x <= n
  PROVE  \E m \in S : \A y \in S : y <= m
<1> DEFINE T == {n - x : x \in S}
<1>1. T \in SUBSET Nat /\ T # {}
  <2>1. \A x \in S : n - x \in Nat
    OBVIOUS
  <2> QED BY <2>1
<1>2. PICK d \in T : \A y \in T : d <= y
  <2> HIDE DEF T
  <2> QED BY <1>1, LeastOf
<1>3. PICK x \in S : d = n - x
  OBVIOUS
<1>4. \A y \in S : n - x <= n - y /\ x \in Nat /\ y \in Nat
  BY <1>2, <1>3
<1> QED BY <1>3, <1>4

LEMMA MinIs ==
  ASSUME NEW S \in SUBSET Nat, S # {}
  PROVE  WideSearchC!Min(S) \in S /\ \A y \in S : WideSearchC!Min(S) <= y
BY LeastOf, Zenon DEF WideSearchC!Min

LEMMA CutAfterIs ==
  ASSUME NEW range \in Nat \X Nat, NEW s \in Nat, range[1] <= s, s <= range[2]
  PROVE  /\ WideSearchC!CutAfter(range, s) \in Nat
         /\ s <= WideSearchC!CutAfter(range, s) /\ WideSearchC!CutAfter(range, s) <= range[2]
         /\ s < range[2] => s < WideSearchC!CutAfter(range, s)
<1> DEFINE S == {s + WsPiece, range[2]} \cup {m \in WsDays : m > s}
<1>1. WsPiece \in Nat /\ WsPiece > 0 /\ WsDays \subseteq Nat /\ range[2] \in Nat
  BY WindowDataAssumption
<1>2. S \in SUBSET Nat /\ range[2] \in S /\ \A y \in S : s <= y /\ (s < range[2] => s < y)
  <2>1. s + WsPiece \in Nat /\ s < s + WsPiece
    BY <1>1
  <2>2. \A y \in S : y = s + WsPiece \/ y = range[2] \/ (y \in Nat /\ s < y)
    BY <1>1
  <2>3. \A y \in S : y \in Nat /\ s <= y /\ (s < range[2] => s < y)
    <3> HIDE DEF S
    <3> QED BY <2>1, <2>2, <1>1
  <2> QED BY <2>3
<1>3. WideSearchC!CutAfter(range, s) = WideSearchC!Min(S)
  BY DEF WideSearchC!CutAfter
<1> HIDE DEF S
<1>4. WideSearchC!Min(S) \in S /\ WideSearchC!Min(S) <= range[2]
  BY <1>2, MinIs
<1> QED BY <1>2, <1>3, <1>4

\* The ends of the pieces, one after the other.
Ends(f, range, k) ==
  f = [n \in 0..k |-> IF n = 0 THEN range[1] ELSE WideSearchC!CutAfter(range, f[n - 1])]

LEMMA EndsExist ==
  ASSUME NEW range \in Nat \X Nat, NEW N \in Nat
  PROVE  \E f : Ends(f, range, N)
<1> DEFINE Bad == {k \in Nat : ~\E f : Ends(f, range, k)}
<1>1. SUFFICES ASSUME Bad # {} PROVE FALSE
  OBVIOUS
<1>2. PICK k \in Bad : \A y \in Bad : k <= y
  <2> HIDE DEF Bad
  <2>1. Bad \in SUBSET Nat
    BY DEF Bad
  <2> QED BY <1>1, <2>1, LeastOf
<1>3. k \in Nat
  OBVIOUS
<1>4. CASE k = 0
  <2> DEFINE f == [n \in 0..0 |-> range[1]]
  <2>1. Ends(f, range, 0)
    BY DEF Ends
  <2> QED BY <2>1, <1>4
<1>5. CASE k # 0
  <2>1. k - 1 \in Nat /\ ~(k <= k - 1)
    BY <1>3, <1>5
  <2>2. k - 1 \notin Bad
    BY <2>1, <1>2
  <2>3. PICK g : Ends(g, range, k - 1)
    BY <2>1, <2>2
  <2> DEFINE f == [n \in 0..k |-> IF n = k THEN WideSearchC!CutAfter(range, g[k - 1]) ELSE g[n]]
  <2>4. \A n \in 0..k : f[n] = IF n = 0 THEN range[1] ELSE WideSearchC!CutAfter(range, f[n - 1])
    <3> SUFFICES ASSUME NEW n \in 0..k
                 PROVE  f[n] = IF n = 0 THEN range[1] ELSE WideSearchC!CutAfter(range, f[n - 1])
      OBVIOUS
    <3>1. CASE n = k
      <4>1. k - 1 \in 0..k /\ k - 1 # k /\ k \in 0..k
        BY <1>3, <1>5
      <4>2. f[n - 1] = g[k - 1]
        BY <4>1, <3>1
      <4> QED BY <3>1, <4>1, <4>2, <1>5
    <3>2. CASE n # k
      <4>1. n \in 0..(k - 1)
        BY <3>2, <1>3
      <4>2. f[n] = g[n]
        BY <3>2
      <4>3. n # 0 => n - 1 \in 0..k /\ n - 1 # k
        BY <4>1, <1>3
      <4>4. n # 0 => f[n - 1] = g[n - 1]
        BY <4>3
      <4>5. g[n] = IF n = 0 THEN range[1] ELSE WideSearchC!CutAfter(range, g[n - 1])
        BY <2>3, <4>1 DEF Ends
      <4> QED BY <4>2, <4>4, <4>5
    <3> QED BY <3>1, <3>2
  <2>5. Ends(f, range, k)
    <3>1. f = [n \in 0..k |-> f[n]]
      OBVIOUS
    <3> HIDE DEF f
    <3> QED BY <3>1, <2>4 DEF Ends
  <2> QED BY <2>5
<1> QED BY <1>4, <1>5

\* They go on until the range is through.
EndTrue(f, range, n) ==
  /\ f[n] \in Nat /\ range[1] <= f[n] /\ f[n] <= range[2]
  /\ f[n] = range[2] \/ range[1] + n <= f[n]
LEMMA EndsGo ==
  ASSUME NEW range \in Nat \X Nat, range[1] < range[2], NEW N \in Nat, NEW f, Ends(f, range, N)
  PROVE  \A n \in 0..N : EndTrue(f, range, n) /\ (n # 0 => f[n - 1] <= f[n])
<1>0. \A n \in 0..N : f[n] = IF n = 0 THEN range[1] ELSE WideSearchC!CutAfter(range, f[n - 1])
  BY DEF Ends
<1>1. range[1] \in Nat /\ range[2] \in Nat
  OBVIOUS
<1>2. EndTrue(f, range, 0)
  BY <1>0, <1>1 DEF EndTrue
<1>3. ASSUME NEW n \in 0..N, n # 0, EndTrue(f, range, n - 1)
      PROVE  EndTrue(f, range, n) /\ f[n - 1] <= f[n]
  <2>1. f[n] = WideSearchC!CutAfter(range, f[n - 1])
    BY <1>0, <1>3
  <2>2. f[n - 1] \in Nat /\ range[1] <= f[n - 1] /\ f[n - 1] <= range[2]
    BY <1>3 DEF EndTrue
  <2>3. f[n] \in Nat /\ f[n - 1] <= f[n] /\ f[n] <= range[2]
        /\ (f[n - 1] < range[2] => f[n - 1] < f[n])
    BY <2>1, <2>2, CutAfterIs, Zenon
  <2> QED BY <2>2, <2>3, <1>1, <1>3 DEF EndTrue
<1> DEFINE Bad == {n \in 0..N : ~EndTrue(f, range, n)}
<1>4. Bad = {}
  <2> SUFFICES ASSUME Bad # {} PROVE FALSE
    OBVIOUS
  <2>1. PICK k \in Bad : \A y \in Bad : k <= y
    <3> HIDE DEF Bad
    <3>1. Bad \in SUBSET Nat
      BY DEF Bad
    <3> QED BY <3>1, LeastOf
  <2>2. k \in 0..N /\ k # 0 /\ ~EndTrue(f, range, k)
    BY <1>2
  <2>3. k - 1 \in 0..N /\ ~(k <= k - 1)
    BY <2>2
  <2>4. EndTrue(f, range, k - 1)
    BY <2>1, <2>3
  <2> QED BY <2>2, <2>4, <1>3
<1>5. \A n \in 0..N : EndTrue(f, range, n)
  BY <1>4
<1>6. \A n \in 0..N : n # 0 => n - 1 \in 0..N
  OBVIOUS
<1> QED BY <1>3, <1>5, <1>6

LEMMA PiecesAre ==
  ASSUME NEW range \in Nat \X Nat, range[1] < range[2]
  PROVE  /\ WideSearchC!PlanPieces(range) \in Seq(Nat \X Nat)
         /\ Cover(WideSearchC!PlanPieces(range), range)
<1> DEFINE N == range[2] - range[1]
           f == CHOOSE g : Ends(g, range, N)
           last == WideSearchC!Min({n \in DOMAIN f : f[n] = range[2]})
           pieces == [i \in 1..last |-> <<f[i - 1], f[i]>>]
<1>1. range[1] \in Nat /\ range[2] \in Nat /\ N \in Nat
  OBVIOUS
<1>2. WideSearchC!PlanPieces(range) = pieces
  BY DEF WideSearchC!PlanPieces, Ends
<1>3. Ends(f, range, N)
  BY <1>1, EndsExist
<1> HIDE DEF f
<1>4. DOMAIN f = 0..N /\ f[0] = range[1]
  BY <1>1, <1>3 DEF Ends
<1>5. \A n \in 0..N : EndTrue(f, range, n) /\ (n # 0 => f[n - 1] <= f[n])
  <2> HIDE DEF N
  <2> QED BY <1>1, <1>3, EndsGo
<1>6. last \in 0..N /\ f[last] = range[2] /\ last # 0
  <2> DEFINE S == {n \in DOMAIN f : f[n] = range[2]}
  <2>1. N \in S
    <3>1. EndTrue(f, range, N) /\ range[1] + N = range[2]
      BY <1>1, <1>5
    <3> QED BY <3>1, <1>1, <1>4 DEF EndTrue
  <2>2. S \in SUBSET Nat
    BY <1>4
  <2>3. last \in S
    <3> HIDE DEF S, N
    <3>1. WideSearchC!Min(S) \in S
      BY <2>1, <2>2, MinIs
    <3> QED BY <3>1 DEF S
  <2> QED BY <2>3, <1>4, <1>1
<1> HIDE DEF last
<1>7. /\ Len(pieces) = last /\ DOMAIN pieces = 1..last /\ last \in 1..N
      /\ \A j \in 1..last : /\ pieces[j] = <<f[j - 1], f[j]>> /\ j - 1 \in 0..N /\ j \in 0..N
                            /\ f[j] \in Nat /\ f[j - 1] \in Nat
                            /\ range[1] <= f[j - 1] /\ f[j] <= range[2]
  <2>1. last \in 1..N /\ last \in Nat
    BY <1>1, <1>6
  <2>2. \A j \in 1..last : j - 1 \in 0..N /\ j \in 0..N
    BY <2>1, <1>1
  <2>3. \A j \in 1..last : /\ f[j] \in Nat /\ f[j - 1] \in Nat
                            /\ range[1] <= f[j - 1] /\ f[j] <= range[2]
    BY <2>2, <1>5 DEF EndTrue
  <2> HIDE DEF N
  <2> QED BY <2>1, <2>2, <2>3
<1>8. pieces \in Seq(Nat \X Nat)
  BY <1>7
<1> HIDE DEF pieces, N
<1>12. \A j \in 1..last : pieces[j][1] = f[j - 1] /\ pieces[j][2] = f[j]
  BY <1>7
<1>9. \A m \in 1..last : \A t \in Nat : range[1] <= t /\ t <= pieces[m][2] =>
        \E j \in 1..m : WsIn(t, pieces[j])
  <2> SUFFICES ASSUME NEW m \in 1..last, NEW t \in Nat, range[1] <= t, t <= pieces[m][2]
               PROVE  \E j \in 1..m : WsIn(t, pieces[j])
    OBVIOUS
  <2> DEFINE S == {j \in 1..m : t <= f[j]}
  <2>1. m \in S /\ S \in SUBSET Nat
    BY <1>7
  <2>2. PICK j \in S : \A y \in S : j <= y
    <3> HIDE DEF S
    <3> QED BY <2>1, LeastOf
  <2>3. j \in 1..m /\ t <= f[j] /\ j \in 1..last
    BY <1>7
  <2>4. f[j - 1] <= t
    <3>1. CASE j = 1
      BY <3>1, <1>4
    <3>2. CASE j # 1
      <4>1. j - 1 \in 1..m /\ ~(j <= j - 1)
        BY <3>2, <2>3
      <4>2. ~(t <= f[j - 1])
        BY <4>1, <2>2
      <4> QED BY <4>2, <2>3, <1>7
    <3> QED BY <3>1, <3>2
  <2>5. WsIn(t, pieces[j])
    BY <2>3, <2>4, <1>12 DEF WsIn
  <2> QED BY <2>3, <2>5
<1>10. pieces # <<>> /\ pieces[Len(pieces)][2] = range[2]
  <2>1. last \in 1..last /\ 1 \in DOMAIN pieces
    BY <1>7, <1>1
  <2> QED BY <2>1, <1>7, <1>6
<1>11. \A j \in 1..last : range[1] <= pieces[j][1] /\ pieces[j][2] <= range[2]
  BY <1>7, <1>12
<1> QED BY <1>2, <1>7, <1>8, <1>9, <1>10, <1>11 DEF Cover

-----------------------------------------------------------------------------
(* One run: a worker that begins a page, ends, or takes the next piece.     *)

LEMMA WsCountIs == \A S : WideSearchC!Cardinality(S) = Cardinality(S)
BY DEF WideSearchC!Cardinality, Cardinality

LEMMA RankIs ==
  ASSUME NEW rows \in SUBSET WsHits, NEW x \in rows
  PROVE  /\ WideSearchC!Rank(x, rows) \in Nat /\ WideSearchC!Rank(x, rows) # 0
         /\ WideSearchC!Rank(x, rows) <= Cardinality(rows) /\ Cardinality(rows) \in Nat
<1> DEFINE upto == {y \in rows : y.t < x.t \/ (y.t = x.t /\ y.id <= x.id)}
<1>1. IsFiniteSet(WsHits) /\ x.t \in Nat /\ x.id \in Nat
  BY WindowDataAssumption
<1>2. x \in upto
  BY <1>1
<1>3. WideSearchC!Rank(x, rows) = Cardinality(upto)
  BY WsCountIs DEF WideSearchC!Rank
<1>4. upto \subseteq rows
  OBVIOUS
<1> HIDE DEF upto
<1>5. IsFiniteSet(rows)
  BY <1>1, FS_Subset
<1>6. IsFiniteSet(upto) /\ Cardinality(upto) <= Cardinality(rows)
  BY <1>4, <1>5, FS_Subset
<1>7. Cardinality(upto) \in Nat /\ Cardinality(rows) \in Nat
  BY <1>5, <1>6, FS_CardinalityType
<1>8. Cardinality(upto) # 0
  BY <1>2, <1>6, FS_EmptySet
<1> QED BY <1>3, <1>6, <1>7, <1>8

\* q is r after a step of the worker w alone.
ByWorker(r, q, w) ==
  /\ q.range = r.range /\ q.pieces = r.pieces /\ q.began = r.began
  /\ DOMAIN q.workers = DOMAIN r.workers
  /\ \A k \in DOMAIN r.workers : k # w => q.workers[k] = r.workers[k]
\* The same, and the step gathers nothing.
Idly(r, q, w) ==
  /\ ByWorker(r, q, w) /\ q.out = r.out /\ q.whole = r.whole /\ q.finished = r.finished

LEMMA OthersBefore ==
  ASSUME NEW r \in WsRun, NEW q \in WsRun, NEW w \in DOMAIN r.workers, ByWorker(r, q, w),
         r.out \subseteq q.out, NEW server, NEW k \in DOMAIN r.workers, k # w,
         Before(r, k, server, r.workers[k].from)
  PROVE  Before(q, k, server, q.workers[k].from)
<1>1. RowsAt(q, k, server) = RowsAt(r, k, server) /\ q.workers[k] = r.workers[k]
  BY DEF ByWorker, RowsAt
<1> QED BY <1>1 DEF Before

LEMMA EndsKeeps ==
  ASSUME NEW r \in WsRun, NEW q \in WsRun, NEW server, NEW switches,
         RunTrue(r, server, switches),
         NEW w \in DOMAIN r.workers, Idly(r, q, w), q.workers[w] = WideSearchC!Ended,
         q.stop # "no" \/ q.rejected
  PROVE  RunTrue(q, server, switches)
<1>1. Manned(q)
  <2>1. q.workers # <<>>
    BY DEF RunTrue, Idly, ByWorker, Manned
  <2> QED BY <2>1 DEF RunTrue, Idly, ByWorker, Manned
<1>2. Taken(q)
  BY DEF Taken
<1>3. q.whole /\ q.began = switches => Gathered(q, server)
  <2> SUFFICES ASSUME r.whole, r.began = switches PROVE Gathered(q, server)
    BY DEF Idly, ByWorker
  <2>1. Gathered(r, server)
    BY DEF RunTrue
  <2>2. \A k \in DOMAIN q.workers :
          q.workers[k].at = "page" => Before(q, k, server, q.workers[k].from)
    <3>1. q.workers[w].at # "page"
      BY DEF WideSearchC!Ended
    <3> QED BY <2>1, <3>1, OthersBefore DEF Gathered, Idly, ByWorker
  <2>3. \A k \in DOMAIN q.workers : q.workers[k].all
    BY <2>1 DEF Gathered, Idly, ByWorker, WideSearchC!Ended
  <2> QED BY <2>1, <2>2, <2>3 DEF Gathered, Idly, ByWorker
<1> QED BY <1>1, <1>2, <1>3 DEF RunTrue, Idly, ByWorker

LEMMA PageKeeps ==
  ASSUME NEW r \in WsRun, NEW q \in WsRun, NEW server, NEW switches,
         RunTrue(r, server, switches),
         NEW w \in DOMAIN r.workers, Idly(r, q, w), r.workers[w].at # "ended",
         q.next = r.next, q.stop = r.stop, q.rejected = r.rejected,
         q.workers[w].at = "page", q.workers[w].piece = r.workers[w].piece,
         q.workers[w].all = r.workers[w].all,
         r.whole /\ r.began = switches => Before(r, w, server, q.workers[w].from)
  PROVE  RunTrue(q, server, switches)
<1>0. r.workers[w].piece \in DOMAIN r.pieces
  BY DEF RunTrue, Manned, WideSearchC!Ended
<1>1. Manned(q)
  <2>1. q.workers # <<>>
    BY DEF RunTrue, Idly, ByWorker, Manned
  <2> QED BY <1>0, <2>1 DEF RunTrue, Idly, ByWorker, Manned
<1>2. Taken(q)
  <2> SUFFICES ASSUME r.stop = "no", ~r.rejected PROVE Taken(q)
    BY DEF Taken
  <2>1. \A k \in DOMAIN q.workers : q.workers[k].piece = r.workers[k].piece
    BY DEF Idly, ByWorker
  <2>2. \A k \in DOMAIN q.workers : q.workers[k].at = "ended" => r.workers[k].at = "ended"
    BY DEF Idly, ByWorker
  <2> QED BY <2>1, <2>2 DEF RunTrue, Taken, Idly, ByWorker
<1>3. q.whole /\ q.began = switches => Gathered(q, server)
  <2> SUFFICES ASSUME r.whole, r.began = switches PROVE Gathered(q, server)
    BY DEF Idly, ByWorker
  <2>1. Gathered(r, server)
    BY DEF RunTrue
  <2>2. RowsAt(q, w, server) = RowsAt(r, w, server)
    BY DEF RowsAt, Idly, ByWorker
  <2>3. Before(q, w, server, q.workers[w].from)
    BY <2>2 DEF Before, Idly
  <2>4. \A k \in DOMAIN q.workers :
          q.workers[k].at = "page" => Before(q, k, server, q.workers[k].from)
    BY <2>1, <2>3, OthersBefore DEF Gathered, Idly, ByWorker
  <2>5. \A k \in DOMAIN q.workers : q.workers[k].all
    BY <2>1 DEF Gathered, Idly, ByWorker
  <2> QED BY <2>1, <2>4, <2>5 DEF Gathered, Idly, ByWorker
<1> QED BY <1>1, <1>2, <1>3 DEF RunTrue, Idly, ByWorker

\* A worker whose piece is finished takes the next one, when there is one.
LEMMA TakesKeeps ==
  ASSUME NEW r \in WsRun, NEW q \in WsRun, NEW server, NEW switches,
         RunTrue(r, server, switches),
         NEW w \in DOMAIN r.workers, Idly(r, q, w), r.workers[w].piece \in r.finished,
         q.stop = r.stop, q.rejected = r.rejected,
         \/ /\ r.next \in DOMAIN r.pieces /\ q.next = r.next + 1
            /\ q.workers[w].piece = r.next /\ q.workers[w].at = "objects" /\ q.workers[w].all
         \/ /\ r.stop # "no" \/ Len(r.pieces) < r.next
            /\ q.next = r.next /\ q.workers[w] = WideSearchC!Ended
  PROVE  RunTrue(q, server, switches)
<1>0. r.next \in Nat /\ Len(r.pieces) \in Nat /\ DOMAIN r.pieces = 1..Len(r.pieces)
  BY DEF WsRun
<1>1. Manned(q)
  <2>1. q.workers # <<>>
    BY DEF RunTrue, Idly, ByWorker, Manned
  <2> QED BY <2>1 DEF RunTrue, Idly, ByWorker, Manned
<1>2. Taken(q)
  <2> SUFFICES ASSUME r.stop = "no", ~r.rejected PROVE Taken(q)
    BY DEF Taken
  <2>1. ASSUME NEW j \in DOMAIN q.pieces, j < q.next
        PROVE  j \in q.finished \/ \E k \in DOMAIN q.workers : q.workers[k].piece = j
    <3>0. j \in Nat /\ j \in DOMAIN r.pieces
      BY <1>0 DEF Idly, ByWorker
    <3>1. CASE j < r.next
      <4>1. j \in r.finished \/ \E k \in DOMAIN r.workers : r.workers[k].piece = j
        BY <3>0, <3>1 DEF RunTrue, Taken
      <4> QED BY <4>1 DEF Idly, ByWorker
    <3>2. CASE ~(j < r.next)
      <4>1. q.workers[w].piece = j
        BY <3>0, <3>2, <2>1, <1>0
      <4> QED BY <4>1 DEF Idly, ByWorker
    <3> QED BY <3>1, <3>2
  <2>2. ASSUME NEW k \in DOMAIN q.workers, q.workers[k].at = "ended"
        PROVE  Len(q.pieces) < q.next
    <3>1. CASE k = w
      BY <3>1, <2>2 DEF Idly, ByWorker
    <3>2. CASE k # w
      <4>1. Len(r.pieces) < r.next
        BY <3>2, <2>2 DEF RunTrue, Taken, Idly, ByWorker
      <4> QED BY <4>1, <1>0 DEF Idly, ByWorker
    <3> QED BY <3>1, <3>2
  <2> QED BY <2>1, <2>2 DEF Taken
<1>3. q.whole /\ q.began = switches => Gathered(q, server)
  <2> SUFFICES ASSUME r.whole, r.began = switches PROVE Gathered(q, server)
    BY DEF Idly, ByWorker
  <2>1. Gathered(r, server)
    BY DEF RunTrue
  <2>2. \A k \in DOMAIN q.workers :
          q.workers[k].at = "page" => Before(q, k, server, q.workers[k].from)
    BY <2>1, OthersBefore DEF Gathered, Idly, ByWorker, WideSearchC!Ended
  <2>3. \A k \in DOMAIN q.workers : q.workers[k].all
    BY <2>1 DEF Gathered, Idly, ByWorker, WideSearchC!Ended
  <2> QED BY <2>1, <2>2, <2>3 DEF Gathered, Idly, ByWorker
<1> QED BY <1>1, <1>2, <1>3 DEF RunTrue, Idly, ByWorker

\* An answer that adds rows of the worker's piece, and the cursor of the worker stays.
LEMMA GathersKeeps ==
  ASSUME NEW r \in WsRun, NEW q \in WsRun, NEW server, NEW switches,
         RunTrue(r, server, switches),
         NEW w \in DOMAIN r.workers, r.workers[w].piece \in DOMAIN r.pieces,
         q.range = r.range, q.pieces = r.pieces, q.began = r.began, q.whole = r.whole,
         q.workers = r.workers, q.next = r.next, q.rejected = r.rejected,
         r.out \subseteq q.out, q.out \subseteq r.out \cup RowsAt(r, w, server),
         q.stop = r.stop \/ q.stop # "no",
         \/ q.finished = r.finished
         \/ /\ q.finished = r.finished \cup {r.workers[w].piece}
            /\ r.whole /\ r.began = switches => RowsAt(r, w, server) \subseteq q.out
  PROVE  RunTrue(q, server, switches)
<1>1. Manned(q)
  BY DEF RunTrue, Manned
<1>2. Taken(q)
  BY DEF RunTrue, Taken
<1>3. q.whole /\ q.began = switches => Gathered(q, server)
  <2> SUFFICES ASSUME r.whole, r.began = switches PROVE Gathered(q, server)
    OBVIOUS
  <2>1. Gathered(r, server)
    BY DEF RunTrue
  <2>2. \A x \in q.out : x.server = server /\ WsIn(x.t, q.range)
    <3> SUFFICES ASSUME NEW x \in RowsAt(r, w, server) PROVE x.server = server /\ WsIn(x.t, r.range)
      BY <2>1 DEF Gathered
    <3> DEFINE piece == r.pieces[r.workers[w].piece]
    <3>1. piece \in Nat \X Nat /\ r.range \in Nat \X Nat
      BY DEF WsRun
    <3>2. x.server = server /\ x.t \in Nat /\ WsIn(x.t, piece)
      BY WindowDataAssumption DEF RowsAt
    <3>3. r.range[1] <= piece[1] /\ piece[2] <= r.range[2]
      BY DEF RunTrue, Cover
    <3> HIDE DEF piece
    <3>4. piece[1] \in Nat /\ piece[2] \in Nat /\ r.range[1] \in Nat /\ r.range[2] \in Nat
      BY <3>1
    <3> QED BY <3>2, <3>3, <3>4 DEF WsIn
  <2>3. ASSUME NEW j \in q.finished, NEW x \in WsHits, x.server = server, WsIn(x.t, q.pieces[j])
        PROVE  x \in q.out
    <3>1. CASE j \in r.finished
      BY <3>1, <2>3, <2>1 DEF Gathered
    <3>2. CASE j \notin r.finished
      <4>1. j = r.workers[w].piece /\ RowsAt(r, w, server) \subseteq q.out
        BY <3>2
      <4>2. r.workers[w].all
        BY <2>1 DEF Gathered
      <4>3. x \in RowsAt(r, w, server)
        BY <4>1, <4>2, <2>3 DEF RowsAt
      <4> QED BY <4>1, <4>3
    <3> QED BY <3>1, <3>2
  <2>4. \A k \in DOMAIN q.workers :
          q.workers[k].at = "page" => Before(q, k, server, q.workers[k].from)
    BY <2>1 DEF Gathered, Before, RowsAt
  <2> QED BY <2>1, <2>2, <2>3, <2>4 DEF Gathered
<1> QED BY <1>1, <1>2, <1>3 DEF RunTrue

-----------------------------------------------------------------------------
(* The step of a run is the step of the window.                            *)

LEMMA SetWorker ==
  ASSUME NEW ws \in Seq(WsWorker), NEW w \in DOMAIN ws, NEW v \in WsWorker
  PROVE  /\ [ws EXCEPT ![w] = v] \in Seq(WsWorker)
         /\ DOMAIN [ws EXCEPT ![w] = v] = DOMAIN ws
         /\ [ws EXCEPT ![w] = v][w] = v
         /\ \A k \in DOMAIN ws : k # w => [ws EXCEPT ![w] = v][k] = ws[k]
OBVIOUS

\* Everything before the stop is in what is kept of a run that all workers have ended.
EndIs(r) == IF r.stop = "no" THEN r.range[2] + 1 ELSE WideSearchC!StoppedAt(r)
LEMMA KeptIs ==
  ASSUME NEW r \in WsRun, NEW server, RunTrue(r, server, r.began), r.whole, ~r.rejected,
         \A w \in DOMAIN r.workers : r.workers[w] = WideSearchC!Ended
  PROVE  /\ EndIs(r) \in Nat
         /\ \A x \in WsHits : x.server = server /\ r.range[1] <= x.t /\ x.t < EndIs(r)
              => x \in WideSearchC!Kept(r)
         /\ \A x \in WideSearchC!Kept(r) :
              x \in WsHits /\ x.server = server /\ WsIn(x.t, r.range) /\ x.t <= EndIs(r)
<1>1. /\ r.range[1] \in Nat /\ r.range[2] \in Nat /\ r.next \in Nat
      /\ Len(r.pieces) \in Nat /\ DOMAIN r.pieces = 1..Len(r.pieces)
      /\ \A j \in DOMAIN r.pieces : r.pieces[j][1] \in Nat /\ r.pieces[j][2] \in Nat
  <2>1. r.range \in Nat \X Nat /\ r.pieces \in Seq(Nat \X Nat) /\ r.next \in Nat
    BY DEF WsRun
  <2>2. \A j \in DOMAIN r.pieces : r.pieces[j] \in Nat \X Nat
    BY <2>1
  <2> QED BY <2>1, <2>2
<1>2. Gathered(r, server) /\ Cover(r.pieces, r.range)
  BY DEF RunTrue
<1>3. \A x \in WsHits : x.t \in Nat
  BY WindowDataAssumption
<1>4. \A x \in r.out : x \in WsHits /\ x.server = server /\ WsIn(x.t, r.range)
  BY <1>2 DEF Gathered, WsRun
<1>5. ASSUME NEW m \in DOMAIN r.pieces, 1..m \subseteq r.finished, NEW x \in WsHits,
             x.server = server, r.range[1] <= x.t, x.t <= r.pieces[m][2]
      PROVE  x \in r.out
  <2>1. PICK j \in 1..m : WsIn(x.t, r.pieces[j])
    BY <1>5, <1>2, <1>3 DEF Cover
  <2> QED BY <2>1, <1>5, <1>2 DEF Gathered
<1>6. CASE r.stop = "no"
  <2>1. EndIs(r) = r.range[2] + 1 /\ WideSearchC!Kept(r) = r.out
    BY <1>6 DEF EndIs, WideSearchC!Kept
  <2>2. \A w \in DOMAIN r.workers : r.workers[w].at = "ended" /\ r.workers[w].piece = 0
    BY DEF WideSearchC!Ended
  <2>3. PICK w : w \in DOMAIN r.workers
    <3>1. r.workers # <<>> /\ r.workers \in Seq(WsWorker)
      BY DEF RunTrue, Manned, WsRun
    <3> QED BY <3>1
  <2>4. Len(r.pieces) < r.next
    BY <2>2, <2>3, <1>6 DEF RunTrue, Taken
  <2>5. \A j \in DOMAIN r.pieces : j \in r.finished
    <3> SUFFICES ASSUME NEW j \in DOMAIN r.pieces PROVE j \in r.finished
      OBVIOUS
    <3>1. j < r.next /\ j # 0
      BY <2>4, <1>1
    <3> QED BY <3>1, <2>2, <1>6 DEF RunTrue, Taken
  <2>6. Len(r.pieces) \in DOMAIN r.pieces /\ r.pieces[Len(r.pieces)][2] = r.range[2]
    <3>1. Len(r.pieces) # 0
      BY <1>2 DEF Cover, WsRun
    <3> QED BY <3>1, <1>1, <1>2 DEF Cover
  <2>7. \A x \in WsHits : x.server = server /\ r.range[1] <= x.t /\ x.t < EndIs(r)
              => x \in WideSearchC!Kept(r)
    <3> SUFFICES ASSUME NEW x \in WsHits, x.server = server, r.range[1] <= x.t, x.t < EndIs(r)
                 PROVE  x \in r.out
      BY <2>1
    <3>1. x.t <= r.pieces[Len(r.pieces)][2]
      BY <2>1, <2>6, <1>1, <1>3
    <3>2. 1..Len(r.pieces) \subseteq r.finished
      BY <2>5, <1>1
    <3> QED BY <3>1, <3>2, <2>6, <1>5
  <2>8. \A x \in r.out : x.t <= EndIs(r)
    BY <2>1, <1>1, <1>3, <1>4 DEF WsIn
  <2> QED BY <2>1, <2>7, <2>8, <1>1, <1>4
<1>7. CASE r.stop # "no"
  <2> DEFINE front == {j \in DOMAIN r.pieces : 1..j \subseteq r.finished}
  <2>1. EndIs(r) = WideSearchC!StoppedAt(r)
        /\ WideSearchC!Kept(r) = {x \in r.out : x.t <= EndIs(r)}
    BY <1>7 DEF EndIs, WideSearchC!Kept
  <2>2. CASE front = {}
    <3>1. EndIs(r) = r.range[1]
      BY <2>1, <2>2 DEF WideSearchC!StoppedAt
    <3> QED BY <3>1, <2>1, <1>1, <1>3, <1>4
  <2>3. CASE front # {}
    <3>1. EndIs(r) = r.pieces[WideSearchC!Max(front)][2]
      BY <2>1, <2>3 DEF WideSearchC!StoppedAt
    <3>2. WideSearchC!Max(front) \in front
      <4>1. \E m \in front : \A y \in front : m >= y
        <5>1. front \in SUBSET Nat /\ \A y \in front : y <= Len(r.pieces)
          BY <1>1
        <5> HIDE DEF front
        <5>2. \E m \in front : \A y \in front : y <= m
          BY <5>1, <2>3, <1>1, WsLargest
        <5> QED BY <5>1, <5>2
      <4> HIDE DEF front
      <4> QED BY <4>1, Zenon DEF WideSearchC!Max
    <3> DEFINE m == WideSearchC!Max(front)
    <3>3. m \in DOMAIN r.pieces /\ 1..m \subseteq r.finished
      BY <3>2
    <3> HIDE DEF m, front
    <3>4. EndIs(r) \in Nat /\ EndIs(r) = r.pieces[m][2]
      BY <3>1, <3>3, <1>1 DEF m
    <3>5. \A x \in WsHits : x.server = server /\ r.range[1] <= x.t /\ x.t < EndIs(r)
              => x \in WideSearchC!Kept(r)
      <4> SUFFICES ASSUME NEW x \in WsHits, x.server = server, r.range[1] <= x.t, x.t < EndIs(r)
                   PROVE  x \in WideSearchC!Kept(r)
        OBVIOUS
      <4>1. x.t <= EndIs(r)
        BY <3>4, <1>3
      <4>2. x \in r.out
        BY <4>1, <3>3, <3>4, <1>5
      <4> QED BY <4>1, <4>2, <2>1
    <3> QED BY <3>4, <3>5, <2>1, <1>4
  <2> QED BY <2>2, <2>3
<1> QED BY <1>6, <1>7

LEMMA EndedIs == WideSearchC!Ended \in WsWorker /\ WideSearchC!Ended.at = "ended"
BY DEF WideSearchC!Ended, WsWorker

LEMMA AsksKeeps ==
  ASSUME NEW r \in WsRun, NEW server, NEW switches, RunTrue(r, server, switches),
         NEW w \in DOMAIN r.workers, r.workers[w].at # "ended", NEW from \in Nat,
         r.whole /\ r.began = switches => Before(r, w, server, from)
  PROVE  /\ WideSearchC!Asks(r, w, from) \in WsRun
         /\ RunTrue(WideSearchC!Asks(r, w, from), server, switches)
<1> DEFINE stop == IF r.stop = "no" /\ ws_wideCancel THEN "cancelled" ELSE r.stop
           v == IF stop # "no" THEN WideSearchC!Ended
                ELSE [r.workers[w] EXCEPT !.at = "page", !.from = from]
           ws == [r.workers EXCEPT ![w] = v]
           q == [r EXCEPT !.stop = stop, !.workers = ws]
<1>1. WideSearchC!Asks(r, w, from) = q
  BY DEF WideSearchC!Asks
<1>2. r.workers \in Seq(WsWorker) /\ r.workers[w] \in WsWorker
  BY DEF WsRun
<1>3. /\ v \in WsWorker /\ stop \in {"no", "cancelled", "cap"}
      /\ stop = "no" => stop = r.stop /\ v.at = "page" /\ v.from = from
                        /\ v.piece = r.workers[w].piece /\ v.all = r.workers[w].all
      /\ stop # "no" => v = WideSearchC!Ended
  <2>1. [r.workers[w] EXCEPT !.at = "page", !.from = from] \in WsWorker
    BY <1>2 DEF WsWorker
  <2>2. r.stop \in {"no", "cancelled", "cap"}
    BY DEF WsRun
  <2>3. CASE stop # "no"
    BY <2>2, <2>3, EndedIs
  <2>4. CASE stop = "no"
    BY <1>2, <2>1, <2>4 DEF WsWorker
  <2> QED BY <2>3, <2>4
<1> HIDE DEF v, stop
<1>4. /\ ws \in Seq(WsWorker) /\ DOMAIN ws = DOMAIN r.workers /\ ws[w] = v
      /\ \A k \in DOMAIN r.workers : k # w => ws[k] = r.workers[k]
  BY <1>2, <1>3, SetWorker
<1> HIDE DEF ws
<1>5. q \in WsRun
  BY <1>3, <1>4 DEF WsRun
<1>6. /\ q.stop = stop /\ q.workers = ws /\ q.range = r.range /\ q.pieces = r.pieces
      /\ q.began = r.began /\ q.out = r.out /\ q.whole = r.whole /\ q.finished = r.finished
      /\ q.next = r.next /\ q.rejected = r.rejected
  BY DEF WsRun
<1> HIDE DEF q
<1>7. Idly(r, q, w)
  BY <1>4, <1>6 DEF Idly, ByWorker
<1>8. RunTrue(q, server, switches)
  <2>1. CASE stop # "no"
    <3>1. q.workers[w] = WideSearchC!Ended /\ q.stop # "no"
      BY <2>1, <1>3, <1>4, <1>6
    <3> QED BY <3>1, <1>5, <1>7, EndsKeeps
  <2>2. CASE stop = "no"
    <3>1. /\ q.workers[w].at = "page" /\ q.workers[w].piece = r.workers[w].piece
          /\ q.workers[w].all = r.workers[w].all /\ q.workers[w].from = from
          /\ q.stop = r.stop
      BY <2>2, <1>3, <1>4, <1>6
    <3> QED BY <3>1, <1>5, <1>6, <1>7, PageKeeps
  <2> QED BY <2>1, <2>2
<1> QED BY <1>1, <1>5, <1>8

LEMMA PutsKeeps ==
  ASSUME NEW r \in WsRun, NEW server, NEW switches, RunTrue(r, server, switches),
         NEW w \in DOMAIN r.workers, r.workers[w].piece \in r.finished
  PROVE  /\ WideSearchC!Puts(r, w) \in WsRun
         /\ RunTrue(WideSearchC!Puts(r, w), server, switches)
<1> DEFINE takes == r.stop = "no" /\ r.next <= Len(r.pieces)
           v == IF takes
                THEN [piece |-> r.next, at |-> "objects", all |-> TRUE, from |-> 0]
                ELSE WideSearchC!Ended
           ws == [r.workers EXCEPT ![w] = v]
           next == IF takes THEN r.next + 1 ELSE r.next
           q == [r EXCEPT !.next = next, !.workers = ws]
<1>0. /\ r.next \in Nat \ {0} /\ Len(r.pieces) \in Nat
      /\ DOMAIN r.pieces = 1..Len(r.pieces)
  BY DEF WsRun
<1>1. WideSearchC!Puts(r, w) = q
  <2>1. CASE takes
    BY <2>1 DEF WideSearchC!Puts, WideSearchC!Takes
  <2>2. CASE ~takes
    <3>1. WideSearchC!Puts(r, w) = [r EXCEPT !.workers = ws]
      BY <2>2 DEF WideSearchC!Puts, WideSearchC!Takes
    <3>2. [r EXCEPT !.workers = ws] = q
      BY <2>2 DEF WsRun
    <3> QED BY <3>1, <3>2
  <2> QED BY <2>1, <2>2
<1>2. r.workers \in Seq(WsWorker)
  BY DEF WsRun
<1>3. v \in WsWorker /\ next \in Nat \ {0}
  BY <1>0, EndedIs DEF WsWorker
<1>4. /\ ws \in Seq(WsWorker) /\ DOMAIN ws = DOMAIN r.workers /\ ws[w] = v
      /\ \A k \in DOMAIN r.workers : k # w => ws[k] = r.workers[k]
  <2> HIDE DEF v
  <2> QED BY <1>2, <1>3, SetWorker
<1> HIDE DEF ws
<1>5. q \in WsRun
  <2> HIDE DEF next
  <2> QED BY <1>3, <1>4 DEF WsRun
<1>6. /\ q.stop = r.stop /\ q.workers = ws /\ q.range = r.range /\ q.pieces = r.pieces
      /\ q.began = r.began /\ q.out = r.out /\ q.whole = r.whole /\ q.finished = r.finished
      /\ q.next = next /\ q.rejected = r.rejected
  BY DEF WsRun
<1> HIDE DEF q
<1>7. Idly(r, q, w)
  BY <1>4, <1>6 DEF Idly, ByWorker
<1>8. CASE takes
  <2>1. r.next # 0
    BY DEF WsRun
  <2>2. /\ r.next \in DOMAIN r.pieces /\ q.next = r.next + 1
        /\ q.workers[w].piece = r.next /\ q.workers[w].at = "objects" /\ q.workers[w].all
    BY <2>1, <1>8, <1>0, <1>4, <1>6
  <2> QED BY <2>2, <1>1, <1>5, <1>6, <1>7, TakesKeeps
<1>9. CASE ~takes
  <2>1. /\ r.stop # "no" \/ Len(r.pieces) < r.next
        /\ q.next = r.next /\ q.workers[w] = WideSearchC!Ended
    BY <1>9, <1>0, <1>4, <1>6
  <2> QED BY <2>1, <1>1, <1>5, <1>6, <1>7, TakesKeeps
<1> QED BY <1>8, <1>9

-----------------------------------------------------------------------------
(* The steps of the window.                                                *)

LEMMA NewRunIs ==
  ASSUME NEW range \in Nat \X Nat, range[1] < range[2], ws_switches \in Nat
  PROVE  /\ WideSearchC!NewRun(range) \in WsRun
         /\ RunTrue(WideSearchC!NewRun(range), ws_server, ws_switches)
<1> DEFINE pieces == WideSearchC!PlanPieces(range)
           n == WideSearchC!Min({WsParallel, Len(pieces)})
           ws == [k \in 1..n |-> [piece |-> k, at |-> "objects", all |-> TRUE, from |-> 0]]
           q == WideSearchC!NewRun(range)
<1>1. pieces \in Seq(Nat \X Nat) /\ Cover(pieces, range)
  BY PiecesAre
<1>2. q = [range |-> range, pieces |-> pieces, next |-> n + 1, finished |-> {}, out |-> {},
           stop |-> "no", requests |-> 0, rejected |-> FALSE, over |-> FALSE,
           whole |-> TRUE, began |-> ws_switches, workers |-> ws]
  BY DEF WideSearchC!NewRun
<1> HIDE DEF pieces
<1>3. n \in 1..Len(pieces) /\ DOMAIN pieces = 1..Len(pieces)
  <2>1. WsParallel \in Nat \ {0} /\ Len(pieces) \in Nat \ {0}
    BY <1>1, WindowDataAssumption DEF Cover
  <2> DEFINE S == {WsParallel, Len(pieces)}
  <2>2. S \in SUBSET Nat /\ S # {} /\ Len(pieces) \in S /\ \A y \in S : y # 0
    BY <2>1
  <2>3. n = WideSearchC!Min(S)
    OBVIOUS
  <2> HIDE DEF S, n
  <2>4. n \in S /\ n <= Len(pieces)
    BY <2>2, <2>3, MinIs
  <2>5. n \in Nat /\ n # 0
    BY <2>2, <2>4
  <2> QED BY <2>1, <2>4, <2>5, <1>1
<1> HIDE DEF n
<1>4. /\ ws \in Seq(WsWorker) /\ DOMAIN ws = 1..n /\ ws # <<>>
      /\ \A k \in 1..n : /\ ws[k].piece = k /\ ws[k].at = "objects" /\ ws[k].all
                         /\ ws[k].piece \in DOMAIN pieces
  <2>1. n \in Nat /\ n >= 1
    BY <1>3
  <2>2. \A k \in 1..n : ws[k] \in WsWorker
    BY DEF WsWorker
  <2>3. ws \in Seq(WsWorker) /\ DOMAIN ws = 1..n
    BY <2>1, <2>2
  <2>4. ws # <<>>
    BY <2>1, <2>3
  <2> QED BY <2>3, <2>4, <1>3
<1> HIDE DEF ws
<1>5. q \in WsRun
  <2>1. n + 1 \in Nat \ {0}
    BY <1>3
  <2> QED BY <2>1, <1>1, <1>2, <1>4 DEF WsRun
<1>6. /\ q.range = range /\ q.pieces = pieces /\ q.next = n + 1 /\ q.finished = {}
      /\ q.out = {} /\ q.stop = "no" /\ ~q.rejected /\ q.whole /\ q.began = ws_switches
      /\ q.workers = ws
  BY <1>2
<1> HIDE DEF q
<1>7. Manned(q)
  BY <1>4, <1>6 DEF Manned
<1>8. Taken(q)
  <2>1. ASSUME NEW j \in DOMAIN q.pieces, j < q.next
        PROVE  \E w \in DOMAIN q.workers : q.workers[w].piece = j
    <3>1. j \in 1..n
      BY <2>1, <1>3, <1>6
    <3> QED BY <3>1, <1>4, <1>6
  <2>2. \A w \in DOMAIN q.workers : q.workers[w].at # "ended"
    BY <1>4, <1>6
  <2> QED BY <2>1, <2>2 DEF Taken
<1>9. Gathered(q, ws_server)
  BY <1>4, <1>6 DEF Gathered
<1>10. q.range[1] <= q.range[2] /\ q.began <= ws_switches
  BY <1>6
<1>11. RunTrue(q, ws_server, ws_switches)
  BY <1>1, <1>6, <1>7, <1>8, <1>9, <1>10 DEF RunTrue
<1> QED BY <1>5, <1>11 DEF q

\* A run whose worker still works is not the one in the list.
LEMMA NotBrought ==
  ASSUME Brought, NEW i \in DOMAIN ws_runs, NEW w \in DOMAIN ws_runs[i].workers,
         ws_runs[i].workers[w].at # "ended"
  PROVE  ws_answer = 0 \/ ws_answer # i
BY EndedIs DEF Brought

\* That a run is over is only noted.
LEMMA WsOverIs ==
  ASSUME NEW r \in WsRun, NEW over \in BOOLEAN
  PROVE  /\ [r EXCEPT !.over = over] \in WsRun
         /\ \A server, switches : RunTrue(r, server, switches)
              => RunTrue([r EXCEPT !.over = over], server, switches)
         /\ WideSearchC!Kept([r EXCEPT !.over = over]) = WideSearchC!Kept(r)
         /\ [r EXCEPT !.over = over].workers = r.workers
         /\ [r EXCEPT !.over = over].rejected = r.rejected
<1> DEFINE q == [r EXCEPT !.over = over]
<1>1. q \in WsRun
  BY DEF WsRun
<1>2. /\ q.range = r.range /\ q.pieces = r.pieces /\ q.next = r.next
      /\ q.finished = r.finished /\ q.out = r.out /\ q.stop = r.stop
      /\ q.rejected = r.rejected /\ q.whole = r.whole /\ q.began = r.began
      /\ q.workers = r.workers
  BY DEF WsRun
<1> HIDE DEF q
<1>3. ASSUME NEW server, NEW switches, RunTrue(r, server, switches)
      PROVE  RunTrue(q, server, switches)
  <2>1. Manned(q) /\ Taken(q)
    BY <1>2, <1>3 DEF RunTrue, Manned, Taken
  <2>2. Gathered(r, server) => Gathered(q, server)
    BY <1>2 DEF Gathered, Before, RowsAt
  <2> QED BY <1>2, <1>3, <2>1, <2>2 DEF RunTrue
<1>4. WideSearchC!Kept(q) = WideSearchC!Kept(r)
  BY <1>2 DEF WideSearchC!Kept, WideSearchC!StoppedAt
<1> QED BY <1>1, <1>2, <1>3, <1>4 DEF q

LEMMA GoesKeeps ==
  ASSUME WsInv, NEW i \in DOMAIN ws_runs, NEW q \in WsRun, RunTrue(q, ws_server, ws_switches),
         ws_answer = 0 \/ ws_answer # i, NEW reports \in BOOLEAN, WideSearchC!Goes(i, q, reports)
  PROVE  WsInv'
<1> DEFINE ended == WideSearchC!Range(q.workers) = {WideSearchC!Ended} /\ ~q.rejected
           over == q.over \/ ended
           p == [q EXCEPT !.over = over]
<1>1. ws_runs' = [ws_runs EXCEPT ![i] = p]
  BY DEF WideSearchC!Goes
<1>2. ws_server' = ws_server /\ ws_switches' = ws_switches
  BY DEF WideSearchC!Goes
<1>3. over \in BOOLEAN
  BY DEF WsRun
<1>4. /\ p \in WsRun /\ RunTrue(p, ws_server, ws_switches)
      /\ WideSearchC!Kept(p) = WideSearchC!Kept(q) /\ p.workers = q.workers
      /\ p.rejected = q.rejected
  <2> HIDE DEF over
  <2> QED BY <1>3, WsOverIs
<1>5. CASE ended
  <2>1. ws_answer' = i /\ ws_selected' = WideSearchC!Kept(q)
    BY <1>5 DEF WideSearchC!Goes
  <2>2. \A w \in DOMAIN q.workers : q.workers[w] = WideSearchC!Ended
    BY <1>5 DEF WideSearchC!Range
  <2> HIDE DEF p
  <2>3. ws_runs'[i] = p /\ i \in DOMAIN ws_runs'
    BY <1>1
  <2>4. Brought'
    <3>1. ws_runs'[ws_answer'] = p /\ ws_answer' \in DOMAIN ws_runs'
      BY <2>1, <2>3
    <3>2. /\ ~ws_runs'[ws_answer'].rejected
          /\ ws_selected' = WideSearchC!Kept(ws_runs'[ws_answer'])
          /\ \A w \in DOMAIN ws_runs'[ws_answer'].workers :
               ws_runs'[ws_answer'].workers[w] = WideSearchC!Ended
      BY <3>1, <2>1, <2>2, <1>4, <1>5
    <3> QED BY <3>1, <3>2 DEF Brought
  <2>5. /\ ws_runs' \in Seq(WsRun)
        /\ \A k \in DOMAIN ws_runs' : RunTrue(ws_runs'[k], ws_server, ws_switches)
    BY <1>1, <1>4 DEF WsInv
  <2> QED BY <2>4, <2>5, <1>2 DEF WsInv
<1>6. CASE ~ended
  <2>1. ws_answer' = ws_answer /\ ws_selected' = ws_selected
    BY <1>6 DEF WideSearchC!Goes
  <2> HIDE DEF p
  <2>2. ws_answer # 0 => ws_runs'[ws_answer] = ws_runs[ws_answer]
    BY <1>1
  <2>3. Brought'
    <3>1. DOMAIN ws_runs' = DOMAIN ws_runs
      BY <1>1
    <3> QED BY <3>1, <2>1, <2>2 DEF WsInv, Brought
  <2>5. /\ ws_runs' \in Seq(WsRun)
        /\ \A k \in DOMAIN ws_runs' : RunTrue(ws_runs'[k], ws_server, ws_switches)
    BY <1>1, <1>4 DEF WsInv
  <2> QED BY <2>3, <2>5, <1>2 DEF WsInv
<1> QED BY <1>5, <1>6

LEMMA ObjectsHolds ==
  ASSUME WsInv, NEW i \in DOMAIN ws_runs, NEW w \in DOMAIN ws_runs[i].workers,
         WideSearchC!Objects(i, w)
  PROVE  WsInv'
<1> DEFINE r == ws_runs[i]
<1>1. r \in WsRun /\ RunTrue(r, ws_server, ws_switches) /\ Brought
  BY DEF WsInv
<1>2. r.workers[w].at = "objects"
  BY DEF WideSearchC!Objects
<1>3. PICK all \in BOOLEAN :
        WideSearchC!Goes(i, WideSearchC!Asks(
          [r EXCEPT !.workers[w].all = all, !.whole = @ /\ all], w, 0), FALSE)
  BY DEF WideSearchC!Objects
<1>9. ws_answer = 0 \/ ws_answer # i
  BY <1>1, <1>2, NotBrought
<1> HIDE DEF r
<1> DEFINE v == [r.workers[w] EXCEPT !.all = all]
           ws == [r.workers EXCEPT ![w] = v]
           whole == r.whole /\ all
           q == [r EXCEPT !.workers = ws, !.whole = whole]
<1>4. q = [r EXCEPT !.workers[w].all = all, !.whole = @ /\ all]
  OBVIOUS
<1>10. w \in DOMAIN r.workers
  BY DEF r
<1>5. r.workers \in Seq(WsWorker) /\ r.workers[w] \in WsWorker /\ whole \in BOOLEAN
  BY <1>1, <1>10 DEF WsRun
<1>6. /\ v \in WsWorker /\ v.at = "objects" /\ v.piece = r.workers[w].piece /\ v.all = all
  BY <1>2, <1>5 DEF WsWorker
<1> HIDE DEF v
<1>7. /\ ws \in Seq(WsWorker) /\ DOMAIN ws = DOMAIN r.workers /\ ws[w] = v
      /\ \A k \in DOMAIN r.workers : k # w => ws[k] = r.workers[k]
  BY <1>5, <1>6, <1>10, SetWorker
<1> HIDE DEF ws
<1>8. q \in WsRun
  <2> HIDE DEF whole
  <2> QED BY <1>1, <1>5, <1>7 DEF WsRun
<1>11. /\ q.stop = r.stop /\ q.workers = ws /\ q.range = r.range /\ q.pieces = r.pieces
       /\ q.began = r.began /\ q.out = r.out /\ q.whole = whole /\ q.finished = r.finished
       /\ q.next = r.next /\ q.rejected = r.rejected
  BY <1>1 DEF WsRun
<1>14. q = [r EXCEPT !.workers[w].all = all, !.whole = @ /\ all]
  BY <1>4
<1> HIDE DEF q
<1>12. RunTrue(q, ws_server, ws_switches)
  <2>0. \A k \in DOMAIN r.workers : /\ q.workers[k].piece = r.workers[k].piece
                                    /\ q.workers[k].at = r.workers[k].at
    BY <1>2, <1>6, <1>7, <1>11
  <2>1. Manned(q)
    <3>1. q.workers # <<>>
      BY <1>1, <1>7, <1>11, <1>10
    <3>2. r.workers[w].piece \in DOMAIN r.pieces
      BY <1>1, <1>2, <1>10, EndedIs DEF RunTrue, Manned
    <3> QED BY <3>1, <3>2, <2>0, <1>1, <1>2, <1>7, <1>11 DEF RunTrue, Manned
  <2>2. Taken(q)
    BY <2>0, <1>1, <1>7, <1>11 DEF RunTrue, Taken
  <2>3. ASSUME q.whole, q.began = ws_switches PROVE Gathered(q, ws_server)
    <3>1. r.whole /\ all /\ r.began = ws_switches /\ Gathered(r, ws_server)
      BY <2>3, <1>1, <1>11 DEF RunTrue
    <3>2. \A k \in DOMAIN q.workers : q.workers[k].all
      BY <3>1, <1>6, <1>7, <1>11 DEF Gathered
    <3>3. ASSUME NEW k \in DOMAIN q.workers, q.workers[k].at = "page"
          PROVE  Before(q, k, ws_server, q.workers[k].from)
      <4>1. k # w /\ q.workers[k] = r.workers[k] /\ k \in DOMAIN r.workers
        BY <3>3, <1>6, <1>7, <1>11
      <4>2. RowsAt(q, k, ws_server) = RowsAt(r, k, ws_server)
        BY <4>1, <1>11 DEF RowsAt
      <4> QED BY <4>1, <4>2, <3>1, <3>3, <1>11 DEF Gathered, Before
    <3> QED BY <3>1, <3>2, <3>3, <1>11 DEF Gathered
  <2> QED BY <2>1, <2>2, <2>3, <1>1, <1>11 DEF RunTrue
<1>13. /\ WideSearchC!Asks(q, w, 0) \in WsRun
       /\ RunTrue(WideSearchC!Asks(q, w, 0), ws_server, ws_switches)
  <2>1. Before(q, w, ws_server, 0)
    <3>1. ASSUME NEW x \in RowsAt(q, w, ws_server)
          PROVE  ~(WideSearchC!Rank(x, RowsAt(q, w, ws_server)) <= 0)
      <4>1. RowsAt(q, w, ws_server) \in SUBSET WsHits
        BY DEF RowsAt
      <4> QED BY <4>1, RankIs
    <3> QED BY <3>1 DEF Before
  <2>2. w \in DOMAIN q.workers /\ q.workers[w].at # "ended"
    BY <1>6, <1>7, <1>10, <1>11
  <2> QED BY <2>1, <2>2, <1>8, <1>12, AsksKeeps
<1> QED BY <1>3, <1>9, <1>13, <1>14, GoesKeeps

\* What an answer brings, and how far the cursor comes.
LEMMA AnswerIs ==
  ASSUME NEW r \in WsRun, NEW w \in DOMAIN r.workers
  PROVE  LET rows == WideSearchC!RowsOf(r, w)
             from == r.workers[w].from
             to   == WideSearchC!Min({from + WsPageCount, WideSearchC!Cardinality(rows)})
             new  == {x \in rows : WideSearchC!Rank(x, rows) \in (from + 1)..to}
         IN  /\ rows = RowsAt(r, w, ws_server) /\ to \in Nat /\ new \subseteq rows
             /\ \A x \in rows : WideSearchC!Rank(x, rows) <= to
                  => WideSearchC!Rank(x, rows) <= from \/ x \in new
             /\ to = WideSearchC!Cardinality(rows)
                  => \A x \in rows : WideSearchC!Rank(x, rows) <= to
<1> DEFINE rows == WideSearchC!RowsOf(r, w)
           from == r.workers[w].from
           S == {from + WsPageCount, WideSearchC!Cardinality(rows)}
           to == WideSearchC!Min(S)
           new == {x \in rows : WideSearchC!Rank(x, rows) \in (from + 1)..to}
<1>1. rows = RowsAt(r, w, ws_server)
  <2> DEFINE piece == r.pieces[r.workers[w].piece]
  <2>1. \A x \in WsHits : x.t \in piece[1]..piece[2] <=> WsIn(x.t, piece)
    BY WindowDataAssumption DEF WsIn
  <2>2. rows = {x \in WsHits : /\ x.server = ws_server /\ x.t \in piece[1]..piece[2]
                               /\ x.gone => r.workers[w].all}
    BY DEF WideSearchC!RowsOf
  <2>3. RowsAt(r, w, ws_server) =
          {x \in WsHits : /\ x.server = ws_server /\ WsIn(x.t, piece)
                          /\ x.gone => r.workers[w].all}
    BY DEF RowsAt
  <2> HIDE DEF piece
  <2> QED BY <2>1, <2>2, <2>3
<1>2. rows \in SUBSET WsHits
  BY <1>1 DEF RowsAt
<1> HIDE DEF rows
<1>3. from \in Nat /\ WsPageCount \in Nat
  <2>1. r.workers[w] \in WsWorker
    BY DEF WsRun
  <2> QED BY <2>1, WindowDataAssumption DEF WsWorker
<1>4. WideSearchC!Cardinality(rows) = Cardinality(rows) /\ Cardinality(rows) \in Nat
  <2>1. IsFiniteSet(rows)
    BY <1>2, WindowDataAssumption, FS_Subset
  <2> QED BY <2>1, WsCountIs, FS_CardinalityType
<1>5. \A x \in rows : /\ WideSearchC!Rank(x, rows) \in Nat
                      /\ WideSearchC!Rank(x, rows) <= Cardinality(rows)
  BY <1>2, RankIs
<1>6. to \in Nat
  <2>1. S \in SUBSET Nat /\ S # {}
    BY <1>3, <1>4
  <2> HIDE DEF S
  <2> QED BY <2>1, MinIs
<1> HIDE DEF to
<1>7. \A x \in rows : WideSearchC!Rank(x, rows) <= to
        => WideSearchC!Rank(x, rows) <= from \/ x \in new
  BY <1>3, <1>5, <1>6
<1>8. to = WideSearchC!Cardinality(rows) => \A x \in rows : WideSearchC!Rank(x, rows) <= to
  BY <1>4, <1>5
<1> QED BY <1>1, <1>6, <1>7, <1>8 DEF to, rows

LEMMA PageAnswerHolds ==
  ASSUME WsInv, NEW i \in DOMAIN ws_runs, NEW w \in DOMAIN ws_runs[i].workers,
         WideSearchC!PageAnswer(i, w)
  PROVE  WsInv'
<1> DEFINE old == ws_runs[i]
           rows == WideSearchC!RowsOf(old, w)
           from == old.workers[w].from
           to == WideSearchC!Min({from + WsPageCount, WideSearchC!Cardinality(rows)})
           new == {x \in rows : WideSearchC!Rank(x, rows) \in (from + 1)..to}
           r == [old EXCEPT !.requests = @ + 1, !.out = @ \cup new]
           done == to = WideSearchC!Cardinality(rows)
           full == WideSearchC!Cardinality(r.out) >= WsCap
           stop == IF full /\ r.stop = "no" THEN "cap" ELSE r.stop
           q == IF done
                THEN WideSearchC!Puts(
                       [r EXCEPT !.finished = @ \cup {r.workers[w].piece}, !.stop = stop], w)
                ELSE IF full THEN [r EXCEPT !.stop = stop, !.workers[w] = WideSearchC!Ended]
                ELSE WideSearchC!Asks(r, w, to)
<1>1. old \in WsRun /\ RunTrue(old, ws_server, ws_switches) /\ Brought
      /\ w \in DOMAIN old.workers
  BY DEF WsInv
<1>2. old.workers[w].at = "page" /\ WideSearchC!Goes(i, q, done \/ full)
  BY DEF WideSearchC!PageAnswer
<1>3. ws_answer = 0 \/ ws_answer # i
  BY <1>1, <1>2, NotBrought
<1>4. /\ rows = RowsAt(old, w, ws_server) /\ to \in Nat /\ new \subseteq rows
      /\ \A x \in rows : WideSearchC!Rank(x, rows) <= to
                  => WideSearchC!Rank(x, rows) <= from \/ x \in new
      /\ done => \A x \in rows : WideSearchC!Rank(x, rows) <= to
  BY <1>1, AnswerIs
<1>5. done \in BOOLEAN /\ full \in BOOLEAN
  OBVIOUS
<1> HIDE DEF old, rows, to, new, done, full
<1>6. old.workers[w].piece \in DOMAIN old.pieces /\ old.workers[w] \in WsWorker
  BY <1>1, <1>2, EndedIs DEF RunTrue, Manned, WsRun
<1>7. old.whole /\ old.began = ws_switches =>
        \A x \in rows : WideSearchC!Rank(x, rows) <= from => x \in old.out
  BY <1>1, <1>2, <1>4 DEF RunTrue, Gathered, Before
<1>8. /\ r \in WsRun /\ r.workers = old.workers /\ r.pieces = old.pieces
      /\ r.range = old.range /\ r.began = old.began /\ r.whole = old.whole
      /\ r.next = old.next /\ r.rejected = old.rejected /\ r.finished = old.finished
      /\ r.stop = old.stop /\ r.out = old.out \cup new
  <2>1. new \subseteq WsHits
    BY <1>4 DEF RowsAt
  <2>2. old.requests + 1 \in Nat /\ old.out \cup new \in SUBSET WsHits
    BY <2>1, <1>1 DEF WsRun
  <2>3. r \in WsRun
    BY <1>1, <2>2 DEF WsRun
  <2>4. old \in WsRun
    BY <1>1
  <2> QED BY <2>3, <2>4 DEF WsRun
<1>9. r.out \subseteq old.out \cup RowsAt(old, w, ws_server) /\ old.out \subseteq r.out
  BY <1>4, <1>8
<1>10. old.whole /\ old.began = ws_switches =>
         \A x \in rows : WideSearchC!Rank(x, rows) <= to => x \in r.out
  BY <1>4, <1>7, <1>8
<1> HIDE DEF r
<1>11. stop \in {"no", "cancelled", "cap"} /\ (stop = r.stop \/ stop # "no")
       /\ (full => stop # "no")
  BY <1>8 DEF WsRun
<1> HIDE DEF stop
<1>12. CASE done
  <2> DEFINE p == [r EXCEPT !.finished = @ \cup {r.workers[w].piece}, !.stop = stop]
  <2>1. /\ p \in WsRun /\ p.workers = old.workers /\ p.pieces = old.pieces
        /\ p.range = old.range /\ p.began = old.began /\ p.whole = old.whole
        /\ p.next = old.next /\ p.rejected = old.rejected
        /\ p.finished = old.finished \cup {old.workers[w].piece}
        /\ p.stop = stop /\ p.out = r.out
    <3>1. old.workers[w].piece \in Nat
      BY <1>6 DEF WsWorker
    <3> QED BY <3>1, <1>8, <1>11 DEF WsRun
  <2>2. q = WideSearchC!Puts(p, w)
    BY <1>12
  <2> HIDE DEF p, q
  <2>3. RunTrue(p, ws_server, ws_switches)
    <3>1. old.whole /\ old.began = ws_switches => RowsAt(old, w, ws_server) \subseteq p.out
      BY <1>4, <1>10, <1>12, <2>1
    <3>2. p.stop = old.stop \/ p.stop # "no"
      BY <1>8, <1>11, <2>1
    <3> QED BY <3>1, <3>2, <2>1, <1>1, <1>6, <1>9, GathersKeeps
  <2>4. q \in WsRun /\ RunTrue(q, ws_server, ws_switches)
    BY <2>1, <2>2, <2>3, <1>1, PutsKeeps
  <2> QED BY <2>4, <1>2, <1>3, <1>5, GoesKeeps
<1>13. RunTrue(r, ws_server, ws_switches)
  BY <1>1, <1>6, <1>8, <1>9, GathersKeeps
<1>14. CASE ~done /\ full
  <2> DEFINE ws == [r.workers EXCEPT ![w] = WideSearchC!Ended]
  <2>1. q = [r EXCEPT !.stop = stop, !.workers = ws]
    BY <1>14
  <2> HIDE DEF q
  <2>2. /\ ws \in Seq(WsWorker) /\ DOMAIN ws = DOMAIN r.workers
        /\ ws[w] = WideSearchC!Ended
        /\ \A k \in DOMAIN r.workers : k # w => ws[k] = r.workers[k]
    <3>1. r.workers \in Seq(WsWorker) /\ w \in DOMAIN r.workers
      BY <1>1, <1>8 DEF WsRun
    <3> QED BY <3>1, EndedIs, SetWorker
  <2> HIDE DEF ws
  <2>3. q \in WsRun
    BY <2>1, <2>2, <1>8, <1>11 DEF WsRun
  <2>4. Idly(r, q, w) /\ q.workers[w] = WideSearchC!Ended /\ q.stop = stop
    BY <2>1, <2>2, <1>8 DEF WsRun, Idly, ByWorker
  <2>5. RunTrue(q, ws_server, ws_switches)
    BY <2>3, <2>4, <1>1, <1>8, <1>11, <1>13, <1>14, EndsKeeps
  <2> QED BY <2>3, <2>5, <1>2, <1>3, <1>5, GoesKeeps
<1>15. CASE ~done /\ ~full
  <2>1. q = WideSearchC!Asks(r, w, to)
    BY <1>15
  <2> HIDE DEF q
  <2>2. r.whole /\ r.began = ws_switches => Before(r, w, ws_server, to)
    <3>1. RowsAt(r, w, ws_server) = rows
      BY <1>4, <1>8 DEF RowsAt
    <3> QED BY <3>1, <1>8, <1>10 DEF Before
  <2>3. w \in DOMAIN r.workers /\ r.workers[w].at # "ended"
    BY <1>1, <1>2, <1>8
  <2>4. q \in WsRun /\ RunTrue(q, ws_server, ws_switches)
    BY <2>1, <2>2, <2>3, <1>4, <1>8, <1>13, AsksKeeps
  <2> QED BY <2>4, <1>2, <1>3, <1>5, GoesKeeps
<1> QED BY <1>12, <1>14, <1>15

LEMMA PageFailsHolds ==
  ASSUME WsInv, NEW i \in DOMAIN ws_runs, NEW w \in DOMAIN ws_runs[i].workers,
         WideSearchC!PageFails(i, w)
  PROVE  WsInv'
<1> DEFINE r == ws_runs[i]
           ws == [r.workers EXCEPT ![w] = WideSearchC!Ended]
           q == [r EXCEPT !.workers = ws, !.rejected = TRUE]
<1>1. r \in WsRun /\ RunTrue(r, ws_server, ws_switches) /\ Brought
      /\ w \in DOMAIN r.workers
  BY DEF WsInv
<1>2. r.workers[w].at = "page" /\ ws_runs' = [ws_runs EXCEPT ![i] = q]
  BY DEF WideSearchC!PageFails
<1>3. /\ ws_answer' = ws_answer /\ ws_selected' = ws_selected /\ ws_server' = ws_server
      /\ ws_switches' = ws_switches
  BY DEF WideSearchC!PageFails
<1>4. ws_answer = 0 \/ ws_answer # i
  BY <1>1, <1>2, NotBrought
<1> HIDE DEF r
<1>5. /\ ws \in Seq(WsWorker) /\ DOMAIN ws = DOMAIN r.workers /\ ws[w] = WideSearchC!Ended
      /\ \A k \in DOMAIN r.workers : k # w => ws[k] = r.workers[k]
  <2>1. r.workers \in Seq(WsWorker)
    BY <1>1 DEF WsRun
  <2> QED BY <2>1, <1>1, EndedIs, SetWorker
<1> HIDE DEF ws
<1>6. q \in WsRun
  BY <1>1, <1>5 DEF WsRun
<1>7. Idly(r, q, w) /\ q.workers[w] = WideSearchC!Ended /\ q.rejected
  BY <1>1, <1>5 DEF WsRun, Idly, ByWorker
<1> HIDE DEF q
<1>8. RunTrue(q, ws_server, ws_switches)
  BY <1>1, <1>6, <1>7, EndsKeeps
<1>9. /\ ws_runs' \in Seq(WsRun) /\ DOMAIN ws_runs' = DOMAIN ws_runs
      /\ \A k \in DOMAIN ws_runs' : RunTrue(ws_runs'[k], ws_server, ws_switches)
  BY <1>2, <1>6, <1>8 DEF WsInv
<1>10. Brought'
  <2>1. ws_answer # 0 => ws_runs'[ws_answer] = ws_runs[ws_answer]
    BY <1>2, <1>4
  <2> QED BY <2>1, <1>1, <1>3, <1>9 DEF Brought
<1> QED BY <1>3, <1>9, <1>10 DEF WsInv

LEMMA SearchHolds ==
  ASSUME WsInv, NEW range \in WsRanges, WideSearchC!Search(range)
  PROVE  WsInv'
<1> DEFINE q == WideSearchC!NewRun(range)
<1>1. range \in Nat \X Nat /\ range[1] < range[2]
  BY WindowDataAssumption DEF WideSearchC!Search
<1>2. /\ ws_runs' = Append(ws_runs, q) /\ ws_server' = ws_server
      /\ ws_switches' = ws_switches /\ ws_answer' = ws_answer /\ ws_selected' = ws_selected
  BY DEF WideSearchC!Search, WideSearchC!RunWideSearch
<1>3. q \in WsRun /\ RunTrue(q, ws_server, ws_switches)
  BY <1>1, NewRunIs DEF WsInv
<1> HIDE DEF q
<1>4. ws_runs \in Seq(WsRun)
  BY DEF WsInv
<1>5. /\ ws_runs' \in Seq(WsRun) /\ DOMAIN ws_runs \subseteq DOMAIN ws_runs'
      /\ \A k \in DOMAIN ws_runs : ws_runs'[k] = ws_runs[k]
      /\ \A k \in DOMAIN ws_runs' : k \in DOMAIN ws_runs \/ ws_runs'[k] = q
  BY <1>2, <1>3, <1>4
<1>6. \A k \in DOMAIN ws_runs' : RunTrue(ws_runs'[k], ws_server, ws_switches)
  BY <1>3, <1>5 DEF WsInv
<1>7. Brought'
  BY <1>2, <1>5 DEF WsInv, Brought
<1> QED BY <1>2, <1>5, <1>6, <1>7 DEF WsInv

LEMMA SwitchHolds ==
  ASSUME WsInv, NEW s, WideSearchC!SwitchServer(s)
  PROVE  WsInv'
<1>1. /\ ws_runs' = ws_runs /\ ws_switches' = ws_switches + 1 /\ ws_answer' = 0
  BY DEF WideSearchC!SwitchServer
<1>2. ASSUME NEW i \in DOMAIN ws_runs PROVE RunTrue(ws_runs[i], ws_server', ws_switches + 1)
  <2>1. RunTrue(ws_runs[i], ws_server, ws_switches) /\ ws_runs[i] \in WsRun
        /\ ws_switches \in Nat
    BY DEF WsInv
  <2>2. ws_runs[i].began \in Nat /\ ws_runs[i].began <= ws_switches
    BY <2>1 DEF RunTrue, WsRun
  <2>3. ws_runs[i].began # ws_switches + 1 /\ ws_runs[i].began <= ws_switches + 1
    BY <2>1, <2>2
  <2> QED BY <2>1, <2>3 DEF RunTrue
<1>3. ws_switches' \in Nat
  BY <1>1 DEF WsInv
<1> QED BY <1>1, <1>2, <1>3 DEF WsInv, Brought

LEMMA WsRestHolds ==
  ASSUME WsInv, UNCHANGED <<ws_server, ws_switches, ws_runs>>,
         ws_answer' = 0 \/ (ws_answer' = ws_answer /\ ws_selected' = ws_selected)
  PROVE  WsInv'
BY DEF WsInv, Brought

LEMMA WsStepHolds == WsInv /\ [WideSearchC!Next]_WideSearchVars => WsInv'
<1> SUFFICES ASSUME WsInv, [WideSearchC!Next]_WideSearchVars PROVE WsInv'
  OBVIOUS
<1>1. CASE \E range \in WsRanges : WideSearchC!Search(range)
  BY <1>1, SearchHolds
<1>2. CASE WideSearchC!Open \/ WideSearchC!Close \/ WideSearchC!Cancel
  BY <1>2, WsRestHolds DEF WideSearchC!Open, WideSearchC!Close, WideSearchC!Cancel
<1>3. CASE WideSearchC!ClearSelection
  BY <1>3, WsRestHolds DEF WideSearchC!ClearSelection
<1>4. CASE \E i \in DOMAIN ws_runs : \E w \in DOMAIN ws_runs[i].workers :
             \/ WideSearchC!Objects(i, w) \/ WideSearchC!PageAnswer(i, w)
             \/ WideSearchC!PageFails(i, w)
  BY <1>4, ObjectsHolds, PageAnswerHolds, PageFailsHolds
<1>5. CASE \E s \in WideSearchC!Servers : WideSearchC!SwitchServer(s)
  BY <1>5, SwitchHolds
<1>6. CASE UNCHANGED WideSearchVars
  BY <1>6, WsRestHolds DEF WideSearchVars
<1> QED BY <1>1, <1>2, <1>3, <1>4, <1>5, <1>6 DEF WideSearchC!Next

LEMMA WideTrueIs == WsInv => WideSearchC!WideTrue
<1> SUFFICES ASSUME WsInv, ws_answer # 0, ws_runs[ws_answer].whole,
                    ws_runs[ws_answer].began = ws_switches
             PROVE  LET r == ws_runs[ws_answer] IN
                    /\ WideSearchC!Matches(r, WideSearchC!EndOf(r)) \subseteq ws_selected
                    /\ ws_selected \subseteq WideSearchC!Matches(r, WideSearchC!EndOf(r) + 1)
  BY DEF WideSearchC!WideTrue
<1> DEFINE r == ws_runs[ws_answer]
<1>1. /\ r \in WsRun /\ RunTrue(r, ws_server, r.began) /\ ~r.rejected /\ r.whole
      /\ ws_selected = WideSearchC!Kept(r)
      /\ \A w \in DOMAIN r.workers : r.workers[w] = WideSearchC!Ended
  BY DEF WsInv, Brought
<1> HIDE DEF r
<1>2. WideSearchC!EndOf(r) = EndIs(r)
  BY DEF WideSearchC!EndOf, EndIs
<1>3. /\ EndIs(r) \in Nat
      /\ \A x \in WsHits : x.server = ws_server /\ r.range[1] <= x.t /\ x.t < EndIs(r)
           => x \in WideSearchC!Kept(r)
      /\ \A x \in WideSearchC!Kept(r) :
           x \in WsHits /\ x.server = ws_server /\ WsIn(x.t, r.range) /\ x.t <= EndIs(r)
  BY <1>1, KeptIs
<1>4. r.range[1] \in Nat /\ \A x \in WsHits : x.t \in Nat
  BY <1>1, WindowDataAssumption DEF WsRun
<1>5. WideSearchC!Matches(r, EndIs(r)) \subseteq ws_selected
  BY <1>1, <1>3, <1>4 DEF WideSearchC!Matches
<1>6. ws_selected \subseteq WideSearchC!Matches(r, EndIs(r) + 1)
  BY <1>1, <1>3, <1>4 DEF WideSearchC!Matches, WsIn
<1> QED BY <1>2, <1>5, <1>6 DEF r

-----------------------------------------------------------------------------
(* The theorem of the wide search.                                         *)

LEMMA WideInit == Init => (which = "WideSearch" => WsInv)
<1> SUFFICES ASSUME WideSearchC!Init PROVE WsInv
  BY DEF Init
<1> QED BY DEF WideSearchC!Init, WsInv, Brought

LEMMA WideStep ==
  (which = "WideSearch" => WsInv) /\ [Next]_allVars => (which = "WideSearch" => WsInv)'
<1> SUFFICES ASSUME which = "WideSearch" => WsInv, [Next]_allVars, (which = "WideSearch")'
             PROVE  WsInv'
  OBVIOUS
<1>1. CASE Next
  BY <1>1, Turns, WsStepHolds
<1>2. CASE UNCHANGED allVars
  BY <1>2, WsStepHolds DEF allVars
<1> QED BY <1>1, <1>2

\* Whatever was cancelled, cut or left by its server: what the list holds of a search
\* whose lists of the days came is, up to the time it names, every match of the server
\* and nothing else, however the pieces were cut and in whatever order the pages came.
THEOREM EveryMatchIsListed == Spec => []WideSearchTrue
<1>1. (which = "WideSearch" => WsInv) => WideSearchTrue
  BY WideTrueIs DEF WideSearchTrue
<1> QED BY WideInit, WideStep, <1>1, PTL DEF Spec
=============================================================================
