------------------------------- MODULE Picker -------------------------------
(***************************************************************************)
(* What the user has picked, and which objects are asked because of it.    *)
(*                                                                         *)
(* A tab keeps names of services and single tasks; the hashes it asks for  *)
(* are resolved from them again whenever the list of objects, the tab or   *)
(* its range changes.  The resolving is done by two React effects, one for *)
(* the tab on the screen and one for the other live tabs: Render takes the *)
(* values the effects depend on, Effects runs them, and other things       *)
(* happen in between.                                                      *)
(*                                                                         *)
(* The selector panel polls a list of its own; it is abstracted to the     *)
(* choice between the list of the application and that of the collector.   *)
(***************************************************************************)
EXTENDS Naturals, FiniteSets, Functions

CONSTANTS Tasks,
          Service,      \* Service[t] is the logical service of t, or None
          Days,         \* days of the past a tab may look at
          MaxMoves      \* bound: clicks, and tasks that start, die or leave

VARIABLES world,        \* [Tasks -> status], the list of the collector
          objects,      \* the list of the application
          ran,          \* [Days -> SUBSET Tasks], the collector's lists of the days
          tab,          \* [Tabs -> what is picked, resolved and looked at]
          active,
          daily,        \* objects of the day last read
          dayKey,       \* the day whose list is being read, or was, or None
          reading,      \* that reading is under way
          seen,         \* values the effects last ran with
          frame,        \* values of the last render
          due,          \* its effects have yet to run
          met,          \* tasks the application has ever had in its list
          clicked,      \* a click the screen has not shown yet
          moves

vars == <<world, objects, ran, tab, active, daily, dayKey, reading, seen, frame, due,
          met, clicked, moves>>

None == "none"
Tabs == {1, 2}
Listed(list) == {t \in Tasks : list[t] # None}
Alive(list)  == {t \in Tasks : list[t] = "alive"}

NoPick == [services |-> {}, hashes |-> {}]
Empty(sel) == sel = NoPick
Members(services, list) == {t \in list : Service[t] \in services}

(***************************************************************************)
(* Only living tasks are asked of the present; the past asks everything    *)
(* that may have run, and a task picked by hand even when no list has it.  *)
(***************************************************************************)
Resolve(sel, list) == Members(sel.services, Alive(list)) \cup (sel.hashes \cap Alive(list))
\* Mutant: of the past only what lives now is asked for.
ResolvePast_Alive(sel, candidates) == Members(sel.services, Alive(objects)) \cup sel.hashes

ResolvePast(sel, candidates) == Members(sel.services, candidates) \cup sel.hashes

Toggled(set, x) == IF x \in set THEN set \ {x} ELSE set \cup {x}
ToggledService(sel, s) == [sel EXCEPT !.services = Toggled(@, s)]

(***************************************************************************)
(* A task of a picked service: the service becomes its living tasks, one   *)
(* by one, without this one.                                               *)
(***************************************************************************)
PickedTask(sel, t, list) ==
  IF Service[t] \notin sel.services
  THEN [sel EXCEPT !.hashes = Toggled(@, t)]
  ELSE [services |-> sel.services \ {Service[t]},
        hashes   |-> (sel.hashes \cup Members({Service[t]}, Alive(list))) \ {t}]

ToggledGroup(asked, group) ==
  IF group # {} /\ group \subseteq asked THEN asked \ group ELSE asked \cup group

\* A choice that comes as hashes alone; an empty one also drops the services.
Chosen(sel, hashes) ==
  [services |-> IF hashes = {} THEN {} ELSE sel.services, hashes |-> hashes]

\* An empty list is no reason to forget what is picked.
Pruned(asked, list) == IF list = {} THEN asked ELSE asked \cap list

-----------------------------------------------------------------------------
Past(i) == tab[i].day # None
Others  == [i \in Tabs |-> IF i = active \/ Past(i) THEN {} ELSE {tab[i].sel}]
SomeOther(others) == \E i \in Tabs : others[i] # {}

Candidates == Listed(objects) \cup daily \cup met
Picks == IF Past(active) THEN ResolvePast(tab[active].sel, Candidates)
                         ELSE Resolve(tab[active].sel, objects)
View == [picked |-> Picks, active |-> active, others |-> Others, objects |-> objects]

Init ==
  /\ world \in [Tasks -> {None, "alive"}]
  /\ objects = [t \in Tasks |-> None]
  /\ ran \in [Days -> SUBSET Tasks]
  /\ tab = [i \in Tabs |-> [sel |-> NoPick, asked |-> {}, day |-> None]]
  /\ active = 1
  /\ daily = {} /\ dayKey = None /\ reading = FALSE
  /\ seen = [picked |-> {}, active |-> 1, others |-> Others,
             objects |-> objects]
  /\ frame = seen /\ due = FALSE
  /\ met = {}
  /\ clicked = FALSE
  /\ moves = 0

Moves ==
  /\ moves < MaxMoves
  /\ moves' = moves + 1
  /\ \E t \in Tasks :
       \/ world[t] # "alive" /\ world' = [world EXCEPT ![t] = "alive"]
       \/ world[t] = "alive" /\ world' = [world EXCEPT ![t] = "dead"]
       \/ world[t] = "dead"  /\ world' = [world EXCEPT ![t] = None]
  /\ UNCHANGED <<objects, ran, tab, active, daily, dayKey, reading, seen, frame, due, met, clicked>>

(***************************************************************************)
(* The ten-second list: tasks that have just left it stay for a while, as  *)
(* dead ones.  Every task listed is remembered as met.                     *)
(***************************************************************************)
ListArrives ==
  /\ \E kept \in SUBSET (Listed(objects) \ Listed(world)) :
       objects' = [t \in Tasks |-> IF t \in kept THEN "dead" ELSE world[t]]
  /\ met' = met \cup Listed(objects')
  /\ UNCHANGED <<world, ran, tab, active, daily, dayKey, reading, seen, frame, due, clicked, moves>>

(***************************************************************************)
(* The panel reads its own list: what the tab on the screen asks for is    *)
(* pruned to the list and to what the last render resolved.                *)
(***************************************************************************)
PanelLoads ==
  /\ tab' = [tab EXCEPT ![active].asked = Pruned(@, Listed(world) \cup frame.picked)]
  /\ UNCHANGED <<world, objects, ran, active, daily, dayKey, reading, seen, frame, due, met, clicked, moves>>

PanelLists == {Listed(objects), Listed(world)}

Pick(sel) == tab' = [tab EXCEPT ![active].sel = sel]

\* React renders a click before it lets the user click again.
Click == ~clicked /\ clicked' = TRUE /\ moves < MaxMoves /\ moves' = moves + 1

ToggleService ==
  /\ Click
  /\ \E s \in {Service[t] : t \in Tasks} \ {None} : Pick(ToggledService(tab[active].sel, s))
  /\ UNCHANGED <<world, objects, ran, active, daily, dayKey, reading, seen, frame, due, met>>

PickTask ==
  /\ Click
  /\ \E t \in UNION PanelLists : Pick(PickedTask(tab[active].sel, t, objects))
  /\ UNCHANGED <<world, objects, ran, active, daily, dayKey, reading, seen, frame, due, met>>

\* The box of a host or a kind of objects, with the rows that a search leaves.
ToggleGroup ==
  /\ Click
  /\ \E list \in PanelLists : \E group \in SUBSET list :
       Pick(Chosen(tab[active].sel, ToggledGroup(tab[active].asked, group)))
  /\ UNCHANGED <<world, objects, ran, active, daily, dayKey, reading, seen, frame, due, met>>

ClearPicks ==
  /\ Click
  /\ tab[active].asked # {}
  /\ Pick(Chosen(tab[active].sel, {}))
  /\ UNCHANGED <<world, objects, ran, active, daily, dayKey, reading, seen, frame, due, met>>

Activate ==
  /\ Click
  /\ active' \in Tabs \ {active}
  /\ UNCHANGED <<world, objects, ran, tab, daily, dayKey, reading, seen, frame, due, met>>

SetRange ==
  /\ Click
  /\ \E day \in (Days \cup {None}) \ {tab[active].day} :
       tab' = [tab EXCEPT ![active].day = day]
  /\ UNCHANGED <<world, objects, ran, active, daily, dayKey, reading, seen, frame, due, met>>

(***************************************************************************)
(* Clearing away the dead, by the button or the timer: they leave the list *)
(* of the collector, and that of the application at once.                  *)
(***************************************************************************)
Cleanup ==
  LET living(list) == [t \in Tasks |-> IF list[t] = "alive" THEN "alive" ELSE None]
  IN  /\ living(world) # world
      /\ world' = living(world)
      /\ objects' = living(objects)
      /\ UNCHANGED <<ran, tab, active, daily, dayKey, reading, seen, frame, due, met, clicked, moves>>

\* The list of the day of the tab on the screen; a failure leaves the old one.
AskDay ==
  /\ dayKey # tab[active].day
  /\ dayKey' = tab[active].day
  /\ reading' = Past(active)
  /\ daily' = IF Past(active) THEN daily ELSE {}
  /\ UNCHANGED <<world, objects, ran, tab, active, seen, frame, due, met, clicked, moves>>

DayArrives ==
  /\ reading /\ reading' = FALSE
  /\ daily' \in {daily, ran[dayKey]}
  /\ UNCHANGED <<world, objects, ran, tab, active, dayKey, seen, frame, due, met, clicked, moves>>

Render ==
  /\ ~due /\ (View # seen \/ clicked)
  /\ frame' = View /\ due' = TRUE
  /\ clicked' = FALSE
  /\ UNCHANGED <<world, objects, ran, tab, active, daily, dayKey, reading, seen, met, moves>>

(***************************************************************************)
(* The first effect writes into the tab that is on the screen when it      *)
(* runs, not the one it was rendered for; the second leaves that tab out.  *)
(***************************************************************************)
\* Mutant: a tab that is not active does not follow the list.
Effects_ActiveOnly ==
  LET first  == frame.picked # seen.picked \/ frame.active # seen.active
      second == SomeOther(frame.others)
                  /\ (frame.others # seen.others \/ frame.objects # seen.objects)
  IN  /\ due
      /\ tab' = [i \in Tabs |->
           CASE i = active /\ first -> [tab[i] EXCEPT !.asked = frame.picked]
             [] FALSE
                  -> [tab[i] EXCEPT !.asked = Resolve(tab[i].sel, frame.objects)]
             [] OTHER -> tab[i]]
      /\ seen' = frame
      /\ due' = FALSE
      /\ UNCHANGED <<world, objects, ran, active, daily, dayKey, reading, frame, met, clicked, moves>>

Effects ==
  LET first  == frame.picked # seen.picked \/ frame.active # seen.active
      second == SomeOther(frame.others)
                  /\ (frame.others # seen.others \/ frame.objects # seen.objects)
  IN  /\ due
      /\ tab' = [i \in Tabs |->
           CASE i = active /\ first -> [tab[i] EXCEPT !.asked = frame.picked]
             [] i # active /\ second /\ ~Past(i)
                  -> [tab[i] EXCEPT !.asked = Resolve(tab[i].sel, frame.objects)]
             [] OTHER -> tab[i]]
      /\ seen' = frame
      /\ due' = FALSE
      /\ UNCHANGED <<world, objects, ran, active, daily, dayKey, reading, frame, met, clicked, moves>>

Next ==
  \/ Moves \/ ListArrives \/ PanelLoads \/ ToggleService \/ PickTask \/ ToggleGroup
  \/ ClearPicks \/ Activate \/ SetRange \/ Cleanup \/ AskDay \/ DayArrives
  \/ Render \/ Effects

Spec == Init /\ [][Next]_vars

-----------------------------------------------------------------------------
Settled == ~due /\ View = seen

(***************************************************************************)
(* What a tab asks for is what is picked in it.  Once the effects have run *)
(* every live tab, also one that is not on the screen, asks for exactly    *)
(* the living tasks of its services and the living ones among its single   *)
(* picks; and the tab of a past range on the screen asks for every task of *)
(* its services that the application knows, also one that died or was      *)
(* cleaned away since (groupSelection.ts:51-110, App.tsx:1191-1243).       *)
(***************************************************************************)
AskedIsPicked ==
  Settled =>
    /\ \A i \in Tabs : ~Past(i) => tab[i].asked = Resolve(tab[i].sel, objects)
    /\ Past(active) =>
         Members(tab[active].sel.services, Candidates) \cup tab[active].sel.hashes
           \subseteq tab[active].asked
=============================================================================
