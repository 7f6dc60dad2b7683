------------------------- MODULE WindowScreenProofs -------------------------
(***************************************************************************)
(* The screens of the window, for every value of the constants of five of  *)
(* its components.  Picker: once its effects have run, every tab asks for  *)
(* what is picked in it, though the effects of a render run late, write    *)
(* into the tab that is on the screen by then, and skip what did not       *)
(* change since they ran last.  AppSettings: what was reported done of the *)
(* AI connection stays in config.json.  Details: a late answer changes no  *)
(* tab but its own.  Inspector: what is opened is what was picked in a     *)
(* table, in whatever order it stands.  ServerList: a remembered password  *)
(* stays until the user lets it go.                                        *)
(***************************************************************************)
EXTENDS MCWindowScreens, ListingProofs

\* A step of the window is of the component the behaviour is of.
LEMMA Turns ==
  ASSUME Next
  PROVE  /\ which' = which
         /\ which = "Details" => DetailsC!Next
         /\ which = "Picker" => PickerC!Next
         /\ which = "Inspector" => InspectorC!Next
         /\ which = "AppSettings" => AppSettingsC!Next
         /\ which = "ServerList" => ServerListC!Next
BY DEF Next, TabWindowsTurn, DetailsTurn, PickerTurn, InspectorTurn, ConfigEditsTurn,
       AppSettingsTurn, ServerListTurn

-----------------------------------------------------------------------------
(* The pickers.                                                            *)

Tabs == PickerC!Tabs

PkShape ==
  /\ pk_tab = [i \in Tabs |-> [sel |-> pk_tab[i].sel, asked |-> pk_tab[i].asked,
                               day |-> pk_tab[i].day]]
  /\ pk_active \in Tabs /\ pk_frame.active \in Tabs /\ pk_seen.active \in Tabs
  /\ pk_due \in BOOLEAN

\* The screen shows the active tab, but for the time between a click and its render.
FrameFollows ==
  /\ pk_active # pk_frame.active => pk_clicked
  /\ ~pk_due => pk_seen = pk_frame

\* A render leaves its own tab and those of the past out of the others, and takes
\* the choice of the rest: no click changes it before the next render.
OthersTaken ==
  /\ \A i \in Tabs : i # pk_frame.active =>
       pk_frame.others[i] = IF PickerC!Past(i) THEN {} ELSE {pk_tab[i].sel}
  /\ pk_frame.others[pk_frame.active] = {}
  /\ pk_seen.others[pk_seen.active] = {}
  /\ pk_frame.others = [i \in Tabs |-> pk_frame.others[i]]
  /\ pk_seen.others = [i \in Tabs |-> pk_seen.others[i]]

\* The first effect has nothing to do for the tab of the last render: that tab asks
\* for what the render found picked.
ActiveAsks ==
  LET idle == pk_due => /\ pk_frame.picked = pk_seen.picked
                        /\ pk_frame.active = pk_seen.active
  IN  pk_active = pk_frame.active /\ idle => pk_tab[pk_active].asked = pk_frame.picked

\* A live tab that is not on the screen, and was not when the effects ran last, asks
\* for what its choice was resolved to by then.
OthersAsk ==
  \A i \in Tabs \ {pk_active, pk_frame.active, pk_seen.active} :
    ~PickerC!Past(i) =>
      pk_tab[i].asked = PickerC!Resolve(pk_tab[i].sel, pk_seen.objects)

PkInv == PkShape /\ FrameFollows /\ OthersTaken /\ ActiveAsks /\ OthersAsk
-----------------------------------------------------------------------------
\* The steps that touch neither the tabs nor what was rendered.
LEMMA PkKeeps ==
  ASSUME PkInv, UNCHANGED <<pk_tab, pk_active, pk_frame, pk_seen, pk_due, pk_clicked>>
  PROVE  PkInv'
BY DEF PkInv, PkShape, FrameFollows, OthersTaken, ActiveAsks, OthersAsk, PickerC!Past

\* A click changes what is picked in the active tab, or its range: it is the tab of
\* the last render, for a click waits until the one before has been rendered.
LEMMA PkClicks ==
  ASSUME PkInv, ~pk_clicked, pk_clicked' = TRUE, NEW sel, NEW day,
         pk_tab' = [pk_tab EXCEPT ![pk_active] =
                       [sel |-> sel, asked |-> pk_tab[pk_active].asked, day |-> day]],
         UNCHANGED <<pk_active, pk_frame, pk_seen, pk_due>>
  PROVE  PkInv'
<1>1. pk_active = pk_frame.active
  BY DEF PkInv, FrameFollows
<1>2. pk_tab' = [j \in Tabs |-> IF j = pk_active
                               THEN [sel |-> sel, asked |-> pk_tab[j].asked, day |-> day]
                               ELSE pk_tab[j]]
  BY DEF PkInv, PkShape
<1>3. /\ pk_tab'[pk_active].asked = pk_tab[pk_active].asked
      /\ \A j \in Tabs \ {pk_active} : pk_tab'[j] = pk_tab[j]
  BY <1>2 DEF PkInv, PkShape
<1>4. PkShape'
  BY <1>2 DEF PkInv, PkShape
<1>5. FrameFollows'
  BY DEF PkInv, FrameFollows
<1>6. OthersTaken'
  BY <1>1, <1>3 DEF PkInv, OthersTaken, PickerC!Past
<1>7. ActiveAsks'
  BY <1>3 DEF PkInv, ActiveAsks
<1>8. OthersAsk'
  BY <1>3 DEF PkInv, OthersAsk, PickerC!Past
<1> QED BY <1>4, <1>5, <1>6, <1>7, <1>8 DEF PkInv

LEMMA PkActivates ==
  ASSUME PkInv, PickerC!Activate
  PROVE  PkInv'
<1>1. pk_active = pk_frame.active /\ ~pk_clicked /\ pk_clicked'
  BY DEF PkInv, FrameFollows, PickerC!Activate, PickerC!Click
<1>2. /\ pk_active' \in Tabs \ {pk_active}
      /\ UNCHANGED <<pk_tab, pk_frame, pk_seen, pk_due>>
  BY DEF PickerC!Activate, Tabs
<1>3. PkShape' /\ FrameFollows' /\ OthersTaken'
  BY <1>1, <1>2 DEF PkInv, PkShape, FrameFollows, OthersTaken, PickerC!Past
<1>4. ActiveAsks'
  BY <1>1, <1>2 DEF PkInv, ActiveAsks
<1>5. OthersAsk'
  BY <1>1, <1>2 DEF PkInv, OthersAsk, PickerC!Past
<1> QED BY <1>3, <1>4, <1>5 DEF PkInv

\* The panel takes nothing away that the last render found picked.
LEMMA PkPrunes ==
  ASSUME PkInv, PickerC!PanelLoads
  PROVE  PkInv'
<1> DEFINE pruned == PickerC!Pruned(pk_tab[pk_active].asked,
                                    PickerC!Listed(pk_world) \cup pk_frame.picked)
<1>1. pk_tab' = [pk_tab EXCEPT ![pk_active].asked = pruned]
  BY DEF PickerC!PanelLoads
<1>2. UNCHANGED <<pk_active, pk_frame, pk_seen, pk_due, pk_clicked>>
  BY DEF PickerC!PanelLoads
<1>3. pk_tab[pk_active].asked = pk_frame.picked => pruned = pk_frame.picked
  BY DEF PickerC!Pruned
<1> HIDE DEF pruned
<1>4. pk_tab' = [j \in Tabs |-> IF j = pk_active
                               THEN [sel |-> pk_tab[j].sel, asked |-> pruned, day |-> pk_tab[j].day]
                               ELSE pk_tab[j]]
  BY <1>1 DEF PkInv, PkShape
<1>5. /\ pk_tab'[pk_active].asked = pruned
      /\ \A j \in Tabs \ {pk_active} : pk_tab'[j] = pk_tab[j]
      /\ \A j \in Tabs : pk_tab'[j].sel = pk_tab[j].sel /\ pk_tab'[j].day = pk_tab[j].day
  BY <1>4 DEF PkInv, PkShape
<1>6. PkShape' /\ FrameFollows'
  BY <1>2, <1>4 DEF PkInv, PkShape, FrameFollows
<1>7. OthersTaken'
  BY <1>2, <1>5 DEF PkInv, OthersTaken, PickerC!Past
<1>8. ActiveAsks'
  BY <1>2, <1>3, <1>5 DEF PkInv, ActiveAsks
<1>9. OthersAsk'
  BY <1>2, <1>5 DEF PkInv, OthersAsk, PickerC!Past
<1> QED BY <1>6, <1>7, <1>8, <1>9 DEF PkInv

\* A render takes what is on the screen; the effects have it to do.
LEMMA PkRenders ==
  ASSUME PkInv, PickerC!Render
  PROVE  PkInv'
<1>1. ~pk_due /\ pk_due' /\ pk_seen = pk_frame
  BY DEF PkInv, FrameFollows, PickerC!Render
<1>2. UNCHANGED <<pk_tab, pk_active, pk_seen>>
  BY DEF PickerC!Render
<1>3. pk_frame' = [picked |-> PickerC!Picks, active |-> pk_active,
                   others |-> PickerC!Others, objects |-> pk_objects]
  BY DEF PickerC!Render, PickerC!View
<1>4. PkShape' /\ FrameFollows'
  BY <1>1, <1>2, <1>3 DEF PkInv, PkShape, FrameFollows, PickerC!Render
<1>5. OthersTaken'
  BY <1>2, <1>3 DEF PkInv, PkShape, OthersTaken, PickerC!Others, PickerC!Past, Tabs
<1>6. ActiveAsks'
  BY <1>1, <1>2, <1>3 DEF PkInv, ActiveAsks
<1>7. OthersAsk'
  BY <1>1, <1>2, <1>3 DEF PkInv, OthersAsk, PickerC!Past
<1> QED BY <1>4, <1>5, <1>6, <1>7 DEF PkInv

\* What the effects skip is as they would have it.
LEMMA PkEffects ==
  ASSUME PkInv, PickerC!Effects
  PROVE  PkInv'
<1> DEFINE first  == pk_frame.picked # pk_seen.picked \/ pk_frame.active # pk_seen.active
           second == PickerC!SomeOther(pk_frame.others)
                     /\ (pk_frame.others # pk_seen.others \/ pk_frame.objects # pk_seen.objects)
           found(i) == PickerC!Resolve(pk_tab[i].sel, pk_frame.objects)
<1>1. pk_due /\ ~pk_due' /\ pk_seen' = pk_frame
  BY DEF PickerC!Effects
<1>2. UNCHANGED <<pk_active, pk_frame, pk_clicked>>
  BY DEF PickerC!Effects
<1>3. pk_tab' = [i \in Tabs |->
           CASE i = pk_active /\ first -> [pk_tab[i] EXCEPT !.asked = pk_frame.picked]
             [] i # pk_active /\ second /\ ~PickerC!Past(i) -> [pk_tab[i] EXCEPT !.asked = found(i)]
             [] OTHER -> pk_tab[i]]
  BY Zenon DEF PickerC!Effects, Tabs
<1> HIDE DEF found
<1>4. /\ first => pk_tab'[pk_active].asked = pk_frame.picked
      /\ ~first => pk_tab'[pk_active].asked = pk_tab[pk_active].asked
  BY <1>3 DEF PkInv, PkShape
<1>5. ASSUME NEW i \in Tabs \ {pk_active}, ~PickerC!Past(i)
      PROVE  pk_tab'[i].asked = IF second THEN found(i) ELSE pk_tab[i].asked
  BY <1>3, <1>5 DEF PkInv, PkShape
<1>6. \A i \in Tabs : pk_tab'[i].sel = pk_tab[i].sel /\ pk_tab'[i].day = pk_tab[i].day
  BY <1>3 DEF PkInv, PkShape
<1>7. PkShape'
  <2>1. \A i \in Tabs : pk_tab'[i] = [sel |-> pk_tab'[i].sel, asked |-> pk_tab'[i].asked,
                                      day |-> pk_tab'[i].day]
    BY <1>3 DEF PkInv, PkShape
  <2> QED BY <1>1, <1>2, <1>3, <2>1 DEF PkInv, PkShape, PickerC!Effects
<1>8. FrameFollows'
  BY <1>1, <1>2 DEF PkInv, FrameFollows
<1>9. OthersTaken'
  BY <1>1, <1>2, <1>6 DEF PkInv, OthersTaken, PickerC!Past
<1>10. ActiveAsks'
  BY <1>1, <1>2, <1>4 DEF PkInv, ActiveAsks
<1>11. OthersAsk'
  <2> SUFFICES ASSUME NEW i \in Tabs, i # pk_active, i # pk_frame.active, ~PickerC!Past(i)
               PROVE  pk_tab'[i].asked = PickerC!Resolve(pk_tab[i].sel, pk_frame.objects)
    BY <1>1, <1>2, <1>6 DEF OthersAsk, PickerC!Past
  <2>1. pk_frame.others[i] = {pk_tab[i].sel}
    BY DEF PkInv, OthersTaken
  <2>2. PickerC!SomeOther(pk_frame.others)
    BY <2>1 DEF PickerC!SomeOther, Tabs
  <2>3. CASE second
    BY <2>3, <1>5 DEF found
  <2>4. CASE ~second
    <3>1. pk_frame.others = pk_seen.others /\ pk_frame.objects = pk_seen.objects
      BY <2>2, <2>4
    <3>2. i # pk_seen.active
      BY <2>1, <3>1 DEF PkInv, OthersTaken
    <3>3. pk_tab[i].asked = PickerC!Resolve(pk_tab[i].sel, pk_frame.objects)
      BY <3>1, <3>2 DEF PkInv, OthersAsk
    <3> QED BY <3>3, <2>4, <1>5
  <2> QED BY <2>3, <2>4
<1> QED BY <1>7, <1>8, <1>9, <1>10, <1>11 DEF PkInv

LEMMA PkInvInit == PickerC!Init => PkInv
<1> SUFFICES ASSUME PickerC!Init PROVE PkInv
  OBVIOUS
<1>1. pk_tab = [i \in Tabs |-> [sel |-> PickerC!NoPick, asked |-> {}, day |-> PickerC!None]]
  BY DEF PickerC!Init, Tabs
<1>2. /\ pk_seen = [picked |-> {}, active |-> 1, others |-> PickerC!Others, objects |-> pk_objects]
      /\ pk_frame = pk_seen /\ pk_due = FALSE /\ pk_active = 1
  BY DEF PickerC!Init
<1>3. 1 \in Tabs
  BY DEF Tabs, PickerC!Tabs
<1>4. PkShape /\ FrameFollows /\ ActiveAsks
  BY <1>1, <1>2, <1>3 DEF PkShape, FrameFollows, ActiveAsks
<1>5. OthersTaken
  BY <1>1, <1>2, <1>3 DEF OthersTaken, PickerC!Others, PickerC!Past, Tabs
<1>6. OthersAsk
  <2>1. PickerC!Resolve(PickerC!NoPick, pk_seen.objects) = {}
    BY DEF PickerC!Resolve, PickerC!Members, PickerC!NoPick
  <2> QED BY <1>1, <1>2, <2>1 DEF OthersAsk
<1> QED BY <1>4, <1>5, <1>6 DEF PkInv

LEMMA PkInvNext == PkInv /\ [PickerC!Next]_PickerVars => PkInv'
<1> SUFFICES ASSUME PkInv, [PickerC!Next]_PickerVars
             PROVE  PkInv'
  OBVIOUS
<1> DEFINE Click(sel, day) ==
      /\ pk_tab' = [pk_tab EXCEPT ![pk_active] =
                       [sel |-> sel, asked |-> pk_tab[pk_active].asked, day |-> day]]
      /\ ~pk_clicked /\ pk_clicked' = TRUE
      /\ UNCHANGED <<pk_active, pk_frame, pk_seen, pk_due>>
<1>1. ASSUME NEW sel, NEW day, Click(sel, day) PROVE PkInv'
  BY <1>1, PkClicks
<1>0. pk_tab[pk_active] = [sel |-> pk_tab[pk_active].sel, asked |-> pk_tab[pk_active].asked,
                           day |-> pk_tab[pk_active].day]
  BY DEF PkInv, PkShape
<1>2. ASSUME NEW sel, PickerC!Pick(sel) PROVE
        pk_tab' = [pk_tab EXCEPT ![pk_active] = [sel |-> sel, asked |-> pk_tab[pk_active].asked,
                                                 day |-> pk_tab[pk_active].day]]
  <2>1. [pk_tab[pk_active] EXCEPT !.sel = sel] =
          [sel |-> sel, asked |-> pk_tab[pk_active].asked, day |-> pk_tab[pk_active].day]
    BY <1>0
  <2> QED BY <1>2, <2>1 DEF PickerC!Pick
<1>3. CASE PickerC!ToggleService \/ PickerC!PickTask \/ PickerC!ToggleGroup \/ PickerC!ClearPicks
  <2>1. PICK sel : PickerC!Pick(sel)
    BY <1>3 DEF PickerC!ToggleService, PickerC!PickTask, PickerC!ToggleGroup, PickerC!ClearPicks
  <2>2. Click(sel, pk_tab[pk_active].day)
    BY <1>2, <1>3, <2>1 DEF PickerC!ToggleService, PickerC!PickTask, PickerC!ToggleGroup,
          PickerC!ClearPicks, PickerC!Click
  <2> QED BY <1>1, <2>2
<1>4. CASE PickerC!SetRange
  <2>1. PICK day : pk_tab' = [pk_tab EXCEPT ![pk_active].day = day]
    BY <1>4 DEF PickerC!SetRange
  <2>2. pk_tab' = [pk_tab EXCEPT ![pk_active] =
                     [sel |-> pk_tab[pk_active].sel, asked |-> pk_tab[pk_active].asked,
                      day |-> day]]
    <3>1. [pk_tab[pk_active] EXCEPT !.day = day] =
            [sel |-> pk_tab[pk_active].sel, asked |-> pk_tab[pk_active].asked, day |-> day]
      BY <1>0
    <3> QED BY <2>1, <3>1
  <2>3. Click(pk_tab[pk_active].sel, day)
    BY <1>4, <2>2 DEF PickerC!SetRange, PickerC!Click
  <2> QED BY <1>1, <2>3
<1> HIDE DEF Click
<1>5. CASE \/ PickerC!Moves \/ PickerC!ListArrives \/ PickerC!Cleanup \/ PickerC!AskDay
           \/ PickerC!DayArrives \/ UNCHANGED PickerVars
  <2>1. UNCHANGED <<pk_tab, pk_active, pk_frame, pk_seen, pk_due, pk_clicked>>
    BY <1>5 DEF PickerC!Moves, PickerC!ListArrives, PickerC!Cleanup, PickerC!AskDay,
          PickerC!DayArrives, PickerVars
  <2> QED BY <2>1, PkKeeps
<1> QED BY <1>3, <1>4, <1>5, PkActivates, PkPrunes, PkRenders, PkEffects DEF PickerC!Next

LEMMA PkInvSays == PkInv => PickerC!AskedIsPicked
<1> SUFFICES ASSUME PkInv, PickerC!Settled
             PROVE  /\ \A i \in Tabs : ~PickerC!Past(i) =>
                         pk_tab[i].asked = PickerC!Resolve(pk_tab[i].sel, pk_objects)
                    /\ PickerC!Past(pk_active) =>
                         PickerC!Members(pk_tab[pk_active].sel.services, PickerC!Candidates)
                           \cup pk_tab[pk_active].sel.hashes \subseteq pk_tab[pk_active].asked
  BY DEF PickerC!AskedIsPicked, Tabs
<1>1. /\ pk_frame = pk_seen /\ ~pk_due
      /\ pk_seen.picked = PickerC!Picks /\ pk_seen.active = pk_active
      /\ pk_seen.objects = pk_objects
  BY DEF PickerC!Settled, PickerC!View, PkInv, FrameFollows
<1>2. pk_tab[pk_active].asked = PickerC!Picks
  BY <1>1 DEF PkInv, ActiveAsks
<1>3. ASSUME NEW i \in Tabs, ~PickerC!Past(i)
      PROVE  pk_tab[i].asked = PickerC!Resolve(pk_tab[i].sel, pk_objects)
  <2>1. CASE i = pk_active
    BY <1>2, <1>3, <2>1 DEF PickerC!Picks
  <2>2. CASE i # pk_active
    BY <1>1, <1>3, <2>2 DEF PkInv, OthersAsk
  <2> QED BY <2>1, <2>2
<1>4. PickerC!Past(pk_active) => pk_tab[pk_active].asked =
        PickerC!ResolvePast(pk_tab[pk_active].sel, PickerC!Candidates)
  BY <1>2 DEF PickerC!Picks
<1> QED BY <1>3, <1>4 DEF PickerC!ResolvePast

LEMMA PickerInit == Init => (which = "Picker" => PkInv)
BY PkInvInit DEF Init

LEMMA PickerStep == (which = "Picker" => PkInv) /\ [Next]_allVars => (which = "Picker" => PkInv)'
<1> SUFFICES ASSUME which = "Picker" => PkInv, [Next]_allVars, (which = "Picker")'
             PROVE  PkInv'
  OBVIOUS
<1>1. CASE Next
  BY <1>1, Turns, PkInvNext
<1>2. CASE UNCHANGED allVars
  BY <1>2, PkInvNext DEF allVars
<1> QED BY <1>1, <1>2

\* Once the effects have run every live tab asks for the living tasks of its services
\* and the living ones of its single picks, on the screen or not, and a tab of the
\* past on the screen for all it has picked: whatever is clicked, listed and pruned
\* between a render and its effects (groupSelection.ts, App.tsx:1191-1243).
THEOREM AsksWhatIsPicked == Spec => []PickerTrue
<1>1. (which = "Picker" => PkInv) => PickerTrue
  BY PkInvSays DEF PickerTrue
<1> QED BY PickerInit, PickerStep, <1>1, PTL DEF Spec
-----------------------------------------------------------------------------
(* config.json.                                                            *)

Configs == [AppSettingsC!Parts -> Nat]
Reads  == [kind : {"read"}, part : AppSettingsC!Whole, with : {{}}]
Wholes == [kind : {"whole"}, part : AppSettingsC!Whole, with : {{cfg} : cfg \in Configs}]
Merges == [kind : {"merge"}, part : AppSettingsC!Merged, with : {{value} : value \in Nat}]

ApTypes ==
  /\ ap_mem \in Configs /\ ap_disk \in Configs /\ ap_shown \in Configs
  /\ ap_copy \in Configs /\ ap_told \in Configs
  /\ ap_calls \subseteq Reads \cup Wholes \cup Merges
  /\ ap_changes \in Nat

\* What is reported done is in the memory, and what is on its way is newer than it:
\* so that whoever writes the memory to the file takes nothing back.
McpGrows ==
  /\ ap_told["mcp"] <= ap_mem["mcp"] /\ ap_mem["mcp"] <= ap_changes
  /\ ap_disk["mcp"] <= ap_changes
  /\ \A c \in ap_calls : c.part = "mcp" =>
       ap_mem["mcp"] <= AppSettingsC!The(c) /\ AppSettingsC!The(c) <= ap_changes

ApInv == ApTypes /\ McpGrows /\ AppSettingsC!McpKept

LEMMA PartsAre ==
  /\ "mcp" \in AppSettingsC!Parts /\ "form" \in AppSettingsC!Parts
  /\ "mcp" \in AppSettingsC!Merged /\ "mcp" \notin AppSettingsC!Whole
  /\ "form" \in AppSettingsC!Whole
  /\ AppSettingsC!Parts = AppSettingsC!Merged \cup AppSettingsC!Whole
BY DEF AppSettingsC!Parts, AppSettingsC!Merged, AppSettingsC!Whole

LEMMA TheIs ==
  /\ \A c \in Wholes : AppSettingsC!The(c) \in Configs
  /\ \A c \in Merges : AppSettingsC!The(c) \in Nat
  /\ \A p, v : AppSettingsC!The(AppSettingsC!MergeCall(p, v)) = v
BY DEF Wholes, Merges, AppSettingsC!The, AppSettingsC!MergeCall

LEMMA CallsAre ==
  /\ \A p \in AppSettingsC!Whole : AppSettingsC!ReadCall(p) \in Reads
  /\ \A p \in AppSettingsC!Whole, cfg \in Configs : AppSettingsC!WholeCall(p, cfg) \in Wholes
  /\ \A p \in AppSettingsC!Merged, v \in Nat : AppSettingsC!MergeCall(p, v) \in Merges
BY DEF Reads, Wholes, Merges, AppSettingsC!ReadCall, AppSettingsC!WholeCall,
       AppSettingsC!MergeCall

LEMMA KindsAre ==
  ASSUME ApTypes, NEW c \in ap_calls
  PROVE  /\ c.part \in AppSettingsC!Parts
         /\ c.kind = "read" => c \in Reads /\ c.part \in AppSettingsC!Whole
         /\ c.kind = "whole" => c \in Wholes /\ c.part \in AppSettingsC!Whole
         /\ c.kind = "merge" => c \in Merges /\ c.part \in AppSettingsC!Merged
BY PartsAre DEF ApTypes, Reads, Wholes, Merges

LEMMA ToldIs ==
  ASSUME ApTypes, NEW part \in AppSettingsC!Parts, NEW value \in Nat,
         AppSettingsC!Tell(part, value)
  PROVE  /\ ap_told' \in Configs
         /\ part # "mcp" => ap_told'["mcp"] = ap_told["mcp"]
         /\ part = "mcp" /\ ap_told["mcp"] <= value => ap_told'["mcp"] = value
BY PartsAre DEF ApTypes, AppSettingsC!Tell, Configs

\* A call that has just been made.
LEMMA Calling ==
  ASSUME ApInv, NEW c \in Reads \cup Wholes \cup Merges,
         c.part = "mcp" => AppSettingsC!The(c) = ap_changes + 1,
         ap_calls' = ap_calls \cup {c}, ap_changes' = ap_changes + 1,
         ap_shown' \in Configs,
         UNCHANGED <<ap_mem, ap_disk, ap_copy, ap_told>>
  PROVE  ApInv'
<1>1. ap_mem["mcp"] \in Nat /\ ap_disk["mcp"] \in Nat /\ ap_told["mcp"] \in Nat
  BY PartsAre DEF ApInv, ApTypes, Configs
<1>2. \A d \in ap_calls : d.part = "mcp" => AppSettingsC!The(d) \in Nat
  BY PartsAre, TheIs, KindsAre DEF ApInv, ApTypes, Reads, Wholes, Merges
<1> QED BY <1>1, <1>2 DEF ApInv, ApTypes, McpGrows, AppSettingsC!McpKept

LEMMA ApChange == ASSUME ApInv, AppSettingsC!Change PROVE ApInv'
<1>1. PICK p \in AppSettingsC!Parts :
        /\ ap_shown' = [ap_shown EXCEPT ![p] = ap_changes + 1]
        /\ ap_calls' = ap_calls \cup {IF p \in AppSettingsC!Merged
                                      THEN AppSettingsC!MergeCall(p, ap_changes + 1)
                                      ELSE AppSettingsC!ReadCall(p)}
  BY DEF AppSettingsC!Change
<1>2. /\ ap_changes' = ap_changes + 1 /\ ap_changes + 1 \in Nat
      /\ UNCHANGED <<ap_mem, ap_disk, ap_copy, ap_told>>
  BY DEF AppSettingsC!Change, ApInv, ApTypes
<1>3. ap_shown' \in Configs
  BY <1>1, <1>2 DEF ApInv, ApTypes, Configs
<1>4. CASE p \in AppSettingsC!Merged
  BY <1>1, <1>2, <1>3, <1>4, CallsAre, TheIs, Calling
<1>5. CASE p \notin AppSettingsC!Merged
  <2>1. p \in AppSettingsC!Whole /\ AppSettingsC!ReadCall(p).part # "mcp"
    BY <1>5, PartsAre DEF AppSettingsC!ReadCall
  <2> QED BY <1>1, <1>2, <1>3, <1>5, <2>1, CallsAre, Calling
<1> QED BY <1>4, <1>5

LEMMA ApGetConfig == ASSUME ApInv, AppSettingsC!GetConfig PROVE ApInv'
<1>1. PICK c \in ap_calls :
        /\ c.kind = "read"
        /\ ap_calls' = (ap_calls \ {c}) \cup {AppSettingsC!WholeCall(c.part,
                          [ap_mem EXCEPT ![c.part] = ap_shown[c.part]])}
  BY DEF AppSettingsC!GetConfig
<1>2. UNCHANGED <<ap_mem, ap_disk, ap_shown, ap_copy, ap_told, ap_changes>>
  BY DEF AppSettingsC!GetConfig
<1>3. c.part \in AppSettingsC!Whole
  BY <1>1, KindsAre DEF ApInv
<1>4. [ap_mem EXCEPT ![c.part] = ap_shown[c.part]] \in Configs
  BY <1>3, PartsAre DEF ApInv, ApTypes, Configs
<1> DEFINE new == AppSettingsC!WholeCall(c.part, [ap_mem EXCEPT ![c.part] = ap_shown[c.part]])
<1>5. new \in Wholes
  BY <1>3, <1>4, CallsAre
<1>6. new.part # "mcp"
  BY <1>3, PartsAre DEF AppSettingsC!WholeCall
<1> HIDE DEF new
<1>7. ApTypes'
  BY <1>1, <1>2, <1>5 DEF new, ApInv, ApTypes
<1>8. McpGrows'
  BY <1>1, <1>2, <1>6 DEF new, ApInv, McpGrows
<1> QED BY <1>2, <1>7, <1>8 DEF ApInv, AppSettingsC!McpKept

LEMMA ApDialogSaves == ASSUME ApInv, AppSettingsC!DialogSaves PROVE ApInv'
<1> DEFINE new == AppSettingsC!WholeCall("form", [ap_copy EXCEPT !["form"] = ap_changes + 1])
<1>1. /\ ap_changes' = ap_changes + 1 /\ ap_changes + 1 \in Nat
      /\ ap_calls' = ap_calls \cup {new}
      /\ UNCHANGED <<ap_mem, ap_disk, ap_shown, ap_copy, ap_told>>
  BY DEF AppSettingsC!DialogSaves, ApInv, ApTypes
<1>2. [ap_copy EXCEPT !["form"] = ap_changes + 1] \in Configs
  BY <1>1 DEF ApInv, ApTypes, Configs
<1>3. new \in Wholes
  BY <1>2, CallsAre, PartsAre
<1>4. new.part # "mcp"
  BY DEF AppSettingsC!WholeCall
<1>5. ap_shown' \in Configs
  BY <1>1 DEF ApInv, ApTypes
<1> HIDE DEF new
<1> QED BY <1>1, <1>3, <1>4, <1>5, Calling

\* The file is written with the memory's own AI connection, whatever was sent.
LEMMA ApSaveConfig == ASSUME ApInv, AppSettingsC!SaveConfig PROVE ApInv'
<1>1. PICK c \in ap_calls :
        /\ c.kind = "whole"
        /\ ap_calls' = ap_calls \ {c}
        /\ \/ /\ ap_disk' = AppSettingsC!Kept(AppSettingsC!The(c)) /\ ap_mem' = ap_disk'
              /\ AppSettingsC!Tell(c.part, AppSettingsC!The(c)[c.part])
              /\ ap_copy' \in {AppSettingsC!The(c), ap_copy}
              /\ ap_shown' \in {[ap_shown EXCEPT !["form"] = AppSettingsC!The(c)["form"]], ap_shown}
           \/ UNCHANGED <<ap_mem, ap_disk, ap_told, ap_copy, ap_shown>>
        /\ UNCHANGED ap_changes
  BY DEF AppSettingsC!SaveConfig
<1>2. c \in Wholes /\ c.part \in AppSettingsC!Whole /\ AppSettingsC!The(c) \in Configs
  BY <1>1, KindsAre, TheIs DEF ApInv
<1> DEFINE cfg == AppSettingsC!The(c)
<1>3. cfg[c.part] \in Nat /\ cfg["form"] \in Nat
  BY <1>2, PartsAre DEF Configs
<1>4. /\ AppSettingsC!Kept(cfg) \in Configs
      /\ AppSettingsC!Kept(cfg)["mcp"] = ap_mem["mcp"]
  BY <1>2, PartsAre DEF ApInv, ApTypes, Configs, AppSettingsC!Kept
<1>5. [ap_shown EXCEPT !["form"] = cfg["form"]] \in Configs
  BY <1>3 DEF ApInv, ApTypes, Configs
<1> HIDE DEF cfg
<1>6. CASE UNCHANGED <<ap_mem, ap_disk, ap_told, ap_copy, ap_shown>>
  BY <1>1, <1>6 DEF ApInv, ApTypes, McpGrows, AppSettingsC!McpKept
<1>7. CASE /\ ap_disk' = AppSettingsC!Kept(cfg) /\ ap_mem' = ap_disk'
           /\ AppSettingsC!Tell(c.part, cfg[c.part])
           /\ ap_copy' \in {cfg, ap_copy}
           /\ ap_shown' \in {[ap_shown EXCEPT !["form"] = cfg["form"]], ap_shown}
  <2>1. ap_told' \in Configs /\ ap_told'["mcp"] = ap_told["mcp"]
    BY <1>2, <1>3, <1>7, PartsAre, ToldIs DEF ApInv
  <2>2. ApTypes'
    BY <1>1, <1>2, <1>4, <1>5, <1>7, <2>1 DEF ApInv, ApTypes, cfg
  <2> QED BY <1>1, <1>4, <1>7, <2>1, <2>2 DEF ApInv, McpGrows, AppSettingsC!McpKept
<1> QED BY <1>1, <1>6, <1>7 DEF cfg

LEMMA ApSavePart == ASSUME ApInv, AppSettingsC!SavePart PROVE ApInv'
<1>1. PICK c \in ap_calls :
        /\ c.kind = "merge"
        /\ \A d \in ap_calls : d.kind = "merge" /\ d.part = c.part =>
             AppSettingsC!The(c) <= AppSettingsC!The(d)
        /\ ap_calls' = ap_calls \ {c}
        /\ ap_mem' = [ap_mem EXCEPT ![c.part] = AppSettingsC!The(c)]
        /\ \/ ap_disk' = ap_mem' /\ AppSettingsC!Tell(c.part, AppSettingsC!The(c))
           \/ UNCHANGED <<ap_disk, ap_told>>
        /\ UNCHANGED <<ap_shown, ap_copy, ap_changes>>
  BY DEF AppSettingsC!SavePart, AppSettingsC!Merge
<1> DEFINE v == AppSettingsC!The(c)
<1>2. c \in Merges /\ c.part \in AppSettingsC!Parts /\ v \in Nat
  BY <1>1, KindsAre, TheIs DEF ApInv
<1> HIDE DEF v
<1>3. /\ ap_mem["mcp"] \in Nat /\ ap_disk["mcp"] \in Nat /\ ap_told["mcp"] \in Nat
      /\ ap_changes \in Nat
  BY PartsAre DEF ApInv, ApTypes, Configs
<1>4. /\ ap_mem' \in Configs
      /\ c.part # "mcp" => ap_mem'["mcp"] = ap_mem["mcp"]
      /\ c.part = "mcp" => ap_mem'["mcp"] = v
  BY <1>1, <1>2, PartsAre DEF ApInv, ApTypes, Configs, v
<1>5. c.part = "mcp" => ap_mem["mcp"] <= v /\ v <= ap_changes
  BY DEF ApInv, McpGrows, v
<1>6. /\ ap_told' \in Configs /\ ap_disk' \in Configs
      /\ \/ ap_disk' = ap_mem' /\ ap_told'["mcp"] = (IF c.part = "mcp" THEN v ELSE ap_told["mcp"])
         \/ UNCHANGED <<ap_disk, ap_told>>
  <2>1. c.part = "mcp" => ap_told["mcp"] <= v
    BY <1>2, <1>3, <1>5 DEF ApInv, McpGrows
  <2>2. CASE UNCHANGED <<ap_disk, ap_told>>
    BY <2>2 DEF ApInv, ApTypes
  <2>3. CASE ap_disk' = ap_mem' /\ AppSettingsC!Tell(c.part, v)
    BY <1>2, <1>4, <2>1, <2>3, ToldIs DEF ApInv
  <2> QED BY <1>1, <2>2, <2>3 DEF v
<1>7. \A d \in ap_calls' : d.part = "mcp" =>
        ap_mem'["mcp"] <= AppSettingsC!The(d) /\ AppSettingsC!The(d) <= ap_changes
  <2> TAKE d \in ap_calls'
  <2> HAVE d.part = "mcp"
  <2>1. d \in ap_calls /\ d.kind = "merge"
    BY <1>1, PartsAre, KindsAre DEF ApInv, ApTypes, Reads, Wholes, Merges
  <2>2. ap_mem["mcp"] <= AppSettingsC!The(d) /\ AppSettingsC!The(d) <= ap_changes
    BY <2>1 DEF ApInv, McpGrows
  <2> QED BY <1>1, <1>4, <2>1, <2>2 DEF v
<1>8. ApTypes'
  BY <1>1, <1>4, <1>6 DEF ApInv, ApTypes
<1>9. /\ ap_told'["mcp"] <= ap_mem'["mcp"] /\ ap_mem'["mcp"] <= ap_changes
      /\ ap_disk'["mcp"] <= ap_changes /\ ap_disk'["mcp"] >= ap_told'["mcp"]
  <2>1. /\ ap_told["mcp"] <= ap_mem["mcp"] /\ ap_mem["mcp"] <= ap_changes
        /\ ap_disk["mcp"] <= ap_changes /\ ap_disk["mcp"] >= ap_told["mcp"]
    BY DEF ApInv, McpGrows, AppSettingsC!McpKept
  <2>2. CASE c.part = "mcp"
    BY <1>2, <1>3, <1>4, <1>5, <1>6, <2>1, <2>2
  <2>3. CASE c.part # "mcp"
    BY <1>2, <1>3, <1>4, <1>6, <2>1, <2>3
  <2> QED BY <2>2, <2>3
<1>10. McpGrows' /\ AppSettingsC!McpKept'
  BY <1>1, <1>7, <1>9 DEF McpGrows, AppSettingsC!McpKept
<1> QED BY <1>8, <1>10 DEF ApInv

LEMMA ApInvInit == AppSettingsC!Init => ApInv
BY PartsAre DEF AppSettingsC!Init, ApInv, ApTypes, McpGrows, AppSettingsC!McpKept, Configs

LEMMA ApInvNext == ApInv /\ [AppSettingsC!Next]_AppSettingsVars => ApInv'
<1> SUFFICES ASSUME ApInv, [AppSettingsC!Next]_AppSettingsVars
             PROVE  ApInv'
  OBVIOUS
<1>1. CASE AppSettingsC!OpenDialog \/ AppSettingsC!CloseDialog \/ UNCHANGED AppSettingsVars
  BY <1>1 DEF AppSettingsC!OpenDialog, AppSettingsC!CloseDialog, AppSettingsVars, ApInv, ApTypes,
        McpGrows, AppSettingsC!McpKept
<1>2. CASE AppSettingsC!DialogReads
  BY <1>2 DEF AppSettingsC!DialogReads, ApInv, ApTypes, McpGrows, AppSettingsC!McpKept
<1>3. CASE AppSettingsC!Restart
  BY <1>3 DEF AppSettingsC!Restart, ApInv, ApTypes, McpGrows, AppSettingsC!McpKept
<1> QED BY <1>1, <1>2, <1>3, ApChange, ApGetConfig, ApDialogSaves, ApSaveConfig, ApSavePart
        DEF AppSettingsC!Next

LEMMA SettingsInit == Init => (which = "AppSettings" => ApInv)
BY ApInvInit DEF Init

LEMMA SettingsStep ==
  (which = "AppSettings" => ApInv) /\ [Next]_allVars => (which = "AppSettings" => ApInv)'
<1> SUFFICES ASSUME which = "AppSettings" => ApInv, [Next]_allVars, (which = "AppSettings")'
             PROVE  ApInv'
  OBVIOUS
<1>1. CASE Next
  BY <1>1, Turns, ApInvNext
<1>2. CASE UNCHANGED allVars
  BY <1>2, ApInvNext DEF allVars
<1> QED BY <1>1, <1>2

\* A change of the AI connection that was reported done stays in the file, whatever
\* copies of the configuration are on their way, whichever writes fail and whenever
\* the application starts again (commands.rs:2339-2353).  The half of SettingsTrue
\* that is about the file.
THEOREM ReportedIsKept == Spec => [](which = "AppSettings" => AppSettingsC!McpKept)
<1>1. (which = "AppSettings" => ApInv) => (which = "AppSettings" => AppSettingsC!McpKept)
  BY DEF ApInv
<1> QED BY SettingsInit, SettingsStep, <1>1, PTL DEF Spec


-----------------------------------------------------------------------------
(* The tabs of opened transactions.                                        *)

LEMMA DtListsAre ==
  /\ \A s, K : DetailsC!Only(s, K) = Only(s, K)
  /\ \A s : DetailsC!ToSet(s) = Entries(s)
<1>1. ASSUME NEW s, NEW K PROVE DetailsC!Only(s, K) = Only(s, K)
  BY DEF DetailsC!Only, Only
<1>2. ASSUME NEW s PROVE DetailsC!ToSet(s) = Entries(s)
  BY DEF DetailsC!ToSet, Entries
<1> QED BY <1>1, <1>2

DtKeys == DetailsC!Keys
DtLives == {DetailsC!Live(x) : x \in DtTxids}
DtTab == [key : DtKeys, loading : BOOLEAN, err : BOOLEAN, prof : BOOLEAN]
OneEach(ts) == \A i, j \in DOMAIN ts : ts[i].key = ts[j].key => i = j

DtTabs == /\ dt_tabs \in Seq(DtTab) /\ OneEach(dt_tabs) /\ Len(dt_tabs) <= DtMaxTabs
          /\ dt_active \in DetailsC!KeysOf(dt_tabs) \cup {DetailsC!None}
\* Every open tab was seen once, and nothing else.
DtSeen == /\ dt_seen \in Seq(DtKeys) /\ Distinct(dt_seen)
          /\ Entries(dt_seen) = DetailsC!KeysOf(dt_tabs)
DtLoads == /\ dt_loads \subseteq [key : DtLives, id : Nat] /\ dt_spawned \in Nat
           /\ dt_asked \subseteq [key : DtLives, restore : BOOLEAN]
           /\ dt_opening \in {DetailsC!Saved(x) : x \in DtTxids} \cup {DetailsC!None}
           /\ dt_pending \in Seq(DtTxids) /\ dt_file \in Seq(DtTxids)
DtInv == DtTabs /\ DtSeen /\ DtLoads /\ DetailsC!SpinsTruly

LEMMA KeysAre ==
  /\ \A x, y : DetailsC!Live(x) # DetailsC!Saved(y) /\ DetailsC!Live(x) # DetailsC!None
               /\ DetailsC!Saved(y) # DetailsC!None
  /\ \A x : DetailsC!Live(x).kind = "txid" /\ DetailsC!Live(x).id = x
  /\ \A x \in DtTxids : DetailsC!Live(x) \in DtKeys /\ DetailsC!Saved(x) \in DtKeys
                        /\ DetailsC!Live(x) \in DtLives
  /\ \A k \in DtKeys : k # DetailsC!None
  /\ \A k \in DtKeys : k.kind = "txid" => k.id \in DtTxids
  /\ \A k \in DtLives : k \in DtKeys /\ k.kind = "txid" /\ k.id \in DtTxids
                        /\ k = DetailsC!Live(k.id)
<1>1. /\ \A x, y : DetailsC!Live(x) # DetailsC!Saved(y) /\ DetailsC!Live(x) # DetailsC!None
               /\ DetailsC!Saved(y) # DetailsC!None
  BY DEF DetailsC!Live, DetailsC!Saved, DetailsC!None
<1>2. \A x : /\ DetailsC!Live(x).kind = "txid" /\ DetailsC!Live(x).id = x
             /\ DetailsC!Saved(x).kind = "file"
  BY DEF DetailsC!Live, DetailsC!Saved
<1>3. \A k : k \in DtKeys <=> \E x \in DtTxids : k = DetailsC!Live(x) \/ k = DetailsC!Saved(x)
  BY Zenon DEF DtKeys, DetailsC!Keys
<1>4. \A k : k \in DtLives <=> \E x \in DtTxids : k = DetailsC!Live(x)
  BY Zenon DEF DtLives
<1>5. \A x \in DtTxids : DetailsC!Live(x) \in DtKeys /\ DetailsC!Saved(x) \in DtKeys
                        /\ DetailsC!Live(x) \in DtLives
  BY <1>3, <1>4
<1>6. \A k \in DtKeys : k # DetailsC!None
  BY <1>1, <1>3
<1>7. \A k \in DtKeys : k.kind = "txid" => k.id \in DtTxids
  <2> SUFFICES ASSUME NEW k \in DtKeys, k.kind = "txid" PROVE k.id \in DtTxids
    OBVIOUS
  <2>1. PICK x \in DtTxids : k = DetailsC!Live(x) \/ k = DetailsC!Saved(x)
    BY <1>3
  <2>2. k = DetailsC!Live(x)
    BY <2>1, <1>2
  <2> QED BY <2>2, <1>2
<1>8. \A k \in DtLives : k \in DtKeys /\ k.kind = "txid" /\ k.id \in DtTxids
                        /\ k = DetailsC!Live(k.id)
  <2> SUFFICES ASSUME NEW k \in DtLives
               PROVE  k \in DtKeys /\ k.kind = "txid" /\ k.id \in DtTxids /\ k = DetailsC!Live(k.id)
    OBVIOUS
  <2>1. PICK x \in DtTxids : k = DetailsC!Live(x)
    BY <1>4
  <2>2. k.id = x /\ k.kind = "txid"
    BY <2>1, <1>2
  <2> QED BY <2>1, <2>2, <1>5
<1> QED BY <1>1, <1>2, <1>5, <1>6, <1>7, <1>8

LEMMA TabIs ==
  ASSUME NEW ts \in Seq(DtTab), NEW i \in DOMAIN ts
  PROVE  ts[i] \in DtTab /\ ts[i].key \in DtKeys
<1>1. ts[i] \in DtTab
  OBVIOUS
<1> QED BY <1>1 DEF DtTab

LEMMA KeysOfIs ==
  ASSUME NEW ts \in Seq(DtTab)
  PROVE  /\ DetailsC!KeysOf(ts) \subseteq DtKeys
         /\ OneEach(ts) => /\ Cardinality(DetailsC!KeysOf(ts)) = Len(ts) /\ Distinct(ts)
                           /\ IsFiniteSet(DetailsC!KeysOf(ts))
<1>1. DetailsC!KeysOf(ts) \subseteq DtKeys
  BY TabIs DEF DetailsC!KeysOf
<1>2. ASSUME OneEach(ts)
      PROVE  /\ Cardinality(DetailsC!KeysOf(ts)) = Len(ts) /\ Distinct(ts)
             /\ IsFiniteSet(DetailsC!KeysOf(ts))
  <2> DEFINE ks == [i \in DOMAIN ts |-> ts[i].key]
  <2>1. Len(ks) = Len(ts) /\ DOMAIN ks = DOMAIN ts /\ ks \in Seq(DtKeys)
    <3>1. Len(ts) \in Nat /\ DOMAIN ts = 1..Len(ts) /\ \A i \in DOMAIN ts : ts[i].key \in DtKeys
      BY TabIs
    <3> QED BY <3>1
  <2>2. Distinct(ks)
    BY <1>2 DEF Distinct, OneEach
  <2>3. Entries(ks) = DetailsC!KeysOf(ts)
    BY DEF Entries, DetailsC!KeysOf
  <2> HIDE DEF ks
  <2>4. IsFiniteSet(Entries(ks)) /\ Cardinality(Entries(ks)) = Len(ks)
    BY <2>1, <2>2, CountDistinct
  <2>5. Distinct(ts)
    BY <1>2 DEF Distinct, OneEach
  <2> QED BY <2>1, <2>3, <2>4, <2>5
<1> QED BY <1>1, <1>2

\* Tabs filtered by their keys.
LEMMA TabsKept ==
  ASSUME NEW ts \in Seq(DtTab), OneEach(ts), NEW K,
         NEW f, f = Only(ts, {t \in Entries(ts) : t.key \in K})
  PROVE  /\ f \in Seq(DtTab) /\ OneEach(f)
         /\ DetailsC!KeysOf(f) = DetailsC!KeysOf(ts) \cap K
         /\ Entries(f) \subseteq Entries(ts)
<1>1. /\ f \in Seq(DtTab) /\ Entries(f) = {t \in Entries(ts) : t.key \in K}
      /\ Distinct(ts) => Distinct(f)
  BY OnlyIs
<1>2. Distinct(f)
  BY <1>1, KeysOfIs
<1>3. OneEach(f)
  <2> SUFFICES ASSUME NEW i \in DOMAIN f, NEW j \in DOMAIN f, f[i].key = f[j].key PROVE i = j
    BY DEF OneEach
  <2>1. f[i] \in Entries(ts) /\ f[j] \in Entries(ts)
    BY <1>1 DEF Entries
  <2>2. f[i] = f[j]
    BY <2>1 DEF Entries, OneEach
  <2> QED BY <2>2, <1>2 DEF Distinct
<1>4. DetailsC!KeysOf(f) = {t.key : t \in Entries(f)}
      /\ DetailsC!KeysOf(ts) = {t.key : t \in Entries(ts)}
  BY DEF Entries, DetailsC!KeysOf
<1> QED BY <1>1, <1>3, <1>4

LEMMA WithoutIs ==
  ASSUME NEW ts \in Seq(DtTab), OneEach(ts), NEW k
  PROVE  /\ DetailsC!Without(ts, k) \in Seq(DtTab) /\ OneEach(DetailsC!Without(ts, k))
         /\ DetailsC!KeysOf(DetailsC!Without(ts, k)) = DetailsC!KeysOf(ts) \ {k}
         /\ Entries(DetailsC!Without(ts, k)) \subseteq Entries(ts)
         /\ k \in DetailsC!KeysOf(ts) => Len(DetailsC!Without(ts, k)) = Len(ts) - 1
         /\ k \notin DetailsC!KeysOf(ts) => Len(DetailsC!Without(ts, k)) = Len(ts)
<1> DEFINE f == DetailsC!Without(ts, k)
           K == DetailsC!KeysOf(ts) \ {k}
<1>1. f = Only(ts, {t \in Entries(ts) : t.key \in K})
  <2>1. {t \in Entries(ts) : t.key # k} = {t \in Entries(ts) : t.key \in K}
    BY DEF Entries, DetailsC!KeysOf
  <2> QED BY <2>1, DtListsAre DEF DetailsC!Without
<1> HIDE DEF f
<1>2. /\ f \in Seq(DtTab) /\ OneEach(f) /\ Entries(f) \subseteq Entries(ts)
      /\ DetailsC!KeysOf(f) = DetailsC!KeysOf(ts) \cap K
  BY <1>1, TabsKept
<1>3. DetailsC!KeysOf(f) = DetailsC!KeysOf(ts) \ {k}
  BY <1>2
<1>4. /\ Cardinality(DetailsC!KeysOf(ts)) = Len(ts) /\ IsFiniteSet(DetailsC!KeysOf(ts))
      /\ Cardinality(DetailsC!KeysOf(f)) = Len(f)
  BY <1>2, KeysOfIs
<1>5. k \in DetailsC!KeysOf(ts) => Len(f) = Len(ts) - 1
  BY <1>3, <1>4, FS_RemoveElement
<1>6. k \notin DetailsC!KeysOf(ts) => Len(f) = Len(ts)
  <2>1. k \notin DetailsC!KeysOf(ts) => DetailsC!KeysOf(f) = DetailsC!KeysOf(ts)
    BY <1>3
  <2> QED BY <2>1, <1>4
<1> QED BY <1>2, <1>3, <1>5, <1>6 DEF f

\* A viewed tab is the last of the seen.
LEMMA TouchIs ==
  ASSUME NEW s \in Seq(DtKeys), Distinct(s), NEW k \in DtKeys
  PROVE  /\ DetailsC!Touch(s, k) \in Seq(DtKeys) /\ Distinct(DetailsC!Touch(s, k))
         /\ Entries(DetailsC!Touch(s, k)) = Entries(s) \cup {k}
<1> DEFINE f == Only(s, Entries(s) \ {k})
<1>1. DetailsC!Touch(s, k) = Append(f, k)
  BY DtListsAre DEF DetailsC!Touch
<1>2. f \in Seq(DtKeys) /\ Distinct(f) /\ Entries(f) = Entries(s) \ {k}
  BY OnlyIs
<1> HIDE DEF f
<1>3. /\ Append(f, k) \in Seq(DtKeys) /\ Entries(Append(f, k)) = Entries(f) \cup {k}
      /\ Distinct(Append(f, k))
  BY <1>2, AppendIs
<1> QED BY <1>1, <1>2, <1>3

-----------------------------------------------------------------------------
(* What each action does to the tabs.                                      *)

\* Room is made for one more, and never in the place of the viewed tab.
LEMMA RoomIs ==
  ASSUME DtTabs, DtSeen
  PROVE  /\ DetailsC!Room(dt_tabs) \in Seq(DtTab) /\ OneEach(DetailsC!Room(dt_tabs))
         /\ Len(DetailsC!Room(dt_tabs)) < DtMaxTabs
         /\ Entries(DetailsC!Room(dt_tabs)) \subseteq Entries(dt_tabs)
         /\ DetailsC!KeysOf(DetailsC!Room(dt_tabs)) \subseteq DetailsC!KeysOf(dt_tabs)
         /\ dt_active \in DetailsC!KeysOf(dt_tabs)
              => dt_active \in DetailsC!KeysOf(DetailsC!Room(dt_tabs))
<1> DEFINE others == Only(dt_seen, Entries(dt_seen) \ {dt_active})
           keys == DetailsC!KeysOf(dt_tabs)
<1>1. /\ others \in Seq(DtKeys) /\ Entries(others) = keys \ {dt_active}
  <2>1. others \in Seq(DtKeys) /\ Entries(others) = Entries(dt_seen) \cap (Entries(dt_seen) \ {dt_active})
    BY OnlyIs DEF DtSeen
  <2> HIDE DEF others
  <2> QED BY <2>1 DEF DtSeen
<1>2. DetailsC!Room(dt_tabs) = IF Len(dt_tabs) >= DtMaxTabs /\ others # <<>>
                               THEN DetailsC!Without(dt_tabs, Head(others)) ELSE dt_tabs
  BY DtListsAre DEF DetailsC!Room
<1> HIDE DEF others
<1>3. Len(dt_tabs) \in Nat /\ DtMaxTabs \in Nat /\ DtMaxTabs >= 2 /\ Len(dt_tabs) <= DtMaxTabs
      /\ dt_tabs \in Seq(DtTab) /\ OneEach(dt_tabs)
  BY WindowScreensAssumption DEF DtTabs
<1>4. CASE Len(dt_tabs) >= DtMaxTabs /\ others # <<>>
  <2>1. Head(others) \in Entries(others)
    <3>1. Len(others) \in Nat /\ Len(others) # 0 /\ DOMAIN others = 1..Len(others)
      BY <1>1, <1>4
    <3>2. Head(others) = others[1] /\ 1 \in DOMAIN others
      BY <1>1, <1>4, <3>1
    <3> QED BY <3>2 DEF Entries
  <2> DEFINE k == Head(others)
             f == DetailsC!Without(dt_tabs, k)
  <2>2. k \in keys /\ k # dt_active
    BY <1>1, <2>1
  <2>3. /\ f \in Seq(DtTab) /\ OneEach(f) /\ DetailsC!KeysOf(f) = keys \ {k}
        /\ Entries(f) \subseteq Entries(dt_tabs) /\ Len(f) = Len(dt_tabs) - 1
    <3> HIDE DEF k
    <3> QED BY <1>3, <2>2, WithoutIs
  <2>4. DetailsC!Room(dt_tabs) = f
    BY <1>2, <1>4
  <2> HIDE DEF f, k
  <2> QED BY <1>3, <2>2, <2>3, <2>4
<1>5. CASE Len(dt_tabs) < DtMaxTabs
  BY <1>2, <1>3, <1>5
<1>6. CASE others = <<>>
  <2>1. keys \subseteq {dt_active}
    BY <1>1, <1>6, NoEntries
  <2>2. Cardinality(keys) <= 1
    <3>1. IsFiniteSet({dt_active}) /\ Cardinality({dt_active}) = 1
      BY FS_Singleton
    <3> QED BY <2>1, <3>1, FS_Subset
  <2>3. Cardinality(keys) = Len(dt_tabs)
    BY <1>3, KeysOfIs
  <2>4. Len(dt_tabs) < DtMaxTabs
    BY <1>3, <2>2, <2>3
  <2> QED BY <2>4, <1>5
<1> QED BY <1>3, <1>4, <1>5, <1>6

LEMMA ShowIs ==
  ASSUME DtTabs, DtSeen, NEW k \in DtKeys, NEW loading \in BOOLEAN, DetailsC!Show(k, loading)
  PROVE  /\ DtTabs' /\ DtSeen'
         /\ dt_active # DetailsC!None => dt_active \in DetailsC!KeysOf(dt_tabs')
         /\ \A t \in Entries(dt_tabs') : \/ t \in Entries(dt_tabs)
                                         \/ /\ k \notin DetailsC!KeysOf(dt_tabs)
                                            /\ t.key = k /\ t.loading = loading
<1>1. dt_tabs \in Seq(DtTab) /\ OneEach(dt_tabs) /\ Len(dt_tabs) <= DtMaxTabs
      /\ dt_active \in DetailsC!KeysOf(dt_tabs) \cup {DetailsC!None}
  BY DEF DtTabs
<1>2. /\ dt_active' = k
      /\ dt_tabs' = IF k \in DetailsC!KeysOf(dt_tabs) THEN dt_tabs
                    ELSE Append(DetailsC!Room(dt_tabs), DetailsC!Tab(k, loading))
      /\ dt_seen' = DetailsC!Touch(Only(dt_seen, DetailsC!KeysOf(dt_tabs')), k)
  BY DtListsAre DEF DetailsC!Show
<1>3. /\ dt_tabs' \in Seq(DtTab) /\ OneEach(dt_tabs') /\ Len(dt_tabs') <= DtMaxTabs
      /\ k \in DetailsC!KeysOf(dt_tabs')
      /\ dt_active # DetailsC!None => dt_active \in DetailsC!KeysOf(dt_tabs')
      /\ DetailsC!KeysOf(dt_tabs') \subseteq DetailsC!KeysOf(dt_tabs) \cup {k}
      /\ \A t \in Entries(dt_tabs') : \/ t \in Entries(dt_tabs)
                                      \/ /\ k \notin DetailsC!KeysOf(dt_tabs)
                                         /\ t.key = k /\ t.loading = loading
  <2>1. CASE k \in DetailsC!KeysOf(dt_tabs)
    BY <2>1, <1>1, <1>2
  <2>2. CASE k \notin DetailsC!KeysOf(dt_tabs)
    <3> DEFINE room == DetailsC!Room(dt_tabs)
               new == DetailsC!Tab(k, loading)
    <3>1. /\ room \in Seq(DtTab) /\ OneEach(room) /\ Len(room) < DtMaxTabs
          /\ Entries(room) \subseteq Entries(dt_tabs)
          /\ DetailsC!KeysOf(room) \subseteq DetailsC!KeysOf(dt_tabs)
          /\ dt_active \in DetailsC!KeysOf(dt_tabs) => dt_active \in DetailsC!KeysOf(room)
      BY RoomIs
    <3>2. new \in DtTab /\ new.key = k /\ new.loading = loading
      BY DEF DetailsC!Tab, DtTab
    <3>3. dt_tabs' = Append(room, new)
      BY <1>2, <2>2
    <3> HIDE DEF room, new
    <3>4. /\ dt_tabs' \in Seq(DtTab) /\ Entries(dt_tabs') = Entries(room) \cup {new}
          /\ Len(dt_tabs') = Len(room) + 1 /\ Len(room) \in Nat
      BY <3>1, <3>2, <3>3, AppendIs
    <3>5. DetailsC!KeysOf(dt_tabs') = DetailsC!KeysOf(room) \cup {k}
      <4>1. \A ts : DetailsC!KeysOf(ts) = {t.key : t \in Entries(ts)}
        BY DEF DetailsC!KeysOf, Entries
      <4> QED BY <4>1, <3>2, <3>4
    <3>6. OneEach(dt_tabs')
      <4>1. /\ DOMAIN dt_tabs' = DOMAIN room \cup {Len(room) + 1}
            /\ dt_tabs'[Len(room) + 1] = new
            /\ \A i \in DOMAIN room : dt_tabs'[i] = room[i]
        BY <3>1, <3>2, <3>3
      <4>2. \A i \in DOMAIN room : room[i].key # k
        BY <2>2, <3>1 DEF DetailsC!KeysOf
      <4> QED BY <4>1, <4>2, <3>1, <3>2 DEF OneEach
    <3>7. Len(dt_tabs') <= DtMaxTabs
      BY <3>1, <3>4, WindowScreensAssumption
    <3> QED BY <3>1, <3>2, <3>4, <3>5, <3>6, <3>7, <1>1, <2>2
  <2> QED BY <2>1, <2>2
<1>4. DtTabs'
  BY <1>2, <1>3 DEF DtTabs
<1>5. DtSeen'
  <2> DEFINE s == Only(dt_seen, DetailsC!KeysOf(dt_tabs'))
  <2>1. s \in Seq(DtKeys) /\ Distinct(s) /\ Entries(s) = Entries(dt_seen) \cap DetailsC!KeysOf(dt_tabs')
    BY OnlyIs DEF DtSeen
  <2>2. dt_seen' = DetailsC!Touch(s, k)
    BY <1>2
  <2> HIDE DEF s
  <2>3. /\ dt_seen' \in Seq(DtKeys) /\ Distinct(dt_seen')
        /\ Entries(dt_seen') = Entries(s) \cup {k}
    BY <2>1, <2>2, TouchIs
  <2>4. Entries(dt_seen') = DetailsC!KeysOf(dt_tabs')
    BY <1>3, <2>1, <2>3 DEF DtSeen
  <2> QED BY <2>3, <2>4 DEF DtSeen
<1> QED BY <1>3, <1>4, <1>5

\* A step that closes every tab.
LEMMA CloseAllIs ==
  ASSUME dt_tabs' = <<>>, dt_active' = DetailsC!None, dt_seen' = <<>>
  PROVE  DtTabs' /\ DtSeen' /\ DetailsC!SpinsTruly' /\ DetailsC!KeysOf(dt_tabs') = {}
<1>1. DetailsC!KeysOf(<<>>) = {} /\ DOMAIN <<>> = {}
  BY DEF DetailsC!KeysOf
<1>2. DtTabs'
  BY <1>1, NoEntries, WindowScreensAssumption DEF DtTabs, OneEach
<1>3. DtSeen'
  BY <1>1, NoEntries DEF DtSeen
<1>4. DetailsC!SpinsTruly'
  BY <1>1 DEF DetailsC!SpinsTruly
<1> QED BY <1>1, <1>2, <1>3, <1>4

LEMMA OpenIs ==
  ASSUME DtInv, NEW x \in DtTxids, DetailsC!Open(x)
  PROVE  /\ DtTabs' /\ DtSeen' /\ DetailsC!SpinsTruly'
         /\ dt_active # DetailsC!None => dt_active \in DetailsC!KeysOf(dt_tabs')
         /\ dt_loads' \subseteq [key : DtLives, id : Nat] /\ dt_spawned' \in Nat
         /\ dt_loads' = dt_loads \/ dt_spawned' # dt_spawned
<1>1. DetailsC!Live(x) \in DtKeys /\ DetailsC!Live(x) \in DtLives
  BY KeysAre
<1>2. DetailsC!Show(DetailsC!Live(x), TRUE)
  BY DEF DetailsC!Open
<1>3. /\ DtTabs' /\ DtSeen'
      /\ dt_active # DetailsC!None => dt_active \in DetailsC!KeysOf(dt_tabs')
      /\ \A t \in Entries(dt_tabs') : \/ t \in Entries(dt_tabs)
                                      \/ /\ DetailsC!Live(x) \notin DetailsC!KeysOf(dt_tabs)
                                         /\ t.key = DetailsC!Live(x)
  BY <1>1, <1>2, ShowIs DEF DtInv
<1>4. \/ /\ DetailsC!Live(x) \in DetailsC!KeysOf(dt_tabs)
         /\ dt_loads' = dt_loads /\ dt_spawned' = dt_spawned
      \/ /\ dt_spawned' = dt_spawned + 1
         /\ dt_loads' = dt_loads \cup {[key |-> DetailsC!Live(x), id |-> dt_spawned]}
  BY DEF DetailsC!Open
<1>5. dt_loads \subseteq [key : DtLives, id : Nat] /\ dt_spawned \in Nat
  BY DEF DtInv, DtLoads
<1>6. /\ dt_loads' \subseteq [key : DtLives, id : Nat] /\ dt_spawned' \in Nat
      /\ dt_loads' = dt_loads \/ dt_spawned' # dt_spawned
  BY <1>1, <1>4, <1>5
<1>7. \A t \in Entries(dt_tabs) : t.loading => \E l \in dt_loads : l.key = t.key
  BY DEF DtInv, DetailsC!SpinsTruly, Entries
<1>8. dt_loads \subseteq dt_loads'
  BY <1>4
<1>9. \A t \in Entries(dt_tabs') : t.loading => \E l \in dt_loads' : l.key = t.key
  BY <1>3, <1>4, <1>7, <1>8
<1>10. DetailsC!SpinsTruly'
  BY <1>9 DEF DetailsC!SpinsTruly, Entries
<1> QED BY <1>3, <1>6, <1>10

LEMMA LoadedIs ==
  ASSUME DtInv, DetailsC!Loaded
  PROVE  DtInv' /\ DetailsC!ViewedStep
<1>1. PICK l \in dt_loads, ok \in BOOLEAN :
        /\ dt_loads' = dt_loads \ {l}
        /\ dt_tabs' = IF l.key \notin DetailsC!KeysOf(dt_tabs) THEN dt_tabs
                      ELSE [dt_tabs EXCEPT
                              ![DetailsC!At(dt_tabs, l.key)].loading = FALSE,
                              ![DetailsC!At(dt_tabs, l.key)].err = ~ok,
                              ![DetailsC!At(dt_tabs, l.key)].prof = IF ok THEN TRUE ELSE @]
  BY DEF DetailsC!Loaded
<1>2. /\ dt_active' = dt_active /\ dt_seen' = dt_seen /\ dt_spawned' = dt_spawned
      /\ dt_asked' = dt_asked /\ dt_opening' = dt_opening /\ dt_pending' = dt_pending
      /\ dt_file' = dt_file
  BY DEF DetailsC!Loaded
<1>3. /\ dt_tabs \in Seq(DtTab) /\ OneEach(dt_tabs) /\ Len(dt_tabs) <= DtMaxTabs
      /\ dt_active \in DetailsC!KeysOf(dt_tabs) \cup {DetailsC!None}
      /\ DetailsC!SpinsTruly
  BY DEF DtInv, DtTabs
<1>4. /\ dt_tabs' \in Seq(DtTab) /\ Len(dt_tabs') = Len(dt_tabs) /\ DOMAIN dt_tabs' = DOMAIN dt_tabs
      /\ \A j \in DOMAIN dt_tabs : dt_tabs'[j].key = dt_tabs[j].key
      /\ \A j \in DOMAIN dt_tabs : dt_tabs'[j].loading => dt_tabs[j].loading /\ dt_tabs[j].key # l.key
  <2>1. CASE l.key \notin DetailsC!KeysOf(dt_tabs)
    BY <2>1, <1>1, <1>3 DEF DetailsC!KeysOf
  <2>2. CASE l.key \in DetailsC!KeysOf(dt_tabs)
    <3> DEFINE i == DetailsC!At(dt_tabs, l.key)
               t == [dt_tabs[i] EXCEPT !.loading = FALSE, !.err = ~ok,
                                       !.prof = IF ok THEN TRUE ELSE @]
    <3>1. i \in DOMAIN dt_tabs /\ dt_tabs[i].key = l.key
      BY <2>2 DEF DetailsC!At, DetailsC!KeysOf
    <3>2. dt_tabs' = [dt_tabs EXCEPT ![i] = t]
      BY <1>1, <2>2
    <3> HIDE DEF i
    <3>3. dt_tabs[i] \in DtTab
      BY <1>3, <3>1
    <3>4. t \in DtTab /\ t.key = l.key /\ ~t.loading
      BY <3>1, <3>3 DEF DtTab
    <3> HIDE DEF t
    <3>5. \A j \in DOMAIN dt_tabs : j # i => dt_tabs[j].key # l.key
      BY <1>3, <3>1 DEF OneEach
    <3>6. /\ dt_tabs' \in Seq(DtTab) /\ Len(dt_tabs') = Len(dt_tabs)
          /\ DOMAIN dt_tabs' = DOMAIN dt_tabs /\ dt_tabs'[i] = t
          /\ \A j \in DOMAIN dt_tabs : j # i => dt_tabs'[j] = dt_tabs[j]
      BY <1>3, <3>1, <3>2, <3>4
    <3> QED BY <3>1, <3>4, <3>5, <3>6
  <2> QED BY <2>1, <2>2
<1>5. DetailsC!KeysOf(dt_tabs') = DetailsC!KeysOf(dt_tabs)
  BY <1>4 DEF DetailsC!KeysOf
<1>6. DtTabs'
  BY <1>2, <1>3, <1>4, <1>5 DEF DtTabs, OneEach
<1>7. DtSeen'
  BY <1>2, <1>5 DEF DtInv, DtSeen
<1>8. DtLoads'
  BY <1>1, <1>2 DEF DtInv, DtLoads
<1>9. DetailsC!SpinsTruly'
  BY <1>1, <1>3, <1>4 DEF DetailsC!SpinsTruly
<1>10. DetailsC!ViewedStep
  BY <1>3, <1>5 DEF DetailsC!ViewedStep
<1> QED BY <1>6, <1>7, <1>8, <1>9, <1>10 DEF DtInv

LEMMA CloseIs ==
  ASSUME DtInv, NEW k \in DtKeys, DetailsC!Close(k)
  PROVE  DtInv' /\ DetailsC!ViewedStep
<1> DEFINE rest == DetailsC!Without(dt_tabs, k)
           i == DetailsC!At(dt_tabs, k)
<1>1. /\ k \in DetailsC!KeysOf(dt_tabs) /\ dt_tabs' = rest
      /\ dt_seen' = Only(dt_seen, Entries(dt_seen) \ {k})
      /\ dt_active' = IF dt_active # k THEN dt_active
                      ELSE IF rest = <<>> THEN DetailsC!None
                      ELSE rest[IF i <= Len(rest) THEN i ELSE Len(rest)].key
      /\ dt_loads' = dt_loads /\ dt_spawned' = dt_spawned
      /\ dt_asked' = dt_asked /\ dt_opening' = dt_opening /\ dt_pending' = dt_pending
      /\ dt_file' = dt_file
  BY DtListsAre DEF DetailsC!Close
<1>2. /\ dt_tabs \in Seq(DtTab) /\ OneEach(dt_tabs) /\ Len(dt_tabs) <= DtMaxTabs
      /\ dt_active \in DetailsC!KeysOf(dt_tabs) \cup {DetailsC!None}
      /\ DetailsC!SpinsTruly
  BY DEF DtInv, DtTabs
<1>3. /\ rest \in Seq(DtTab) /\ OneEach(rest) /\ Len(rest) = Len(dt_tabs) - 1
      /\ DetailsC!KeysOf(rest) = DetailsC!KeysOf(dt_tabs) \ {k}
      /\ Entries(rest) \subseteq Entries(dt_tabs)
  BY <1>1, <1>2, WithoutIs
<1>4. i \in DOMAIN dt_tabs
  BY <1>1 DEF DetailsC!At, DetailsC!KeysOf
<1> HIDE DEF rest, i
<1>5. dt_active' \in DetailsC!KeysOf(rest) \cup {DetailsC!None}
  <2>1. CASE dt_active # k
    BY <2>1, <1>1, <1>2, <1>3
  <2>2. CASE dt_active = k /\ rest = <<>>
    BY <2>2, <1>1
  <2>3. CASE dt_active = k /\ rest # <<>>
    <3> DEFINE j == IF i <= Len(rest) THEN i ELSE Len(rest)
    <3>1. j \in DOMAIN rest
      BY <2>3, <1>2, <1>3, <1>4
    <3>2. dt_active' = rest[j].key
      BY <2>3, <1>1
    <3> HIDE DEF j
    <3> QED BY <3>1, <3>2 DEF DetailsC!KeysOf
  <2> QED BY <2>1, <2>2, <2>3
<1>6. DtTabs'
  <2>1. Len(dt_tabs') <= DtMaxTabs /\ Len(dt_tabs) \in Nat
    BY <1>1, <1>2, <1>3, WindowScreensAssumption
  <2> QED BY <2>1, <1>1, <1>3, <1>5 DEF DtTabs
<1>7. DtSeen'
  <2>1. /\ dt_seen' \in Seq(DtKeys) /\ Distinct(dt_seen')
        /\ Entries(dt_seen') = Entries(dt_seen) \cap (Entries(dt_seen) \ {k})
    BY <1>1, OnlyIs DEF DtInv, DtSeen
  <2>2. Entries(dt_seen') = DetailsC!KeysOf(dt_tabs')
    BY <2>1, <1>1, <1>3 DEF DtInv, DtSeen
  <2> QED BY <2>1, <2>2 DEF DtSeen
<1>8. DtLoads'
  BY <1>1 DEF DtInv, DtLoads
<1>9. DetailsC!SpinsTruly'
  <2>1. \A t \in Entries(dt_tabs) : t.loading => \E l \in dt_loads : l.key = t.key
    BY <1>2 DEF DetailsC!SpinsTruly, Entries
  <2> QED BY <2>1, <1>1, <1>3 DEF DetailsC!SpinsTruly, Entries
<1>10. DetailsC!ViewedStep
  <2>1. ~(Len(dt_tabs') >= Len(dt_tabs))
    BY <1>1, <1>2, <1>3
  <2> QED BY <2>1, <1>1 DEF DetailsC!ViewedStep
<1> QED BY <1>6, <1>7, <1>8, <1>9, <1>10 DEF DtInv

\* The tabs stay, another one is viewed.
LEMMA ViewsIs ==
  ASSUME DtInv, NEW k \in DetailsC!KeysOf(dt_tabs), dt_active' = k,
         dt_seen' = DetailsC!Touch(dt_seen, k),
         UNCHANGED <<dt_tabs, dt_loads, dt_spawned, dt_asked, dt_pending, dt_file, dt_opening>>
  PROVE  DtInv' /\ DetailsC!ViewedStep
<1>1. dt_tabs \in Seq(DtTab) /\ dt_active \in DetailsC!KeysOf(dt_tabs) \cup {DetailsC!None}
  BY DEF DtInv, DtTabs
<1>2. k \in DtKeys
  BY <1>1, KeysOfIs
<1>3. DtTabs'
  BY DEF DtInv, DtTabs
<1>4. DtSeen'
  <2>1. /\ dt_seen' \in Seq(DtKeys) /\ Distinct(dt_seen')
        /\ Entries(dt_seen') = Entries(dt_seen) \cup {k}
    BY <1>2, TouchIs DEF DtInv, DtSeen
  <2> QED BY <2>1 DEF DtInv, DtSeen
<1>5. DtLoads' /\ DetailsC!SpinsTruly'
  BY DEF DtInv, DtLoads, DetailsC!SpinsTruly
<1>6. DetailsC!ViewedStep
  BY <1>1 DEF DetailsC!ViewedStep
<1> QED BY <1>3, <1>4, <1>5, <1>6 DEF DtInv

LEMMA CycleIs ==
  ASSUME DtInv, DetailsC!Cycle
  PROVE  DtInv' /\ DetailsC!ViewedStep
<1> DEFINE n == Len(dt_tabs)
           i == IF dt_active \in DetailsC!KeysOf(dt_tabs)
                THEN DetailsC!At(dt_tabs, dt_active) - 1 ELSE 0
<1>1. /\ dt_tabs # <<>>
      /\ UNCHANGED <<dt_tabs, dt_loads, dt_spawned, dt_asked, dt_pending, dt_file, dt_opening>>
  BY DEF DetailsC!Cycle
<1>2. PICK step \in {1, n - 1} :
        /\ dt_active' = dt_tabs[((i + step) % n) + 1].key
        /\ dt_seen' = DetailsC!Touch(dt_seen, dt_tabs[((i + step) % n) + 1].key)
  BY DEF DetailsC!Cycle
<1>3. dt_tabs \in Seq(DtTab)
  BY DEF DtInv, DtTabs
<1>4. n \in Nat /\ n >= 1 /\ DOMAIN dt_tabs = 1..n
  BY <1>1, <1>3
<1>5. i \in Nat
  <2>1. dt_active \in DetailsC!KeysOf(dt_tabs) => DetailsC!At(dt_tabs, dt_active) \in DOMAIN dt_tabs
    BY DEF DetailsC!At, DetailsC!KeysOf
  <2> HIDE DEF n
  <2> QED BY <2>1, <1>4
<1> HIDE DEF n, i
<1>6. ((i + step) % n) + 1 \in 1..n
  BY <1>4, <1>5
<1>7. dt_tabs[((i + step) % n) + 1].key \in DetailsC!KeysOf(dt_tabs)
  BY <1>4, <1>6 DEF DetailsC!KeysOf
<1> QED BY <1>1, <1>2, <1>7, ViewsIs

\* What is written and read back are transactions.
LEMMA FileIs ==
  ASSUME DtInv
  PROVE  /\ DetailsC!FromTabs(dt_tabs) \in Seq(DtTxids)
<1> DEFINE live == Only(dt_tabs, {t \in Entries(dt_tabs) : t.key.kind = "txid"})
<1>1. /\ live \in Seq(DtTab)
      /\ Entries(live) = Entries(dt_tabs) \cap {t \in Entries(dt_tabs) : t.key.kind = "txid"}
  BY OnlyIs DEF DtInv, DtTabs
<1>2. DetailsC!FromTabs(dt_tabs) = [i \in DOMAIN live |-> live[i].key.id]
  BY DtListsAre DEF DetailsC!FromTabs
<1> HIDE DEF live
<1>3. Len(live) \in Nat /\ DOMAIN live = 1..Len(live)
  BY <1>1
<1>4. \A i \in DOMAIN live : live[i].key.id \in DtTxids
  <2> SUFFICES ASSUME NEW i \in DOMAIN live PROVE live[i].key.id \in DtTxids
    OBVIOUS
  <2>1. live[i] \in Entries(live)
    BY DEF Entries
  <2>2. live[i].key \in DtKeys
    BY <1>1, TabIs
  <2>3. live[i].key.kind = "txid"
    BY <1>1, <2>1
  <2> QED BY <2>2, <2>3, KeysAre
<1> QED BY <1>2, <1>3, <1>4

LEMMA NormalizeIs ==
  ASSUME NEW list \in Seq(DtTxids)
  PROVE  DetailsC!Normalize(list) \in Seq(DtTxids)
<1> DEFINE first == {i \in DOMAIN list : \A j \in 1..(i - 1) : list[j] # list[i]}
           once == Only([i \in DOMAIN list |-> i], first)
           n == IF Len(once) < DtMaxTabs THEN Len(once) ELSE DtMaxTabs
<1>1. /\ DOMAIN list = 1..Len(list) /\ Len(list) \in Nat
  OBVIOUS
<1>2. [i \in DOMAIN list |-> i] \in Seq(DOMAIN list)
  BY <1>1
<1>3. once \in Seq(DOMAIN list)
  BY <1>2, OnlyIs
<1>4. DetailsC!Normalize(list) = [i \in 1..n |-> list[once[i]]]
  BY DtListsAre DEF DetailsC!Normalize
<1> HIDE DEF once
<1>5. n \in Nat /\ n <= Len(once) /\ DOMAIN once = 1..Len(once) /\ Len(once) \in Nat
  BY <1>3, WindowScreensAssumption
<1> HIDE DEF n
<1>6. \A i \in 1..n : list[once[i]] \in DtTxids
  <2> SUFFICES ASSUME NEW i \in 1..n PROVE list[once[i]] \in DtTxids
    OBVIOUS
  <2>1. i \in DOMAIN once
    BY <1>5
  <2>2. once[i] \in DOMAIN list
    BY <2>1, <1>3
  <2> QED BY <2>2
<1> QED BY <1>4, <1>5, <1>6

-----------------------------------------------------------------------------
(* The theorem of the tabs of transactions.                                *)

LEMMA DtRest ==
  ASSUME DtInv, UNCHANGED <<dt_tabs, dt_active, dt_seen, dt_loads, dt_spawned>>, DtLoads'
  PROVE  DtInv' /\ DetailsC!ViewedStep
<1>1. DtTabs' /\ DtSeen' /\ DetailsC!SpinsTruly'
  BY DEF DtInv, DtTabs, DtSeen, DetailsC!SpinsTruly
<1>2. DetailsC!ViewedStep
  BY DEF DtInv, DtTabs, DetailsC!ViewedStep
<1> QED BY <1>1, <1>2 DEF DtInv

LEMMA DtClears ==
  ASSUME DtInv, dt_tabs' = <<>>, dt_active' = DetailsC!None, dt_seen' = <<>>, DtLoads'
  PROVE  DtInv' /\ DetailsC!ViewedStep
<1>1. DtTabs' /\ DtSeen' /\ DetailsC!SpinsTruly' /\ DetailsC!KeysOf(dt_tabs') = {}
  BY CloseAllIs
<1>2. Len(dt_tabs') >= Len(dt_tabs) => dt_active = DetailsC!None
  <2> SUFFICES ASSUME Len(dt_tabs') >= Len(dt_tabs) PROVE dt_active = DetailsC!None
    OBVIOUS
  <2>1. Len(dt_tabs) = 0 /\ dt_tabs \in Seq(DtTab)
    BY NoEntries DEF DtInv, DtTabs
  <2>2. DetailsC!KeysOf(dt_tabs) = {}
    BY <2>1 DEF DetailsC!KeysOf
  <2> QED BY <2>2 DEF DtInv, DtTabs
<1>3. DetailsC!ViewedStep
  BY <1>1, <1>2 DEF DetailsC!ViewedStep
<1> QED BY <1>1, <1>3 DEF DtInv

LEMMA DtInvInit == DetailsC!Init => DtInv
<1> SUFFICES ASSUME DetailsC!Init PROVE DtInv
  OBVIOUS
<1>0. dt_file \in Seq(DtTxids)
  <2>1. dt_file = <<>> \/ \E x \in DtTxids : dt_file = <<x>>
    BY Zenon DEF DetailsC!Init
  <2>2. \A x \in DtTxids : <<x>> \in Seq(DtTxids)
    OBVIOUS
  <2>3. <<>> \in Seq(DtTxids)
    BY NoEntries
  <2> QED BY <2>1, <2>2, <2>3
<1>1. /\ dt_tabs = <<>> /\ dt_active = DetailsC!None /\ dt_seen = <<>> /\ dt_loads = {}
      /\ dt_spawned = 0 /\ dt_asked = {} /\ dt_opening = DetailsC!None
      /\ dt_file \in Seq(DtTxids) /\ dt_pending = DetailsC!Normalize(dt_file)
  BY <1>0 DEF DetailsC!Init
<1>2. DetailsC!KeysOf(<<>>) = {} /\ DOMAIN <<>> = {}
  BY DEF DetailsC!KeysOf
<1>3. DtTabs
  BY <1>1, <1>2, NoEntries, WindowScreensAssumption DEF DtTabs, OneEach
<1>4. DtSeen
  BY <1>1, <1>2, NoEntries DEF DtSeen
<1>5. DetailsC!SpinsTruly
  BY <1>1, <1>2 DEF DetailsC!SpinsTruly
<1>6. DtLoads
  BY <1>1, NormalizeIs DEF DtLoads
<1> QED BY <1>3, <1>4, <1>5, <1>6 DEF DtInv

LEMMA DtInvNext == DtInv /\ [DetailsC!Next]_DetailsVars => DtInv' /\ DetailsC!ViewedStep
<1> SUFFICES ASSUME DtInv, [DetailsC!Next]_DetailsVars
             PROVE  DtInv' /\ DetailsC!ViewedStep
  OBVIOUS
<1>0. DtLoads
  BY DEF DtInv
<1>1. ASSUME NEW x \in DtTxids, DetailsC!OpenRow(x) PROVE DtInv' /\ DetailsC!ViewedStep
  <2>1. DetailsC!Open(x) /\ UNCHANGED <<dt_asked, dt_pending, dt_file, dt_opening>>
    BY <1>1 DEF DetailsC!OpenRow
  <2>2. /\ DtTabs' /\ DtSeen' /\ DetailsC!SpinsTruly'
        /\ dt_active # DetailsC!None => dt_active \in DetailsC!KeysOf(dt_tabs')
        /\ dt_loads' \subseteq [key : DtLives, id : Nat] /\ dt_spawned' \in Nat
        /\ dt_loads' = dt_loads \/ dt_spawned' # dt_spawned
    BY <2>1, OpenIs
  <2> QED BY <1>0, <2>1, <2>2 DEF DtInv, DtLoads, DetailsC!ViewedStep
<1>2. ASSUME NEW x \in DtTxids, DetailsC!ReadSaved(x) PROVE DtInv' /\ DetailsC!ViewedStep
  <2>1. DtLoads'
    BY <1>0, <1>2 DEF DetailsC!ReadSaved, DtLoads
  <2> QED BY <2>1, <1>2, DtRest DEF DetailsC!ReadSaved
<1>3. ASSUME NEW x \in DtTxids, DetailsC!Ask(x) PROVE DtInv' /\ DetailsC!ViewedStep
  <2>0. /\ dt_asked' = dt_asked \cup {[key |-> DetailsC!Live(x), restore |-> FALSE]}
        /\ DetailsC!Live(x) \in DtLives
        /\ UNCHANGED <<dt_loads, dt_spawned, dt_opening, dt_pending, dt_file>>
    BY <1>3, KeysAre DEF DetailsC!Ask
  <2>3. dt_asked' \subseteq [key : DtLives, restore : BOOLEAN]
    <3>1. [key |-> DetailsC!Live(x), restore |-> FALSE] \in [key : DtLives, restore : BOOLEAN]
      BY <2>0
    <3> QED BY <1>0, <2>0, <3>1 DEF DtLoads
  <2>1. DtLoads'
    BY <1>0, <2>0, <2>3 DEF DtLoads
  <2> QED BY <2>1, <1>3, DtRest DEF DetailsC!Ask
<1>4. ASSUME NEW k \in DtKeys, DetailsC!Activate(k) PROVE DtInv' /\ DetailsC!ViewedStep
  BY <1>4, ViewsIs DEF DetailsC!Activate
<1>5. CASE DetailsC!SavedRead
  <2>1. /\ dt_opening # DetailsC!None /\ dt_opening' = DetailsC!None
        /\ DetailsC!Show(dt_opening, FALSE) \/ UNCHANGED <<dt_tabs, dt_active, dt_seen>>
        /\ UNCHANGED <<dt_loads, dt_spawned, dt_asked, dt_pending, dt_file>>
    BY <1>5 DEF DetailsC!SavedRead
  <2>2. DtLoads'
    BY <1>0, <2>1 DEF DtLoads
  <2>3. CASE DetailsC!Show(dt_opening, FALSE)
    <3>1. dt_opening \in DtKeys
      BY <1>0, <2>1, KeysAre DEF DtLoads
    <3>2. /\ DtTabs' /\ DtSeen'
          /\ dt_active # DetailsC!None => dt_active \in DetailsC!KeysOf(dt_tabs')
          /\ \A t \in Entries(dt_tabs') : t \in Entries(dt_tabs) \/ t.loading = FALSE
      BY <2>3, <3>1, ShowIs DEF DtInv
    <3>3. DetailsC!SpinsTruly'
      <4>1. \A t \in Entries(dt_tabs) : t.loading => \E l \in dt_loads : l.key = t.key
        BY DEF DtInv, DetailsC!SpinsTruly, Entries
      <4> QED BY <4>1, <3>2, <2>1 DEF DetailsC!SpinsTruly, Entries
    <3>4. DetailsC!ViewedStep
      BY <3>2, <2>1 DEF DetailsC!ViewedStep
    <3> QED BY <2>2, <3>2, <3>3, <3>4 DEF DtInv
  <2>4. CASE UNCHANGED <<dt_tabs, dt_active, dt_seen>>
    BY <2>1, <2>2, <2>4, DtRest
  <2> QED BY <2>1, <2>3, <2>4
<1>6. CASE DetailsC!CloseAll \/ DetailsC!Disconnect
  <2>1. DtLoads'
    BY <1>0, <1>6 DEF DetailsC!CloseAll, DetailsC!Disconnect, DtLoads
  <2> QED BY <2>1, <1>6, DtClears DEF DetailsC!CloseAll, DetailsC!Disconnect
<1>7. CASE DetailsC!Save
  <2>1. DtLoads'
    BY <1>0, <1>7, FileIs DEF DetailsC!Save, DtLoads
  <2> QED BY <2>1, <1>7, DtRest DEF DetailsC!Save
<1>8. CASE DetailsC!Restore
  <2>1. \A i \in DOMAIN dt_pending : DetailsC!Live(dt_pending[i]) \in DtLives
    BY <1>0, KeysAre DEF DtLoads
  <2>3. /\ dt_asked' = dt_asked \cup {[key |-> DetailsC!Live(dt_pending[i]), restore |-> TRUE]
                                      : i \in DOMAIN dt_pending}
        /\ UNCHANGED <<dt_loads, dt_spawned, dt_opening, dt_pending, dt_file>>
    BY <1>8 DEF DetailsC!Restore
  <2>4. dt_asked' \subseteq [key : DtLives, restore : BOOLEAN]
    <3>1. \A i \in DOMAIN dt_pending :
            [key |-> DetailsC!Live(dt_pending[i]), restore |-> TRUE]
              \in [key : DtLives, restore : BOOLEAN]
      BY <2>1
    <3>2. dt_asked \subseteq [key : DtLives, restore : BOOLEAN]
      BY <1>0 DEF DtLoads
    <3> HIDE DEF DtLives
    <3> QED BY <2>3, <3>1, <3>2, Zenon
  <2>2. DtLoads'
    BY <1>0, <2>3, <2>4 DEF DtLoads
  <2> QED BY <2>2, <1>8, DtRest DEF DetailsC!Restore
<1>9. CASE DetailsC!Answered
  <2>1. PICK a \in dt_asked :
          /\ dt_asked' = dt_asked \ {a}
          /\ DetailsC!Open(a.key.id) \/ UNCHANGED <<dt_tabs, dt_active, dt_seen, dt_loads, dt_spawned>>
          /\ UNCHANGED <<dt_pending, dt_file, dt_opening>>
    BY <1>9 DEF DetailsC!Answered
  <2>2. a.key.id \in DtTxids
    BY <1>0, KeysAre DEF DtLoads
  <2>3. CASE DetailsC!Open(a.key.id)
    <3>1. /\ DtTabs' /\ DtSeen' /\ DetailsC!SpinsTruly'
          /\ dt_active # DetailsC!None => dt_active \in DetailsC!KeysOf(dt_tabs')
          /\ dt_loads' \subseteq [key : DtLives, id : Nat] /\ dt_spawned' \in Nat
          /\ dt_loads' = dt_loads \/ dt_spawned' # dt_spawned
      BY <2>2, <2>3, OpenIs
    <3> QED BY <1>0, <2>1, <3>1 DEF DtInv, DtLoads, DetailsC!ViewedStep
  <2>4. CASE UNCHANGED <<dt_tabs, dt_active, dt_seen, dt_loads, dt_spawned>>
    <3>1. DtLoads'
      BY <1>0, <2>1, <2>4 DEF DtLoads
    <3> QED BY <3>1, <2>4, DtRest
  <2> QED BY <2>1, <2>3, <2>4
<1>10. CASE DetailsC!NoteFades \/ DetailsC!Connect \/ UNCHANGED DetailsVars
  <2>1. DtLoads'
    BY <1>0, <1>10 DEF DetailsC!NoteFades, DetailsC!Connect, DetailsVars, DtLoads
  <2> QED BY <2>1, <1>10, DtRest DEF DetailsC!NoteFades, DetailsC!Connect, DetailsVars
<1>11. CASE DetailsC!Restart
  <2>1. DtLoads'
    BY <1>0, <1>11, NormalizeIs DEF DetailsC!Restart, DtLoads
  <2> QED BY <2>1, <1>11, DtClears DEF DetailsC!Restart
<1> QED BY <1>1, <1>2, <1>3, <1>4, <1>5, <1>6, <1>7, <1>8, <1>9, <1>10, <1>11,
           LoadedIs, CloseIs, CycleIs DEF DetailsC!Next, DtKeys

LEMMA DtInvSays == DtInv => DetailsC!TypeOK
<1> SUFFICES ASSUME DtInv PROVE DetailsC!TypeOK
  OBVIOUS
<1>1. \A S : DetailsC!Cardinality(S) = Cardinality(S)
  BY DEF DetailsC!Cardinality, Cardinality
<1>2. Cardinality(DetailsC!KeysOf(dt_tabs)) = Len(dt_tabs)
  BY KeysOfIs DEF DtInv, DtTabs
<1>3. Len(dt_seen) = Len(dt_tabs)
  BY <1>2, CountDistinct DEF DtInv, DtSeen
<1>4. \A l \in dt_loads : l.key.kind = "txid"
  BY KeysAre DEF DtInv, DtLoads
<1> QED BY <1>1, <1>2, <1>3, <1>4, DtListsAre DEF DetailsC!TypeOK, DtInv, DtTabs, DtSeen, DtLoads

LEMMA DetailsInit == Init => (which = "Details" => DtInv)
BY DtInvInit DEF Init

LEMMA DetailsStep ==
  (which = "Details" => DtInv) /\ [Next]_allVars =>
    (which = "Details" => DtInv)' /\ (which = "Details" => DetailsC!ViewedStep)
<1> SUFFICES ASSUME which = "Details" => DtInv, [Next]_allVars
             PROVE  (which = "Details" => DtInv)' /\ (which = "Details" => DetailsC!ViewedStep)
  OBVIOUS
<1>1. CASE Next
  BY <1>1, Turns, DtInvNext
<1>2. CASE UNCHANGED allVars
  <2>1. which' = which /\ UNCHANGED DetailsVars
    BY <1>2 DEF allVars
  <2> QED BY <2>1, DtInvNext
<1> QED BY <1>1, <1>2

\* A detail tab that spins has a load of its own under way; the tabs are as many as
\* there are keys, none beyond the limit; the viewed one is open.  Opening another
\* makes room without closing it, and an answer that comes late brings no closed tab
\* back, whatever the order of the clicks, the answers and the restarts
\* (useXLogDetailTabs.ts:92-190).
THEOREM OpenTabsAreTrue == Spec => DetailsTrue
<1>1. (which = "Details" => DtInv) => (which = "Details" => DetailsC!TypeOK /\ DetailsC!SpinsTruly)
  BY DtInvSays DEF DtInv
<1>2. (which = "Details" => DtInv) /\ [Next]_allVars =>
        [which = "Details" => DetailsC!ViewedStep]_allVars
  BY DetailsStep
<1> QED BY DetailsInit, DetailsStep, <1>1, <1>2, PTL DEF Spec, DetailsTrue

-----------------------------------------------------------------------------
(* The object inspector.                                                   *)

\* One dump or stack is opened at a time, and it is the one that was asked for last.
OneOp ==
  /\ in_ops = <<>> \/ \E stage \in {"trigger", "content", "list"} : in_ops = <<<<stage, in_wanted>>>>
  /\ in_busy \in BOOLEAN /\ (in_ops # <<>>) = in_busy
  /\ in_text # InspectorC!None => in_text = in_wanted

InShape ==
  /\ in_inspect.kind \in InKinds \cup {InspectorC!None, "actions"}
  /\ in_loads # <<>> => in_inspect.kind \in InKinds
  /\ in_rows \in Seq(InRows)

InInv == InShape /\ OneOp

LEMMA InListsAre ==
  /\ \A s, K : InspectorC!Only(s, K) = Only(s, K)
  /\ \A s, up : InspectorC!Ordered(s, up) = Ordered(s, up)
  /\ \A s : InspectorC!ToSet(s) = Entries(s)
<1>0. \A S : InspectorC!Cardinality(S) = Cardinality(S)
  BY DEF InspectorC!Cardinality, Cardinality
<1>1. ASSUME NEW s, NEW K PROVE InspectorC!Only(s, K) = Only(s, K)
  BY DEF InspectorC!Only, Only
<1>2. ASSUME NEW s, NEW up PROVE InspectorC!Ordered(s, up) = Ordered(s, up)
  <2> DEFINE Upto(i) == {j \in DOMAIN s : <<j, i>> \in up \/ (<<i, j>> \notin up /\ j <= i)}
             there == [i \in DOMAIN s |-> InspectorC!Cardinality(Upto(i))]
             place == [i \in DOMAIN s |-> Cardinality(Upto(i))]
  <2>1. there = place
    <3> HIDE DEF Upto
    <3> QED BY <1>0
  <2>2. InspectorC!Ordered(s, up) = [k \in DOMAIN s |-> s[CHOOSE i \in DOMAIN s : there[i] = k]]
    BY DEF InspectorC!Ordered
  <2>3. Ordered(s, up) = [k \in DOMAIN s |-> s[CHOOSE i \in DOMAIN s : place[i] = k]]
    BY DEF Ordered
  <2> HIDE DEF there, place
  <2> QED BY <2>1, <2>2, <2>3
<1>3. ASSUME NEW s PROVE InspectorC!ToSet(s) = Entries(s)
  BY DEF InspectorC!ToSet, Entries
<1> QED BY <1>1, <1>2, <1>3

LEMMA RowIs ==
  ASSUME NEW s \in Seq(InRows), NEW i \in DOMAIN s
  PROVE  s[i].n \in Int /\ s[i].busy \in BOOLEAN
<1>1. s[i] \in InRows
  OBVIOUS
<1> QED BY <1>1 DEF InRows

\* A table of its order has the rows it was given.
LEMMA TablesAre ==
  ASSUME NEW in \in Seq(InRows)
  PROVE  /\ Entries(InspectorC!LargestFirst(in)) = Entries(in)
         /\ Entries(InspectorC!ThreadTable(in)) = Entries(in)
         /\ Entries(InspectorC!StackTimeTable(in)) = Entries(in)
<1> DEFINE larger == {p \in InspectorC!Pairs(in) : in[p[1]].n > in[p[2]].n}
           sooner == {p \in InspectorC!Pairs(in) :
                        \/ in[p[1]].busy /\ ~in[p[2]].busy
                        \/ in[p[1]].busy = in[p[2]].busy /\ in[p[1]].n > in[p[2]].n}
<1>1. \A i, j \in DOMAIN in : <<i, j>> \in larger <=> in[i].n > in[j].n
  BY DEF InspectorC!Pairs
<1>2. \A i, j \in DOMAIN in : <<i, j>> \in sooner <=>
         \/ in[i].busy /\ ~in[j].busy
         \/ in[i].busy = in[j].busy /\ in[i].n > in[j].n
  BY DEF InspectorC!Pairs
<1>3. InspectorC!LargestFirst(in) = Ordered(in, larger)
  BY InListsAre DEF InspectorC!LargestFirst
<1>4. InspectorC!ThreadTable(in) = Ordered(in, sooner)
  BY InListsAre DEF InspectorC!ThreadTable
<1> HIDE DEF larger, sooner
<1>5. Sorts(in, larger)
  <2> SUFFICES ASSUME NEW i \in DOMAIN in, NEW j \in DOMAIN in, NEW k \in DOMAIN in
               PROVE  /\ <<i, j>> \in larger => <<j, i>> \notin larger
                      /\ <<i, k>> \in larger => <<i, j>> \in larger \/ <<j, k>> \in larger
    BY DEF Sorts
  <2>1. in[i].n \in Int /\ in[j].n \in Int /\ in[k].n \in Int
    BY RowIs
  <2> QED BY <1>1, <2>1
<1>6. Sorts(in, sooner)
  <2> SUFFICES ASSUME NEW i \in DOMAIN in, NEW j \in DOMAIN in, NEW k \in DOMAIN in
               PROVE  /\ <<i, j>> \in sooner => <<j, i>> \notin sooner
                      /\ <<i, k>> \in sooner => <<i, j>> \in sooner \/ <<j, k>> \in sooner
    BY DEF Sorts
  <2>1. /\ in[i].n \in Int /\ in[j].n \in Int /\ in[k].n \in Int
    BY RowIs
  <2>2. in[i].busy \in BOOLEAN /\ in[j].busy \in BOOLEAN /\ in[k].busy \in BOOLEAN
    BY RowIs
  <2> DEFINE Soon(x, y) == \/ in[x].busy /\ ~in[y].busy
                           \/ (in[x].busy <=> in[y].busy) /\ in[x].n > in[y].n
  <2>3. \A x, y \in {i, j, k} : <<x, y>> \in sooner <=> Soon(x, y)
    <3>1. \A x, y \in {i, j, k} : (in[x].busy = in[y].busy) <=> (in[x].busy <=> in[y].busy)
      BY <2>2
    <3> QED BY <1>2, <3>1, Zenon
  <2>4. /\ Soon(i, j) => ~Soon(j, i)
        /\ Soon(i, k) => Soon(i, j) \/ Soon(j, k)
    BY <2>1
  <2> HIDE DEF Soon
  <2> QED BY <2>3, <2>4
<1>7. Entries(InspectorC!StackTimeTable(in)) = Entries(in)
  <2> DEFINE N == Len(in)
             t == InspectorC!StackTimeTable(in)
  <2>1. N \in Nat /\ DOMAIN in = 1..N
    OBVIOUS
  <2>2. DOMAIN t = 1..N /\ \A i \in 1..N : t[i] = in[(N - i) + 1]
    BY DEF InspectorC!StackTimeTable, InspectorC!Reverse
  <2>3. \A i \in 1..N : (N - i) + 1 \in 1..N /\ (N - ((N - i) + 1)) + 1 = i
    BY <2>1
  <2> HIDE DEF t, N
  <2>4. \A i \in 1..N : t[(N - i) + 1] = in[i]
    BY <2>2, <2>3
  <2> QED BY <2>1, <2>2, <2>3, <2>4 DEF Entries, t
<1> QED BY <1>3, <1>4, <1>5, <1>6, <1>7, OrderedIs

LEMMA TableIs ==
  ASSUME InInv, in_inspect.kind # "heap"
  PROVE  InspectorC!ToSet(InspectorC!TableShown) =
           InspectorC!ToSet(IF in_inspect.kind = "dump" THEN in_rows ELSE InspectorC!Found)
<1>1. in_rows \in Seq(InRows)
  BY DEF InInv, InShape
<1>2. InspectorC!Found \in Seq(InRows)
  <2>1. InspectorC!Found = in_rows \/ \E K : InspectorC!Found = Only(in_rows, K)
    BY InListsAre DEF InspectorC!Found
  <2> QED BY <1>1, <2>1, OnlyIs
<1> DEFINE found == InspectorC!Found
<1>3. Entries(InspectorC!TableShown) =
        Entries(IF in_inspect.kind = "dump" THEN in_rows ELSE found)
  <2> HIDE DEF found
  <2>1. /\ Entries(InspectorC!LargestFirst(found)) = Entries(found)
        /\ Entries(InspectorC!ThreadTable(found)) = Entries(found)
        /\ Entries(InspectorC!StackTimeTable(found)) = Entries(found)
    BY <1>2, TablesAre DEF found
  <2>2. InspectorC!TableShown =
          CASE in_inspect.kind = "threads" -> InspectorC!ThreadTable(found)
            [] in_inspect.kind = "heap"    -> InspectorC!HeapTable(found)
            [] in_inspect.kind = "active"  -> InspectorC!LargestFirst(found)
            [] in_inspect.kind = "sockets" -> InspectorC!LargestFirst(found)
            [] in_inspect.kind = "stack"   -> InspectorC!StackTimeTable(found)
            [] OTHER -> IF in_inspect.kind = "dump" THEN in_rows ELSE found
    BY DEF InspectorC!TableShown, InspectorC!Kind, InspectorC!ActiveTable, InspectorC!SocketTable,
           found
  <2> QED BY <2>1, <2>2
<1> QED BY <1>3, InListsAre

\* A step that leaves what is opened alone.
LEMMA InRest ==
  ASSUME InInv, UNCHANGED <<in_busy, in_ops, in_text, in_wanted>>, InShape'
  PROVE  InInv'
BY DEF InInv, OneOp

LEMMA InLeaves ==
  ASSUME InInv, UNCHANGED <<in_busy, in_ops, in_text, in_wanted>>,
         UNCHANGED <<in_inspect, in_loads, in_rows>>
  PROVE  InInv'
BY DEF InInv, OneOp, InShape

\* Opened or closed, the dialog has nothing under way but its list.
LEMMA InOpens ==
  ASSUME InspectorC!Closed, in_inspect'.kind \in InKinds \cup {InspectorC!None, "actions"},
         in_loads' # <<>> => in_inspect'.kind \in InKinds
  PROVE  InInv'
<1>1. <<>> \in Seq(InRows)
  BY NoEntries
<1>2. /\ in_rows' = <<>> /\ in_busy' = FALSE /\ in_ops' = <<>>
      /\ in_text' = InspectorC!None /\ in_wanted' = InspectorC!None
  BY DEF InspectorC!Closed
<1> QED BY <1>1, <1>2 DEF InInv, InShape, OneOp

LEMMA KindsAreOf ==
  ASSUME NEW obj, NEW k \in InspectorC!KindsOf(obj)
  PROVE  k \in InKinds \cup {"actions"}
BY WindowScreensAssumption DEF InspectorC!KindsOf, InKinds

LEMMA InOpenIs ==
  ASSUME InInv, NEW obj, NEW k \in InspectorC!KindsOf(obj), InspectorC!Open(obj, k)
  PROVE  InInv'
<1>1. /\ InspectorC!Closed /\ in_inspect'.kind = k
      /\ k = "actions" => in_loads' = <<>>
  BY DEF InspectorC!Open
<1> QED BY <1>1, KindsAreOf, InOpens

LEMMA InCloseIs == ASSUME InInv, InspectorC!Close PROVE InInv'
<1>1. /\ InspectorC!Closed /\ in_inspect'.kind = InspectorC!None /\ in_loads' = <<>>
  BY DEF InspectorC!Close, InspectorC!NoOne
<1> QED BY <1>1, InOpens

LEMMA InAsksIs == ASSUME InInv, InspectorC!Refresh \/ InspectorC!Turn PROVE InInv'
<1>1. /\ UNCHANGED <<in_inspect, in_rows, in_busy, in_ops, in_text, in_wanted>>
      /\ in_inspect.kind \notin {InspectorC!None, "actions"} \/ in_inspect.kind = "classes"
  BY DEF InspectorC!Refresh, InspectorC!Turn, InspectorC!Kind, InspectorC!dump
<1>2. in_inspect.kind \in InKinds
  BY <1>1 DEF InInv, InShape, InKinds
<1> QED BY <1>1, <1>2, InRest DEF InInv, InShape

LEMMA InAnswerIs ==
  ASSUME InInv, NEW i \in DOMAIN in_loads, InspectorC!Answer(i)
  PROVE  InInv'
<1>1. in_inspect.kind \in InKinds
  <2>1. in_loads # <<>>
    OBVIOUS
  <2> QED BY <2>1 DEF InInv, InShape
<1>2. InLists[in_inspect.kind] \subseteq Seq(InRows)
  BY <1>1, WindowScreensAssumption
<1>3. /\ UNCHANGED <<in_inspect, in_busy, in_ops, in_text, in_wanted>>
      /\ in_rows' \in InLists[in_inspect.kind] \/ in_rows' = in_rows
  BY DEF InspectorC!Answer, InspectorC!Kind, InspectorC!dump
<1> QED BY <1>1, <1>2, <1>3, InRest DEF InInv, InShape

\* What the table offers is opened only when no text hides it.
LEMMA InOpenTextIs == ASSUME InInv, NEW name, InspectorC!OpenText(name) PROVE InInv'
<1>1. /\ in_inspect.kind \in {"dump", "stack"} /\ InspectorC!Shows /\ ~in_busy
      /\ in_busy' = TRUE /\ in_ops' = Append(in_ops, <<"content", name>>) /\ in_wanted' = name
      /\ UNCHANGED <<in_inspect, in_rows, in_loads, in_text>>
  BY DEF InspectorC!OpenText, InspectorC!Kind
<1>2. in_text = InspectorC!None
  <2> SUFFICES ASSUME in_text # InspectorC!None PROVE FALSE
    OBVIOUS
  <2>1. InspectorC!Body = <<InspectorC!None>> \/ InspectorC!Body = <<"text", in_text>>
    BY <1>1 DEF InspectorC!Body, InspectorC!Kind
  <2>2. InspectorC!Body[1] # "table"
    BY <2>1 DEF InspectorC!None
  <2> QED BY <1>1, <2>2 DEF InspectorC!Shows
<1>3. in_ops = <<>>
  BY <1>1 DEF InInv, OneOp
<1>4. in_ops' = <<<<"content", in_wanted'>>>> /\ in_ops' # <<>>
  BY <1>1, <1>3
<1> QED BY <1>1, <1>2, <1>4 DEF InInv, OneOp, InShape

LEMMA InCreateDumpIs == ASSUME InInv, InspectorC!CreateDump PROVE InInv'
<1>1. /\ ~in_busy /\ in_text = InspectorC!None
      /\ in_busy' = TRUE /\ in_ops' = Append(in_ops, <<"trigger", InspectorC!Fresh>>)
      /\ in_wanted' = InspectorC!Fresh
      /\ UNCHANGED <<in_inspect, in_rows, in_loads, in_text>>
  BY DEF InspectorC!CreateDump
<1>2. in_ops = <<>>
  BY <1>1 DEF InInv, OneOp
<1>3. in_ops' = <<<<"trigger", in_wanted'>>>> /\ in_ops' # <<>>
  BY <1>1, <1>2
<1> QED BY <1>1, <1>3 DEF InInv, OneOp, InShape

LEMMA InStepIs ==
  ASSUME InInv, NEW i \in DOMAIN in_ops, InspectorC!Step(i)
  PROVE  InInv'
<1>1. PICK stage \in {"trigger", "content", "list"} : in_ops = <<<<stage, in_wanted>>>>
  BY DEF InInv, OneOp
<1>2. /\ i = 1 /\ in_ops[i] = <<stage, in_wanted>> /\ in_ops[i][1] = stage
      /\ in_ops[i][2] = in_wanted
  BY <1>1
<1>3. InspectorC!RemoveAt(in_ops, i) = <<>>
  BY <1>1, <1>2 DEF InspectorC!RemoveAt
<1>4. \A x : [in_ops EXCEPT ![i] = x] = <<x>> /\ <<x>> # <<>>
  BY <1>1, <1>2
<1>5. InLists["dump"] \subseteq Seq(InRows)
  BY WindowScreensAssumption DEF InKinds
<1>6. in_busy = TRUE /\ in_rows \in Seq(InRows)
  BY <1>1 DEF InInv, OneOp, InShape
<1>7. UNCHANGED <<in_inspect, in_loads, in_wanted>>
  BY DEF InspectorC!Step
<1>8. /\ in_rows' \in Seq(InRows)
      /\ \/ in_ops' = <<>> /\ in_busy' = FALSE
         \/ /\ in_busy' = TRUE
            /\ \E next \in {"trigger", "content", "list"} : in_ops' = <<<<next, in_wanted>>>>
      /\ in_text' = in_text \/ in_text' = in_wanted
  BY <1>2, <1>3, <1>4, <1>5, <1>6 DEF InspectorC!Step
<1>9. InShape'
  BY <1>7, <1>8 DEF InInv, InShape
<1>10. /\ in_busy' \in BOOLEAN /\ (in_ops' # <<>>) = in_busy'
  BY <1>4, <1>8
<1>11. in_text' # InspectorC!None => in_text' = in_wanted'
  BY <1>7, <1>8 DEF InInv, OneOp
<1>12. in_ops' = <<>>
       \/ \E next \in {"trigger", "content", "list"} : in_ops' = <<<<next, in_wanted'>>>>
  BY <1>7, <1>8
<1> QED BY <1>9, <1>10, <1>11, <1>12 DEF InInv, OneOp

LEMMA InInvInit == InspectorC!Init => InInv
<1> SUFFICES ASSUME InspectorC!Init PROVE InInv
  OBVIOUS
<1>1. in_inspect.kind = InspectorC!None /\ in_loads = <<>> /\ in_rows = <<>>
  BY DEF InspectorC!Init, InspectorC!NoOne
<1>2. InShape
  BY <1>1, NoEntries DEF InShape
<1>3. OneOp
  BY DEF InspectorC!Init, OneOp
<1> QED BY <1>2, <1>3 DEF InInv

LEMMA InInvNext == InInv /\ [InspectorC!Next]_InspectorVars => InInv'
<1> SUFFICES ASSUME InInv, [InspectorC!Next]_InspectorVars
             PROVE  InInv'
  OBVIOUS
<1>1. CASE InspectorC!Search \/ InspectorC!ThreadAnswer \/ InspectorC!CloseThread
           \/ UNCHANGED InspectorVars
  BY <1>1, InLeaves DEF InspectorC!Search, InspectorC!ThreadAnswer, InspectorC!CloseThread,
     InspectorC!list, InspectorC!dump, InspectorVars
<1>2. CASE InspectorC!Back
  BY <1>2 DEF InspectorC!Back, InspectorC!list, InInv, InShape, OneOp
<1>3. ASSUME NEW r, InspectorC!PickActive(r) PROVE InInv'
  BY <1>3, InLeaves DEF InspectorC!PickActive, InspectorC!list, InspectorC!dump
<1>4. ASSUME NEW c, InspectorC!AskOrCancel(c) \/ InspectorC!Run(c) PROVE InInv'
  BY <1>4, InLeaves DEF InspectorC!AskOrCancel, InspectorC!Run, InspectorC!list, InspectorC!dump
<1>5. ASSUME NEW i, InspectorC!RunEnds(i) PROVE InInv'
  BY <1>5, InLeaves DEF InspectorC!RunEnds, InspectorC!list, InspectorC!dump
<1> QED BY <1>1, <1>2, <1>3, <1>4, <1>5, InOpenIs, InCloseIs, InAsksIs, InAnswerIs,
           InOpenTextIs, InCreateDumpIs, InStepIs DEF InspectorC!Next

LEMMA InInvSays == InInv => InspectorC!TextIsPicked
<1> SUFFICES ASSUME InInv PROVE InspectorC!TextIsPicked
  OBVIOUS
<1>1. Len(in_ops) <= 1
  <2>1. in_ops = <<>> \/ \E x : in_ops = <<x>>
    BY DEF InInv, OneOp
  <2>2. CASE in_ops = <<>>
    BY <2>2
  <2>3. ASSUME NEW x, in_ops = <<x>> PROVE Len(in_ops) <= 1
    <3>1. Len(<<x>>) = 1
      OBVIOUS
    <3> QED BY <2>3, <3>1
  <2> QED BY <2>1, <2>2, <2>3
<1> QED BY <1>1, TableIs DEF InspectorC!TextIsPicked, InspectorC!Kind, InInv, OneOp

LEMMA InspectorInit == Init => (which = "Inspector" => InInv)
BY InInvInit DEF Init

LEMMA InspectorStep ==
  (which = "Inspector" => InInv) /\ [Next]_allVars => (which = "Inspector" => InInv)'
<1> SUFFICES ASSUME which = "Inspector" => InInv, [Next]_allVars, (which = "Inspector")'
             PROVE  InInv'
  OBVIOUS
<1>1. CASE Next
  BY <1>1, Turns, InInvNext
<1>2. CASE UNCHANGED allVars
  BY <1>2, InInvNext DEF allVars
<1> QED BY <1>1, <1>2

\* The text that is open is the one that was asked for last, though a dump that is made
\* comes in three answers and any of them may fail; one is opened at a time; and a table
\* in its order, whatever it is sorted by, has every row that was found
\* (ObjectInspector.tsx).
THEOREM OpenedIsPicked == Spec => []InspectorTrue
<1>1. (which = "Inspector" => InInv) => InspectorTrue
  BY InInvSays DEF InspectorTrue
<1> QED BY InspectorInit, InspectorStep, <1>1, PTL DEF Spec

-----------------------------------------------------------------------------
(* The list of servers.                                                    *)

SlTargets == ServerListC!Targets
Prof(N) == [host : SlHosts, user : SlUsers, name : N, pass : BOOLEAN]
\* A target is in the list once.
Apart(ts) == \A i, j \in DOMAIN ts :
  ServerListC!Target(ts[i]) = ServerListC!Target(ts[j]) => i = j
ListTrue(ts) == (\E N : ts \in Seq(Prof(N))) /\ Apart(ts)
\* The same servers with the same passwords, whatever their names.
SameServers(s, q) ==
  /\ DOMAIN q = DOMAIN s
  /\ \A i \in DOMAIN s : /\ ServerListC!Target(q[i]) = ServerListC!Target(s[i])
                         /\ q[i].pass = s[i].pass

SlForm ==
  /\ sl_form \in [host : SlHosts, user : SlUsers, remember : BOOLEAN]
  /\ sl_conn \in SlTargets \cup {ServerListC!Nowhere, ServerListC!DemoData}
  /\ sl_asked # ServerListC!Idle =>
       /\ sl_asked.t \in SlTargets
       /\ sl_asked.way = "form" => sl_asked.t = ServerListC!Target(sl_form)

\* What the form was given, it asks to remember when that is remembered.
FormTells == ~sl_byHand =>
  (ServerListC!Remembered(sl_servers, ServerListC!Target(sl_form)) => sl_form.remember)

SlInv == ListTrue(sl_servers) /\ SlForm /\ FormTells

LEMMA SlListsAre ==
  /\ \A s, K : ServerListC!Only(s, K) = Only(s, K)
  /\ \A s : ServerListC!ToSet(s) = Entries(s)
<1>1. ASSUME NEW s, NEW K PROVE ServerListC!Only(s, K) = Only(s, K)
  BY DEF ServerListC!Only, Only
<1>2. ASSUME NEW s PROVE ServerListC!ToSet(s) = Entries(s)
  BY DEF ServerListC!ToSet, Entries
<1> QED BY <1>1, <1>2

LEMMA TargetIs ==
  /\ \A t \in SlTargets : ServerListC!Target(t) = t
  /\ \A N : \A p \in Prof(N) : ServerListC!Target(p) \in SlTargets /\ p.pass \in BOOLEAN
  /\ \A f \in [host : SlHosts, user : SlUsers, remember : BOOLEAN] :
       ServerListC!Target(f) \in SlTargets /\ f.remember \in BOOLEAN
<1>1. \A t \in SlTargets : ServerListC!Target(t) = t
  BY DEF ServerListC!Target, SlTargets, ServerListC!Targets
<1>2. ASSUME NEW N, NEW p \in Prof(N) PROVE ServerListC!Target(p) \in SlTargets /\ p.pass \in BOOLEAN
  BY DEF Prof, ServerListC!Target, SlTargets, ServerListC!Targets
<1>3. \A f \in [host : SlHosts, user : SlUsers, remember : BOOLEAN] :
       ServerListC!Target(f) \in SlTargets /\ f.remember \in BOOLEAN
  BY DEF ServerListC!Target, SlTargets, ServerListC!Targets
<1> QED BY <1>1, <1>2, <1>3

LEMMA ListIn ==
  ASSUME NEW S, NEW n \in Nat, NEW f \in [1..n -> S]
  PROVE  f \in Seq(S) /\ Len(f) = n
OBVIOUS

LEMMA ProfsMore ==
  ASSUME NEW N, NEW M, NEW s \in Seq(Prof(N))
  PROVE  s \in Seq(Prof(N \cup M))
<1>1. Prof(N) \subseteq Prof(N \cup M)
  BY DEF Prof
<1> HIDE DEF Prof
<1>2. Len(s) \in Nat /\ s \in [1..Len(s) -> Prof(N)]
  OBVIOUS
<1>3. s \in [1..Len(s) -> Prof(N \cup M)]
  BY <1>1, <1>2
<1> QED BY <1>2, <1>3, ListIn

\* A profile with another name, or another choice to remember.
LEMMA ProfIs ==
  ASSUME NEW N, NEW p \in Prof(N), NEW save \in BOOLEAN
  PROVE  /\ [p EXCEPT !.pass = save] \in Prof(N)
         /\ ServerListC!Target([p EXCEPT !.pass = save]) = ServerListC!Target(p)
         /\ [p EXCEPT !.pass = save].pass = save
BY DEF Prof, ServerListC!Target

LEMMA NamedIs ==
  ASSUME NEW N, NEW p \in Prof(N), NEW x
  PROVE  /\ [p EXCEPT !.name = x] \in Prof(N \cup {x})
         /\ ServerListC!Target([p EXCEPT !.name = x]) = ServerListC!Target(p)
         /\ [p EXCEPT !.name = x].pass = p.pass
BY DEF Prof, ServerListC!Target

LEMMA RememberedIs ==
  ASSUME NEW s, NEW q, SameServers(s, q), NEW t
  PROVE  ServerListC!Remembered(s, t) <=> ServerListC!Remembered(q, t)
BY DEF SameServers, ServerListC!Remembered

LEMMA SameApart ==
  ASSUME NEW s, NEW q, SameServers(s, q), Apart(s)
  PROVE  Apart(q)
BY DEF SameServers, Apart

LEMMA IndexIs ==
  ASSUME NEW S, NEW s \in Seq(S), NEW p
  PROVE  \/ /\ ServerListC!IndexOf(s, p) = 0
            /\ \A i \in DOMAIN s : ServerListC!Target(s[i]) # ServerListC!Target(p)
         \/ /\ ServerListC!IndexOf(s, p) \in DOMAIN s
            /\ ServerListC!Target(s[ServerListC!IndexOf(s, p)]) = ServerListC!Target(p)
<1> DEFINE same == {i \in DOMAIN s : ServerListC!SameTarget(s[i], p)}
<1>1. ServerListC!IndexOf(s, p) = IF same = {} THEN 0
                                  ELSE CHOOSE i \in same : \A j \in same : i <= j
  BY DEF ServerListC!IndexOf
<1>2. same \in SUBSET Nat
  OBVIOUS
<1>3. \A i : i \in same <=> i \in DOMAIN s /\ ServerListC!Target(s[i]) = ServerListC!Target(p)
  BY DEF ServerListC!SameTarget
<1> HIDE DEF same
<1>4. same # {} => \E i \in same : \A j \in same : i <= j
  BY <1>2, LeastOf
<1>5. same # {} => ServerListC!IndexOf(s, p) \in same
  BY <1>1, <1>4
<1> QED BY <1>1, <1>3, <1>5

\* A connection by the form takes the server in, and changes no other.
LEMMA UpsertIs ==
  ASSUME NEW s, ListTrue(s), NEW t \in SlTargets, NEW save \in BOOLEAN,
         NEW q, q = ServerListC!Upsert(s, t, save)
  PROVE  /\ ListTrue(q)
         /\ \A u \in SlTargets : u # t =>
              (ServerListC!Remembered(q, u) <=> ServerListC!Remembered(s, u))
         /\ ServerListC!Remembered(q, t) <=> save
<1> DEFINE i == ServerListC!IndexOf(s, t)
           n == [host |-> t.host, user |-> t.user, name |-> ServerListC!None, pass |-> save]
<1>1. PICK N : s \in Seq(Prof(N))
  BY DEF ListTrue
<1>2. q = IF i = 0 THEN Append(s, n) ELSE [s EXCEPT ![i].pass = save]
  BY DEF ServerListC!Upsert
<1>3. Len(s) \in Nat /\ DOMAIN s = 1..Len(s)
  BY <1>1
<1>4. ServerListC!Target(t) = t
  BY TargetIs
<1>5. \/ i = 0 /\ \A k \in DOMAIN s : ServerListC!Target(s[k]) # t
      \/ i \in DOMAIN s /\ ServerListC!Target(s[i]) = t
  BY <1>1, <1>4, IndexIs
<1>6. \A k \in DOMAIN s : s[k] \in Prof(N)
  <2> HIDE DEF Prof
  <2> QED BY <1>1
<1> HIDE DEF i
<1>7. CASE i = 0
  <2>1. \A k \in DOMAIN s : ServerListC!Target(s[k]) # t
    BY <1>3, <1>5, <1>7
  <2>2. n \in Prof(N \cup {ServerListC!None}) /\ ServerListC!Target(n) = t /\ n.pass = save
    BY DEF Prof, ServerListC!Target, SlTargets, ServerListC!Targets
  <2> HIDE DEF n, Prof
  <2>3. s \in Seq(Prof(N \cup {ServerListC!None}))
    BY <1>1, ProfsMore
  <2>4. /\ q \in Seq(Prof(N \cup {ServerListC!None}))
        /\ DOMAIN q = 1..(Len(s) + 1) /\ q[Len(s) + 1] = n
        /\ \A k \in DOMAIN s : q[k] = s[k]
    BY <1>2, <1>7, <2>2, <2>3
  <2>5. DOMAIN q = DOMAIN s \cup {Len(s) + 1}
    BY <1>3, <2>4
  <2>6. Apart(q)
    BY <2>1, <2>2, <2>4, <2>5 DEF Apart, ListTrue
  <2>7. ASSUME NEW u \in SlTargets
        PROVE  ServerListC!Remembered(q, u) <=> (ServerListC!Remembered(s, u) \/ (u = t /\ save))
    BY <2>2, <2>4, <2>5 DEF ServerListC!Remembered
  <2>8. ~ServerListC!Remembered(s, t)
    BY <2>1 DEF ServerListC!Remembered
  <2> QED BY <2>4, <2>6, <2>7, <2>8 DEF ListTrue
<1>8. CASE i # 0
  <2>1. i \in DOMAIN s /\ ServerListC!Target(s[i]) = t
    BY <1>5, <1>8
  <2>2. DOMAIN q = DOMAIN s /\ q = [k \in DOMAIN s |-> q[k]]
    BY <1>2, <1>8
  <2>3. \A k \in DOMAIN s : q[k] = IF k = i THEN [s[i] EXCEPT !.pass = save] ELSE s[k]
    BY <1>2, <1>8, <2>1
  <2>4. q[i] \in Prof(N) /\ ServerListC!Target(q[i]) = t /\ q[i].pass = save
    <3> DEFINE r == s[i]
    <3>1. r \in Prof(N) /\ ServerListC!Target(r) = t
      BY <1>6, <2>1
    <3>2. q[i] = [r EXCEPT !.pass = save]
      BY <2>1, <2>3
    <3> HIDE DEF r
    <3>3. /\ [r EXCEPT !.pass = save] \in Prof(N)
          /\ ServerListC!Target([r EXCEPT !.pass = save]) = ServerListC!Target(r)
          /\ [r EXCEPT !.pass = save].pass = save
      BY <3>1, ProfIs
    <3> QED BY <3>1, <3>2, <3>3, Zenon
  <2>5. \A k \in DOMAIN s : k # i => q[k] = s[k]
    BY <2>3
  <2>6. \A k \in DOMAIN s : q[k] \in Prof(N) /\ ServerListC!Target(q[k]) = ServerListC!Target(s[k])
    BY <1>6, <2>1, <2>4, <2>5
  <2>7. q \in Seq(Prof(N))
    <3> HIDE DEF Prof
    <3>1. q \in [1..Len(s) -> Prof(N)]
      BY <1>3, <2>2, <2>6
    <3> QED BY <1>3, <3>1
  <2>8. Apart(s)
    BY DEF ListTrue
  <2>9. Apart(q)
    BY <2>2, <2>6, <2>8 DEF Apart
  <2>10. ASSUME NEW u \in SlTargets, u # t
         PROVE  ServerListC!Remembered(q, u) <=> ServerListC!Remembered(s, u)
    BY <2>1, <2>2, <2>4, <2>5, <2>10 DEF ServerListC!Remembered
  <2>11. ServerListC!Remembered(q, t) <=> save
    <3>1. \A k \in DOMAIN s : ServerListC!Target(q[k]) = t => k = i
      BY <2>1, <2>6, <2>8 DEF Apart
    <3> QED BY <2>1, <2>2, <2>4, <3>1 DEF ServerListC!Remembered
  <2> QED BY <2>7, <2>9, <2>10, <2>11 DEF ListTrue
<1> QED BY <1>7, <1>8

LEMMA RenamedIs ==
  ASSUME NEW s, ListTrue(s), NEW k \in DOMAIN s, NEW name,
         NEW q, q = ServerListC!Renamed(s, s[k], name)
  PROVE  ListTrue(q) /\ SameServers(s, q)
<1>1. PICK N : s \in Seq(Prof(N))
  BY DEF ListTrue
<1> DEFINE i == ServerListC!IndexOf(s, s[k])
           x == IF name = ServerListC!None THEN ServerListC!None
                ELSE ServerListC!UniqueName(s, s[k], name)
<1>2. q = [s EXCEPT ![i].name = x]
  BY DEF ServerListC!Renamed
<1>3. Len(s) \in Nat /\ DOMAIN s = 1..Len(s)
  BY <1>1
<1>4. i \in DOMAIN s
  BY <1>1, IndexIs
<1>5. \A j \in DOMAIN s : s[j] \in Prof(N)
  <2> HIDE DEF Prof
  <2> QED BY <1>1
<1> HIDE DEF i, x
<1>6. /\ DOMAIN q = DOMAIN s /\ q = [j \in DOMAIN s |-> q[j]]
      /\ \A j \in DOMAIN s : q[j] = IF j = i THEN [s[i] EXCEPT !.name = x] ELSE s[j]
  BY <1>2, <1>4
<1>7. /\ q[i] \in Prof(N \cup {x})
      /\ ServerListC!Target(q[i]) = ServerListC!Target(s[i]) /\ q[i].pass = s[i].pass
  <2> DEFINE r == s[i]
  <2>1. r \in Prof(N)
    BY <1>4, <1>5
  <2>2. q[i] = [r EXCEPT !.name = x]
    BY <1>4, <1>6
  <2> HIDE DEF r
  <2>3. /\ [r EXCEPT !.name = x] \in Prof(N \cup {x})
        /\ ServerListC!Target([r EXCEPT !.name = x]) = ServerListC!Target(r)
        /\ [r EXCEPT !.name = x].pass = r.pass
    BY <2>1, NamedIs
  <2>4. /\ q[i] \in Prof(N \cup {x}) /\ ServerListC!Target(q[i]) = ServerListC!Target(r)
        /\ q[i].pass = r.pass
    BY <2>2, <2>3, Zenon
  <2> QED BY <2>4 DEF r
<1>8. SameServers(s, q)
  BY <1>4, <1>6, <1>7 DEF SameServers
<1>9. Prof(N) \subseteq Prof(N \cup {x})
  BY DEF Prof
<1> HIDE DEF Prof
<1>10. \A j \in DOMAIN s : q[j] \in Prof(N \cup {x})
  BY <1>4, <1>5, <1>6, <1>7, <1>9
<1>11. q \in [1..Len(s) -> Prof(N \cup {x})]
  BY <1>3, <1>6, <1>10
<1>12. q \in Seq(Prof(N \cup {x}))
  BY <1>3, <1>11, ListIn
<1> QED BY <1>8, <1>12, SameApart DEF ListTrue

\* A profile that is forgotten takes with it what is shown by its name, whole servers.
LEMMA ForgottenIs ==
  ASSUME NEW s, ListTrue(s), NEW p, NEW q, q = ServerListC!Without(s, p)
  PROVE  /\ ListTrue(q) /\ Entries(q) \subseteq Entries(s)
         /\ \A t : ServerListC!Remembered(q, t) => ServerListC!Remembered(s, t)
         /\ \A t : (/\ ServerListC!Remembered(s, t)
                    /\ \E i \in DOMAIN q : ServerListC!Target(q[i]) = t)
                   => ServerListC!Remembered(q, t)
<1>1. PICK N : s \in Seq(Prof(N))
  BY DEF ListTrue
<1>2. PICK K : q = Only(s, K)
  BY SlListsAre DEF ServerListC!Without
<1> HIDE DEF Prof
<1>3. /\ q \in Seq(Prof(N)) /\ Entries(q) = Entries(s) \cap K
      /\ Distinct(s) => Distinct(q)
  BY <1>1, <1>2, OnlyIs
<1>4. \A x, y \in Entries(s) : ServerListC!Target(x) = ServerListC!Target(y) => x = y
  BY DEF ListTrue, Apart, Entries
<1>5. Distinct(q)
  <2>1. Distinct(s)
    BY DEF ListTrue, Apart, Distinct
  <2> QED BY <1>3, <2>1
<1>6. Apart(q)
  <2> SUFFICES ASSUME NEW i \in DOMAIN q, NEW j \in DOMAIN q,
                      ServerListC!Target(q[i]) = ServerListC!Target(q[j])
               PROVE  i = j
    BY DEF Apart
  <2>1. q[i] \in Entries(s) /\ q[j] \in Entries(s)
    BY <1>3 DEF Entries
  <2>2. q[i] = q[j]
    BY <1>4, <2>1
  <2> QED BY <2>2, <1>5 DEF Distinct
<1>7. \A u, t : ServerListC!Remembered(u, t) <=> \E x \in Entries(u) : ServerListC!Target(x) = t /\ x.pass
  BY DEF ServerListC!Remembered, Entries
<1>8. ASSUME NEW t, ServerListC!Remembered(q, t) PROVE ServerListC!Remembered(s, t)
  BY <1>3, <1>7, <1>8
<1>9. ASSUME NEW t, ServerListC!Remembered(s, t), NEW i \in DOMAIN q, ServerListC!Target(q[i]) = t
      PROVE  ServerListC!Remembered(q, t)
  <2>1. PICK x \in Entries(s) : ServerListC!Target(x) = t /\ x.pass
    BY <1>7, <1>9
  <2>2. q[i] \in Entries(q) /\ q[i] \in Entries(s)
    BY <1>3 DEF Entries
  <2>3. q[i] = x
    BY <1>4, <1>9, <2>1, <2>2
  <2> QED BY <1>7, <2>1, <2>2, <2>3
<1> QED BY <1>1, <1>3, <1>6, <1>8, <1>9 DEF ListTrue

\* What reading the file makes of one more profile.
ReadOne(g, p) ==
  LET label == ServerListC!Numbered(ServerListC!Labels(g), ServerListC!DisplayName(p))
  IN  Append(g, IF label = ServerListC!DisplayName(p) THEN p ELSE [p EXCEPT !.name = label])
ListReads(f, s, N) == f = [n \in 0..N |-> IF n = 0 THEN <<>> ELSE ReadOne(f[n - 1], s[n])]

LEMMA ReadsExists ==
  ASSUME NEW s, NEW N \in Nat
  PROVE  \E f : ListReads(f, s, N)
<1> DEFINE Bad == {k \in Nat : ~\E f : ListReads(f, s, k)}
<1>1. SUFFICES ASSUME Bad # {} PROVE FALSE
  OBVIOUS
<1>2. PICK k \in Bad : \A y \in Bad : k <= y
  <2> HIDE DEF Bad
  <2>1. Bad \in SUBSET Nat
    BY DEF Bad
  <2> QED BY <1>1, <2>1, LeastOf
<1>3. k \in Nat
  OBVIOUS
<1>4. CASE k = 0
  <2> DEFINE f == [n \in 0..0 |-> <<>>]
  <2>1. ListReads(f, s, 0)
    BY DEF ListReads
  <2> QED BY <2>1, <1>4
<1>5. CASE k # 0
  <2>1. k - 1 \in Nat /\ ~(k <= k - 1)
    BY <1>3, <1>5
  <2>2. k - 1 \notin Bad
    BY <2>1, <1>2
  <2>3. PICK g : ListReads(g, s, k - 1)
    BY <2>1, <2>2
  <2> DEFINE f == [n \in 0..k |-> IF n = k THEN ReadOne(g[k - 1], s[k]) ELSE g[n]]
             Step(h, n) == IF n = 0 THEN <<>> ELSE ReadOne(h[n - 1], s[n])
  <2>4. \A n \in 0..k : f[n] = Step(f, n)
    <3> SUFFICES ASSUME NEW n \in 0..k PROVE f[n] = Step(f, n)
      OBVIOUS
    <3>1. CASE n = k
      <4>1. k - 1 \in 0..k /\ k - 1 # k /\ k \in 0..k
        BY <1>3, <1>5
      <4>2. f[n - 1] = g[k - 1]
        BY <4>1, <3>1
      <4> QED BY <3>1, <4>1, <4>2, <1>5
    <3>2. CASE n # k
      <4>1. n \in 0..(k - 1)
        BY <3>2, <1>3
      <4>2. f[n] = g[n]
        BY <3>2
      <4>3. n # 0 => n - 1 \in 0..k /\ n - 1 # k
        BY <4>1, <1>3
      <4>4. n # 0 => f[n - 1] = g[n - 1]
        BY <4>3
      <4>5. g[n] = Step(g, n)
        BY <2>3, <4>1 DEF ListReads
      <4> QED BY <4>2, <4>4, <4>5
    <3> QED BY <3>1, <3>2
  <2>5. ListReads(f, s, k)
    <3>1. f = [n \in 0..k |-> f[n]]
      OBVIOUS
    <3> HIDE DEF f
    <3> QED BY <3>1, <2>4 DEF ListReads
  <2> QED BY <2>5
<1> QED BY <1>4, <1>5

\* The first n profiles, read.
ReadTrue(g, s, n) ==
  /\ \E N : g \in Seq(Prof(N))
  /\ Len(g) = n
  /\ \A i \in 1..n : /\ ServerListC!Target(g[i]) = ServerListC!Target(s[i])
                     /\ g[i].pass = s[i].pass

LEMMA ReadOneIs ==
  ASSUME NEW M, NEW s \in Seq(Prof(M)), NEW n \in 1..Len(s), NEW g, ReadTrue(g, s, n - 1)
  PROVE  ReadTrue(ReadOne(g, s[n]), s, n)
<1> DEFINE r == s[n]
           label == ServerListC!Numbered(ServerListC!Labels(g), ServerListC!DisplayName(r))
           x == IF label = ServerListC!DisplayName(r) THEN r ELSE [r EXCEPT !.name = label]
           t == Append(g, x)
<1>1. PICK N : g \in Seq(Prof(N))
  BY DEF ReadTrue
<1> DEFINE L == (N \cup M) \cup {label}
<1>2. ReadOne(g, s[n]) = t
  BY DEF ReadOne
<1>3. r \in Prof(M) /\ n \in Nat /\ n - 1 \in Nat /\ 1..n = 1..(n - 1) \cup {n}
  <2> HIDE DEF Prof
  <2> QED OBVIOUS
<1> HIDE DEF label, r
<1>4. x \in Prof(L) /\ ServerListC!Target(x) = ServerListC!Target(r) /\ x.pass = r.pass
  <2>1. /\ [r EXCEPT !.name = label] \in Prof(M \cup {label})
        /\ ServerListC!Target([r EXCEPT !.name = label]) = ServerListC!Target(r)
        /\ [r EXCEPT !.name = label].pass = r.pass
    BY <1>3, NamedIs
  <2>2. Prof(M) \subseteq Prof(L) /\ Prof(M \cup {label}) \subseteq Prof(L)
    BY DEF Prof
  <2> HIDE DEF L, Prof
  <2>3. CASE label = ServerListC!DisplayName(r)
    BY <1>3, <2>2, <2>3
  <2>4. CASE label # ServerListC!DisplayName(r)
    <3>1. x = [r EXCEPT !.name = label]
      BY <2>4
    <3> QED BY <2>1, <2>2, <3>1, Zenon
  <2> QED BY <2>3, <2>4
<1>5. g \in Seq(Prof(L))
  <2>1. N \cup (M \cup {label}) = L
    OBVIOUS
  <2> HIDE DEF L
  <2> QED BY <1>1, <2>1, ProfsMore
<1> HIDE DEF x, L, Prof
<1>6. /\ t \in Seq(Prof(L)) /\ Len(t) = Len(g) + 1 /\ t[Len(g) + 1] = x
      /\ \A i \in 1..Len(g) : t[i] = g[i]
  BY <1>4, <1>5
<1>7. Len(g) = n - 1
  BY DEF ReadTrue
<1>8. Len(t) = n /\ t[n] = x /\ \A i \in 1..(n - 1) : t[i] = g[i]
  BY <1>3, <1>6, <1>7
<1> HIDE DEF t
<1>9. \A i \in 1..n : /\ ServerListC!Target(t[i]) = ServerListC!Target(s[i])
                      /\ t[i].pass = s[i].pass
  BY <1>3, <1>4, <1>8 DEF ReadTrue, r
<1> QED BY <1>2, <1>6, <1>8, <1>9 DEF ReadTrue

\* The list that is read from the file has the servers that were written.
LEMMA ReadIs ==
  ASSUME NEW s, ListTrue(s), NEW q, q = ServerListC!Normalize(s)
  PROVE  ListTrue(q) /\ SameServers(s, q)
<1> DEFINE N == Len(s)
           f == CHOOSE g : ListReads(g, s, N)
<1>1. PICK M : s \in Seq(Prof(M))
  BY DEF ListTrue
<1>2. N \in Nat /\ DOMAIN s = 1..N
  BY <1>1
<1>3. q = f[N]
  BY DEF ServerListC!Normalize, ListReads, ReadOne
<1>4. ListReads(f, s, N)
  BY <1>2, ReadsExists
<1> HIDE DEF f, N
<1>5. \A n \in 0..N : f[n] = IF n = 0 THEN <<>> ELSE ReadOne(f[n - 1], s[n])
  BY <1>4 DEF ListReads
<1>6. ReadTrue(f[0], s, 0)
  <2>1. f[0] = <<>>
    BY <1>2, <1>5
  <2>2. <<>> \in Seq(Prof({})) /\ Len(<<>>) = 0
    BY NoEntries
  <2> QED BY <2>1, <2>2 DEF ReadTrue
<1> DEFINE Bad == {n \in 0..N : ~ReadTrue(f[n], s, n)}
<1>7. Bad = {}
  <2> SUFFICES ASSUME Bad # {} PROVE FALSE
    OBVIOUS
  <2>1. PICK k \in Bad : \A y \in Bad : k <= y
    <3> HIDE DEF Bad
    <3>1. Bad \in SUBSET Nat
      BY <1>2 DEF Bad
    <3> QED BY <3>1, LeastOf
  <2>2. k \in 0..N /\ k # 0 /\ ~ReadTrue(f[k], s, k)
    BY <1>6
  <2>3. k - 1 \in 0..N /\ ~(k <= k - 1) /\ k \in 1..Len(s)
    BY <2>2, <1>2 DEF N
  <2>4. ReadTrue(f[k - 1], s, k - 1)
    BY <2>1, <2>3
  <2>5. f[k] = ReadOne(f[k - 1], s[k])
    BY <1>5, <2>2
  <2> QED BY <1>1, <2>2, <2>3, <2>4, <2>5, ReadOneIs
<1>8. ReadTrue(q, s, N)
  <2>1. N \in 0..N
    BY <1>2
  <2> QED BY <2>1, <1>3, <1>7
<1>9. DOMAIN q = DOMAIN s
  BY <1>2, <1>8 DEF ReadTrue
<1>10. SameServers(s, q)
  BY <1>2, <1>8, <1>9 DEF SameServers, ReadTrue
<1> QED BY <1>8, <1>10, SameApart DEF ListTrue, ReadTrue

LEMMA FilledIs ==
  ASSUME NEW t \in SlTargets
  PROVE  /\ ServerListC!Filled(t) \in [host : SlHosts, user : SlUsers, remember : BOOLEAN]
         /\ ServerListC!Target(ServerListC!Filled(t)) = t
         /\ ServerListC!Filled(t).remember = ServerListC!Remembered(sl_servers, t)
<1> DEFINE r == ServerListC!Remembered(sl_servers, t)
<1>1. r \in BOOLEAN
  BY DEF ServerListC!Remembered
<1>2. ServerListC!Filled(t) = [host |-> t.host, user |-> t.user, remember |-> r]
  BY DEF ServerListC!Filled
<1> HIDE DEF r
<1> QED BY <1>1, <1>2 DEF ServerListC!Target, SlTargets, ServerListC!Targets, r

\* Steps after which the list has the servers it had.
LEMMA PassSame ==
  ASSUME SlInv, ListTrue(sl_servers'), SameServers(sl_servers, sl_servers'), SlForm',
         \/ FormTells'
         \/ UNCHANGED <<sl_form, sl_byHand>>
  PROVE  SlInv' /\ ServerListC!PassStep
<1>1. \A t : ServerListC!Remembered(sl_servers, t) <=> ServerListC!Remembered(sl_servers', t)
  BY RememberedIs
<1>2. ServerListC!PassStep
  BY <1>1 DEF ServerListC!PassStep
<1>3. FormTells'
  <2>1. CASE UNCHANGED <<sl_form, sl_byHand>>
    <3>1. \A t : ServerListC!Remembered(sl_servers', t) => ServerListC!Remembered(sl_servers, t)
      BY <1>1
    <3> QED BY <3>1, <2>1 DEF SlInv, FormTells
  <2> QED BY <2>1
<1> QED BY <1>2, <1>3 DEF SlInv

LEMMA PassRests ==
  ASSUME SlInv, UNCHANGED sl_servers, SlForm', FormTells' \/ UNCHANGED <<sl_form, sl_byHand>>
  PROVE  SlInv' /\ ServerListC!PassStep
<1>1. ListTrue(sl_servers') /\ SameServers(sl_servers, sl_servers')
  BY DEF SlInv, SameServers
<1> QED BY <1>1, PassSame

LEMMA TypeIs == ASSUME SlInv, ServerListC!Type PROVE SlInv' /\ ServerListC!PassStep
<1>1. /\ sl_asked = ServerListC!Idle /\ sl_byHand' = TRUE
      /\ UNCHANGED <<sl_servers, sl_conn, sl_asked>>
  BY DEF ServerListC!Type
<1>2. sl_form' \in [host : SlHosts, user : SlUsers, remember : BOOLEAN]
  BY DEF ServerListC!Type
<1>3. SlForm'
  BY <1>1, <1>2 DEF SlInv, SlForm
<1>4. FormTells'
  BY <1>1 DEF FormTells
<1> QED BY <1>1, <1>3, <1>4, PassRests

LEMMA ConnectIs == ASSUME SlInv, ServerListC!Connect PROVE SlInv' /\ ServerListC!PassStep
<1>1. /\ sl_asked' = [t |-> ServerListC!Target(sl_form), way |-> "form"]
      /\ UNCHANGED <<sl_servers, sl_conn, sl_form, sl_byHand>>
  BY DEF ServerListC!Connect
<1>2. ServerListC!Target(sl_form) \in SlTargets
  BY TargetIs DEF SlInv, SlForm
<1>3. sl_asked'.t = ServerListC!Target(sl_form')
  BY <1>1
<1>4. SlForm'
  BY <1>1, <1>2, <1>3 DEF SlInv, SlForm
<1> QED BY <1>1, <1>4, PassRests

LEMMA SwitchIs == ASSUME SlInv, ServerListC!Switch PROVE SlInv' /\ ServerListC!PassStep
<1>1. PICK i \in DOMAIN sl_servers :
        /\ sl_asked' = [t |-> ServerListC!Target(sl_servers[i]),
                        way |-> IF sl_servers[i].pass THEN "switch" ELSE "blank"]
        /\ IF sl_servers[i].pass THEN UNCHANGED <<sl_form, sl_byHand>>
           ELSE /\ sl_form' = [host |-> sl_servers[i].host, user |-> sl_servers[i].user,
                               remember |-> FALSE]
                /\ sl_byHand' = FALSE
  BY DEF ServerListC!Switch
<1>2. sl_conn' = ServerListC!Nowhere /\ sl_servers' = sl_servers
  BY DEF ServerListC!Switch
<1> DEFINE p == sl_servers[i]
<1>3. PICK N : sl_servers \in Seq(Prof(N))
  BY DEF SlInv, ListTrue
<1>4. p \in Prof(N)
  <2> HIDE DEF Prof
  <2> QED BY <1>3
<1>5. ServerListC!Target(p) \in SlTargets
  BY <1>4, TargetIs
<1>6. sl_asked'.t \in SlTargets /\ sl_asked'.way # "form"
  BY <1>1, <1>5
<1>7. CASE p.pass
  <2>1. SlForm'
    BY <1>1, <1>2, <1>6, <1>7 DEF SlInv, SlForm
  <2> QED BY <1>1, <1>2, <1>7, <2>1, PassRests
<1>8. CASE ~p.pass
  <2>1. sl_form' = [host |-> p.host, user |-> p.user, remember |-> FALSE]
    BY <1>1, <1>8
  <2>2. /\ sl_form' \in [host : SlHosts, user : SlUsers, remember : BOOLEAN]
        /\ ServerListC!Target(sl_form') = ServerListC!Target(p)
    BY <1>4, <2>1 DEF Prof, ServerListC!Target
  <2>3. SlForm'
    BY <1>2, <1>6, <2>2 DEF SlForm
  <2>4. ~ServerListC!Remembered(sl_servers, ServerListC!Target(p))
    BY <1>8 DEF ServerListC!Remembered, SlInv, ListTrue, Apart
  <2>5. FormTells'
    BY <1>2, <2>2, <2>4 DEF FormTells
  <2> QED BY <1>2, <2>3, <2>5, PassRests
<1> QED BY <1>7, <1>8

LEMMA ConnectedIs == ASSUME SlInv, ServerListC!Connected PROVE SlInv' /\ ServerListC!PassStep
<1>1. /\ sl_asked # ServerListC!Idle /\ sl_asked' = ServerListC!Idle
      /\ sl_conn' = sl_asked.t /\ UNCHANGED <<sl_form, sl_byHand>>
  BY DEF ServerListC!Connected
<1>2. sl_asked.t \in SlTargets
  BY <1>1 DEF SlInv, SlForm
<1>3. SlForm'
  BY <1>1, <1>2 DEF SlInv, SlForm
<1>4. CASE sl_asked.way = "form"
  <2> DEFINE t == sl_asked.t
             save == sl_form.remember
  <2>1. sl_servers' = ServerListC!Upsert(sl_servers, t, save)
    BY <1>4 DEF ServerListC!Connected
  <2>2. t = ServerListC!Target(sl_form) /\ save \in BOOLEAN
    BY <1>1, <1>4 DEF SlInv, SlForm
  <2> HIDE DEF t, save
  <2>3. /\ ListTrue(sl_servers')
        /\ \A u \in SlTargets : u # t =>
             (ServerListC!Remembered(sl_servers', u) <=> ServerListC!Remembered(sl_servers, u))
        /\ ServerListC!Remembered(sl_servers', t) <=> save
    BY <1>2, <2>1, <2>2, UpsertIs DEF SlInv, t
  <2>4. FormTells'
    <3>1. ServerListC!Target(sl_form)' = t /\ sl_form'.remember = save
      BY <1>1, <2>2 DEF save
    <3> QED BY <2>3, <3>1 DEF FormTells
  <2>5. ~sl_byHand => (ServerListC!Remembered(sl_servers, t) => save)
    BY <2>2 DEF SlInv, FormTells, save
  <2>6. ServerListC!PassStep
    BY <2>3, <2>5 DEF ServerListC!PassStep, SlTargets
  <2> QED BY <1>3, <2>3, <2>4, <2>6 DEF SlInv
<1>5. CASE sl_asked.way # "form"
  <2>1. sl_servers' = sl_servers
    BY <1>5 DEF ServerListC!Connected
  <2> QED BY <1>1, <1>3, <2>1, PassRests
<1> QED BY <1>4, <1>5

LEMMA FailsIs == ASSUME SlInv, ServerListC!Fails PROVE SlInv' /\ ServerListC!PassStep
<1>1. /\ sl_asked # ServerListC!Idle /\ sl_asked' = ServerListC!Idle
      /\ UNCHANGED <<sl_servers, sl_conn>>
      /\ \/ sl_form' = ServerListC!Filled(sl_asked.t)
         \/ UNCHANGED <<sl_form, sl_byHand>>
  BY DEF ServerListC!Fails
<1>2. sl_asked.t \in SlTargets
  BY <1>1 DEF SlInv, SlForm
<1>3. CASE UNCHANGED <<sl_form, sl_byHand>>
  <2>1. SlForm'
    BY <1>1, <1>3 DEF SlInv, SlForm
  <2> QED BY <1>1, <1>3, <2>1, PassRests
<1>4. CASE sl_form' = ServerListC!Filled(sl_asked.t)
  <2>1. /\ sl_form' \in [host : SlHosts, user : SlUsers, remember : BOOLEAN]
        /\ ServerListC!Target(sl_form') = sl_asked.t
        /\ sl_form'.remember = ServerListC!Remembered(sl_servers, sl_asked.t)
    BY <1>2, <1>4, FilledIs
  <2>2. SlForm'
    BY <1>1, <2>1 DEF SlInv, SlForm
  <2>3. FormTells'
    BY <1>1, <2>1 DEF FormTells
  <2> QED BY <1>1, <2>2, <2>3, PassRests
<1> QED BY <1>1, <1>3, <1>4

LEMMA RestartIs == ASSUME SlInv, ServerListC!Restart PROVE SlInv' /\ ServerListC!PassStep
<1>1. /\ sl_conn # ServerListC!Nowhere /\ sl_conn # ServerListC!DemoData
      /\ sl_asked = ServerListC!Idle /\ sl_asked' = sl_asked /\ sl_conn' = ServerListC!Nowhere
      /\ sl_servers' = ServerListC!Normalize(sl_servers)
      /\ sl_form' = ServerListC!Filled(sl_conn)
  BY DEF ServerListC!Restart
<1>2. sl_conn \in SlTargets
  BY <1>1 DEF SlInv, SlForm
<1>3. ListTrue(sl_servers') /\ SameServers(sl_servers, sl_servers')
  BY <1>1, ReadIs DEF SlInv
<1>4. /\ sl_form' \in [host : SlHosts, user : SlUsers, remember : BOOLEAN]
      /\ ServerListC!Target(sl_form') = sl_conn
      /\ sl_form'.remember = ServerListC!Remembered(sl_servers, sl_conn)
  BY <1>1, <1>2, FilledIs
<1>5. SlForm'
  BY <1>1, <1>4 DEF SlForm
<1>6. ServerListC!Remembered(sl_servers, sl_conn) <=> ServerListC!Remembered(sl_servers', sl_conn)
  BY <1>3, RememberedIs
<1>7. FormTells'
  BY <1>4, <1>6 DEF FormTells
<1> QED BY <1>3, <1>5, <1>7, PassSame

LEMMA RenameIs == ASSUME SlInv, ServerListC!Rename PROVE SlInv' /\ ServerListC!PassStep
<1>1. PICK i \in DOMAIN sl_servers, name \in SlNames \cup {ServerListC!None} :
        sl_servers' = ServerListC!Renamed(sl_servers, sl_servers[i], name)
  BY DEF ServerListC!Rename
<1>2. UNCHANGED <<sl_conn, sl_form, sl_asked, sl_byHand>>
  BY DEF ServerListC!Rename
<1>3. ListTrue(sl_servers') /\ SameServers(sl_servers, sl_servers')
  BY <1>1, RenamedIs DEF SlInv
<1>4. SlForm'
  BY <1>2 DEF SlInv, SlForm
<1> QED BY <1>2, <1>3, <1>4, PassSame

LEMMA ForgetIs == ASSUME SlInv, ServerListC!Forget PROVE SlInv' /\ ServerListC!PassStep
<1>1. PICK i \in DOMAIN sl_servers : sl_servers' = ServerListC!Without(sl_servers, sl_servers[i])
  BY DEF ServerListC!Forget
<1>2. UNCHANGED <<sl_conn, sl_form, sl_asked, sl_byHand>>
  BY DEF ServerListC!Forget
<1> DEFINE q == sl_servers'
<1>3. ListTrue(sl_servers) /\ q = ServerListC!Without(sl_servers, sl_servers[i])
  BY <1>1 DEF SlInv
<1> HIDE DEF q
<1>4. /\ ListTrue(q)
      /\ \A t : ServerListC!Remembered(q, t) => ServerListC!Remembered(sl_servers, t)
      /\ \A t : (/\ ServerListC!Remembered(sl_servers, t)
                 /\ \E k \in DOMAIN q : ServerListC!Target(q[k]) = t)
                => ServerListC!Remembered(q, t)
  BY <1>3, ForgottenIs
<1>5. SlForm'
  BY <1>2 DEF SlInv, SlForm
<1>6. FormTells'
  BY <1>2, <1>4 DEF SlInv, FormTells, q
<1>7. \A t : (/\ ServerListC!Remembered(sl_servers, t)
              /\ \E k \in DOMAIN sl_servers' : ServerListC!Target(sl_servers'[k]) = t)
             => ServerListC!Remembered(sl_servers', t)
  BY <1>4 DEF q
<1>8. ServerListC!PassStep
  BY <1>7, Zenon DEF ServerListC!PassStep
<1> QED BY <1>4, <1>5, <1>6, <1>8 DEF SlInv, q

LEMMA SlInvInit == ServerListC!Init => SlInv
<1> SUFFICES ASSUME ServerListC!Init PROVE SlInv
  OBVIOUS
<1>1. /\ sl_servers = <<>> /\ sl_conn = ServerListC!Nowhere /\ sl_asked = ServerListC!Idle
      /\ sl_form \in [host : SlHosts, user : SlUsers, remember : {FALSE}]
  BY DEF ServerListC!Init
<1>2. ListTrue(sl_servers)
  <2>1. <<>> \in Seq(Prof({})) /\ DOMAIN <<>> = {}
    BY NoEntries
  <2> QED BY <1>1, <2>1 DEF ListTrue, Apart
<1>3. SlForm
  BY <1>1 DEF SlForm
<1>4. FormTells
  BY <1>1 DEF FormTells, ServerListC!Remembered
<1> QED BY <1>2, <1>3, <1>4 DEF SlInv

LEMMA SlInvNext == SlInv /\ [ServerListC!Next]_ServerListVars => SlInv' /\ ServerListC!PassStep
<1> SUFFICES ASSUME SlInv, [ServerListC!Next]_ServerListVars
             PROVE  SlInv' /\ ServerListC!PassStep
  OBVIOUS
<1>1. CASE ServerListC!Demo \/ ServerListC!Disconnect
  <2>1. /\ UNCHANGED <<sl_servers, sl_form, sl_asked, sl_byHand>>
        /\ sl_conn' \in {ServerListC!DemoData, ServerListC!Nowhere}
    BY <1>1 DEF ServerListC!Demo, ServerListC!Disconnect
  <2>2. SlForm'
    BY <2>1 DEF SlInv, SlForm
  <2> QED BY <2>1, <2>2, PassRests
<1>2. CASE UNCHANGED ServerListVars
  <2>1. UNCHANGED <<sl_servers, sl_conn, sl_form, sl_asked, sl_byHand>>
    BY <1>2 DEF ServerListVars
  <2>2. SlForm'
    BY <2>1 DEF SlInv, SlForm
  <2> QED BY <2>1, <2>2, PassRests
<1> QED BY <1>1, <1>2, TypeIs, ConnectIs, SwitchIs, ConnectedIs, FailsIs, RestartIs, RenameIs,
           ForgetIs DEF ServerListC!Next

LEMMA ServersInit == Init => (which = "ServerList" => SlInv)
BY SlInvInit DEF Init

LEMMA ServersStep ==
  (which = "ServerList" => SlInv) /\ [Next]_allVars =>
    (which = "ServerList" => SlInv)' /\ (which = "ServerList" => ServerListC!PassStep)
<1> SUFFICES ASSUME which = "ServerList" => SlInv, [Next]_allVars
             PROVE  /\ (which = "ServerList" => SlInv)'
                    /\ which = "ServerList" => ServerListC!PassStep
  OBVIOUS
<1>1. CASE Next
  BY <1>1, Turns, SlInvNext
<1>2. CASE UNCHANGED allVars
  <2>1. which' = which /\ UNCHANGED ServerListVars
    BY <1>2 DEF allVars
  <2> QED BY <2>1, SlInvNext
<1> QED BY <1>1, <1>2

\* A reported change of the AI connection stays in the file; and a password that was
\* remembered leaves a server of the list only by a connection with a form the user
\* filled in - not by switching, failing, renaming, restarting or connecting again with
\* what the form was given (commands.rs:2339-2353, ConnectionDialog.tsx:45-123).
THEOREM SettingsAreKept == Spec => SettingsTrue
<1>1. Spec => [](which = "AppSettings" => AppSettingsC!McpKept)
  BY ReportedIsKept
<1>2. (which = "ServerList" => SlInv) /\ [Next]_allVars =>
        [which = "ServerList" => ServerListC!PassStep]_allVars
  BY ServersStep
<1> QED BY ServersInit, ServersStep, <1>1, <1>2, PTL DEF Spec, SettingsTrue
=============================================================================
