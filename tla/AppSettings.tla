---------------------------- MODULE AppSettings ----------------------------
(***************************************************************************)
(* config.json, the one file in which the application keeps what it should *)
(* remember, and everybody who writes it.                                  *)
(*                                                                         *)
(* The backend holds the configuration in memory under a lock.  Some       *)
(* commands change one part of it (the layout, the servers, the last       *)
(* connection, the AI connection); save_config takes the whole of it from  *)
(* the window, which read a copy before: just before, for a view option, a *)
(* saved filter, thresholds, automatic connection and the open tabs, or    *)
(* when it was opened, for the settings dialog.  Calls of a window are     *)
(* under way together and land in any order, but for those of one command. *)
(*                                                                         *)
(* The value of a part is the number of the user's change that made it.    *)
(***************************************************************************)
EXTENDS Naturals, FiniteSets

CONSTANTS MaxChanges,   \* bound: changes the user makes
          MaxCalls,     \* bound: calls under way together
          MaxFails      \* bound: writes of the file that fail

VARIABLES mem,          \* the configuration in memory
          disk,         \* the file
          shown,        \* the values the window shows
          calls,        \* calls under way
          dialog,       \* the settings dialog: "closed", "reading", "open"
          copy,         \* the copy it read
          told,         \* ghost: the newest value whose save was reported done
          changes, fails

vars == <<mem, disk, shown, calls, dialog, copy, told, changes, fails>>

Merged == {"layout", "servers", "last", "mcp"}
Whole  == {"form", "filters", "open", "thresholds", "auto"}
Parts  == Merged \cup Whole

ReadCall(part)         == [kind |-> "read", part |-> part, with |-> {}]
WholeCall(part, cfg)   == [kind |-> "whole", part |-> part, with |-> {cfg}]
MergeCall(part, value) == [kind |-> "merge", part |-> part, with |-> {value}]
The(c) == CHOOSE x \in c.with : TRUE

Init ==
  /\ mem = [p \in Parts |-> 0] /\ disk = mem /\ shown = mem /\ told = mem
  /\ calls = {}
  /\ dialog = "closed" /\ copy = mem
  /\ changes = 0 /\ fails = 0

Room == Cardinality(calls) < MaxCalls
Busy(part) == \E c \in calls : c.part = part

(***************************************************************************)
(* The user changes something outside the settings dialog.  A part with a  *)
(* command of its own is sent; any other begins with reading the whole.    *)
(* The section of the AI connection takes one change at a time.            *)
(***************************************************************************)
Change ==
  /\ changes < MaxChanges /\ Room
  /\ \E p \in Parts :
       /\ p = "mcp" => dialog = "open" /\ ~Busy("mcp")
       /\ p \in {"auto", "thresholds"} => ~Busy(p)
       /\ shown' = [shown EXCEPT ![p] = changes + 1]
       /\ calls' = calls \cup {IF p \in Merged THEN MergeCall(p, changes + 1) ELSE ReadCall(p)}
  /\ changes' = changes + 1
  /\ UNCHANGED <<mem, disk, dialog, copy, told, fails>>

\* What is sent is the copy just read with the part the window has changed.
GetConfig ==
  /\ \E c \in calls :
       /\ c.kind = "read"
       /\ calls' = (calls \ {c}) \cup {WholeCall(c.part, [mem EXCEPT ![c.part] = shown[c.part]])}
  /\ UNCHANGED <<mem, disk, shown, dialog, copy, told, changes, fails>>

OpenDialog ==
  /\ dialog = "closed" /\ dialog' = "reading"
  /\ UNCHANGED <<mem, disk, shown, calls, copy, told, changes, fails>>

DialogReads ==
  /\ dialog = "reading" /\ dialog' = "open"
  /\ copy' = mem
  /\ UNCHANGED <<mem, disk, shown, calls, told, changes, fails>>

\* The dialog sends the copy it opened with, and its own fields.
DialogSaves ==
  /\ dialog = "open" /\ changes < MaxChanges /\ Room /\ ~Busy("form")
  /\ changes' = changes + 1
  /\ calls' = calls \cup {WholeCall("form", [copy EXCEPT !["form"] = changes + 1])}
  /\ UNCHANGED <<mem, disk, shown, dialog, copy, told, fails>>

CloseDialog ==
  /\ dialog # "closed" /\ dialog' = "closed"
  /\ UNCHANGED <<mem, disk, shown, calls, copy, told, changes, fails>>

Tell(part, value) == told' = [told EXCEPT ![part] = IF value > @ THEN value ELSE @]

\* Mutant: the whole configuration is taken as it was sent.
Kept_Sent(cfg) == cfg

\* What save_config keeps of its own of the whole it is sent.
Kept(cfg) == [cfg EXCEPT !["mcp"] = mem["mcp"]]

(***************************************************************************)
(* save_config writes the file first and takes the new configuration only  *)
(* when that worked.  A dialog that is still open goes on with what it     *)
(* sent, and the options on the screen become those of the dialog.         *)
(***************************************************************************)
SaveConfig ==
  \E c \in calls :
    /\ c.kind = "whole"
    /\ calls' = calls \ {c}
    /\ \/ /\ disk' = Kept(The(c)) /\ mem' = disk'
          /\ Tell(c.part, The(c)[c.part])
          /\ IF c.part = "form" /\ dialog = "open"
             THEN copy' = The(c) ELSE UNCHANGED copy
          /\ shown' = IF c.part = "form" THEN [shown EXCEPT !["form"] = The(c)["form"]] ELSE shown
          /\ UNCHANGED fails
       \/ /\ fails < MaxFails /\ fails' = fails + 1
          /\ UNCHANGED <<mem, disk, told, copy, shown>>
    /\ UNCHANGED <<dialog, changes>>

\* The other commands change the memory first: a write that fails leaves it changed.
Merge(p, value) == [mem EXCEPT ![p] = value]
SavePart ==
  \E c \in calls :
    /\ c.kind = "merge"
    /\ \A d \in calls : d.kind = "merge" /\ d.part = c.part => The(c) <= The(d)
    /\ calls' = calls \ {c}
    /\ mem' = Merge(c.part, The(c))
    /\ \/ disk' = mem' /\ Tell(c.part, The(c)) /\ UNCHANGED fails
       \/ fails < MaxFails /\ fails' = fails + 1 /\ UNCHANGED <<disk, told>>
    /\ UNCHANGED <<shown, dialog, copy, changes>>

\* The application is closed or dies, and starts with what the file says.
Restart ==
  /\ mem' = disk /\ shown' = disk
  /\ calls' = {} /\ dialog' = "closed"
  /\ UNCHANGED <<disk, copy, told, changes, fails>>

Next ==
  \/ Change \/ GetConfig \/ OpenDialog \/ DialogReads \/ DialogSaves \/ CloseDialog
  \/ SaveConfig \/ SavePart \/ Restart

Spec == Init /\ [][Next]_vars

-----------------------------------------------------------------------------
(***************************************************************************)
(* A change of the AI connection (the token above all: clients hold it)    *)
(* that was reported done is in the file from then on, whatever copies of  *)
(* the configuration are on their way, whichever writes fail and whenever  *)
(* the application is restarted (commands.rs:2339-2341, mcp/mod.rs:237).   *)
(***************************************************************************)
McpKept == disk["mcp"] >= told["mcp"]

(***************************************************************************)
(* App.tsx:868-872 says of the list of servers that it is merged by the    *)
(* backend so that no old copy takes back a password just remembered.      *)
(***************************************************************************)
ServersKept == disk["servers"] >= told["servers"]
=============================================================================
