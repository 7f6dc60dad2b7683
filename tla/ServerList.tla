----------------------------- MODULE ServerList -----------------------------
(***************************************************************************)
(* The servers the user goes between: the list with its names and its      *)
(* remembered passwords, the form to connect with, the switcher in the     *)
(* header, and the name the header gives to the server connected to.       *)
(*                                                                         *)
(* A target is a host (with its port) and a user.  A profile is shown by   *)
(* its name, or by its host when it has none; the name is what identifies  *)
(* it in the header and in the file.  Files and calls are left out: the    *)
(* list is kept by AppSettings, connecting is Session's.                   *)
(***************************************************************************)
EXTENDS Naturals, Sequences, FiniteSets, SequencesExt, TLC, Listing

CONSTANTS Hosts, Users,
          Names,        \* names a user gives
          MaxSteps      \* bound: connections, names given and removals

VARIABLES servers,      \* the list: [host, user, name, pass]
          current,      \* the name in the header, or None
          conn,         \* target connected to, DemoData or Nowhere
          form,         \* what the form holds: [host, user, remember]
          asked,        \* target being connected to, and by which way, or Idle
          byHand,       \* ghost: the form says something the user put there
          last,         \* last_server, by name
          steps

vars == <<servers, current, conn, form, asked, byHand, last, steps>>

None == "none"
Targets == [host : Hosts, user : Users]
Nowhere == [host |-> None, user |-> None]
DemoData == [host |-> "demo", user |-> None]
Idle == [t |-> Nowhere, way |-> None]
Target(p) == [host |-> p.host, user |-> p.user]

DisplayName(p) == IF p.name # None THEN p.name ELSE p.host
SameTarget(p, q) == Target(p) = Target(q)
IndexOf(list, p) ==
  LET same == {i \in DOMAIN list : SameTarget(list[i], p)}
  IN  IF same = {} THEN 0 ELSE CHOOSE i \in same : \A j \in same : i <= j
Labels(list) == {DisplayName(list[i]) : i \in DOMAIN list}

(***************************************************************************)
(* A server connected to enters the list without a name, or keeps its      *)
(* place and its name; its password is what was asked to be remembered.    *)
(***************************************************************************)
Upsert(list, t, save) ==
  LET i == IndexOf(list, t)
  IN  IF i = 0
      THEN Append(list, [host |-> t.host, user |-> t.user, name |-> None, pass |-> save])
      ELSE [list EXCEPT ![i].pass = save]

\* A second profile that would be shown by the same name gets the first free number.
Numbered(used, name) ==
  IF name \notin used THEN name
  ELSE LET At(n) == name \o " (" \o ToString(n) \o ")"
       IN  At(CHOOSE n \in 2..(Cardinality(used) + 2) :
                At(n) \notin used /\ \A m \in 2..(n - 1) : At(m) \in used)
UniqueName(list, p, name) ==
  Numbered(Labels(Only(list, {x \in ToSet(list) : ~SameTarget(x, p)})), name)

Renamed(list, p, name) ==
  [list EXCEPT ![IndexOf(list, p)].name =
     IF name = None THEN None ELSE UniqueName(list, p, name)]

Without(list, p) == Only(list, {x \in ToSet(list) : DisplayName(x) # DisplayName(p)})

\* The names of the file are made different when it is read.
Normalize(list) ==
  LET out[n \in 0..Len(list)] ==
        IF n = 0 THEN <<>>
        ELSE LET p == list[n]
                 label == Numbered(Labels(out[n - 1]), DisplayName(p))
             IN  Append(out[n - 1], IF label = DisplayName(p) THEN p ELSE [p EXCEPT !.name = label])
  IN  out[Len(list)]

LabelOf(list, t) == DisplayName(list[IndexOf(list, t)])
Remembered(list, t) == \E i \in DOMAIN list : Target(list[i]) = t /\ list[i].pass

-----------------------------------------------------------------------------
Init ==
  /\ servers = <<>> /\ current = None /\ conn = Nowhere
  /\ form \in [host : Hosts, user : Users, remember : {FALSE}]
  /\ asked = Idle /\ byHand = FALSE /\ last = None /\ steps = 0

Step == steps < MaxSteps /\ steps' = steps + 1

\* The user types another server, or sets the box «remember».
Type ==
  /\ conn = Nowhere /\ asked = Idle
  /\ form' \in [host : Hosts, user : Users, remember : BOOLEAN] \ {form}
  /\ byHand' = TRUE
  /\ UNCHANGED <<servers, current, conn, asked, last, steps>>

Connect ==
  /\ conn = Nowhere /\ asked = Idle /\ Step
  /\ asked' = [t |-> Target(form), way |-> "form"]
  /\ UNCHANGED <<servers, current, conn, form, byHand, last>>

\* The header's list: the connection is left first; without a password the form is filled.
Switch ==
  /\ asked = Idle /\ Step
  /\ \E i \in DOMAIN servers :
       LET p == servers[i]
       IN  /\ asked' = [t |-> Target(p), way |-> IF p.pass THEN "switch" ELSE "blank"]
           /\ IF p.pass THEN UNCHANGED <<form, byHand>>
              ELSE /\ form' = [host |-> p.host, user |-> p.user, remember |-> FALSE]
                   /\ byHand' = FALSE
  /\ conn' = Nowhere
  /\ UNCHANGED <<servers, current, last>>

(***************************************************************************)
(* What follows a connection made: by the form the list takes it in and    *)
(* the header its name; by the switcher the header takes the name it had   *)
(* there; one tried without a password changes neither.                    *)
(***************************************************************************)
Connected ==
  /\ asked # Idle
  /\ conn' = asked.t /\ asked' = Idle
  /\ CASE asked.way = "form" ->
            /\ servers' = Upsert(servers, asked.t, form.remember)
            /\ current' = LabelOf(servers', asked.t)
            /\ last' = current'
       [] asked.way = "switch" ->
            /\ current' = LabelOf(servers, asked.t)
            /\ last' = current'
            /\ UNCHANGED servers
       [] OTHER -> UNCHANGED <<servers, current, last>>
  /\ UNCHANGED <<form, byHand, steps>>

\* Mutant: the form of a failed switch does not ask to remember.
Filled_Unticked(t) == [host |-> t.host, user |-> t.user, remember |-> FALSE]

\* A switch that fails fills the form with the server it was for.
Filled(t) == [host |-> t.host, user |-> t.user, remember |-> Remembered(servers, t)]
Fails ==
  /\ asked # Idle /\ asked' = Idle
  /\ IF asked.way = "switch"
     THEN current' = None /\ form' = Filled(asked.t) /\ byHand' = FALSE
     ELSE UNCHANGED <<current, form, byHand>>
  /\ UNCHANGED <<servers, conn, last, steps>>

Demo ==
  /\ conn = Nowhere /\ asked = Idle /\ Step
  /\ conn' = DemoData
  /\ UNCHANGED <<servers, current, form, asked, byHand, last>>

\* The form comes back with what it held.
Disconnect ==
  /\ conn # Nowhere /\ asked = Idle
  /\ conn' = Nowhere
  /\ UNCHANGED <<servers, current, form, asked, byHand, last, steps>>

Rename ==
  /\ Step /\ asked = Idle
  /\ \E i \in DOMAIN servers, name \in Names \cup {None} :
       LET p == servers[i] IN
       /\ servers' = Renamed(servers, p, name)
       /\ last' = LabelOf(servers', p)
       /\ current' = IF current = DisplayName(p) THEN last' ELSE current
  /\ UNCHANGED <<conn, form, asked, byHand>>

Forget ==
  /\ Step /\ asked = Idle
  /\ \E i \in DOMAIN servers : servers' = Without(servers, servers[i])
  /\ last' = current
  /\ UNCHANGED <<current, conn, form, asked, byHand>>

(***************************************************************************)
(* The next start reads the list and the last connection: the form holds   *)
(* that one, and the box is set when its password is remembered.           *)
(***************************************************************************)
Restart ==
  /\ asked = Idle /\ conn # Nowhere /\ conn # DemoData
  /\ servers' = Normalize(servers)
  /\ current' = last
  /\ conn' = Nowhere
  /\ form' = Filled(conn)
  /\ byHand' = FALSE
  /\ UNCHANGED <<asked, last, steps>>

Next ==
  \/ Type \/ Connect \/ Switch \/ Connected \/ Fails \/ Demo \/ Disconnect \/ Rename
  \/ Forget \/ Restart

Spec == Init /\ [][Next]_vars

-----------------------------------------------------------------------------
(***************************************************************************)
(* A remembered password is not lost by going about: while the server      *)
(* stays in the list, its password leaves only by a connection with a form *)
(* that the user filled in and whose box was empty - never by switching,   *)
(* failing, renaming, restarting, or connecting again with what the form   *)
(* was given (ConnectionDialog.tsx:45-56, 118-123, 98-104).                *)
(***************************************************************************)
PassStep ==
     \A t \in Targets :
        (Remembered(servers, t) /\ ~Remembered(servers', t)
           /\ \E i \in DOMAIN servers' : Target(servers'[i]) = t)
        => byHand
PassStays == [][PassStep]_vars

(***************************************************************************)
(* The header names the server that is connected to.                       *)
(***************************************************************************)
HeaderTells ==
  conn \in Targets /\ current # None
    => \A i \in DOMAIN servers : DisplayName(servers[i]) = current => Target(servers[i]) = conn
=============================================================================
