----------------------------- MODULE PastCover -----------------------------
(***************************************************************************)
(* What the cover table of the XLog cache promises, without intervals:     *)
(* a set of instants per object.  Instants become known when a query has   *)
(* received a whole sealed window, and are forgotten only from the oldest  *)
(* on.  Abstract specification of the table xlog_cover in XLogCache.       *)
(***************************************************************************)
EXTENDS Integers

CONSTANTS Obj,     \* monitored objects
          SealMs   \* instants younger than this are never known

VARIABLES now,     \* the collector's clock
          known    \* set of <<object, instant>> the cache claims to hold

Init == now = 1 /\ known = {}

Tick == now' = now + 1 /\ UNCHANGED known

\* The whole window [s, e] of the objects O has been received.
Learn(O, s, e) ==
  /\ e <= now - SealMs
  /\ known' = known \cup (O \X (s .. e))
  /\ UNCHANGED now

\* The oldest part is given up, for every object at once.
ForgetBelow(t) ==
  /\ known' = {k \in known : k[2] >= t}
  /\ UNCHANGED now

Next ==
  \/ Tick
  \/ \E O \in SUBSET Obj, s, e \in 1 .. now : Learn(O, s, e)
  \/ \E t \in 1 .. now + 1 : ForgetBelow(t)

Spec == Init /\ [][Next]_<<now, known>>
============================================================================
