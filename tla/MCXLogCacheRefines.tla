------------------------ MODULE MCXLogCacheRefines ------------------------
(* Two small instances of XLogCache in one run: two objects with clears    *)
(* and crashes, for the refinement (the constants of the cfg), and two     *)
(* transactions that end at one instant and fill a page, for the end of    *)
(* the queries.                                                            *)
EXTENDS MCXLogCache

VARIABLE part   \* which of the two instances this behaviour is of

EndClients == {c1, c2}
Ends == INSTANCE XLogCache WITH
          Client <- EndClients, Batch <- {c2}, Obj <- {o1}, Txn <- {x2, x3},
          ObjOf <- PairTieObj, EndOf <- PairTieEnd, Windows <- ShortWin,
          Limits <- {9}, MaxNow <- 3, CanClear <- FALSE, CanCrash <- FALSE

BothInit == (part = "refines" /\ Init) \/ (part = "ends" /\ Ends!Init)
BothNext == /\ (part = "refines" /\ Next) \/ (part = "ends" /\ Ends!Next)
            /\ UNCHANGED part
BothVars == <<part, vars>>
EndsDo(A) == part = "ends" /\ A /\ UNCHANGED part
BothSpec ==
  /\ BothInit /\ [][BothNext]_BothVars
  /\ \A c \in EndClients : WF_BothVars(EndsDo(Ends!Step(c)))
  /\ \A a \in EndClients \cup {Settings} : WF_BothVars(EndsDo(Ends!Evict(a)))

\* XLogCache!QueryEnds of the second instance: every query comes to an end,
\* also when a page is full of one instant and the cursor cannot advance.
EveryQueryEnds ==
  \A c \in EndClients : (part = "ends" /\ pc[c] # "idle") ~> (part = "ends" => pc[c] = "idle")

\* With two objects: the rows of each are merged, and what is recorded of one
\* is not taken for the other, in the cover and in the answers (mark_xlog and
\* xlog_covered of cache/mod.rs).
ObjectsApart ==
  part = "refines" => CoverMerged /\ CoverSoundAboveHole /\ AnswerCompleteAboveHole
===========================================================================
