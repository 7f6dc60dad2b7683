--------------------------- MODULE MCXLogCache ---------------------------
(***************************************************************************)
(* Instances of XLogCache for TLC.                                         *)
(***************************************************************************)
EXTENDS XLogCache, TLC

CONSTANTS c1, c2, o1, o2, x1, x2, x3

\* One object, three transactions one tick apart.
PairObjOf == x1 :> o1 @@ x2 :> o1
SplitObjOf == x1 :> o1 @@ x2 :> o2
PairEnd   == x1 :> 1 @@ x2 :> 2
OneObjOf  == x1 :> o1 @@ x2 :> o1 @@ x3 :> o1
ApartEnd  == x1 :> 1 @@ x2 :> 2 @@ x3 :> 3
\* Two transactions that end at the same time.
PairTieEnd == x2 :> 2 @@ x3 :> 2
PairTieObj == x2 :> o1 @@ x3 :> o1

W(a, b)      == [s |-> a, e |-> b]
NestedWins   == {W(1, 3), W(2, 4)}
ShortWin     == {W(1, 2)}
SplitWins    == {W(1, 1), W(2, 3)}

ClientSymmetry == Permutations(Client)
============================================================================
