------------------------------ MODULE ConfigWalk ------------------------------
(***************************************************************************)
(* _rec_invalidate() as the recursion it is, next to the closure           *)
(* ConfigCache states it as.                                               *)
(***************************************************************************)
EXTENDS ConfigCache, Naturals, FiniteSets

ASSUME FinitenessAssumption == IsFiniteSet(Items)

\* Mutant: MODULES is an item like any other.
EnteredPast(i, after) == after

\* Once MODULES is entered, everything is cleared.
Entered(i, after) == IF i \in Globals THEN Items ELSE after

(***************************************************************************)
(* The loop of Symbol._rec_invalidate() and Choice._rec_invalidate() over  *)
(* the items of S: the items cleared after it, done being those cleared    *)
(* before.  A cleared item has no cached values, so it is not entered      *)
(* again.  _dependents is a set; any order will do.  inner is the loop in  *)
(* the calls it makes, and the one over the items that are left.           *)
(***************************************************************************)
Loop(inner) ==
  [S \in SUBSET Items |-> [done \in SUBSET Items |->
     IF S = {} THEN done
     ELSE LET i == CHOOSE i \in S : TRUE
          IN  inner[S \ {i}]
                [IF HasCached(i) /\ i \notin done
                   THEN Entered(i, inner[Dependents[i]][done \cup {i}])
                   ELSE done]]]

\* Each item is entered at most once, and no loop has more iterations than items.
Depth == Cardinality(Items) * (Cardinality(Items) + 1)

\* The loop that ends after n calls and iterations in each other, if not before
Walk[n \in 0..Depth] ==
  IF n = 0 THEN [S \in SUBSET Items |-> [done \in SUBSET Items |-> done]]
           ELSE Loop(Walk[n - 1])

Clear(i) == Entered(i, Walk[Depth][Dependents[i]][{i}])

(***************************************************************************)
(* The recursive walk, which stops at items with no cached visibility and  *)
(* clears everything once it is at MODULES, clears the items ConfigCache   *)
(* says, through dependency loops as well (kconfiglib.py:4694-4723).       *)
(***************************************************************************)
WalkClearsReached == \A i \in Items : Clear(i) = Invalidated(i)
=============================================================================
