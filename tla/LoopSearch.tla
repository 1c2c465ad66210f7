------------------------------ MODULE LoopSearch ------------------------------
(***************************************************************************)
(* The check for dependency loops at the end of Kconfig.__init__() of      *)
(* libs/menu/kconfiglib.py: a depth-first search through what depends on   *)
(* each symbol, which goes through the choices, too.  The recursion is a   *)
(* stack of calls; the _dependents are sets, gone through in any order.    *)
(*                                                                         *)
(* The search is given the symbols, the choices and their dependents, and  *)
(* no expressions: SearchInit is any that _build_dep() may leave.          *)
(***************************************************************************)
EXTENDS ConfigNames, KconfigState, Naturals, Sequences, FiniteSets

VARIABLES
  dependents,  \* Symbol._dependents and Choice._dependents
  order,       \* what is left of Kconfig.unique_defined_syms
  visited,     \* Symbol._visited and Choice._visited
  calls,       \* the calls, each with the items it has not gone on to
  loop         \* the loop the exception reports

searchVars == <<def, dependents, order, visited, calls, loop, status>>

\* Choice.syms
SymsIn(c) == {def[c].syms[k] : k \in DOMAIN def[c].syms}

\* A search from a symbol; one from its choice does not go back to the choice.
SymbolCall(s, ignoreChoice) ==
  [item |-> s, deps |-> dependents[s],
   then |-> IF ignoreChoice THEN {} ELSE {def[s].choice} \cap Choices]

\* Mutant: the symbol by which a choice was entered is searched again.
ChoiceCallToAll(c, skip) == [item |-> c, deps |-> {}, then |-> SymsIn(c)]

\* Mutant: it is enough to know that a choice was reached.
ChoiceCallToNone(c, skip) == [item |-> c, deps |-> {}, then |-> {}]

\* A search from a choice: through its symbols but the one it was entered by.
ChoiceCall(c, skip) == [item |-> c, deps |-> {}, then |-> SymsIn(c) \ {skip}]

Called == calls[Len(calls)]

\* Of the symbols of choice c in set, the one that comes first in Choice.syms
ComesFirst(c, s, set) ==
  \E k \in DOMAIN def[c].syms :
    def[c].syms[k] = s /\ \A j \in 1..(k - 1) : def[c].syms[j] \notin set

\* Mutant: all calls are recorded.
FoundAll(i) == loop' = <<i>> \o [j \in DOMAIN calls |-> calls[Len(calls) + 1 - j].item]

\* _found_dep_loop(), from the item that was reached again, back through the calls
FoundDepLoop(i) ==
  \E k \in DOMAIN calls :
    /\ calls[k].item = i
    /\ loop' = <<i>> \o [j \in 1..(Len(calls) - k) |-> calls[Len(calls) + 1 - j].item]

\* The call goes on to an item: a new call if it is not visited, a loop if it is
\* in the middle of its own.  stack is the calls with the item gone through.
GoOn(stack, call) ==
  /\ calls' = IF visited[call.item] = 0 THEN Append(stack, call) ELSE stack
  /\ visited' = IF visited[call.item] = 0 THEN [visited EXCEPT ![call.item] = 1] ELSE visited
  /\ IF visited[call.item] = 1 THEN status' = "loop" /\ FoundDepLoop(call.item)
                               ELSE UNCHANGED <<status, loop>>

Searching == status = "searching" /\ UNCHANGED <<def, dependents>>

\* The loop over the symbols in Kconfig.__init__()
CheckNext ==
  /\ Searching
  /\ calls = <<>> /\ order # <<>>
  /\ order' = Tail(order)
  /\ GoOn(<<>>, SymbolCall(Head(order), FALSE))

\* _check_dep_loop_sym(): one of the items that depend on the symbol
FollowDependent ==
  /\ Searching
  /\ calls # <<>>
  /\ \E i \in Called.deps :
       GoOn([calls EXCEPT ![Len(calls)].deps = @ \ {i}],
            IF i \in Choices THEN ChoiceCall(i, NoSym) ELSE SymbolCall(i, FALSE))
  /\ UNCHANGED order

\* The choice of a symbol, or the next symbol of a choice: _check_dep_loop_choice()
FollowChoice ==
  /\ Searching
  /\ calls # <<>>
  /\ Called.deps = {}
  /\ \E i \in Called.then :
       /\ Called.item \in Choices => ComesFirst(Called.item, i, Called.then)
       /\ GoOn([calls EXCEPT ![Len(calls)].then = @ \ {i}],
               IF i \in Choices THEN ChoiceCall(i, Called.item) ELSE SymbolCall(i, TRUE))
  /\ UNCHANGED order

\* The call has found no loop.
Return ==
  /\ Searching
  /\ calls # <<>>
  /\ Called.deps = {} /\ Called.then = {}
  /\ visited' = [visited EXCEPT ![Called.item] = 2]
  /\ calls' = SubSeq(calls, 1, Len(calls) - 1)
  /\ UNCHANGED <<order, loop, status>>

\* No symbols are left, no loop is found.
Accept ==
  /\ Searching
  /\ calls = <<>> /\ order = <<>>
  /\ status' = "accepted"
  /\ UNCHANGED <<order, visited, calls, loop>>

SearchNext == CheckNext \/ FollowDependent \/ FollowChoice \/ Return \/ Accept

(***************************************************************************)
(* What the search is given: symbols and choices that know each other, the *)
(* symbols of a choice depending on it, and all symbols that depend on     *)
(* anything among the ones to be checked.                                  *)
(***************************************************************************)
GraphOK ==
  /\ IsFiniteSet(Items)
  /\ Symbols \cap Choices = {} /\ NoSym \notin Symbols /\ NoChoice \notin Choices
  /\ dependents \in [Items -> SUBSET Items]
  /\ \A s \in Symbols : def[s].choice \in Choices \cup {NoChoice}
  /\ \A c \in Choices : SymsIn(c) \subseteq Symbols \cap dependents[c]
  /\ \A c \in Choices, s \in Symbols : s \in SymsIn(c) <=> def[s].choice = c

Starts ==
  /\ GraphOK
  /\ order \in Seq(Symbols)
  /\ \A i \in Items : \A s \in Symbols \cap dependents[i] : \E k \in DOMAIN order : order[k] = s
  /\ visited = [i \in Items |-> 0] /\ calls = <<>> /\ loop = <<>>

SearchInit == status = "searching" /\ Starts

SearchSpec == SearchInit /\ [][SearchNext]_searchVars
-----------------------------------------------------------------------------
Accepted == status = "accepted"

Call == [item : Items, deps : SUBSET Items, then : SUBSET Items]

SearchTypeOK ==
  /\ GraphOK
  /\ order \in Seq(Symbols)
  /\ visited \in [Items -> 0..2]
  /\ calls \in Seq(Call)
  /\ loop \in Seq(Items)
  /\ status \in {"searching", "accepted", "loop"}

\* i depends on j, once _add_choice_deps() has run, too.
DependsOn(i, j) == i \in dependents[j] \/ (i \in Choices /\ j \in SymsIn(i))

-----------------------------------------------------------------------------
(***************************************************************************)
(* What evaluation looks at, all branches taken, as kconfiglib.py does it: *)
(* <<i, "vis">> is the visibility of an item, <<s, "val">> the value of a  *)
(* symbol, and <<c, "val">> the selection of a choice, which needs no      *)
(* value itself: where it is referred to, its visibility is looked at.     *)
(***************************************************************************)
Attributes == Items \X {"vis", "val"}

Referred(i) == <<i, IF i \in Choices THEN "vis" ELSE "val">>

LooksAt(a, b) ==
  \/ a[1] \in dependents[b[1]] /\ b = Referred(b[1])
  \/ a[2] = "val" /\ b = <<a[1], "vis">>
  \/ a[2] = "val" /\ b[2] = "val" /\ b[1] \in Choices /\ a[1] \in SymsIn(b[1])
  \/ a[2] = "val" /\ b[2] = "vis" /\ a[1] \in Choices /\ b[1] \in SymsIn(a[1])

Reads(a) == {b \in Attributes : LooksAt(a, b)}

\* Evaluation can go round in these attributes without end.
Endless(T) == T # {} /\ \A a \in T : Reads(a) \cap T # {}

\* What can change when an item does
Affects(i) == dependents[i] \cup IF i \in Choices THEN SymsIn(i) ELSE {def[i].choice} \cap Choices

\* A change of s reaches t, another way than straight through their choice c.
Reaches(s, t, c) ==
  \A R \in SUBSET (Items \ {c}) : s \in R /\ (\A i \in R : Affects(i) \ {c} \subseteq R) => t \in R

Entangled(c) == \E s, t \in SymsIn(c) : s # t /\ Reaches(s, t, c)

\* A choice of two symbols that no other symbol leads to
Simple(c) ==
  /\ \A s \in Symbols : c \notin dependents[s]
  /\ \A r, s, t \in SymsIn(c) : r = s \/ s = t \/ t = r

\* The items in choice c that are none of its symbols, nor below one of them:
\* what is in a menu or a choice in the choice.
Inner(c) == {i \in dependents[c] \ SymsIn(c) :
               \A s \in Symbols \cap dependents[c] : i \notin dependents[s]}

PlainChoices == \A c \in Choices : Inner(c) = {}

(***************************************************************************)
(* The loop an exception reports is one: "...depends on" holds for every   *)
(* item and the next one, and for the last and the first.  And it is no    *)
(* false alarm: evaluation can go round in these items.  A choice and a    *)
(* symbol of it depend on each other, which alone is no loop: the search   *)
(* is to "prevent immediately revisiting the choice" (6395-6398).          *)
(***************************************************************************)
ReportedLoopIsOne ==
  status = "loop" =>
    /\ loop # <<>>
    /\ \A k \in DOMAIN loop : DependsOn(loop[k], loop[IF k = Len(loop) THEN 1 ELSE k + 1])
    /\ \E T \in SUBSET {a \in Attributes : \E k \in DOMAIN loop : a[1] = loop[k]} : Endless(T)

(***************************************************************************)
(* What is accepted can be evaluated: no visibility or value comes to look *)
(* at itself, or tri_value would recurse without end.  This is             *)
(* AcyclicAssumption of ConfigCache.  The exceptions are choices with      *)
(* something inside of them that the search does not go to, and loops      *)
(* through choices whose symbols depend on each other, if the search came  *)
(* to the choice by its condition, or there is a third symbol.             *)
(***************************************************************************)
LoopsAreFound ==
  Accepted /\ PlainChoices =>
    \A T \in SUBSET Attributes :
      Endless(T) => \E c \in Choices : <<c, "val">> \in T /\ Entangled(c) /\ ~Simple(c)
=============================================================================
