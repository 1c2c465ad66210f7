----------------------------- MODULE KconfigLoops -----------------------------
(***************************************************************************)
(* The rest of Kconfig.__init__(), once the tree is finalized: _build_dep()*)
(* turns expressions into _dependents, the search of LoopSearch goes       *)
(* through them, and _add_choice_deps() completes them.  All of this looks *)
(* at the symbols and choices only, so the menu nodes are dropped here.    *)
(***************************************************************************)
EXTENDS KconfigTree, LoopSearch

searching == <<dependents, order, visited, calls, loop>>

vars == <<parsing, searching>>

\* Kconfig.unique_defined_syms; a symbol has one node in the runs.
SymbolsInOrder ==
  SelectSeq([n \in DOMAIN parsed |-> parsed[n].item], LAMBDA i : i \in Symbols)

\* _build_dep(), and the start of the search
BuildDep ==
  /\ status = "built"
  /\ status' = "searching"
  /\ dependents' = [j \in Items |-> {i \in Items : j \in Semantics!RefersTo(i)}]
  /\ order' = SymbolsInOrder
  /\ visited' = [i \in Items |-> 0]
  /\ parsed' = <<>> /\ tree' = <<>> /\ open' = <<>> /\ nodes' = <<>>
  /\ UNCHANGED <<def, calls, loop>>

\* _add_choice_deps(), and Kconfig.__init__() returns.
AddChoiceDeps ==
  /\ status = "accepted"
  /\ status' = "ready"
  /\ dependents' = [j \in Items |-> dependents[j] \cup
                      IF j \in Symbols THEN {def[j].choice} \cap Choices ELSE {}]
  /\ UNCHANGED <<parsed, tree, open, nodes, def, order, visited, calls, loop>>

\* Files are read again, once Kconfig.__init__() has returned, or an exception was raised.
Again ==
  /\ status \in {"ready", "loop", "error"}
  /\ parsed' = <<Top>>
  /\ tree' = [list |-> <<0>>, next |-> <<0>>, parent |-> <<0>>]
  /\ open' = <<[end |-> "EOF", node |-> 1, prev |-> 1, file |-> MainFile]>>
  /\ nodes' = <<>> /\ def' = <<>> /\ status' = "parsing"
  /\ dependents' = <<>> /\ order' = <<>> /\ visited' = <<>> /\ calls' = <<>> /\ loop' = <<>>

LoopsInit ==
  /\ Init
  /\ dependents = <<>> /\ order = <<>> /\ visited = <<>> /\ calls = <<>> /\ loop = <<>>

Next ==
  \/ Parse /\ UNCHANGED searching
  \/ BuildDep
  \/ SearchNext /\ UNCHANGED <<parsed, tree, open, nodes>>
  \/ AddChoiceDeps
  \/ Again

Spec == LoopsInit /\ [][Next]_vars
-----------------------------------------------------------------------------
\* A choice with a default outside of it: _check_choice_sanity() only warns.
DefaultOutside(c) ==
  \E k \in DOMAIN def[c].defaults : def[c].defaults[k].sym \notin Lists!ToSet(def[c].syms)

DefaultsInside == ~(\E c \in Choices : DefaultOutside(c))

\* The attribute of LoopSearch for one of an item.
SearchedFor(a) == <<a[1], IF a[2] = "vis" THEN "vis" ELSE "val">>

\* Properties look at no more than LoopSearch says; "asg" is not looked at.
ReadsAreCovered ==
  \A a \in Semantics!AllAttributes : a[2] # "asg" =>
    \A b \in Semantics!AttrMayRead(a) : SearchedFor(b) \in Reads(SearchedFor(a))

\* The search starts as in LoopSearch, with what is proved about it there.
LoopsTypeOK ==
  /\ TypeOK /\ FilesInOrder
  /\ status = "searching" /\ calls = <<>> /\ (\A i \in Items : visited[i] = 0) =>
       Starts /\ (DefaultsInside => ReadsAreCovered)

\* Every attribute is in a layer that looks at earlier ones only.
EvaluationEnds == UNION Lists!ToSet(Semantics!Layers) = Semantics!AllAttributes

(***************************************************************************)
(* "Every choice symbol depends on every other choice symbol in a sense.   *)
(* When a choice is 'entered' via a choice symbol X, we visit all choice   *)
(* symbols from the choice except X" (kconfiglib.py:6395-6398), and when   *)
(* it is entered by its condition, all of them, so that loops through the  *)
(* symbols of a plain choice are found in the same way.                    *)
(***************************************************************************)
AllLoopsAreFound ==
  status = "accepted" /\ PlainChoices /\ DefaultsInside => EvaluationEnds

\* What _check_choice_sanity() warns of, since it has no effect
WithoutEffect(s) ==
  def[s].choice # NoChoice /\ (def[s].defaults # <<>> \/ N # def[s].rev \/ N # def[s].weak)

(***************************************************************************)
(* No files are rejected that could be evaluated, except for properties of *)
(* choice symbols that have no effect.  The same item is not a loop only   *)
(* since a choice and its symbols depend on each other.                    *)
(***************************************************************************)
NoFalseAlarms ==
  status = "loop" /\ ~(\E s \in Symbols : WithoutEffect(s)) => ~EvaluationEnds

(***************************************************************************)
(* In any accepted files, an item is one of the _dependents of all that    *)
(* its properties may look at, so that a change clears what was computed   *)
(* from it: this is DependentsAssumption of ConfigCache, with _build_dep() *)
(* and _add_choice_deps() on the tree as it was finalized.                 *)
(***************************************************************************)
ReadsAreDependencies ==
  status = "ready" /\ DefaultsInside =>
    \A a \in Semantics!AllAttributes : \A b \in Semantics!AttrMayRead(a) :
      b[1] = a[1] \/ a[1] \in dependents[b[1]]
=============================================================================
