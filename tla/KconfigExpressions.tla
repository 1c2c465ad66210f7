-------------------------- MODULE KconfigExpressions --------------------------
(***************************************************************************)
(* expr_value() of libs/menu/kconfiglib.py, the items in the expressions   *)
(* of an item, and what the engine makes of them: the _dependents sets,    *)
(* and the order in which attributes can be computed.                      *)
(***************************************************************************)
EXTENDS KconfigItems

Lists == INSTANCE SequencesExt

\* expr_value(), the ExprValue of the runs; a relation compares numbers, or
\* strings for equality.
RECURSIVE Evaluated(_, _, _)
Evaluated(e, u, v) ==
  LET Val(f) == Evaluated(f, u, v)
  IN  CASE e.op = "const" -> e.v
        [] e.op = "item" /\ e.i \in Choices -> ChoiceTri(e.i, u, v)
        [] e.op = "item" /\ e.i \in Symbols -> IF IsTri(e.i) THEN v[Value(e.i)] ELSE 0
        [] e.op = "not" -> 2 - Val(e.a)
        [] e.op = "and" -> Lesser(Val(e.a), Val(e.b))
        [] e.op = "or" -> Greater(Val(e.a), Val(e.b))
        [] e.op = "rel" ->
             IF Compare(e.rel, Operand(e.a, v), Operand(e.b, v)) THEN 2 ELSE 0
-----------------------------------------------------------------------------
\* The items of an expression, the ones _make_depend_on() goes through.
RECURSIVE ItemsIn(_)
ItemsIn(e) ==
  LET parts == IF e.op \in {"const", "lit", "item"} THEN {}
               ELSE IF e.op = "not" THEN {e.a}
               ELSE {e.a, e.b}
  IN  (IF e.op = "item" THEN {e.i} ELSE {}) \cup UNION {ItemsIn(f) : f \in parts}
-----------------------------------------------------------------------------
\* Mutant: the conditions of the defaults of choices are forgotten.
RefersToPrompts(i) ==
  LET kinds == IF i \in Choices THEN {"vis"} ELSE {"vis", "tri", "str"}
  IN  UNION {UNION {ItemsIn(e) : e \in ExprsOf(<<i, k>>)} : k \in kinds}

\* Kconfig._build_dep(): an item depends on the items of all its expressions.
RefersTo(i) ==
  LET kinds == IF i \in Choices THEN {"vis", "sel"} ELSE {"vis", "tri", "str"}
  IN  UNION {UNION {ItemsIn(e) : e \in ExprsOf(<<i, k>>)} : k \in kinds}

\* _add_choice_deps(): a choice depends on its symbols, too.
DependsOn(i) == RefersTo(i) \cup IF i \in Choices THEN Lists!ToSet(Def[i].syms) ELSE {}

DependentSets == [j \in Items |-> {i \in Items : j \in DependsOn(i)}]
-----------------------------------------------------------------------------
AttrMayRead(c) ==
  UNION {UNION {ValueReads(j) : j \in ItemsIn(e)} : e \in ExprsOf(c)} \cup LooksAt(c)

AttrUses(c) == {c[1]} \cup (IF InChoice(c[1]) THEN {Def[c[1]].choice} ELSE {})
           \cup (Choices \cap UNION {ItemsIn(e) : e \in ExprsOf(c)})
-----------------------------------------------------------------------------
\* The attributes in layers: those of a layer look at earlier ones only.
RECURSIVE LayersAfter(_)
LayersAfter(done) ==
  LET Next(found) == IF found = {} THEN <<>> ELSE <<found>> \o LayersAfter(done \cup found)
  IN  Next({c \in AllAttributes \ done : AttrMayRead(c) \subseteq done})

Layers == LayersAfter({})
================================================================================
