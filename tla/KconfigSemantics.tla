--------------------------- MODULE KconfigSemantics ---------------------------
(***************************************************************************)
(* The attributes that the evaluation of each property looks at, and all   *)
(* attributes computed from scratch.                                       *)
(***************************************************************************)
EXTENDS KconfigProperties, KconfigExpressions, FiniteSets, TLC

ChoiceTriReads(c, u, v) ==
  {Vis(c)} \cup IF IsTristate(c) /\ WantedMode(c, u, v) = 1 THEN ModulesReads ELSE {}

\* What expr_value() looks at: the right operand only if the left one leaves
\* the result open.
RECURSIVE ExprReads(_, _, _)
ExprReads(e, u, v) ==
  LET Looks(f) == ExprReads(f, u, v)
  IN  CASE e.op \in {"const", "lit"} -> {}
        [] e.op = "item" -> IF e.i \in Choices THEN ChoiceTriReads(e.i, u, v)
                            ELSE {Value(e.i)}
        [] e.op = "not" -> Looks(e.a)
        [] e.op \in {"and", "or"} ->
             LET decides == IF e.op = "and" THEN 0 ELSE 2
             IN  Looks(e.a) \cup IF ExprValue(e.a, u, v) = decides THEN {} ELSE Looks(e.b)
        [] e.op = "rel" -> Looks(e.a) \cup Looks(e.b)

\* The conditions looked at to find it.
SearchReads(list, k, u, v) ==
  UNION {ExprReads(list[j].cond, u, v) : j \in {n \in DOMAIN list : k = 0 \/ n <= k}}
-----------------------------------------------------------------------------
TypeReads(i, u, v) ==
  IF ~IsTristate(i) THEN {}
  ELSE IF ~InChoice(i) THEN ModulesReads
  ELSE ChoiceTriReads(Def[i].choice, u, v)
         \cup IF ChoiceTri(Def[i].choice, u, v) = 2 THEN {} ELSE ModulesReads

VisibilityReads(i, u, v) ==
  LET vis == PromptValue(i, u, v)
  IN  UNION {ExprReads(Def[i].prompts[k], u, v) : k \in DOMAIN Def[i].prompts}
        \cup (IF ModeDecides(i, vis) THEN ChoiceTriReads(Def[i].choice, u, v) ELSE {})
        \cup (IF vis = 1 THEN TypeReads(i, u, v) ELSE {})

DefaultReads(s, u, v) ==
  LET k == FirstActive(Def[s].defaults, u, v)
  IN  SearchReads(Def[s].defaults, k, u, v)
        \cup IF k = 0 THEN {} ELSE ExprReads(Def[s].defaults[k].val, u, v)

TriReads(s, u, v) ==
  {Vis(s)} \cup
  IF InChoice(s) THEN IF v[Vis(s)] = 2 THEN {<<Def[s].choice, "sel">>} ELSE {}
  ELSE (IF HasUserValue(s, u, v) THEN {}
        ELSE DefaultReads(s, u, v) \cup ExprReads(Def[s].weak, u, v)
               \cup IF ExprValue(Def[s].weak, u, v) = 0 THEN {}
                    ELSE ExprReads(Def[s].direct, u, v))
       \cup ExprReads(Def[s].rev, u, v)
       \cup (IF ExprValue(Def[s].rev, u, v) # 0 THEN ExprReads(Def[s].direct, u, v) ELSE {})
       \cup (IF UnpromotedValue(s, u, v) # 1 THEN {}
             ELSE TypeReads(s, u, v) \cup
                  IF NotTristate(s, u, v) THEN {} ELSE ExprReads(Def[s].weak, u, v))

StrReads(s, u, v) ==
  LET r == FirstActive(Def[s].ranges, u, v)
      rangeReads == SearchReads(Def[s].ranges, r, u, v) \cup
                    IF r = 0 THEN {}
                    ELSE ExprReads(Def[s].ranges[r].low, u, v)
                           \cup ExprReads(Def[s].ranges[r].high, u, v)
      usesUser == IF Def[s].type = "INT" THEN UsesUserInt(s, r, u, v)
                                         ELSE HasUserValue(s, u, v)
  IN  {Vis(s)} \cup rangeReads \cup IF usesUser THEN {} ELSE DefaultReads(s, u, v)

AssignableReads(i, u, v) ==
  LET vis == v[Vis(i)]
      rev == ExprValue(Def[i].rev, u, v)
      full == vis = 2 /\ ~InChoice(i) /\ rev # 2
  IN  {Vis(i)} \cup
      IF i \in Choices THEN IF vis = 2 THEN TypeReads(i, u, v) ELSE {}
      ELSE (IF vis = 0 THEN {} ELSE ExprReads(Def[i].rev, u, v))
           \cup (IF full THEN TypeReads(i, u, v) ELSE {})
           \cup (IF (full /\ ~NotTristate(i, u, v)) \/ (vis = 1 /\ rev = 0)
                   THEN ExprReads(Def[i].weak, u, v) ELSE {})

SelectionReads(c, u, v) ==
  LET k == DefaultIndex(c, u, v)
      tried == {j \in DOMAIN Def[c].defaults : k = 0 \/ j <= k}
      first == FirstVisible(Def[c].syms, v)
      syms  == Def[c].syms
  IN  ChoiceTriReads(c, u, v) \cup
      IF ChoiceTri(c, u, v) # 2 THEN {}
      ELSE (IF u[c].sel = NoSym THEN {} ELSE {Vis(u[c].sel)}) \cup
           IF UserSelection(c, u, v) # NoSym THEN {}
           ELSE UNION {ExprReads(Def[c].defaults[j].cond, u, v) : j \in tried}
                \cup {Vis(Def[c].defaults[j].sym) :
                        j \in {n \in tried : ExprValue(Def[c].defaults[n].cond, u, v) # 0}}
                \cup IF k # 0 THEN {}
                     ELSE {Vis(syms[j]) : j \in {n \in DOMAIN syms :
                                \A h \in 1..(n - 1) : syms[h] # first}}

AttrReads(c, u, v) ==
  CASE c[2] = "vis" -> VisibilityReads(c[1], u, v)
    [] c[2] = "tri" -> TriReads(c[1], u, v)
    [] c[2] = "str" -> StrReads(c[1], u, v)
    [] c[2] = "asg" -> AssignableReads(c[1], u, v)
    [] c[2] = "sel" -> SelectionReads(c[1], u, v)
-----------------------------------------------------------------------------
\* The attributes in the layers after v is known
RECURSIVE Computed(_, _, _)
Computed(layers, u, v) ==
  IF layers = <<>> THEN v
  ELSE Computed(Tail(layers), u, v @@ [c \in Head(layers) |-> AttrValue(c, u, v)])

\* All attributes under user values u, computed with no cache at all, one layer
\* after the other.
FromScratch(u) == Computed(Layers, u, <<>>)
-----------------------------------------------------------------------------
\* An expression and its parts, and how deep they go
RECURSIVE PartsOf(_)
PartsOf(e) ==
  {e} \cup UNION {PartsOf(f) : f \in CASE e.op = "not" -> {e.a}
                                       [] e.op \in {"and", "or"} -> {e.a, e.b}
                                       [] OTHER -> {}}

AllExprs == UNION {UNION {PartsOf(e) : e \in EvaluatedBy(a)} : a \in AllAttributes}

LayerOf(a) == CHOOSE k \in DOMAIN Layers : a \in Layers[k]

\* The parts of an expression are fewer than 100.
RankInLayers == [a \in AllAttributes |-> 100 * LayerOf(a)]

ExprRankInLayers ==
  [e \in AllExprs |->
     Cardinality(PartsOf(e)) +
       100 * Highest({0} \cup UNION {{LayerOf(a) : a \in ValueReads(i)} : i \in ItemsIn(e)})]
===============================================================================
