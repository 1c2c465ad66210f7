--------------------------- MODULE KconfigProperties ---------------------------
(***************************************************************************)
(* The properties of Symbol and Choice in libs/menu/kconfiglib.py, as      *)
(* functions of the user values u and of the attributes v they look at,    *)
(* for any way to evaluate an expression; KconfigSemantics has expr_value. *)
(***************************************************************************)
EXTENDS KconfigItems

CONSTANT ExprValue(_, _, _)  \* ExprValue(e, u, v): expression e evaluated

\* What the parts of expression e make of it, in expr_value()
ValueOfParts(e, u, v) ==
  LET Val(f) == ExprValue(f, u, v)
  IN  CASE e.op = "const" -> e.v
        [] e.op = "item" -> IF e.i \in Choices THEN ChoiceTri(e.i, u, v)
                            ELSE IF IsTri(e.i) THEN v[Value(e.i)] ELSE 0
        [] e.op = "not" -> 2 - Val(e.a)
        [] e.op = "and" -> Lesser(Val(e.a), Val(e.b))
        [] e.op = "or" -> Greater(Val(e.a), Val(e.b))
        [] e.op = "rel" -> IF Compare(e.rel, Operand(e.a, v), Operand(e.b, v)) THEN 2 ELSE 0

\* The first entry of a list of [.., cond] entries whose condition is not n, or 0.
FirstActive(list, u, v) == First({k \in DOMAIN list : ExprValue(list[k].cond, u, v) # 0})
-----------------------------------------------------------------------------
\* Symbol.type and Choice.type
NotTristate(i, u, v) ==
  IsTristate(i) =>
    \/ ModulesValue(v) = 0
    \/ InChoice(i) /\ ChoiceTri(Def[i].choice, u, v) = 2

PromptValue(i, u, v) ==
  Highest({0} \cup {ExprValue(Def[i].prompts[k], u, v) : k \in DOMAIN Def[i].prompts})

\* Whether the mode of a choice hides symbol i with prompt value vis: symbols
\* that are not tristate show in y mode only, tristate ones at m not in y mode.
ModeDecides(i, vis) ==
  InChoice(i) /\ IF IsTristate(i) THEN vis = 1
                 ELSE IsTristate(Def[i].choice)

HiddenByMode(i, vis, u, v) ==
  ModeDecides(i, vis) /\
  ((ChoiceTri(Def[i].choice, u, v) = 2) <=> IsTristate(i))

VisibilityAt(i, vis, u, v) ==
  IF HiddenByMode(i, vis, u, v) THEN 0
  ELSE IF vis = 1 /\ NotTristate(i, u, v) THEN 2
  ELSE vis

\* _visibility()
Visibility(i, u, v) == VisibilityAt(i, PromptValue(i, u, v), u, v)
-----------------------------------------------------------------------------
\* The part of Symbol.tri_value and _str_default() that looks at defaults.
TriDefault(s, k, u, v) ==
  IF k = 0 THEN 0 ELSE Lesser(ExprValue(Def[s].defaults[k].cond, u, v),
                              ExprValue(Def[s].defaults[k].val, u, v))

DefaultValue(s, u, v) == TriDefault(s, FirstActive(Def[s].defaults, u, v), u, v)

ImpliedValue(s, u, v) ==
  IF ExprValue(Def[s].direct, u, v) = 0 THEN 0 ELSE ExprValue(Def[s].weak, u, v)

HasUserValue(s, u, v) == v[Vis(s)] # 0 /\ u[s] # NoUser

\* The value before reverse dependencies and promotion.
ChosenValue(s, u, v) ==
  IF HasUserValue(s, u, v) THEN Lesser(u[s], v[Vis(s)])
  ELSE Greater(DefaultValue(s, u, v), ImpliedValue(s, u, v))

UnpromotedValue(s, u, v) ==
  Greater(ChosenValue(s, u, v), ExprValue(Def[s].rev, u, v))

\* m becomes y for a symbol that cannot be m or is implied at y.
PromotedValue(s, val, u, v) ==
  IF val = 1 /\ (NotTristate(s, u, v) \/ ExprValue(Def[s].weak, u, v) = 2) THEN 2 ELSE val

ValueInChoice(s, vis, u, v) ==
  IF vis = 2 THEN IF v[<<Def[s].choice, "sel">>] = s THEN 2 ELSE 0
  ELSE IF vis = 1 /\ u[s] \in {1, 2} THEN 1 ELSE 0

\* Symbol.tri_value of a bool or tristate symbol
TriValue(s, u, v) ==
  IF InChoice(s) THEN ValueInChoice(s, v[Vis(s)], u, v)
  ELSE PromotedValue(s, UnpromotedValue(s, u, v), u, v)

\* Symbol._write_to_conf as tri_value and str_value leave it.
WriteToConf(s, u, v) ==
  \/ v[Vis(s)] # 0
  \/ /\ IsTri(s) /\ ~InChoice(s)
     /\ DefaultValue(s, u, v) # 0 \/ ImpliedValue(s, u, v) # 0
          \/ ExprValue(Def[s].rev, u, v) # 0
  \/ ~IsTri(s) /\ FirstActive(Def[s].defaults, u, v) # 0
-----------------------------------------------------------------------------
\* What is no number counts as 0.
AsNumber(x) == IF x \in Int THEN x ELSE 0

\* Whether an int symbol has a user value in its active range r, if there is one.
UsesUserInt(s, r, u, v) ==
  /\ HasUserValue(s, u, v)
  /\ r # 0 => u[s] \in AsNumber(Operand(Def[s].ranges[r].low, v))
                        .. AsNumber(Operand(Def[s].ranges[r].high, v))

\* The str_value of default k, if there is one.
StrDefaultAt(s, k, v) == IF k = 0 THEN Empty ELSE Operand(Def[s].defaults[k].val, v)

\* Mutant: a default is not clamped to the range.
Unclamped(s, r, val, v) == val

Clamped(s, r, val, v) ==
  LET low  == AsNumber(Operand(Def[s].ranges[r].low, v))
      high == AsNumber(Operand(Def[s].ranges[r].high, v))
  IN  IF r # 0 /\ AsNumber(val) < low THEN low
      ELSE IF r # 0 /\ AsNumber(val) > high THEN high
      ELSE val

\* Symbol.str_value of an int symbol: the user value if it is in the active
\* range r, else the first active default k, clamped to the range.
IntValueAt(s, r, k, u, v) ==
  IF UsesUserInt(s, r, u, v) THEN u[s] ELSE Clamped(s, r, StrDefaultAt(s, k, v), v)

IntValue(s, u, v) ==
  IntValueAt(s, FirstActive(Def[s].ranges, u, v), FirstActive(Def[s].defaults, u, v), u, v)

\* Symbol.str_value of a string symbol
StringValue(s, u, v) ==
  IF HasUserValue(s, u, v) THEN u[s]
  ELSE StrDefaultAt(s, FirstActive(Def[s].defaults, u, v), v)
-----------------------------------------------------------------------------
\* Mutant: selects and the type are not considered.
AssignableUpToVisibility(i, vis, rev, u, v) == IF vis = 0 THEN {} ELSE 0..vis

\* The values that selects at rev leave a symbol with visibility vis.
AssignableIn(i, vis, rev, u, v) ==
  LET skip == ExprValue(Def[i].weak, u, v) = 2
  IN  IF vis = 0 THEN {}
      ELSE IF (vis = 2 /\ InChoice(i)) \/ rev = 2 THEN {2}
      ELSE IF vis = 2 THEN {2} \cup (IF rev = 0 THEN {0} ELSE {})
                               \cup (IF NotTristate(i, u, v) \/ skip THEN {} ELSE {1})
      ELSE IF rev = 1 THEN {1}
      ELSE {0, IF skip THEN 2 ELSE 1}

AssignableModes(c, vis, u, v) ==
  IF vis = 0 THEN {}
  ELSE (IF Def[c].optional THEN {0} ELSE {})
         \cup (IF vis = 2 THEN {2} ELSE {1})
         \cup (IF NotTristate(c, u, v) THEN {} ELSE {1})

\* Symbol._assignable() and Choice._assignable()
Assignable(i, u, v) ==
  IF i \in Choices THEN AssignableModes(i, v[Vis(i)], u, v)
  ELSE AssignableIn(i, v[Vis(i)], ExprValue(Def[i].rev, u, v), u, v)
-----------------------------------------------------------------------------
SymbolAt(syms, k) == IF k = 0 THEN NoSym ELSE syms[k]

\* The first symbol of a sequence whose visibility is not n, or NoSym.
FirstVisible(syms, v) == SymbolAt(syms, First({k \in DOMAIN syms : v[Vis(syms[k])] # 0}))

\* Mutant: the user selection is used if hidden, too.
AnyUserSelection(c, u, v) == u[c].sel

UserSelection(c, u, v) ==
  IF u[c].sel = NoSym THEN NoSym
  ELSE IF v[Vis(u[c].sel)] = 0 THEN NoSym ELSE u[c].sel

\* The first choice default that is active and visible.
DefaultIndex(c, u, v) ==
  First({k \in DOMAIN Def[c].defaults : /\ ExprValue(Def[c].defaults[k].cond, u, v) # 0
                                        /\ v[Vis(Def[c].defaults[k].sym)] # 0})

\* Choice._get_selection_from_defaults(), k being the default that applies
SelectionAt(c, k, v) ==
  IF k # 0 THEN Def[c].defaults[k].sym ELSE FirstVisible(Def[c].syms, v)

DefaultSelection(c, u, v) == SelectionAt(c, DefaultIndex(c, u, v), v)

\* Choice._selection()
Selection(c, u, v) ==
  IF ChoiceTri(c, u, v) # 2 THEN NoSym
  ELSE IF UserSelection(c, u, v) # NoSym THEN u[c].sel
  ELSE DefaultSelection(c, u, v)
-----------------------------------------------------------------------------
\* Property c[2] of item c[1], evaluated anew
AttrValue(c, u, v) ==
  CASE c[2] = "vis" -> Visibility(c[1], u, v)
    [] c[2] = "tri" -> TriValue(c[1], u, v)
    [] c[2] = "str" -> IF Def[c[1]].type = "INT" THEN IntValue(c[1], u, v)
                                                 ELSE StringValue(c[1], u, v)
    [] c[2] = "asg" -> Assignable(c[1], u, v)
    [] c[2] = "sel" -> Selection(c[1], u, v)
===============================================================================
