----------------------------- MODULE KconfigItems -----------------------------
(***************************************************************************)
(* Symbols and choices as the Kconfig files of a tree define them, and     *)
(* what libs/menu/kconfiglib.py says of them without looking at any        *)
(* expression.  u is the user values, v the attributes looked at.          *)
(*                                                                         *)
(* An attribute is <<item, kind>>: "vis" (visibility), "tri" (tri_value of *)
(* a bool or tristate symbol), "str" (str_value of an int or string one),  *)
(* "asg" (assignable) and "sel" (selection of a choice).  0, 1, 2 are n,   *)
(* m, y.  Strings are model values and integers are themselves, or Empty   *)
(* for the empty string; symbols of unknown type are left out.             *)
(***************************************************************************)
EXTENDS ConfigNames, Integers, Sequences

CONSTANTS
  Modules,  \* the symbol MODULES, or NoSym
  Empty,    \* the empty string
  Def       \* Def[i]: what the Kconfig files say of item i, dependencies propagated

IsTri(s) == Def[s].type \in {"BOOL", "TRISTATE"}

Value(s) == <<s, IF IsTri(s) THEN "tri" ELSE "str">>

Vis(i) == <<i, "vis">>

IsTristate(i) == Def[i].type = "TRISTATE"

SymChoice == [s \in Symbols |-> Def[s].choice]

InChoice(s) == s \in Symbols /\ Def[s].choice # NoChoice

\* The symbols of a choice
SymsOf(c) == {s \in Symbols : Def[s].choice = c}

PromptedSyms == {s \in Symbols : Def[s].prompts # <<>>}

\* The attributes an item has.
KindsOf(i) == IF i \in Choices THEN {"vis", "sel", "asg"}
              ELSE IF IsTri(i) THEN {"vis", "tri", "asg"}
              ELSE {"vis", "str"}

AllAttributes == UNION {{<<i, k>> : k \in KindsOf(i)} : i \in Items}

Lesser(a, b) == IF a < b THEN a ELSE b

Greater(a, b) == IF a > b THEN a ELSE b

Highest(S) == CHOOSE x \in S : \A y \in S : y <= x

\* The least of a set of indexes, or 0.
First(S) == IF S = {} THEN 0 ELSE CHOOSE k \in S : \A j \in S : k <= j

IsList(list) == DOMAIN list \subseteq Nat \ {0}

\* The entries of a list that are in a set, in their order.
Within(list, set) ==
  LET upTo[k \in 0..Len(list)] ==
        IF k = 0 THEN <<>>
        ELSE IF list[k] \in set THEN Append(upTo[k - 1], list[k])
        ELSE upTo[k - 1]
  IN  upTo[Len(list)]

\* What _check_sym_sanity() and _check_choice_sanity() do not warn of, MODULES being
\* bool or tristate, and the choices and their symbols referring to each other.
ASSUME TreeAssumption ==
  /\ Symbols \cap Choices = {} /\ NoSym \notin Symbols /\ NoChoice \notin Choices
  /\ Modules # NoSym => Modules \in Symbols /\ IsTri(Modules)
  /\ \A s \in Symbols : Def[s].choice \in Choices \cup {NoChoice} /\ (InChoice(s) => IsTri(s))
  /\ \A s \in Symbols : InChoice(s) =>
       \A e \in {Def[s].rev, Def[s].weak} : e.op = "const" /\ e.v = 0
  /\ \A c \in Choices : \A s \in Symbols :
       s \in SymsOf(c) <=> \E k \in DOMAIN Def[c].syms : Def[c].syms[k] = s
  /\ \A c \in Choices : /\ IsTri(c)
                        /\ Def[c].syms \in Seq(Symbols)
                        /\ \A k \in DOMAIN Def[c].defaults : Def[c].defaults[k].sym \in SymsOf(c)
  /\ \A i \in Items : IsList(Def[i].prompts) /\ IsList(Def[i].defaults)
  /\ \A s \in Symbols : ~IsTri(s) => IsList(Def[s].ranges)
-----------------------------------------------------------------------------
(***************************************************************************)
(* Expressions: [op |-> "const", v], [op |-> "item", i], [op |-> "not", a],*)
(* [op |-> "and" | "or", a, b], [op |-> "lit", v] (a quoted constant) and  *)
(* [op |-> "rel", rel, a, b] on items and literals.                        *)
(***************************************************************************)
ModulesValue(v) == IF Modules = NoSym THEN 0 ELSE v[<<Modules, "tri">>]

\* The mode of a choice before m is promoted to y.
WantedMode(c, u, v) ==
  LET floor == IF Def[c].optional THEN 0 ELSE 1
      asked == IF u[c].mode = NoUser THEN floor ELSE Greater(floor, u[c].mode)
  IN  Lesser(asked, v[Vis(c)])

\* Mutant: m is not promoted to y.
UnpromotedMode(c, val, v) == val

PromotedMode(c, val, v) ==
  IF val = 1 /\ (IsTristate(c) => ModulesValue(v) = 0) THEN 2 ELSE val

\* Choice.tri_value, the mode of the choice (not cached)
ChoiceTri(c, u, v) == PromotedMode(c, WantedMode(c, u, v), v)

Compare(rel, a, b) ==
  CASE rel = "=" -> a = b
    [] rel = "!=" -> a # b
    [] rel = "<" -> a # b /\ (a = Empty \/ (b # Empty /\ a < b))
    [] rel = "<=" -> a = b \/ a = Empty \/ (b # Empty /\ a < b)

\* The str_value of an operand: a symbol or a literal.  A bool or tristate symbol
\* is 0, 1 or 2, as relations count it; as default or bound of an int symbol it
\* would be the text n, m or y, which is no number: trees have no such operand.
Operand(e, v) == IF e.op = "item" THEN v[Value(e.i)] ELSE e.v
-----------------------------------------------------------------------------
(***************************************************************************)
(* What a property may look at, all branches taken.                        *)
(***************************************************************************)
ModulesReads == IF Modules = NoSym THEN {} ELSE {<<Modules, "tri">>}

\* Choice values are not cached: looking at one is looking at its visibility.
ValueReads(i) == IF i \in Symbols THEN {Value(i)}
                 ELSE {Vis(i)} \cup IF IsTristate(i) THEN ModulesReads ELSE {}

\* The expressions that property c[2] of item c[1] evaluates
EvaluatedBy(c) ==
  LET d == Def[c[1]]
      conds == {d.defaults[k].cond : k \in DOMAIN d.defaults}
  IN  CASE c[2] = "vis" -> {d.prompts[k] : k \in DOMAIN d.prompts}
        [] c[2] = "tri" -> conds \cup {d.defaults[k].val : k \in DOMAIN d.defaults}
                             \cup {d.rev, d.weak, d.direct}
        [] c[2] = "str" -> conds \cup {d.ranges[k].cond : k \in DOMAIN d.ranges}
        [] c[2] = "asg" -> IF c[1] \in Choices THEN {} ELSE {d.rev, d.weak}
        [] c[2] = "sel" -> conds

\* The symbols and literals whose str_value it takes
OperandsOf(c) ==
  LET d == Def[c[1]]
  IN  IF c[2] # "str" THEN {}
      ELSE {d.defaults[k].val : k \in DOMAIN d.defaults}
             \cup UNION {{d.ranges[k].low, d.ranges[k].high} : k \in DOMAIN d.ranges}

ExprsOf(c) == EvaluatedBy(c) \cup OperandsOf(c)

\* The attributes it looks at itself
LooksAt(c) ==
  LET i == c[1]
  IN  (IF c[2] = "vis" THEN {} ELSE {Vis(i)})
        \cup (IF IsTristate(i) THEN ModulesReads ELSE {})
        \cup (IF InChoice(i) THEN ValueReads(Def[i].choice) ELSE {})
        \cup (IF InChoice(i) /\ c[2] = "tri" THEN {<<Def[i].choice, "sel">>} ELSE {})
        \cup (IF c[2] = "sel"
                THEN {Vis(Def[i].syms[k]) : k \in DOMAIN Def[i].syms}
                       \cup {Vis(Def[i].defaults[k].sym) : k \in DOMAIN Def[i].defaults}
                ELSE {})
===============================================================================
