----------------------------- MODULE KconfigFiles -----------------------------
(***************************************************************************)
(* What write_config(), write_min_config() and load_config() of            *)
(* libs/menu/kconfiglib.py make of user values and files.                  *)
(*                                                                         *)
(* A .config file is the sequence of its assignments [sym, val]; "# .. is  *)
(* not set" is one of value 0.  Lines load_config() ignores with a warning *)
(* (malformed ones) and comments are left out.                             *)
(***************************************************************************)
EXTENDS KconfigProperties

CONSTANTS
  UserVals,       \* as in ConfigItems
  SymbolOrder,    \* Kconfig.unique_defined_syms, a sequence
  Attributes(_),  \* Attributes(u): all attributes under the user values u
  Rank,           \* Rank[a]: attribute a looks at attributes of lower rank only,
  ExprRank        \* ... and ExprRank[e]: so does expression e, and at expressions

U == INSTANCE ConfigItems WITH ChoiceOf <- SymChoice

Modes(c) == {x.mode : x \in UserVals[c]}

\* The user values set_value() accepts
ASSUME UserValsAssumption ==
  /\ NoUser \notin Int
  /\ SymbolOrder \in Seq(Symbols)
  /\ \A s \in Symbols : \E k \in DOMAIN SymbolOrder : SymbolOrder[k] = s
  /\ \A s \in Symbols : /\ NoUser \in UserVals[s]
                        /\ IsTri(s) => UserVals[s] = {NoUser, 0, 2} \cup
                                         (IF IsTristate(s) THEN {1} ELSE {})
  /\ \A c \in Choices :
       /\ UserVals[c] = [mode : Modes(c), sel : SymsOf(c) \cup {NoSym}]
       /\ {NoUser, 2} \subseteq Modes(c) /\ (IsTristate(c) => 1 \in Modes(c))
       /\ Def[c].optional => 0 \in Modes(c)
       /\ Modes(c) \subseteq {NoUser} \cup 0..2

\* Operand o of an expression or property of rank n
OperandBelow(o, n) ==
  o.op = "lit" \/ (o.op = "item" /\ o.i \in Symbols /\ Rank[Value(o.i)] < n)

IsExpr(e) == e \in DOMAIN ExprRank

\* Expression e is one of expr_value(), and what it looks at has a lower rank.
ExprRanked(e) ==
  LET Below(f) == IsExpr(f) /\ ExprRank[f] < ExprRank[e]
  IN  \/ e.op = "const" /\ e.v \in 0..2
      \/ e.op = "item" /\ e.i \in Items /\ \A a \in ValueReads(e.i) : Rank[a] < ExprRank[e]
      \/ e.op = "not" /\ Below(e.a)
      \/ e.op \in {"and", "or"} /\ Below(e.a) /\ Below(e.b)
      \/ e.op = "rel" /\ OperandBelow(e.a, ExprRank[e]) /\ OperandBelow(e.b, ExprRank[e])

\* There are no dependency loops, which KconfigLoops is about.
ASSUME RankAssumption ==
  /\ Rank \in [AllAttributes -> Nat]
  /\ \A e \in DOMAIN ExprRank : ExprRank[e] \in Nat /\ ExprRanked(e)
  /\ \A a \in AllAttributes :
       /\ \A e \in EvaluatedBy(a) : IsExpr(e) /\ ExprRank[e] < Rank[a]
       /\ \A o \in OperandsOf(a) : OperandBelow(o, Rank[a])
       /\ \A b \in LooksAt(a) : Rank[b] < Rank[a]

\* The attributes are what the properties make of them, expressions are evaluated
\* by expr_value() to n, m or y, and a choice symbol is visible as far as its
\* choice (_propagate_deps()).
ASSUME EngineAssumption ==
  \A u \in U!Users : \A v \in {Attributes(u)} :
    /\ \A a \in AllAttributes : v[a] = AttrValue(a, u, v)
    /\ \A e \in DOMAIN ExprRank :
         /\ ExprValue(e, u, v) = ValueOfParts(e, u, v)
         /\ ExprValue(e, u, v) \in 0..2
    /\ \A s \in Symbols : InChoice(s) => \A k \in DOMAIN Def[s].prompts :
         ExprValue(Def[s].prompts[k], u, v) <= ChoiceTri(Def[s].choice, u, v)
-----------------------------------------------------------------------------
(***************************************************************************)
(* Writing.  Kconfig._config_contents() goes through the symbols in the    *)
(* order of the Kconfig files and writes Symbol.config_string.             *)
(***************************************************************************)
Line(s, v) == [sym |-> s, val |-> v[Value(s)]]

Lines(wanted, v) ==
  LET kept == Within(SymbolOrder, wanted) IN [k \in DOMAIN kept |-> Line(kept[k], v)]

WrittenSymbols(u, v) == {s \in Symbols : WriteToConf(s, u, v)}

\* Mutant: symbols at n are not written.
ContentsAboveN(u, v) ==
  Lines({s \in WrittenSymbols(u, v) : v[Value(s)] # 0}, v)

Contents(u, v) == Lines(WrittenSymbols(u, v), v)

DefaultAtM(s, u, v, val) == IF val = 1 /\ NotTristate(s, u, v) THEN 2 ELSE val

\* Symbol._str_default()
StrDefault(s, u, v) ==
  IF ~IsTri(s) THEN StrDefaultAt(s, FirstActive(Def[s].defaults, u, v), v)
  ELSE IF InChoice(s) THEN 0
  ELSE DefaultAtM(s, u, v, Greater(DefaultValue(s, u, v),
                                   Greater(ExprValue(Def[s].rev, u, v),
                                           ExprValue(Def[s].weak, u, v))))

\* Mutant: symbols visible at m count as fixed.
CannotBeY(s, u, v) == ~InChoice(s) /\ v[Vis(s)] < 2

\* A symbol that nothing but a select can change.
CannotBeChanged(s, u, v) == ~InChoice(s) /\ v[Vis(s)] <= ExprValue(Def[s].rev, u, v)

\* A symbol its choice would select anyway.
SelectedByDefault(s, u, v) ==
  /\ InChoice(s)
  /\ ~Def[Def[s].choice].optional
  /\ DefaultSelection(Def[s].choice, u, v) = s
  /\ Def[s].type = "BOOL"
  /\ v[Value(s)] = 2

\* Kconfig._min_config_contents()
MinContents(u, v) ==
  Lines({s \in WrittenSymbols(u, v) : /\ ~CannotBeChanged(s, u, v)
                                      /\ v[Value(s)] # StrDefault(s, u, v)
                                      /\ ~SelectedByDefault(s, u, v)}, v)
-----------------------------------------------------------------------------
(***************************************************************************)
(* Loading.  A choice symbol that is set to m or y sets the mode of its    *)
(* choice first, if the choice can have that mode.                         *)
(***************************************************************************)
\* Mutant: the mode of a choice is not inferred.
SetsNoMode(s, x) == FALSE

SetsMode(s, x) == InChoice(s) /\ (x = 2 \/ (x = 1 /\ IsTristate(Def[s].choice)))

\* The symbol is defined, and the value has the form that set_value() asks for.
WellFormed(line) == line.sym \in Symbols /\ line.val \in UserVals[line.sym] \ {NoUser}

\* What is so far of a file being loaded: the user values, the items whose
\* _was_set is True, and whether an exception has ended the load.
Loading(u, set) == [user |-> u, set |-> set, dead |-> FALSE]

\* The warning about a symbol that is set more than once looks its old user
\* value up in TRI_TO_STR, which has no entry for None.
WarningRaises(st, s) == s \in st.set /\ IsTri(s) /\ st.user[s] = NoUser

Inferred(st, s, x) ==
  IF SetsMode(s, x) THEN [st EXCEPT !.user = U!WithMode(st.user, Def[s].choice, x),
                                    !.set = st.set \cup {Def[s].choice}]
  ELSE st

Assigned(st, s, x) ==
  IF WarningRaises(st, s) THEN [st EXCEPT !.dead = TRUE]
  ELSE [st EXCEPT !.user = U!WithValue(st.user, s, x), !.set = st.set \cup {s}]

Assign(st, line) ==
  IF st.dead \/ ~WellFormed(line) THEN st
  ELSE Assigned(Inferred(st, line.sym, line.val), line.sym, line.val)

\* Kconfig._load_config() with replace=False
Merge(u, set, file) ==
  LET after[k \in 0..Len(file)] ==
        IF k = 0 THEN Loading(u, set) ELSE Assign(after[k - 1], file[k])
  IN  after[Len(file)]

UnsetOthers(st) ==
  [st EXCEPT !.user = [i \in Items |-> IF i \in st.set THEN st.user[i] ELSE U!Untouched[i]]]

\* Mutant: what the file does not set stays.
LoadWithoutUnset(u, file) == Merge(u, {}, file)

\* Kconfig._load_config() with replace=True: _was_set is reset first, and what
\* the file did not set is unset.
Load(u, file) == UnsetOthers(Merge(u, {}, file))

LoadedUser(u, file) == Load(u, file).user
-----------------------------------------------------------------------------
(***************************************************************************)
(* A file has the mode of a choice only in the lines of its symbols.  When *)
(* all are at n, the mode is lost, which matters only if it is another one *)
(* without the user values of the choice.                                  *)
(***************************************************************************)
ModeIsSaved(c) ==
  \A u \in U!Users : \A v \in {Attributes(u)} :
    (\A s \in SymsOf(c) : v[Value(s)] = 0)
      => ChoiceTri(c, u, v) = ChoiceTri(c, U!WithoutMode(u, c), v)

\* The choice of the symbol before an &&, which decides when the symbol is n.
ChoiceBefore(e) ==
  IF e.op = "and" /\ e.a.op = "item" /\ InChoice(e.a.i) THEN {Def[e.a.i].choice} ELSE {}

\* The choices whose mode can matter to an expression while their symbols are n
ChoicesIn[e \in DOMAIN ExprRank] ==
  IF e.op = "item" THEN {e.i} \cap Choices
  ELSE IF e.op = "not" THEN ChoicesIn[e.a]
  ELSE IF e.op \in {"and", "or"} THEN ChoicesIn[e.a] \cup (ChoicesIn[e.b] \ ChoiceBefore(e))
  ELSE {}

\* Only the symbols of a choice look at a mode that can be lost.
ModesAreSaved ==
  \A a \in AllAttributes : \A e \in EvaluatedBy(a) : \A c \in ChoicesIn[e] :
    a[1] \in SymsOf(c) \/ ModeIsSaved(c)

(***************************************************************************)
(* What write_min_config() takes for granted: the prompts of a symbol need *)
(* its dependencies, only bool and tristate symbols are selected, and the  *)
(* symbols of a tristate choice are tristate.                              *)
(***************************************************************************)
MinimalTellsAll(users) ==
  /\ \A u \in users : \A v \in {Attributes(u)} : \A s \in Symbols :
       IF IsTri(s) THEN v[Vis(s)] # 0 => ExprValue(Def[s].direct, u, v) # 0
                   ELSE ExprValue(Def[s].rev, u, v) = 0
  /\ \A s \in Symbols : InChoice(s) /\ IsTristate(Def[s].choice) => IsTristate(s)
=============================================================================
