---------------------------- MODULE KconfigSession ----------------------------
(***************************************************************************)
(* A client of libs/menu/kconfiglib.py that changes user values, saves the *)
(* configuration with write_config() or write_min_config() and loads saved *)
(* files with load_config().  Attribute values are KconfigSemantics'       *)
(* Attributes: the theorems about ConfigCache say it is what a client      *)
(* reads.                                                                  *)
(***************************************************************************)
EXTENDS KconfigFiles

CONSTANTS
  Edits,        \* Edits[i]: the user values the client sets item i to
  Unsets,       \* the symbols the client unsets
  Files         \* configuration files written by others

ASSUME ClientAssumption ==
  /\ \A s \in Symbols : Edits[s] \subseteq UserVals[s]
  /\ \A c \in Choices : Edits[c] \subseteq Modes(c)
  /\ Unsets \subseteq Symbols
  /\ \A f \in Files : f \in Seq({f[k] : k \in DOMAIN f})

VARIABLES
  user,    \* the user values
  wasSet   \* the symbols whose _was_set is True

\* A choice has a _was_set too, but it is reset whenever it is going to be used.

-----------------------------------------------------------------------------
SetValue(s, x) == user' = U!WithValue(user, s, x) /\ wasSet' = wasSet \cup {s}

\* _was_set is left alone.
UnsetValue(s) == user[s] # NoUser /\ user' = U!WithoutValue(user, s) /\ UNCHANGED wasSet

SetMode(c, m) == m # user[c].mode /\ user' = U!WithMode(user, c, m) /\ UNCHANGED wasSet

UnsetChoice(c) ==
  user[c] # U!UntouchedChoice /\ user' = U!WithoutMode(user, c) /\ UNCHANGED wasSet

Outcome(st) == user' = st.user /\ wasSet' = st.set \cap Symbols

\* The configuration is saved and loaded again, or another file is loaded.
Reload == \E v \in {Attributes(user)} : Outcome(Load(user, Contents(user, v)))

LoadFile(file) == Outcome(Load(user, file))

MergeFile(file) == Outcome(Merge(user, wasSet, file))

Init == user = U!Untouched /\ wasSet = {}

Next ==
  \/ \E s \in Unsets : UnsetValue(s)
  \/ \E s \in Symbols : \E x \in Edits[s] : SetValue(s, x)
  \/ \E c \in Choices : UnsetChoice(c) \/ \E m \in Edits[c] : SetMode(c, m)
  \/ Reload
  \/ \E f \in Files : LoadFile(f) \/ MergeFile(f)

Spec == Init /\ [][Next]_<<user, wasSet>>
-----------------------------------------------------------------------------
\* Every item has a user value that set_value() accepts.
TypeOK ==
  /\ DOMAIN user = Items
  /\ \A i \in Items : user[i] \in UserVals[i]
  /\ wasSet \subseteq Symbols

\* The properties speak of the attributes v under the present user values.
ChoiceSymbolsAgree(c, v) ==
  LET At(x) == {s \in SymsOf(c) : v[Value(s)] = x}
      mode  == ChoiceTri(c, user, v)
  IN  /\ At(2) # {} => mode = 2
      /\ At(1) # {} => mode = 1
      /\ \A s, t \in At(2) : s = t
      /\ mode = 2 /\ (\E s \in SymsOf(c) : v[Vis(s)] # 0)
           => At(2) # {}

(***************************************************************************)
(* A choice in y mode with a visible symbol has exactly one symbol at y    *)
(* and none at m; in m mode no symbol is at y; in n mode all are at n.     *)
(***************************************************************************)
ChoiceHasOneSelection ==
  \A v \in {Attributes(user)}, c \in Choices : ChoiceSymbolsAgree(c, v)

\* With MODULES at n no symbol and no choice is at m, whatever the user set.
NoModulesNoM ==
  \A v \in {Attributes(user)} :
    ModulesValue(v) = 0 =>
      /\ \A s \in Symbols : IsTri(s) => v[Value(s)] # 1
      /\ \A c \in Choices : ChoiceTri(c, user, v) # 1

(***************************************************************************)
(* An int symbol with an active range never has a value outside it, also   *)
(* when the range moves after the value was set (kconfiglib.py:4163-4265). *)
(***************************************************************************)
IntInRange ==
  \A v \in {Attributes(user)}, s \in {t \in Symbols : Def[t].type = "INT"} :
    \A r \in {FirstActive(Def[s].ranges, user, v)} \ {0} :
      LET low  == AsNumber(Operand(Def[s].ranges[r].low, v))
          high == AsNumber(Operand(Def[s].ranges[r].high, v))
      IN  low <= high => AsNumber(v[Value(s)]) \in low..high

\* What setting symbol or choice i to x leads to.
IsTakenBy(i, x) ==
  IF i \in Symbols
    THEN \A w \in {U!WithValue(user, i, x)} : Attributes(w)[Value(i)] = x
    ELSE \A w \in {U!WithMode(user, i, x)} :
           \A v \in {Attributes(w)} : ChoiceTri(i, w, v) = x

\* The one symbol that does not take an assignable value: visible at m,
\* selected at m and implied at y, it is y ("that would be respected", 3912).
LockedAtM(s, v) == /\ v[Vis(s)] = 1
                   /\ ExprValue(Def[s].rev, user, v) = 1
                   /\ ExprValue(Def[s].weak, user, v) = 2

(***************************************************************************)
(* A value offered as assignable is the value the symbol or choice has     *)
(* after it was set (kconfiglib.py:3912-3917), but for LockedAtM.          *)
(***************************************************************************)
AssignableIsTakenUnlessLocked ==
  \A v \in {Attributes(user)}, i \in Items :
    i \in Choices \/ (IsTri(i) /\ ~LockedAtM(i, v)) =>
      \A x \in Assignable(i, user, v) : IsTakenBy(i, x)

ValuesIn(v) == [s \in Symbols |-> v[Value(s)]]

\* Loading the file in this session or in a new one gives the values in v.
GivesValues(file, v) ==
  \A u \in {LoadedUser(user, file), LoadedUser(U!Untouched, file)} :
    ValuesIn(Attributes(u)) = ValuesIn(v)

\* A default, not a select or imply, holds a symbol above its visibility, where
\* no user value can.
DefaultAboveVisibility(v) ==
  \E s \in Symbols : /\ IsTri(s) /\ v[Vis(s)] = 1 /\ v[Value(s)] = 2
                     /\ ExprValue(Def[s].rev, user, v) # 2
                     /\ ExprValue(Def[s].weak, user, v) # 2

(***************************************************************************)
(* Loading the file that write_config() wrote, in the same session or a    *)
(* new one, gives every symbol the value it was saved with.                *)
(***************************************************************************)
ReloadKeepsValues ==
  \A v \in {Attributes(user)} :
    ~DefaultAboveVisibility(v) =>
      \A f \in {Contents(user, v)} : GivesValues(f, v)

(***************************************************************************)
(* So does the file write_min_config() wrote ("a complete configuration    *)
(* can be derived from it by loading it", kconfiglib.py:1564-1565), unless *)
(* it left out a symbol that is visible at m and selected at m.            *)
(***************************************************************************)
MinReloadKeepsValues ==
  \A v \in {Attributes(user)} :
    (\A s \in Symbols : InChoice(s) \/ v[Vis(s)] # 1 \/ ExprValue(Def[s].rev, user, v) # 1)
      => \A f \in {MinContents(user, v)} : GivesValues(f, v)

\* A choice is set to m, and that is promoted to y.
PromotedChoice(u, v) == \E c \in Choices : u[c].mode = 1 /\ ChoiceTri(c, u, v) = 2

SameValues(u, w) == ValuesIn(Attributes(u)) = ValuesIn(Attributes(w))

(***************************************************************************)
(* load_config() with replace=True gives the values a new session would    *)
(* get, whatever was set before, unless a choice that the file puts at m   *)
(* is promoted to y.                                                       *)
(***************************************************************************)
LoadIgnoresPastValues ==
  \A f \in Files : \A u \in {LoadedUser(user, f)}, w \in {LoadedUser(U!Untouched, f)} :
    ~PromotedChoice(u, Attributes(u)) => SameValues(u, w)

(***************************************************************************)
(* "all existing user values will be cleared before loading the .config"   *)
(* (kconfiglib.py:1144-1145): the unless is not needed.                    *)
(***************************************************************************)
LoadClearsPastValues ==
  \A f \in Files : SameValues(LoadedUser(user, f), LoadedUser(U!Untouched, f))

(***************************************************************************)
(* "as if the symbol had never gotten a user value via                     *)
(* Kconfig.load_config() or Symbol.set_value()" (kconfiglib.py:4502-4503): *)
(* once everything is unset again, a file loads as in a new session.       *)
(***************************************************************************)
UnsetIsAsNeverSet ==
  user = U!Untouched => \A f \in Files : ~Merge(user, wasSet, f).dead
=============================================================================
