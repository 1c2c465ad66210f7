------------------------- MODULE KconfigSession_proofs -------------------------
(***************************************************************************)
(* Proofs about KconfigSession, for every tree, every way to evaluate its  *)
(* expressions and every set of files that satisfy the assumptions.        *)
(***************************************************************************)
EXTENDS KconfigSession, KconfigFiles_proofs

(***************************************************************************)
(* The user values are always well formed.                                 *)
(***************************************************************************)
Typed == user \in U!Users /\ wasSet \subseteq Symbols

\* Loading leaves well-formed user values.
LEMMA OutcomeType ==
  ASSUME NEW st \in Loads, Outcome(st)
  PROVE  Typed'
BY DEF Outcome, Loads, Typed

LEMMA TypedInvariant == Spec => []Typed
<1>1. Init => Typed
  BY UntouchedType DEF Init, Typed
<1>2. Typed /\ [Next]_<<user, wasSet>> => Typed'
  <2> SUFFICES ASSUME Typed, [Next]_<<user, wasSet>> PROVE Typed'
    OBVIOUS
  <2>0. user \in U!Users /\ wasSet \in SUBSET Items
    BY ItemShape DEF Typed
  <2>1. CASE UNCHANGED <<user, wasSet>>
    BY <2>1 DEF Typed
  <2>2. ASSUME NEW s \in Unsets, UnsetValue(s) PROVE Typed'
    BY <2>2, ClientAssumption, WithoutValueType DEF UnsetValue, Typed
  <2>3. ASSUME NEW s \in Symbols, NEW x \in Edits[s], SetValue(s, x) PROVE Typed'
    BY <2>3, ClientAssumption, WithValueType DEF SetValue, Typed
  <2>4. ASSUME NEW c \in Choices, UnsetChoice(c) PROVE Typed'
    BY <2>4, WithoutModeType DEF UnsetChoice, Typed
  <2>5. ASSUME NEW c \in Choices, NEW m \in Edits[c], SetMode(c, m) PROVE Typed'
    <3>1. m \in Modes(c)
      BY ClientAssumption
    <3>. QED BY <2>5, <3>1, WithModeType DEF SetMode, Typed
  <2>6. CASE Reload
    <3>1. PICK v : Outcome(Load(user, Contents(user, v)))
      BY <2>6 DEF Reload
    <3>2. Len(Contents(user, v)) \in Nat
      BY LinesType DEF Contents
    <3>. QED BY <3>1, <3>2, <2>0, LoadType, OutcomeType
  <2>7. ASSUME NEW f \in Files, LoadFile(f) \/ MergeFile(f) PROVE Typed'
    <3>1. Len(f) \in Nat
      BY ClientAssumption
    <3>2. Load(user, f) \in Loads /\ Merge(user, wasSet, f) \in Loads
      BY <3>1, <2>0, LoadType, MergeType
    <3>. QED BY <2>7, <3>2, OutcomeType DEF LoadFile, MergeFile
  <2>. QED BY <2>1, <2>2, <2>3, <2>4, <2>5, <2>6, <2>7 DEF Next
<1>. QED BY <1>1, <1>2, PTL DEF Spec

(***************************************************************************)
(* TypeOK: whatever the client sets, unsets, saves, loads and merges, each *)
(* item has a user value that set_value() would accept.                    *)
(***************************************************************************)
THEOREM SessionTypeCorrect == Spec => []TypeOK
<1>1. Typed => TypeOK
  BY UserType DEF Typed, TypeOK
<1>. QED BY <1>1, TypedInvariant, PTL
-----------------------------------------------------------------------------
(***************************************************************************)
(* IntInRange: the value of an int symbol is in its active range, however  *)
(* the range got there.                                                    *)
(***************************************************************************)
THEOREM IntsStayInRange == Spec => []IntInRange
<1>1. Typed => IntInRange
  <2> SUFFICES ASSUME user \in U!Users, NEW v, v = Attributes(user),
                      NEW s \in Symbols, Def[s].type = "INT",
                      NEW r, r = FirstActive(Def[s].ranges, user, v), r # 0,
                      NEW low, low = AsNumber(Operand(Def[s].ranges[r].low, v)),
                      NEW high, high = AsNumber(Operand(Def[s].ranges[r].high, v)),
                      low <= high
               PROVE  AsNumber(v[Value(s)]) \in low..high
    BY DEF Typed, IntInRange
  <2>1. low \in Int /\ high \in Int
    BY DEF AsNumber
  <2>2. v[Value(s)] = IntValueAt(s, r, FirstActive(Def[s].defaults, user, v), user, v)
    BY IntValueIs DEF IntValue
  <2>3. CASE UsesUserInt(s, r, user, v)
    <3>1. user[s] \in low..high
      BY <2>3 DEF UsesUserInt
    <3>2. user[s] \in Int /\ AsNumber(user[s]) = user[s]
      BY <3>1, <2>1 DEF AsNumber
    <3>. QED BY <2>2, <2>3, <3>1, <3>2 DEF IntValueAt
  <2>4. CASE ~UsesUserInt(s, r, user, v)
    <3> DEFINE x == StrDefaultAt(s, FirstActive(Def[s].defaults, user, v), v)
    <3>1. v[Value(s)] = Clamped(s, r, x, v)
      BY <2>2, <2>4 DEF IntValueAt
    <3> HIDE DEF x
    <3>2. Clamped(s, r, x, v) = IF AsNumber(x) < low THEN low
                                ELSE IF AsNumber(x) > high THEN high ELSE x
      BY DEF Clamped
    <3>3. AsNumber(x) \in Int /\ AsNumber(low) = low /\ AsNumber(high) = high
      BY <2>1 DEF AsNumber
    <3>. QED BY <2>1, <3>1, <3>2, <3>3
  <2>. QED BY <2>3, <2>4
<1>. QED BY <1>1, TypedInvariant, PTL

(***************************************************************************)
(* NoModulesNoM: without MODULES no bool or tristate symbol and no choice  *)
(* is at m.                                                                *)
(***************************************************************************)
THEOREM NothingIsMWithoutModules == Spec => []NoModulesNoM
<1>1. Typed => NoModulesNoM
  <2> SUFFICES ASSUME user \in U!Users, NEW v, v = Attributes(user), ModulesValue(v) = 0
               PROVE  /\ \A s \in Symbols : IsTri(s) => v[Value(s)] # 1
                      /\ \A c \in Choices : ChoiceTri(c, user, v) # 1
    BY DEF Typed, NoModulesNoM
  <2>1. ASSUME NEW s \in Symbols, IsTri(s) PROVE v[Value(s)] # 1
    <3>1. v[Value(s)] = TriValue(s, user, v)
      BY <2>1, TriValueIs
    <3>2. NotTristate(s, user, v)
      BY DEF NotTristate
    <3>3. v[Vis(s)] # 1
      BY <3>2, VisibilityValue, ItemShape DEF Visibility, VisibilityAt
    <3>4. ValueInChoice(s, v[Vis(s)], user, v) # 1
      BY <3>3 DEF ValueInChoice
    <3>5. \A x : PromotedValue(s, x, user, v) # 1
      BY <3>2 DEF PromotedValue
    <3>. QED BY <3>1, <3>4, <3>5 DEF TriValue
  <2>2. \A c \in Choices : ChoiceTri(c, user, v) # 1
    BY DEF ChoiceTri, PromotedMode
  <2>. QED BY <2>1, <2>2
<1>. QED BY <1>1, TypedInvariant, PTL
(***************************************************************************)
(* ChoiceHasOneSelection: whatever modes and selections are asked for or   *)
(* loaded, a choice in y mode has one symbol at y, if one is visible, and  *)
(* none at m; in m mode none is at y, and in n mode all are at n.          *)
(***************************************************************************)
THEOREM ChoicesHaveOneSelection == Spec => []ChoiceHasOneSelection
<1>1. Typed => ChoiceHasOneSelection
  <2> SUFFICES ASSUME user \in U!Users, NEW v, v = Attributes(user), NEW c \in Choices
               PROVE  ChoiceSymbolsAgree(c, v)
    BY DEF Typed, ChoiceHasOneSelection
  <2> DEFINE At(x) == {s \in SymsOf(c) : v[Value(s)] = x}
             mode == ChoiceTri(c, user, v)
  <2>1. ASSUME NEW s \in At(2) PROVE mode = 2 /\ Selection(c, user, v) = s
    <3>1. Selection(c, user, v) = s /\ s \in Symbols
      BY ChoiceSymbolValue DEF SymsOf
    <3>2. s # NoSym
      BY <3>1, TreeAssumption
    <3>. QED BY <3>1, <3>2 DEF Selection
  <2>2. \A s \in At(1) : mode = 1
    BY ChoiceSymbolValue, VisibleAtM
  <2>3. ASSUME mode = 2, NEW s \in SymsOf(c), v[Vis(s)] # 0 PROVE At(2) # {}
    <3> DEFINE t == Selection(c, user, v)
    <3>1. t \in SymsOf(c) /\ v[Vis(t)] # 0
      BY <2>3, SelectionIsVisible
    <3> HIDE DEF t
    <3>2. t \in Items
      BY <3>1, ItemShape DEF SymsOf
    <3>3. v[Vis(t)] \in 0..2
      BY <3>2, VisibilityType
    <3>4. v[Vis(t)] # 1
      BY <3>1, <2>3, VisibleAtM
    <3>5. v[Vis(t)] = 2
      BY <3>1, <3>3, <3>4
    <3>6. v[Value(t)] = 2
      BY <3>1, <3>5, ChoiceSymbolValue DEF t
    <3>. QED BY <3>1, <3>6
  <2>. QED BY <2>1, <2>2, <2>3 DEF ChoiceSymbolsAgree
<1>. QED BY <1>1, TypedInvariant, PTL
-----------------------------------------------------------------------------
(***************************************************************************)
(* AssignableIsTakenUnlessLocked: a client that offers the values of       *)
(* Symbol.assignable and Choice.assignable gets what it sets.              *)
(***************************************************************************)
THEOREM AssignableIsTaken == Spec => []AssignableIsTakenUnlessLocked
<1>1. Typed => AssignableIsTakenUnlessLocked
  <2> SUFFICES ASSUME user \in U!Users, NEW i \in Items,
                      i \in Choices \/ (IsTri(i) /\ ~LockedAtM(i, Attributes(user))),
                      NEW x \in Assignable(i, user, Attributes(user))
               PROVE  IsTakenBy(i, x)
    BY DEF Typed, AssignableIsTakenUnlessLocked
  <2>1. CASE i \in Choices
    <3>1. i \notin Symbols
      BY <2>1, ItemShape
    <3>. QED BY <2>1, <3>1, AssignableMode DEF IsTakenBy
  <2>2. CASE i \in Symbols /\ InChoice(i)
    BY <2>2, AssignableChoiceSymbol DEF IsTakenBy
  <2>3. CASE i \in Symbols /\ ~InChoice(i)
    <3>1. IsTri(i) /\ ~LockedAtM(i, Attributes(user))
      BY <2>3, ItemShape
    <3>. QED BY <2>3, <3>1, AssignableSymbol DEF IsTakenBy, LockedAtM
  <2>. QED BY <2>1, <2>2, <2>3 DEF Items
<1>. QED BY <1>1, TypedInvariant, PTL

(***************************************************************************)
(* LoadIgnoresPastValues: what the values are after load_config() with     *)
(* replace=True only depends on the file, but for a choice that the file   *)
(* puts at m and that is promoted to y.                                    *)
(***************************************************************************)
THEOREM LoadsIgnorePastValues == Spec => []LoadIgnoresPastValues
<1>1. Typed => LoadIgnoresPastValues
  <2> SUFFICES ASSUME user \in U!Users, NEW f \in Files,
                      NEW u, u = LoadedUser(user, f), NEW w, w = LoadedUser(U!Untouched, f),
                      ~PromotedChoice(u, Attributes(u))
               PROVE  SameValues(u, w)
    BY DEF Typed, LoadIgnoresPastValues
  <2>1. Len(f) \in Nat
    BY ClientAssumption
  <2>2. u \in U!Users /\ w \in U!Users
    BY <2>1, LoadType, UntouchedType DEF LoadedUser, Loads
  <2>3. /\ \A s \in Symbols : u[s] = w[s]
        /\ \A c \in Choices : /\ u[c].mode = w[c].mode
                              /\ u[c].mode # 1 => u[c].sel = w[c].sel
    BY <2>1, UntouchedType, LoadAlike
  <2>4. AlikeUsers(u, w)
    BY <2>3 DEF AlikeUsers, PromotedChoice
  <2>5. \A s \in Symbols : Attributes(u)[Value(s)] = Attributes(w)[Value(s)]
    BY <2>2, <2>4, AlikeUsersSame, LookedAt DEF AlikeAttributes
  <2>. QED BY <2>5 DEF SameValues, ValuesIn
<1>. QED BY <1>1, TypedInvariant, PTL
-----------------------------------------------------------------------------
(***************************************************************************)
(* ReloadKeepsValues: what write_config() writes gives the values it was   *)
(* written with when load_config() loads it, in this session and in a new  *)
(* one.  The exception is in the property: a default that holds a symbol   *)
(* above its visibility.  The trees are those where only the symbols of a  *)
(* choice look at a mode that the file cannot have (ModesAreSaved), which  *)
(* the runs evaluate for theirs.                                           *)
(***************************************************************************)
THEOREM ValuesSurviveReload == ModesAreSaved /\ Spec => []ReloadKeepsValues
<1> DEFINE Found == ModesAreSaved /\ Typed
<1>1. Found => ReloadKeepsValues
  <2> SUFFICES ASSUME ModesAreSaved, user \in U!Users, NEW v, v = Attributes(user),
                      ~DefaultAboveVisibility(v), NEW f, f = Contents(user, v),
                      NEW start \in U!Users, NEW w, w = LoadedUser(start, f)
               PROVE  ValuesIn(Attributes(w)) = ValuesIn(v)
    BY UntouchedType DEF Typed, ReloadKeepsValues, GivesValues
  <2>1. \A s \in Symbols : IsTri(s) => ~HeldByDefault(s, user)
    BY DEF DefaultAboveVisibility, HeldByDefault
  <2>2. w = LoadedUser(start, Contents(user, Attributes(user)))
    OBVIOUS
  <2>3. ValuesKept(user, w)
    BY <2>1, <2>2, ReloadGivesValues DEF NothingHeld
  <2>. QED BY <2>3 DEF ValuesKept, ValuesIn
<1>2. ModesAreSaved => ModesAreSaved'
  OBVIOUS
<1> HIDE DEF Found
<1>3. ModesAreSaved /\ Typed => Found
  BY DEF Found
<1>. QED BY <1>1, <1>2, <1>3, TypedInvariant, PTL

(***************************************************************************)
(* MinReloadKeepsValues: so does what write_min_config() writes, unless it *)
(* leaves out a symbol that is visible at m and selected at m.  The trees  *)
(* are those write_min_config() is made for (MinimalTellsAll), which the   *)
(* run that checks this property evaluates for its tree.                   *)
(***************************************************************************)
THEOREM MinimalFilesSuffice == ModesAreSaved /\ MinimalTellsAll(U!Users) /\ Spec => []MinReloadKeepsValues
<1> DEFINE Found == ModesAreSaved /\ MinimalTellsAll(U!Users) /\ Typed
<1>1. Found => MinReloadKeepsValues
  <2> SUFFICES ASSUME ModesAreSaved, MinimalTellsAll(U!Users), user \in U!Users,
                      NEW v, v = Attributes(user),
                      \A s \in Symbols : \/ InChoice(s) \/ v[Vis(s)] # 1
                                         \/ ExprValue(Def[s].rev, user, v) # 1,
                      NEW f, f = MinContents(user, v),
                      NEW start \in U!Users, NEW w, w = LoadedUser(start, f)
               PROVE  ValuesIn(Attributes(w)) = ValuesIn(v)
    BY UntouchedType DEF Typed, MinReloadKeepsValues, GivesValues
  <2>1. NothingLockedAtM(user)
    BY DEF NothingLockedAtM
  <2>2. w = LoadedUser(start, MinContents(user, Attributes(user)))
    OBVIOUS
  <2>3. ValuesKept(user, w)
    BY <2>1, <2>2, MinimalReloadGivesValues
  <2>. QED BY <2>3 DEF ValuesKept, ValuesIn
<1>2. ModesAreSaved /\ MinimalTellsAll(U!Users) => (ModesAreSaved /\ MinimalTellsAll(U!Users))'
  OBVIOUS
<1> HIDE DEF Found
<1>3. ModesAreSaved /\ MinimalTellsAll(U!Users) /\ Typed => Found
  BY DEF Found
<1>. QED BY <1>1, <1>2, <1>3, TypedInvariant, PTL
================================================================================
