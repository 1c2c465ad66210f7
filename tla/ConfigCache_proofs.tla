-------------------------- MODULE ConfigCache_proofs --------------------------
(***************************************************************************)
(* Proofs about ConfigCache: its caches are always coherent, for every     *)
(* tree whose properties and _dependents sets satisfy the assumptions, and *)
(* it implements ConfigValues.                                             *)
(***************************************************************************)
EXTENDS ConfigWalk, FiniteSetTheorems, WellFoundedInduction, TLAPS

\* Symbols and choices are disjoint kinds of items.
LEMMA ItemShape ==
  /\ \A s \in Symbols : s \in Items /\ s \notin Choices
  /\ \A c \in Choices : c \in Items /\ c \notin Symbols
BY ShapeAssumption DEF Items

\* Users are the functions that give each item a well-formed user value.
LEMMA UserType ==
  ASSUME NEW u \in Users
  PROVE  u = [i \in Items |-> u[i]] /\ \A i \in Items : u[i] \in UserVals[i]
<1>1. PICK f \in SymbolUsers, g \in ChoiceUsers :
        u = [i \in Items |-> IF i \in Symbols THEN f[i] ELSE g[i]]
  BY DEF Users
<1>2. \A i \in Items : IF i \in Symbols THEN u[i] = f[i] ELSE u[i] = g[i] /\ i \in Choices
  BY <1>1 DEF Items
<1>3. \A i \in Items : u[i] \in UserVals[i]
  BY <1>2 DEF SymbolUsers, ChoiceUsers
<1>. QED BY <1>1, <1>3

\* ... and every function that does so is in Users.
LEMMA UserIntro ==
  ASSUME NEW u, u = [i \in Items |-> u[i]], \A i \in Items : u[i] \in UserVals[i]
  PROVE  u \in Users
<1> DEFINE f == [s \in Symbols |-> u[s]]
           g == [c \in Choices |-> u[c]]
<1>1. \A s \in Symbols : f[s] = u[s] /\ u[s] \in UserVals[s]
  BY ItemShape
<1>2. \A c \in Choices : g[c] = u[c] /\ u[c] \in UserVals[c]
  BY ItemShape
<1>3. f \in SymbolUsers
  BY <1>1 DEF SymbolUsers
<1>4. g \in ChoiceUsers
  BY <1>2 DEF ChoiceUsers
<1> HIDE DEF f, g
<1>5. u = [i \in Items |-> IF i \in Symbols THEN f[i] ELSE g[i]]
  BY <1>1, <1>2 DEF Items
<1>. QED BY <1>3, <1>4, <1>5 DEF Users

\* Giving one item another well-formed user value keeps them well formed.
LEMMA UserUpdate ==
  ASSUME NEW u \in Users, NEW i \in Items, NEW x \in UserVals[i]
  PROVE  [u EXCEPT ![i] = x] \in Users
<1> DEFINE w == [u EXCEPT ![i] = x]
<1>1. \A j \in Items : w[j] = IF j = i THEN x ELSE u[j]
  BY UserType
<1>2. w = [j \in Items |-> w[j]]
  BY UserType
<1>3. \A j \in Items : w[j] \in UserVals[j]
  BY <1>1, UserType
<1> HIDE DEF w
<1>4. w \in Users
  BY <1>2, <1>3, UserIntro
<1>. QED BY <1>4 DEF w

\* The user value of a choice with another mode or selection.
LEMMA ModeRecord ==
  ASSUME NEW c \in Choices, NEW x \in UserVals[c],
         NEW s \in Symbols, ChoiceOf[s] = c
  PROVE  [mode |-> x.mode, sel |-> s] \in UserVals[c]
<1> DEFINE modes == {z.mode : z \in UserVals[c]}
           sels  == {t \in Symbols : ChoiceOf[t] = c} \cup {NoSym}
<1>1. UserVals[c] = [mode : modes, sel : sels]
  BY ShapeAssumption
<1>2. x.mode \in modes /\ s \in sels
  OBVIOUS
<1> HIDE DEF modes, sels
<1>. QED BY <1>1, <1>2

\* The four changes of user values keep them well formed.
LEMMA WithValueType ==
  ASSUME NEW u \in Users, NEW s \in Symbols, NEW x \in UserVals[s]
  PROVE  WithValue(u, s, x) \in Users
<1>1. [u EXCEPT ![s] = x] \in Users
  BY UserUpdate, ItemShape
<1>2. CASE SelectsChoice(s, x)
  <2> DEFINE c == ChoiceOf[s]
             r == [mode |-> u[c].mode, sel |-> s]
  <2>1. c \in Choices
    BY <1>2, ShapeAssumption DEF SelectsChoice
  <2>2. r \in UserVals[c]
    BY <2>1, ModeRecord, UserType, ItemShape
  <2>3. [[u EXCEPT ![s] = x] EXCEPT ![c] = r] \in Users
    BY <1>1, <2>1, <2>2, UserUpdate, ItemShape
  <2>. QED BY <1>2, <2>3 DEF WithValue
<1>3. CASE ~SelectsChoice(s, x)
  BY <1>1, <1>3 DEF WithValue
<1>. QED BY <1>2, <1>3

\* Symbol.unset_value()
LEMMA WithoutValueType ==
  ASSUME NEW u \in Users, NEW s \in Symbols
  PROVE  WithoutValue(u, s) \in Users
BY UserUpdate, ItemShape, ShapeAssumption DEF WithoutValue

\* Choice.set_value()
LEMMA WithModeType ==
  ASSUME NEW u \in Users, NEW c \in Choices, NEW x \in UserVals[c]
  PROVE  WithMode(u, c, x.mode) \in Users
<1>1. [mode |-> x.mode, sel |-> u[c].sel] \in UserVals[c]
  <2>1. u[c] \in UserVals[c]
    BY UserType, ItemShape
  <2> DEFINE modes == {z.mode : z \in UserVals[c]}
             sels  == {t \in Symbols : ChoiceOf[t] = c} \cup {NoSym}
  <2>2. UserVals[c] = [mode : modes, sel : sels]
    BY ShapeAssumption
  <2>3. x.mode \in modes
    OBVIOUS
  <2> HIDE DEF modes, sels
  <2>. QED BY <2>1, <2>2, <2>3
<1>. QED BY <1>1, UserUpdate, ItemShape DEF WithMode

\* Choice.unset_value()
LEMMA WithoutModeType ==
  ASSUME NEW u \in Users, NEW c \in Choices
  PROVE  WithoutMode(u, c) \in Users
<1>1. Untouched[c] = UntouchedChoice
  BY ItemShape DEF Untouched
<1>2. UntouchedChoice \in UserVals[c]
  BY <1>1, ShapeAssumption, UserType, ItemShape
<1>. QED BY <1>2, UserUpdate, ItemShape DEF WithoutMode

-----------------------------------------------------------------------------
\* What properties are evaluated with are inputs the assumptions speak of: the
\* user values, the true attributes, and the attributes as the caches show them.
LEMMA InputType ==
  ASSUME NEW u \in Users, NEW c \in Cells
  PROVE  Inputs(c, u) \in Inputs0(c)
BY DEF Inputs, Inputs0

\* The true attributes are a legal environment.
LEMMA TruthEnv ==
  ASSUME NEW u \in Users, NEW c \in Cells
  PROVE  Env(c, TruthAt(u)) \in Envs(c)
<1>1. \A d \in MayRead(c) : TruthAt(u)[d] \in Values[d]
  BY TruthAssumption, CellAssumption DEF TruthAt
<1>. QED BY <1>1 DEF Env, Envs

\* So are the attributes as the caches show them.
LEMMA ViewEnv ==
  ASSUME TypeOK, NEW c \in Cells
  PROVE  Env(c, View) \in Envs(c)
<1>1. \A d \in MayRead(c) : View[d] \in Values[d]
  BY CellAssumption DEF TypeOK, View
<1>. QED BY <1>1 DEF Env, Envs

(***************************************************************************)
(* A property that looks at cached attributes only computes the truth.     *)
(***************************************************************************)
LEMMA FillIsTrue ==
  ASSUME Inv, NEW c \in Cells,
         \A d \in Reads(c, Inputs(c, user), Env(c, View)) : IsCached(d)
  PROVE  /\ Eval(c, Inputs(c, user), Env(c, View)) = Truth(c, user)
         /\ Reads(c, Inputs(c, user), Env(c, View)) = TrueReads(c, user)
<1> DEFINE i == Inputs(c, user)
           v == Env(c, View)
           w == Env(c, TruthAt(user))
<1>1. user \in Users /\ i \in Inputs0(c) /\ v \in Envs(c) /\ w \in Envs(c)
  BY InputType, TruthEnv, ViewEnv DEF Inv, TypeOK
<1>2. Reads(c, i, v) \subseteq MayRead(c) /\ MayRead(c) \subseteq Cells
  BY <1>1, LocalityAssumption, CellAssumption
<1>3. \A d \in Reads(c, i, v) : w[d] = v[d]
  BY <1>2 DEF Env, TruthAt, View, Inv, Coherent
<1> HIDE DEF i, v, w
<1>4. Eval(c, i, w) = Eval(c, i, v) /\ Reads(c, i, w) = Reads(c, i, v)
  BY <1>1, <1>3, LocalityAssumption
<1>5. Truth(c, user) = Eval(c, i, w)
  BY <1>1, TruthAssumption DEF i, w
<1>. QED BY <1>4, <1>5 DEF i, v, w, TrueReads

(***************************************************************************)
(* What _rec_invalidate() clears: the item itself, with every item with    *)
(* cached values also its dependents, and with MODULES everything.         *)
(***************************************************************************)
LEMMA InvalidatedClosed ==
  ASSUME NEW i \in Items
  PROVE  /\ i \in Invalidated(i)
         /\ Invalidated(i) \subseteq Items
         /\ \A j \in Invalidated(i) : \A k \in Dependents[j] :
              HasCached(k) => k \in Invalidated(i)
         /\ Invalidated(i) \cap Globals # {} => Invalidated(i) = Items
<1>1. i \in Reached(i)
  BY DEF Reached
<1>2. ASSUME NEW j \in Reached(i), j \notin Globals, NEW k \in Dependents[j], HasCached(k)
      PROVE  k \in Reached(i)
  <2>1. j \in Items /\ k \in Items
    BY ShapeAssumption DEF Reached
  <2>2. ASSUME NEW S \in StopSets, i \in S
        PROVE  k \in S
    <3>1. j \in S
      BY <2>2 DEF Reached
    <3>. QED BY <1>2, <2>2, <3>1 DEF StopSets
  <2>. QED BY <2>1, <2>2 DEF Reached
<1>3. CASE Reached(i) \cap Globals = {}
  BY <1>1, <1>2, <1>3 DEF Invalidated, Reached
<1>4. CASE Reached(i) \cap Globals # {}
  BY <1>4, ShapeAssumption DEF Invalidated
<1>. QED BY <1>3, <1>4

(***************************************************************************)
(* The argument at kconfiglib.py:4703-4717.  Let G be closed as above and  *)
(* let the user values of nothing change but of items of G and of symbols  *)
(* depending on items of G.  Then an attribute that keeps its cached value *)
(* keeps its truth, and so does everything it looked at.                   *)
(***************************************************************************)
ClearsEnough(G, u) ==
  /\ G \subseteq Items
  /\ \A j \in G : \A k \in Dependents[j] : HasCached(k) => k \in G
  /\ G \cap Globals # {} => G = Items
  /\ \A i \in Items : u[i] # user[i] =>
       \/ i \in G
       \/ i \in Symbols /\ \E j \in G : i \in Dependents[j]

\* A property whose caches are kept looks at user values that did not change.
LEMMA KeptInputs ==
  ASSUME Inv, NEW u \in Users, NEW G, ClearsEnough(G, u),
         NEW c \in Cells, IsCached(c), Owner(c) \notin G
  PROVE  Inputs(c, u) = Inputs(c, user)
<1> SUFFICES ASSUME NEW i \in Uses(c), u[i] # user[i]
             PROVE  FALSE
  BY DEF Inputs
<1>1. i \in Items /\ HasCached(Owner(c))
  BY CellAssumption DEF Inv, FlagIsSound
<1>2. i = Owner(c) \/ (i \in Choices /\ Owner(c) \in Dependents[i])
  BY DependentsAssumption
<1>3. CASE i \in G
  BY <1>1, <1>2, <1>3 DEF ClearsEnough
<1>4. CASE i \in Symbols /\ \E j \in G : i \in Dependents[j]
  BY <1>1, <1>2, <1>4, ItemShape DEF ClearsEnough
<1>. QED BY <1>1, <1>3, <1>4 DEF ClearsEnough

\* Whatever it looked at is cached and kept, too.
LEMMA KeptReads ==
  ASSUME Inv, NEW G, G \subseteq Items,
         \A j \in G : \A k \in Dependents[j] : HasCached(k) => k \in G,
         G \cap Globals # {} => G = Items,
         NEW c \in Cells, IsCached(c), Owner(c) \notin G, NEW d \in TrueReads(c, user)
  PROVE  d \in Cells /\ d \in MayRead(c) /\ IsCached(d) /\ Owner(d) \notin G
<1>1. user \in Users
  BY DEF Inv, TypeOK
<1>2. d \in MayRead(c)
  BY <1>1, InputType, TruthEnv, LocalityAssumption DEF TrueReads
<1>3. d \in Cells /\ Owner(d) \in Items /\ Owner(c) \in Items
  BY <1>2, CellAssumption
<1>4. IsCached(d)
  BY DEF Inv, ReadsStayCached
<1>5. HasCached(Owner(c))
  BY DEF Inv, FlagIsSound
<1>6. \/ Owner(d) = Owner(c)
      \/ Owner(d) \in Globals
      \/ Owner(c) \in Dependents[Owner(d)]
  BY <1>2, DependentsAssumption
<1>. QED BY <1>2, <1>3, <1>4, <1>5, <1>6

\* So its true value did not change: otherwise take a changed one that looks at
\* no other changed one; everything it looks at is the same, so it is the same.
LEMMA KeptTruth ==
  ASSUME Inv, NEW u \in Users, NEW G, ClearsEnough(G, u)
  PROVE  \A c \in Cells : IsCached(c) /\ Owner(c) \notin G =>
           Truth(c, u) = Truth(c, user) /\ TrueReads(c, u) = TrueReads(c, user)
<1> DEFINE Same(c) == Truth(c, u) = Truth(c, user) /\ TrueReads(c, u) = TrueReads(c, user)
           Bad == {c \in Cells : IsCached(c) /\ Owner(c) \notin G /\ ~Same(c)}
<1> SUFFICES ASSUME Bad # {} PROVE FALSE
  OBVIOUS
<1>1. PICK c \in Bad : MayRead(c) \cap Bad = {}
  BY AcyclicAssumption
<1>2. c \in Cells /\ IsCached(c) /\ Owner(c) \notin G /\ ~Same(c)
  BY <1>1
<1> DEFINE i == Inputs(c, user)
           v == Env(c, TruthAt(user))
           w == Env(c, TruthAt(u))
<1>3. user \in Users
  BY DEF Inv, TypeOK
<1>4. i \in Inputs0(c) /\ v \in Envs(c) /\ w \in Envs(c)
  BY <1>2, <1>3, InputType, TruthEnv
<1>5. i = Inputs(c, u)
  BY <1>2, KeptInputs
<1>6. \A d \in Reads(c, i, v) : w[d] = v[d]
  <2> TAKE d \in Reads(c, i, v)
  <2>1. d \in TrueReads(c, user)
    BY DEF TrueReads
  <2>2. d \in Cells /\ d \in MayRead(c) /\ IsCached(d) /\ Owner(d) \notin G
    BY <1>2, <2>1, KeptReads DEF ClearsEnough
  <2>3. Same(d)
    BY <1>1, <2>2
  <2>. QED BY <2>2, <2>3 DEF Env, TruthAt
<1>7. Truth(c, user) = Eval(c, i, v) /\ Truth(c, u) = Eval(c, i, w)
  BY <1>2, <1>3, <1>5, TruthAssumption
<1>8. TrueReads(c, user) = Reads(c, i, v) /\ TrueReads(c, u) = Reads(c, i, w)
  BY <1>5 DEF TrueReads
<1> HIDE DEF i, v, w
<1>9. Eval(c, i, w) = Eval(c, i, v) /\ Reads(c, i, w) = Reads(c, i, v)
  BY <1>2, <1>4, <1>6, LocalityAssumption
<1>. QED BY <1>2, <1>7, <1>8, <1>9
-----------------------------------------------------------------------------
(***************************************************************************)
(* The invariant is kept by clearing enough caches ...                     *)
(***************************************************************************)
LEMMA ClearingKeepsInv ==
  ASSUME Inv, user' \in Users, NEW G, ClearsEnough(G, user'),
         cache' = [c \in Cells |-> IF Owner(c) \in G THEN Uncached ELSE cache[c]]
  PROVE  Inv'
<1>1. \A c \in Cells : IsCached(c)' <=> IsCached(c) /\ Owner(c) \notin G
  BY DEF IsCached
<1>2. \A c \in Cells : IsCached(c)' => cache'[c] = cache[c]
  BY DEF IsCached
<1>3. \A c \in Cells : IsCached(c)' =>
        Truth(c, user') = Truth(c, user) /\ TrueReads(c, user') = TrueReads(c, user)
  BY <1>1, KeptTruth
<1>4. TypeOK'
  BY <1>1, <1>2 DEF Inv, TypeOK
<1>5. Coherent'
  BY <1>1, <1>2, <1>3 DEF Inv, Coherent
<1>6. ReadsStayCached'
  <2> SUFFICES ASSUME NEW c \in Cells, IsCached(c)', NEW d \in TrueReads(c, user')
               PROVE  IsCached(d)'
    BY DEF ReadsStayCached
  <2>1. IsCached(c) /\ Owner(c) \notin G /\ d \in TrueReads(c, user)
    BY <1>1, <1>3
  <2>2. d \in Cells /\ IsCached(d) /\ Owner(d) \notin G
    BY <2>1, KeptReads DEF ClearsEnough
  <2>. QED BY <1>1, <2>2
<1>7. FlagIsSound'
  <2> SUFFICES ASSUME NEW c \in Cells, IsCached(c)'
               PROVE  HasCached(Owner(c))'
    BY DEF FlagIsSound
  <2>1. IsCached(c) /\ Owner(c) \notin G /\ HasCached(Owner(c))
    BY <1>1 DEF Inv, FlagIsSound
  <2>2. Flag(Owner(c)) \in Cells /\ Owner(Flag(Owner(c))) = Owner(c)
    BY CellAssumption DEF Owner, Flag
  <2>. QED BY <1>1, <2>1, <2>2 DEF HasCached
<1>. QED BY <1>4, <1>5, <1>6, <1>7 DEF Inv

(***************************************************************************)
(* ... and by changing the user value of a symbol without a prompt.        *)
(***************************************************************************)
LEMMA PromptlessKeepsInv ==
  ASSUME Inv, NEW s \in Symbols, s \notin Prompted, NEW x \in UserVals[s],
         user' = [user EXCEPT ![s] = x], UNCHANGED cache
  PROVE  Inv'
<1>1. user \in Users /\ user' \in Users
  BY UserUpdate, ItemShape DEF Inv, TypeOK
<1>2. \A c \in Cells : Truth(c, user') = Truth(c, user)
                         /\ TrueReads(c, user') = TrueReads(c, user)
  <2>1. \A u \in Users : \A c \in Cells :
          /\ Truth(c, [u EXCEPT ![s] = x]) = Truth(c, u)
          /\ TrueReads(c, [u EXCEPT ![s] = x]) = TrueReads(c, u)
    BY PromptlessAssumption, Zenon
  <2>. QED BY <1>1, <2>1
<1>3. \A c \in Cells : IsCached(c)' <=> IsCached(c)
  BY DEF IsCached
<1>4. TypeOK' /\ Coherent'
  BY <1>1, <1>2, <1>3 DEF Inv, TypeOK, Coherent
<1>5. ReadsStayCached'
  BY <1>2 DEF Inv, ReadsStayCached, IsCached
<1>6. FlagIsSound'
  BY DEF Inv, FlagIsSound, HasCached, IsCached
<1>. QED BY <1>4, <1>5, <1>6 DEF Inv

\* Reading a property that is not cached keeps the invariant.
LEMMA FillKeepsInv ==
  ASSUME Inv, NEW c \in Cells, Fill(c)
  PROVE  Inv'
<1> DEFINE x == Eval(c, Inputs(c, user), Env(c, View))
<1>1. user \in Users
  BY DEF Inv, TypeOK
<1>2. x = Truth(c, user)
        /\ Reads(c, Inputs(c, user), Env(c, View)) = TrueReads(c, user)
  BY FillIsTrue DEF Fill
<1>3. x \in Values[c] /\ x # Uncached
  BY <1>1, <1>2, TruthAssumption, CellAssumption
<1>4. cache' = [cache EXCEPT ![c] = x] /\ user' = user
  BY DEF Fill
<1> HIDE DEF x
<1>5. \A d \in Cells : cache'[d] = IF d = c THEN x ELSE cache[d]
  BY <1>4 DEF Inv, TypeOK
<1>6. \A d \in Cells : IsCached(d)' <=> IsCached(d) \/ d = c
  BY <1>3, <1>5 DEF IsCached
<1>7. TypeOK'
  <2>1. cache' = [d \in Cells |-> cache'[d]]
    BY <1>4 DEF Inv, TypeOK
  <2>. QED BY <1>1, <1>3, <1>4, <1>5, <1>6, <2>1 DEF Inv, TypeOK
<1>8. Coherent'
  BY <1>2, <1>4, <1>5, <1>6 DEF Inv, Coherent
<1>9. ReadsStayCached'
  <2> SUFFICES ASSUME NEW d \in Cells, IsCached(d)', NEW e \in TrueReads(d, user)
               PROVE  IsCached(e)'
    BY <1>4 DEF ReadsStayCached
  <2>1. e \in Cells
    BY <1>1, InputType, TruthEnv, LocalityAssumption, CellAssumption DEF TrueReads
  <2>2. CASE d = c
    BY <1>2, <1>6, <2>1, <2>2 DEF Fill
  <2>3. CASE IsCached(d)
    BY <1>6, <2>1, <2>3 DEF Inv, ReadsStayCached
  <2>. QED BY <1>6, <2>2, <2>3
<1>10. FlagIsSound'
  <2> SUFFICES ASSUME NEW d \in Cells, IsCached(d)'
               PROVE  HasCached(Owner(d))'
    BY DEF FlagIsSound
  <2>1. Flag(Owner(d)) \in Cells
    BY CellAssumption
  <2>2. CASE d = c
    <3>1. CASE c = Flag(Owner(c))
      BY <1>6, <2>2, <3>1 DEF HasCached
    <3>2. CASE c # Flag(Owner(c))
      <4>1. Flag(Owner(c)) \in Reads(c, Inputs(c, user), Env(c, View))
        BY <1>1, <3>2, InputType, ViewEnv, LocalityAssumption DEF Inv
      <4>. QED BY <1>6, <2>1, <2>2, <4>1 DEF Fill, HasCached
    <3>. QED BY <3>1, <3>2
  <2>3. CASE IsCached(d)
    BY <1>6, <2>1, <2>3 DEF Inv, FlagIsSound, HasCached
  <2>. QED BY <1>6, <2>2, <2>3
<1>. QED BY <1>7, <1>8, <1>9, <1>10 DEF Inv

(***************************************************************************)
(* The operations that invalidate.                                         *)
(***************************************************************************)
LEMMA RecInvalidateKeepsInv ==
  ASSUME Inv, NEW i \in Items, user' \in Users, RecInvalidate(i),
         \A j \in Items : user'[j] # user[j] =>
           j = i \/ (j \in Symbols /\ j \in Dependents[i])
  PROVE  Inv'
<1>1. ClearsEnough(Invalidated(i), user')
  BY InvalidatedClosed DEF ClearsEnough
<1>. QED BY <1>1, ClearingKeepsInv DEF RecInvalidate

\* A change of one symbol's user value, through _rec_invalidate_if_has_prompt().
LEMMA IfHasPromptKeepsInv ==
  ASSUME Inv, NEW s \in Symbols, NEW x \in UserVals[s],
         user' = [user EXCEPT ![s] = x], RecInvalidateIfHasPrompt(s)
  PROVE  Inv'
<1>1. user \in Users /\ user' \in Users /\ s \in Items
  BY UserUpdate, ItemShape DEF Inv, TypeOK
<1>2. \A j \in Items : user'[j] # user[j] => j = s
  BY <1>1, UserType
<1>3. CASE s \in Prompted
  BY <1>1, <1>2, <1>3, RecInvalidateKeepsInv DEF RecInvalidateIfHasPrompt
<1>4. CASE s \notin Prompted
  BY <1>4, PromptlessKeepsInv DEF RecInvalidateIfHasPrompt
<1>. QED BY <1>3, <1>4

\* Symbol.set_value(), through the choice if it selects the symbol.
LEMMA SetValueKeepsInv ==
  ASSUME Inv, NEW s \in Symbols, NEW x \in UserVals[s], SetValue(s, x)
  PROVE  Inv'
<1>1. user \in Users /\ user' \in Users /\ user' = WithValue(user, s, x)
  BY WithValueType DEF Inv, TypeOK, SetValue
<1>2. CASE SelectsChoice(s, x)
  <2> DEFINE c == ChoiceOf[s]
  <2>1. c \in Choices /\ s \in Dependents[c] /\ c \in Items /\ s \in Items
    BY <1>2, ShapeAssumption, DependentsAssumption, ItemShape DEF SelectsChoice
  <2>2. \A j \in Items : user'[j] # user[j] => j \in {c, s}
    BY <1>1, <1>2, UserType DEF WithValue
  <2>3. RecInvalidate(c)
    BY <1>2 DEF SetValue
  <2>. QED BY <1>1, <2>1, <2>2, <2>3, RecInvalidateKeepsInv
<1>3. CASE ~SelectsChoice(s, x)
  BY <1>1, <1>3, IfHasPromptKeepsInv DEF SetValue, WithValue
<1>. QED BY <1>2, <1>3

\* Symbol.unset_value()
LEMMA UnsetValueKeepsInv ==
  ASSUME Inv, NEW s \in Symbols, UnsetValue(s)
  PROVE  Inv'
BY IfHasPromptKeepsInv, ShapeAssumption DEF UnsetValue, WithoutValue

\* Choice.set_value()
LEMMA SetModeKeepsInv ==
  ASSUME Inv, NEW c \in Choices, NEW x \in UserVals[c], SetMode(c, x.mode)
  PROVE  Inv'
<1>1. user \in Users /\ user' \in Users /\ c \in Items
  BY WithModeType, ItemShape DEF Inv, TypeOK, SetMode
<1>2. \A j \in Items : user'[j] # user[j] => j = c
  BY <1>1, UserType DEF SetMode, WithMode
<1>. QED BY <1>1, <1>2, RecInvalidateKeepsInv DEF SetMode

\* Choice.unset_value()
LEMMA UnsetChoiceKeepsInv ==
  ASSUME Inv, NEW c \in Choices, UnsetChoice(c)
  PROVE  Inv'
<1>1. user \in Users /\ user' \in Users /\ c \in Items
  BY WithoutModeType, ItemShape DEF Inv, TypeOK, UnsetChoice
<1>2. \A j \in Items : user'[j] # user[j] => j = c
  BY <1>1, UserType DEF UnsetChoice, WithoutMode
<1>. QED BY <1>1, <1>2, RecInvalidateKeepsInv DEF UnsetChoice
-----------------------------------------------------------------------------
\* With nothing cached, nothing is stale.
LEMMA InvInit == Init => Inv
BY ShapeAssumption DEF Init, Inv, TypeOK, Coherent, ReadsStayCached, FlagIsSound, IsCached

\* Every operation keeps the invariant.
LEMMA InvStep == Inv /\ [Next]_vars => Inv'
<1> SUFFICES ASSUME Inv, [Next]_vars PROVE Inv'
  OBVIOUS
<1>1. ASSUME NEW c \in Cells, Hit(c) PROVE Inv'
  BY <1>1 DEF Hit, Inv, TypeOK, Coherent, ReadsStayCached, FlagIsSound, HasCached, IsCached
<1>2. ASSUME NEW c \in Cells, Fill(c) PROVE Inv'
  BY <1>2, FillKeepsInv
<1>3. ASSUME NEW s \in Symbols, UnsetValue(s) PROVE Inv'
  BY <1>3, UnsetValueKeepsInv
<1>4. ASSUME NEW s \in Symbols, NEW x \in UserVals[s], SetValue(s, x) PROVE Inv'
  BY <1>4, SetValueKeepsInv
<1>5. ASSUME NEW c \in Choices, UnsetChoice(c) PROVE Inv'
  BY <1>5, UnsetChoiceKeepsInv
<1>6. ASSUME NEW c \in Choices, NEW x \in UserVals[c], SetMode(c, x.mode) PROVE Inv'
  BY <1>6, SetModeKeepsInv
<1>7. CASE UNCHANGED vars
  BY <1>7 DEF vars, Inv, TypeOK, Coherent, ReadsStayCached, FlagIsSound, HasCached, IsCached
<1>. QED BY <1>1, <1>2, <1>3, <1>4, <1>5, <1>6, <1>7 DEF Next

(***************************************************************************)
(* The caches, the user values and the results read always have the types  *)
(* the class documentation gives them.                                     *)
(***************************************************************************)
THEOREM TypeCorrect == Spec => []TypeOK
<1>1. Inv => TypeOK
  BY DEF Inv
<1>. QED BY <1>1, InvInit, InvStep, PTL DEF Spec

(***************************************************************************)
(* No sequence of reads, set_value() and unset_value() calls leaves a      *)
(* stale value in a cache.                                                 *)
(***************************************************************************)
THEOREM CacheCoherent == Spec => []Coherent
<1>1. Inv => Coherent
  BY DEF Inv
<1>. QED BY <1>1, InvInit, InvStep, PTL DEF Spec

(***************************************************************************)
(* Everything a cached value was computed from stays cached with it: the   *)
(* comment at kconfiglib.py:4705-4709.                                     *)
(***************************************************************************)
THEOREM CachedFromCached == Spec => []ReadsStayCached
<1>1. Inv => ReadsStayCached
  BY DEF Inv
<1>. QED BY <1>1, InvInit, InvStep, PTL DEF Spec

(***************************************************************************)
(* An item whose _cached_vis is None has no cached value at all, so        *)
(* _rec_invalidate() may stop at it (kconfiglib.py:4703-4717).             *)
(***************************************************************************)
THEOREM FlagCorrect == Spec => []FlagIsSound
<1>1. Inv => FlagIsSound
  BY DEF Inv
<1>. QED BY <1>1, InvInit, InvStep, PTL DEF Spec
-----------------------------------------------------------------------------
\* ConfigValues speaks of the same user values.
LEMMA SameItems ==
  Abstract!Users = Users /\ Abstract!Untouched = Untouched
BY DEF Abstract!Users, Users, Abstract!SymbolUsers, SymbolUsers, Abstract!ChoiceUsers,
       ChoiceUsers, Abstract!Untouched, Untouched, Abstract!Items, Items,
       Abstract!UntouchedChoice, UntouchedChoice

\* A read returns the truth, and a change is a change.
LEMMA AbstractStep == Inv /\ [Next]_vars => [Abstract!Next]_(Abstract!valueVars)
<1> USE SameItems DEF Abstract!Next, Abstract!Change, Abstract!Read, Abstract!valueVars
<1> SUFFICES ASSUME Inv, [Next]_vars PROVE [Abstract!Next]_(Abstract!valueVars)
  OBVIOUS
<1>1. user \in Users
  BY DEF Inv, TypeOK
<1>2. ASSUME NEW c \in Cells, Hit(c) PROVE Abstract!Next
  BY <1>2 DEF Hit, Inv, Coherent
<1>3. ASSUME NEW c \in Cells, Fill(c) PROVE Abstract!Next
  <2>1. out' = [cell |-> c, val |-> Truth(c, user)] /\ user' = user
    BY <1>3, FillIsTrue DEF Fill
  <2>. QED BY <2>1
<1>4. ASSUME NEW s \in Symbols, UnsetValue(s) PROVE Abstract!Next
  BY <1>1, <1>4, WithoutValueType DEF UnsetValue
<1>5. ASSUME NEW s \in Symbols, NEW x \in UserVals[s], SetValue(s, x) PROVE Abstract!Next
  BY <1>1, <1>5, WithValueType DEF SetValue
<1>6. ASSUME NEW c \in Choices, UnsetChoice(c) PROVE Abstract!Next
  BY <1>1, <1>6, WithoutModeType DEF UnsetChoice
<1>7. ASSUME NEW c \in Choices, NEW x \in UserVals[c], SetMode(c, x.mode) PROVE Abstract!Next
  BY <1>1, <1>7, WithModeType DEF SetMode
<1>8. CASE UNCHANGED vars
  BY <1>8 DEF vars
<1>. QED BY <1>2, <1>3, <1>4, <1>5, <1>6, <1>7, <1>8 DEF Next

(***************************************************************************)
(* A client of kconfiglib cannot tell that there are caches: every read    *)
(* returns the value computed from scratch under the present user values.  *)
(***************************************************************************)
THEOREM CacheImplementsValues == Spec => ImplementsConfigValues
<1>1. Init => Abstract!Init
  BY SameItems DEF Init, Abstract!Init
<1>. QED BY <1>1, InvInit, InvStep, AbstractStep, PTL
         DEF Spec, ImplementsConfigValues, Abstract!Spec
-----------------------------------------------------------------------------
(***************************************************************************)
(* The recursive walk clears what the closure says.                        *)
(***************************************************************************)
\* A set with 0 and with the successors of its numbers has all numbers.
LEMMA NumberInduction ==
  ASSUME NEW T, 0 \in T, \A k \in Nat : k \in T => k + 1 \in T
  PROVE  Nat \subseteq T
<1> DEFINE missing == Nat \ T
<1>1. SUFFICES ASSUME missing # {} PROVE FALSE
  OBVIOUS
<1>2. IsWellFoundedOn(OpToRel(<, Nat), Nat) /\ missing \subseteq Nat
  BY NatLessThanWellFounded, Zenon
<1> HIDE DEF missing
<1>3. PICK m \in missing : \A k \in missing : <<k, m>> \notin OpToRel(<, Nat)
  BY <1>1, <1>2, WFMin, Zenon
<1>4. m \in Nat /\ m \notin T /\ m # 0 /\ m - 1 \in Nat
  <2>1. m \in Nat /\ m \notin T
    BY <1>3 DEF missing
  <2>. QED BY <2>1
<1>5. m - 1 \notin missing
  <2> SUFFICES ASSUME m - 1 \in missing PROVE FALSE
    OBVIOUS
  <2>1. <<m - 1, m>> \in Nat \X Nat /\ m - 1 < m
    BY <1>4
  <2>. QED BY <1>3, <2>1 DEF OpToRel
<1>. QED BY <1>4, <1>5 DEF missing

\* f has the first value, and each next one by a step from the one before.
Iterates(f, n, first, Step) ==
  \A k \in 0..n : f[k] = IF k = 0 THEN first ELSE Step[f[k - 1]]

\* A function over 0..n is defined by its first value and a step.
LEMMA IteratedFunction ==
  ASSUME NEW n \in Nat, NEW S, NEW first \in S, NEW Step \in [S -> S]
  PROVE  \E f \in [0..n -> S] : Iterates(f, n, first, Step)
<1> DEFINE Upto(m, f) == \A k \in 0..m : f[k] = IF k = 0 THEN first ELSE Step[f[k - 1]]
           built == {m \in Nat : \E f \in [0..m -> S] : Upto(m, f)}
<1>1. 0 \in built
  <2> DEFINE g == [k \in 0..0 |-> first]
  <2>1. Upto(0, g) /\ g \in [0..0 -> S]
    OBVIOUS
  <2>. QED BY <2>1
<1>2. ASSUME NEW m \in Nat, m \in built PROVE m + 1 \in built
  <2>1. PICK f \in [0..m -> S] : Upto(m, f)
    BY <1>2
  <2> DEFINE g == [k \in 0..(m + 1) |-> IF k = m + 1 THEN Step[f[m]] ELSE f[k]]
  <2>2. \A k \in 0..m : g[k] = f[k] /\ f[k] \in S
    OBVIOUS
  <2>3. g[m + 1] = Step[f[m]] /\ g[m + 1] \in S
    OBVIOUS
  <2>4. g \in [0..(m + 1) -> S]
    BY <2>2, <2>3
  <2> HIDE DEF g
  <2>5. ASSUME NEW k \in 0..(m + 1)
        PROVE  g[k] = IF k = 0 THEN first ELSE Step[g[k - 1]]
    <3>1. CASE k = m + 1
      <4>1. m \in 0..m /\ k - 1 = m /\ k # 0
        BY <3>1
      <4>. QED BY <4>1, <2>2, <2>3, <3>1
    <3>2. CASE k # m + 1
      <4>1. k \in 0..m /\ (k # 0 => k - 1 \in 0..m)
        BY <3>2
      <4>2. g[k] = f[k] /\ (k # 0 => g[k - 1] = f[k - 1])
        BY <4>1, <2>2
      <4>. QED BY <4>1, <4>2, <2>1
    <3>. QED BY <3>1, <3>2
  <2>. QED BY <2>4, <2>5
<1>3. n \in built
  <2> HIDE DEF built
  <2>. QED BY <1>1, <1>2, NumberInduction
<1>. QED BY <1>3 DEF Iterates

Walks == [SUBSET Items -> [SUBSET Items -> SUBSET Items]]

NoLoop == [S \in SUBSET Items |-> [done \in SUBSET Items |-> done]]

LEMMA EnteredType ==
  ASSUME NEW i \in Items, NEW after \in SUBSET Items
  PROVE  Entered(i, after) \in SUBSET Items
BY DEF Entered

\* One item is gone on to or not, then come the others.
Iteration(inner, S, done, i, after) ==
  /\ Loop(inner)[S][done] = inner[S \ {i}][after]
  /\ IF HasCached(i) /\ i \notin done
       THEN after = Entered(i, inner[Dependents[i]][done \cup {i}])
       ELSE after = done

LEMMA LoopIs ==
  ASSUME NEW inner \in Walks, NEW S \in SUBSET Items, NEW done \in SUBSET Items, S # {}
  PROVE  \E i \in S : \E after \in SUBSET Items : Iteration(inner, S, done, i, after)
<1> DEFINE i == CHOOSE k \in S : TRUE
           called == inner[Dependents[i]][done \cup {i}]
           after == IF HasCached(i) /\ i \notin done THEN Entered(i, called) ELSE done
<1>1. Loop(inner)[S][done] = inner[S \ {i}][after]
  BY DEF Loop
<1>2. i \in S
  OBVIOUS
<1>3. called \in SUBSET Items
  BY <1>2, ShapeAssumption DEF Walks
<1> HIDE DEF i, called
<1>4. after \in SUBSET Items
  BY <1>2, <1>3, EnteredType
<1>. QED BY <1>1, <1>2, <1>4 DEF called, Iteration

LEMMA LoopType ==
  ASSUME NEW inner \in Walks
  PROVE  Loop(inner) \in Walks
<1> DEFINE Row(S) == [done \in SUBSET Items |-> Loop(inner)[S][done]]
<1>1. ASSUME NEW S \in SUBSET Items, NEW done \in SUBSET Items
      PROVE  Loop(inner)[S][done] \in SUBSET Items
  <2>1. CASE S = {}
    BY <2>1 DEF Loop
  <2>2. CASE S # {}
    <3>1. PICK i \in S, after \in SUBSET Items : Iteration(inner, S, done, i, after)
      BY <2>2, LoopIs
    <3>2. S \ {i} \in SUBSET Items
      OBVIOUS
    <3>. QED BY <3>1, <3>2 DEF Walks, Iteration
  <2>. QED BY <2>1, <2>2
<1>2. Loop(inner) = [S \in SUBSET Items |-> Row(S)]
  BY DEF Loop
<1>3. \A S \in SUBSET Items : Row(S) \in [SUBSET Items -> SUBSET Items]
  BY <1>1
<1> HIDE DEF Row
<1>. QED BY <1>2, <1>3 DEF Walks

LEMMA WalkIs ==
  /\ Walk \in [0..Depth -> Walks]
  /\ \A n \in 0..Depth : Walk[n] = IF n = 0 THEN NoLoop ELSE Loop(Walk[n - 1])
<1> DEFINE Steps == [inner \in Walks |-> Loop(inner)]
           Is(f) == f = [n \in 0..Depth |-> IF n = 0 THEN NoLoop ELSE Loop(f[n - 1])]
<1>1. Depth \in Nat
  BY FinitenessAssumption, FS_CardinalityType DEF Depth
<1>2. NoLoop \in Walks /\ Steps \in [Walks -> Walks]
  BY LoopType DEF NoLoop, Walks
<1>3. PICK f \in [0..Depth -> Walks] : Iterates(f, Depth, NoLoop, Steps)
  <2> HIDE DEF Steps
  <2>. QED BY <1>1, <1>2, IteratedFunction
<1>4. \A n \in 0..Depth : n # 0 => n - 1 \in 0..Depth /\ f[n - 1] \in Walks
  BY <1>1
<1>5. Is(f)
  BY <1>3, <1>4 DEF Iterates
<1>6. Walk = CHOOSE g : Is(g)
  BY DEF Walk, NoLoop
<1>7. Is(Walk)
  BY <1>5, <1>6
<1>8. \A n \in 0..Depth : Walk[n] = IF n = 0 THEN NoLoop ELSE Loop(Walk[n - 1])
  BY <1>7
<1> DEFINE typed == {n \in Nat : n <= Depth => Walk[n] \in Walks}
<1>9. 0 \in typed
  BY <1>1, <1>2, <1>8
<1>10. ASSUME NEW n \in Nat, n \in typed PROVE n + 1 \in typed
  <2> SUFFICES ASSUME n + 1 <= Depth PROVE Walk[n + 1] \in Walks
    OBVIOUS
  <2>1. Walk[n] \in Walks /\ n + 1 \in 0..Depth /\ n + 1 # 0 /\ (n + 1) - 1 = n
    BY <1>1, <1>10
  <2>. QED BY <1>8, <2>1, LoopType
<1>11. Nat \subseteq typed
  <2> HIDE DEF typed
  <2>. QED BY <1>9, <1>10, NumberInduction
<1>. QED BY <1>1, <1>7, <1>8, <1>11

\* The calls and iterations that are left at most.
Measure(S, done) == Cardinality(Items \ done) * (Cardinality(Items) + 1) + Cardinality(S)

\* What has cached values in S is cleared, and what is cleared is left through
\* all dependents with cached values; everything is once MODULES is.
Complete(S, done, R) ==
  /\ \A k \in S : HasCached(k) => k \in R
  /\ \A k \in R \ (done \cup Globals) : \A d \in Dependents[k] : HasCached(d) => d \in R
  /\ R \cap Globals \subseteq done \/ R = Items

\* A loop clears no more than it must, and all of it if it goes on long enough.
Clears(F, n) ==
  \A S, done \in SUBSET Items :
    /\ done \subseteq F[S][done]
    /\ \A X \in StopSets :
         X \cap Globals = {} /\ done \subseteq X /\ (\A k \in S : HasCached(k) => k \in X)
           => F[S][done] \subseteq X
    /\ Measure(S, done) <= n => Complete(S, done, F[S][done])

\* Numbers: the m items left, each with a loop over the items.
LEMMA Products ==
  ASSUME NEW a \in Nat, NEW b \in Nat, NEW m \in Nat, a <= b
  PROVE  a * m <= b * m /\ a * m \in Nat /\ (b - 1) * m = b * m - m
<1>1. b * m = a * m + (b - a) * m /\ b - a \in Nat
  OBVIOUS
<1>2. (b - a) * m \in Nat /\ a * m \in Nat
  OBVIOUS
<1>. QED BY <1>1, <1>2

LEMMA Counts ==
  \A S \in SUBSET Items :
    /\ IsFiniteSet(S) /\ Cardinality(S) \in Nat /\ Cardinality(S) <= Cardinality(Items)
    /\ IsFiniteSet(Items \ S) /\ Cardinality(Items \ S) \in Nat
<1> TAKE S \in SUBSET Items
<1>1. IsFiniteSet(S) /\ Cardinality(S) <= Cardinality(Items)
  BY FinitenessAssumption, FS_Subset
<1>2. Items \ S \in SUBSET Items
  OBVIOUS
<1>3. IsFiniteSet(Items \ S)
  BY <1>2, FinitenessAssumption, FS_Subset
<1>. QED BY <1>1, <1>3, FS_CardinalityType

LEMMA ItemsCount ==
  IsFiniteSet(Items) /\ Cardinality(Items) \in Nat /\ Cardinality(Items) + 1 \in Nat
<1>1. Cardinality(Items) \in Nat
  BY FinitenessAssumption, FS_CardinalityType
<1>. QED BY <1>1, FinitenessAssumption

LEMMA MeasureType ==
  ASSUME NEW S \in SUBSET Items, NEW done \in SUBSET Items
  PROVE  Measure(S, done) \in Nat
<1>1. Cardinality(S) \in Nat /\ Cardinality(Items) + 1 \in Nat /\ Cardinality(Items \ done) \in Nat
  BY Counts, ItemsCount
<1>2. Cardinality(Items \ done) * (Cardinality(Items) + 1) \in Nat
  BY <1>1, Products
<1>. QED BY <1>1, <1>2 DEF Measure

\* A call has fewer left, since its item is cleared.
LEMMA CallMeasure ==
  ASSUME NEW S \in SUBSET Items, NEW done \in SUBSET Items, NEW i \in S, i \notin done,
         NEW n \in Nat, Measure(S, done) <= n + 1
  PROVE  Measure(Dependents[i], done \cup {i}) <= n
<1> DEFINE items == Cardinality(Items)
           m == items + 1
           b == Cardinality(Items \ done)
<1>1. Dependents[i] \in SUBSET Items /\ i \in Items \ done
  BY ShapeAssumption
<1>2. /\ items \in Nat /\ b \in Nat
      /\ Cardinality(Dependents[i]) \in Nat /\ Cardinality(Dependents[i]) <= items
      /\ Cardinality(S) \in Nat /\ IsFiniteSet(S) /\ IsFiniteSet(Items \ done)
  BY <1>1, Counts, ItemsCount
<1>3. Cardinality(Items \ (done \cup {i})) = b - 1
  <2>1. Items \ (done \cup {i}) = (Items \ done) \ {i}
    OBVIOUS
  <2>2. Cardinality((Items \ done) \ {i}) = Cardinality(Items \ done) - 1
    BY <1>1, <1>2, FS_RemoveElement
  <2>. QED BY <2>1, <2>2
<1>4. Cardinality(S) # 0
  BY <1>2, FS_EmptySet
<1>5. b * m + Cardinality(S) <= n + 1
  BY DEF Measure
<1>6. Measure(Dependents[i], done \cup {i}) = (b - 1) * m + Cardinality(Dependents[i])
  BY <1>3 DEF Measure
<1> HIDE DEF b, items
<1>7. (b - 1) * m = b * m - m /\ b * m \in Nat
  BY <1>2, Products
<1> DEFINE bm == b * m
<1> HIDE DEF bm
<1>8. bm + Cardinality(S) <= n + 1 /\ bm \in Nat
      /\ Measure(Dependents[i], done \cup {i}) = bm - m + Cardinality(Dependents[i])
  BY <1>5, <1>6, <1>7 DEF bm
<1>. QED BY <1>2, <1>4, <1>8

\* So has the loop after an iteration.
LEMMA NextMeasure ==
  ASSUME NEW S \in SUBSET Items, NEW done \in SUBSET Items, NEW i \in S,
         NEW after \in SUBSET Items, done \subseteq after,
         NEW n \in Nat, Measure(S, done) <= n + 1
  PROVE  Measure(S \ {i}, after) <= n
<1> DEFINE m == Cardinality(Items) + 1
           a == Cardinality(Items \ after)
           b == Cardinality(Items \ done)
<1>1. /\ m \in Nat /\ a \in Nat /\ b \in Nat /\ IsFiniteSet(Items \ done)
      /\ Cardinality(S) \in Nat /\ IsFiniteSet(S)
  BY Counts, ItemsCount
<1>2. a <= b
  BY <1>1, FS_Subset
<1>3. Cardinality(S \ {i}) = Cardinality(S) - 1
  BY <1>1, FS_RemoveElement
<1>4. b * m + Cardinality(S) <= n + 1
  BY DEF Measure
<1>5. Measure(S \ {i}, after) = a * m + Cardinality(S \ {i})
  BY DEF Measure
<1> HIDE DEF a, b, m
<1>6. a * m <= b * m /\ a * m \in Nat /\ b * m \in Nat
  BY <1>1, <1>2, Products
<1> DEFINE am == a * m
           bm == b * m
<1> HIDE DEF am, bm
<1>7. bm + Cardinality(S) <= n + 1 /\ am <= bm /\ am \in Nat /\ bm \in Nat
      /\ Measure(S \ {i}, after) = am + Cardinality(S \ {i})
  BY <1>4, <1>5, <1>6 DEF am, bm
<1>. QED BY <1>1, <1>3, <1>7

(***************************************************************************)
(* An iteration: what the call clears and what the others clear come to    *)
(* what the loop must clear.                                               *)
(***************************************************************************)
LEMMA LoopClears ==
  ASSUME NEW inner \in Walks, NEW n \in Nat, Clears(inner, n)
  PROVE  Clears(Loop(inner), n + 1)
<1> SUFFICES ASSUME NEW S \in SUBSET Items, NEW done \in SUBSET Items
             PROVE  LET R == Loop(inner)[S][done]
                    IN  /\ done \subseteq R
                        /\ \A X \in StopSets :
                             /\ X \cap Globals = {} /\ done \subseteq X
                             /\ \A k \in S : HasCached(k) => k \in X
                             => R \subseteq X
                        /\ Measure(S, done) <= n + 1 => Complete(S, done, R)
  BY DEF Clears
<1> DEFINE R == Loop(inner)[S][done]
<1>1. CASE S = {}
  <2>1. R = done
    BY <1>1 DEF Loop
  <2>. QED BY <1>1, <2>1 DEF Complete
<1>2. CASE S # {}
  <2>1. PICK i \in S, after \in SUBSET Items : Iteration(inner, S, done, i, after)
    BY <1>2, LoopIs
  <2> DEFINE called == inner[Dependents[i]][done \cup {i}]
  <2>2. /\ R = inner[S \ {i}][after]
        /\ IF HasCached(i) /\ i \notin done THEN after = Entered(i, called) ELSE after = done
    BY <2>1 DEF Iteration
  <2>3. /\ Dependents[i] \in SUBSET Items /\ S \ {i} \in SUBSET Items
        /\ done \cup {i} \in SUBSET Items
    BY ShapeAssumption
  <2> HIDE DEF R, called
  <2>4. R \in SUBSET Items /\ called \in SUBSET Items
    BY <2>2, <2>3 DEF Walks, called
  <2>5. /\ after \subseteq R
        /\ \A X \in StopSets :
             /\ X \cap Globals = {} /\ after \subseteq X
             /\ \A k \in S \ {i} : HasCached(k) => k \in X
             => R \subseteq X
        /\ Measure(S \ {i}, after) <= n => Complete(S \ {i}, after, R)
    BY <2>2, <2>3 DEF Clears
  <2>6. /\ done \cup {i} \subseteq called
        /\ \A X \in StopSets :
             /\ X \cap Globals = {} /\ done \cup {i} \subseteq X
             /\ \A k \in Dependents[i] : HasCached(k) => k \in X
             => called \subseteq X
        /\ Measure(Dependents[i], done \cup {i}) <= n
             => Complete(Dependents[i], done \cup {i}, called)
    BY <2>3 DEF Clears, called
  <2>7. done \subseteq after
    BY <2>2, <2>6 DEF Entered
  <2>8. ASSUME NEW X \in StopSets, X \cap Globals = {}, done \subseteq X,
               \A k \in S : HasCached(k) => k \in X
        PROVE  R \subseteq X
    <3>1. CASE HasCached(i) /\ i \notin done
      <4>1. i \in X /\ i \notin Globals /\ after = called
        BY <2>2, <2>8, <3>1 DEF Entered
      <4>2. \A k \in Dependents[i] : HasCached(k) => k \in X
        BY <4>1 DEF StopSets
      <4>. QED BY <2>5, <2>6, <2>8, <4>1, <4>2
    <3>2. CASE ~(HasCached(i) /\ i \notin done)
      BY <2>2, <2>5, <2>8, <3>2
    <3>. QED BY <3>1, <3>2
  <2>9. ASSUME Measure(S, done) <= n + 1
        PROVE  Complete(S, done, R)
    <3>1. Complete(S \ {i}, after, R)
      BY <2>5, <2>7, <2>9, NextMeasure
    <3>2. CASE HasCached(i) /\ i \notin done
      <4>1. Complete(Dependents[i], done \cup {i}, called)
        BY <2>6, <2>9, <3>2, CallMeasure
      <4>2. CASE i \in Globals
        <5>1. R = Items
          BY <2>2, <2>4, <2>5, <3>2, <4>2 DEF Entered
        <5>. QED BY <5>1, ShapeAssumption DEF Complete
      <4>3. CASE i \notin Globals
        <5>1. after = called
          BY <2>2, <3>2, <4>3 DEF Entered
        <5>2. \A k \in S : HasCached(k) => k \in R
          BY <2>5, <2>6, <3>1, <5>1 DEF Complete
        <5>3. ASSUME NEW k \in R \ (done \cup Globals), NEW d \in Dependents[k], HasCached(d)
              PROVE  d \in R
          BY <2>5, <3>1, <4>1, <5>1, <5>3 DEF Complete
        <5>4. R \cap Globals \subseteq done \/ R = Items
          BY <2>4, <2>5, <3>1, <4>1, <4>3, <5>1 DEF Complete
        <5>. QED BY <5>2, <5>3, <5>4 DEF Complete
      <4>. QED BY <4>2, <4>3
    <3>3. CASE ~(HasCached(i) /\ i \notin done)
      BY <2>2, <2>5, <3>1, <3>3 DEF Complete
    <3>. QED BY <3>2, <3>3
  <2>. QED BY <2>5, <2>7, <2>8, <2>9 DEF R
<1>. QED BY <1>1, <1>2

LEMMA WalkClears ==
  Clears(Walk[Depth], Depth)
<1> DEFINE good == {n \in Nat : n <= Depth => Clears(Walk[n], n)}
<1>1. Depth \in Nat
  BY FinitenessAssumption, FS_CardinalityType DEF Depth
<1>2. 0 \in good
  <2>1. Walk[0] = NoLoop
    BY <1>1, WalkIs
  <2>2. ASSUME NEW S \in SUBSET Items, NEW done \in SUBSET Items, Measure(S, done) <= 0
        PROVE  S = {}
    <3>1. /\ Cardinality(S) \in Nat /\ IsFiniteSet(S)
          /\ Cardinality(Items) + 1 \in Nat /\ Cardinality(Items \ done) \in Nat
      BY Counts, ItemsCount
    <3>2. Cardinality(Items \ done) * (Cardinality(Items) + 1) \in Nat
      BY <3>1, Products
    <3>3. Cardinality(S) = 0
      BY <2>2, <3>1, <3>2 DEF Measure
    <3>. QED BY <3>1, <3>3, FS_EmptySet
  <2>3. Clears(NoLoop, 0)
    BY <2>2 DEF Clears, NoLoop, Complete
  <2>. QED BY <2>1, <2>3
<1>3. ASSUME NEW n \in Nat, n \in good PROVE n + 1 \in good
  <2> SUFFICES ASSUME n + 1 <= Depth PROVE Clears(Walk[n + 1], n + 1)
    OBVIOUS
  <2>1. n \in 0..Depth /\ n + 1 \in 0..Depth /\ n + 1 # 0 /\ (n + 1) - 1 = n /\ Clears(Walk[n], n)
    BY <1>1, <1>3
  <2>2. Walk[n + 1] = Loop(Walk[n]) /\ Walk[n] \in Walks
    BY <2>1, WalkIs
  <2>. QED BY <2>1, <2>2, LoopClears
<1>4. Nat \subseteq good
  <2> HIDE DEF good
  <2>. QED BY <1>2, <1>3, NumberInduction
<1>. QED BY <1>1, <1>4

LEMMA ClearIsInvalidated ==
  ASSUME NEW i \in Items
  PROVE  Clear(i) = Invalidated(i)
<1> DEFINE R == Walk[Depth][Dependents[i]][{i}]
<1>1. Dependents[i] \in SUBSET Items /\ {i} \in SUBSET Items
  BY ShapeAssumption
<1>2. R \in SUBSET Items
  <2>1. Depth \in 0..Depth
    BY FinitenessAssumption, FS_CardinalityType DEF Depth
  <2>. QED BY <1>1, <2>1, WalkIs DEF Walks
<1>3. Measure(Dependents[i], {i}) <= Depth
  <2> DEFINE items == Cardinality(Items)
             m == items + 1
  <2>1. /\ items \in Nat /\ IsFiniteSet(Items)
        /\ Cardinality(Dependents[i]) \in Nat /\ Cardinality(Dependents[i]) <= items
    BY <1>1, Counts, ItemsCount
  <2>2. Cardinality(Items \ {i}) = items - 1
    BY <2>1, FS_RemoveElement
  <2>3. Measure(Dependents[i], {i}) = (items - 1) * m + Cardinality(Dependents[i]) /\ Depth = items * m
    BY <2>2 DEF Measure, Depth
  <2> HIDE DEF items
  <2>4. (items - 1) * m = items * m - m /\ items * m \in Nat
    BY <2>1, Products
  <2> DEFINE im == items * m
  <2> HIDE DEF im
  <2>5. Measure(Dependents[i], {i}) = im - m + Cardinality(Dependents[i]) /\ Depth = im /\ im \in Nat
    BY <2>3, <2>4 DEF im
  <2>. QED BY <2>1, <2>5
<1>4. /\ {i} \subseteq R
      /\ \A X \in StopSets :
           /\ X \cap Globals = {} /\ {i} \subseteq X
           /\ \A k \in Dependents[i] : HasCached(k) => k \in X
           => R \subseteq X
      /\ Complete(Dependents[i], {i}, R)
  BY <1>1, <1>3, WalkClears DEF Clears
<1> HIDE DEF R
<1>5. R \in StopSets
  BY <1>2, <1>4 DEF Complete, StopSets
<1>6. Reached(i) \subseteq R /\ i \in Reached(i)
  BY <1>4, <1>5 DEF Reached
<1>7. CASE i \in Globals
  BY <1>6, <1>7 DEF Clear, Entered, Invalidated
<1>8. CASE i \notin Globals
  <2>1. Clear(i) = R
    BY <1>8 DEF Clear, Entered, R
  <2>2. CASE Reached(i) \cap Globals # {}
    <3>1. R = Items
      BY <1>4, <1>6, <1>8, <2>2 DEF Complete
    <3>. QED BY <2>1, <2>2, <3>1 DEF Invalidated
  <2>3. CASE Reached(i) \cap Globals = {}
    <3>1. Reached(i) \in StopSets
      BY ShapeAssumption DEF StopSets, Reached
    <3>2. \A k \in Dependents[i] : HasCached(k) => k \in Reached(i)
      BY <1>6, <1>8, <3>1 DEF StopSets
    <3>3. R \subseteq Reached(i)
      BY <1>4, <1>6, <2>3, <3>1, <3>2
    <3>. QED BY <1>6, <2>1, <2>3, <3>3 DEF Invalidated
  <2>. QED BY <2>2, <2>3
<1>. QED BY <1>7, <1>8

(***************************************************************************)
(* _rec_invalidate() ends, and clears what it must and nothing else, in    *)
(* whatever order it goes through the _dependents, and through dependency  *)
(* loops, too.                                                             *)
(***************************************************************************)
THEOREM WalkIsClosure == Spec => []WalkClearsReached
<1>1. WalkClearsReached
  BY ClearIsInvalidated DEF WalkClearsReached
<1>. QED BY <1>1, PTL
=============================================================================
