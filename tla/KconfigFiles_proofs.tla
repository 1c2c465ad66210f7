-------------------------- MODULE KconfigFiles_proofs --------------------------
(***************************************************************************)
(* User values, files and attributes, and what comes back when a written   *)
(* configuration is loaded again, for every tree and every way to evaluate *)
(* its expressions that satisfies the assumptions of KconfigItems and      *)
(* KconfigFiles.                                                           *)
(***************************************************************************)
EXTENDS KconfigFiles, WellFoundedInduction, TLAPS

(***************************************************************************)
(* Induction over numbers and functions defined by it, stated for sets.    *)
(***************************************************************************)
\* A nonempty set of numbers has a least one.
LEMMA LeastNumber ==
  ASSUME NEW T, T \subseteq Nat, T # {}
  PROVE  \E m \in T : \A k \in T : m <= k
<1>1. IsWellFoundedOn(OpToRel(<, Nat), Nat)
  BY NatLessThanWellFounded, Zenon
<1>2. PICK m \in T : \A k \in T : <<k, m>> \notin OpToRel(<, Nat)
  BY <1>1, WFMin, Zenon
<1>3. ASSUME NEW k \in T PROVE m <= k
  <2>1. <<k, m>> \in Nat \X Nat
    BY Zenon
  <2>2. ~(k < m)
    BY <1>2, <2>1 DEF OpToRel
  <2>. QED BY <2>2
<1>. QED BY <1>3

\* A set with 0 and with the successors of its numbers has all numbers.
LEMMA NumberInduction ==
  ASSUME NEW T, 0 \in T, \A k \in Nat : k \in T => k + 1 \in T
  PROVE  Nat \subseteq T
<1> DEFINE missing == Nat \ T
<1>1. SUFFICES ASSUME missing # {} PROVE FALSE
  OBVIOUS
<1>2. PICK m \in missing : \A k \in missing : m <= k
  BY <1>1, LeastNumber
<1>3. m - 1 \in Nat /\ m - 1 \in T
  BY <1>2
<1>. QED BY <1>3

\* f has the first value, and each next one by a step from the one before.
Steps(f, n, first, Step) ==
  \A k \in 0..n : f[k] = IF k = 0 THEN first ELSE Step[k][f[k - 1]]

\* A function over 0..n is defined by its first value and its steps.
LEMMA RecursiveFunction ==
  ASSUME NEW n \in Nat, NEW S, NEW first \in S, NEW Step \in [1..n -> [S -> S]]
  PROVE  \E f \in [0..n -> S] : Steps(f, n, first, Step)
<1> DEFINE Upto(m, f) == \A k \in 0..m : f[k] = IF k = 0 THEN first ELSE Step[k][f[k - 1]]
           done == {m \in Nat : m <= n => \E f \in [0..m -> S] : Upto(m, f)}
<1>1. 0 \in done
  <2> DEFINE g == [k \in 0..0 |-> first]
  <2>1. Upto(0, g) /\ g \in [0..0 -> S]
    OBVIOUS
  <2>. QED BY <2>1
<1>2. ASSUME NEW m \in Nat, m \in done PROVE m + 1 \in done
  <2>1. SUFFICES ASSUME m + 1 <= n PROVE \E g \in [0..(m + 1) -> S] : Upto(m + 1, g)
    OBVIOUS
  <2>2. PICK f \in [0..m -> S] : Upto(m, f)
    BY <1>2, <2>1
  <2> DEFINE next == Step[m + 1][f[m]]
             g == [k \in 0..(m + 1) |-> IF k = m + 1 THEN next ELSE f[k]]
  <2>3. next \in S
    BY <2>1
  <2>4. \A k \in 0..m : g[k] = f[k] /\ f[k] \in S
    OBVIOUS
  <2>5. g[m + 1] = next
    OBVIOUS
  <2> HIDE DEF next
  <2>6. g \in [0..(m + 1) -> S]
    BY <2>3, <2>4, <2>5
  <2> HIDE DEF g
  <2>7. ASSUME NEW k \in 0..(m + 1)
        PROVE  g[k] = IF k = 0 THEN first ELSE Step[k][g[k - 1]]
    <3>1. CASE k = m + 1
      <4>1. m \in 0..m /\ k - 1 = m /\ k # 0
        BY <3>1
      <4>2. g[k - 1] = f[m]
        BY <4>1, <2>4
      <4>. QED BY <4>1, <4>2, <3>1, <2>5 DEF next
    <3>2. CASE k # m + 1
      <4>1. k \in 0..m /\ (k # 0 => k - 1 \in 0..m)
        BY <3>2
      <4>2. g[k] = f[k] /\ (k # 0 => g[k - 1] = f[k - 1])
        BY <4>1, <2>4
      <4>. QED BY <4>1, <4>2, <2>2
    <3>. QED BY <3>1, <3>2
  <2>. QED BY <2>6, <2>7
<1>3. n \in done
  <2> HIDE DEF done
  <2>. QED BY <1>1, <1>2, NumberInduction
<1>. QED BY <1>3 DEF Steps

\* What Step makes of a function at d only depends on the function at lower ranks.
LooksBelow(D, S, rank, Step) ==
  \A d \in D : \A g, h \in [D -> S] :
    (\A e \in D : rank[e] < rank[d] => g[e] = h[e]) => Step[d][g] = Step[d][h]

Ranks(D, rank) == \A d \in D : rank[d] \in Nat

Fixed(D, Step, f) == f = [d \in D |-> Step[d][f]]

\* ... and so g is what Step makes of it, below rank k.
FixedBelow(D, rank, Step, g, k) == \A d \in D : rank[d] < k => g[d] = Step[d][g]

\* Two such functions are the same there.
OneBelow(D, S, rank, Step, k) ==
  \A g, h \in [D -> S] :
    FixedBelow(D, rank, Step, g, k) /\ FixedBelow(D, rank, Step, h, k)
      => \A d \in D : rank[d] < k => g[d] = h[d]

\* There is such a function for every k, and only one.
LEMMA RankedBelow ==
  ASSUME NEW D, NEW S, NEW rank, Ranks(D, rank), NEW Step \in [D -> [[D -> S] -> S]],
         LooksBelow(D, S, rank, Step), NEW some \in [D -> S], NEW k \in Nat
  PROVE  /\ \E g \in [D -> S] : FixedBelow(D, rank, Step, g, k)
         /\ OneBelow(D, S, rank, Step, k)
<1> DEFINE F == [D -> S]
           Fix(g, j) == FixedBelow(D, rank, Step, g, j)
           Alone(j) == OneBelow(D, S, rank, Step, j)
           good == {j \in Nat : (\E g \in F : Fix(g, j)) /\ Alone(j)}
<1>1. \A d \in D : rank[d] \in Nat
  BY DEF Ranks
<1>2. 0 \in good
  BY <1>1 DEF FixedBelow, OneBelow
<1>3. ASSUME NEW j \in Nat, j \in good PROVE j + 1 \in good
  <2>1. PICK g \in F : Fix(g, j)
    BY <1>3
  <2> DEFINE h == [d \in D |-> Step[d][g]]
  <2>2. h \in F
    OBVIOUS
  <2>3. Fix(h, j + 1)
    <3>1. SUFFICES ASSUME NEW d \in D, rank[d] < j + 1 PROVE h[d] = Step[d][h]
      BY DEF FixedBelow
    <3>2. \A e \in D : rank[e] < rank[d] => g[e] = h[e]
      BY <1>1, <2>1, <3>1 DEF FixedBelow
    <3> HIDE DEF h
    <3>3. Step[d][g] = Step[d][h]
      BY <2>1, <2>2, <3>2 DEF LooksBelow
    <3>. QED BY <3>3 DEF h
  <2>4. Alone(j + 1)
    <3>1. SUFFICES ASSUME NEW p \in F, NEW q \in F, Fix(p, j + 1), Fix(q, j + 1),
                          NEW d \in D, rank[d] < j + 1
                   PROVE  p[d] = q[d]
      BY DEF OneBelow
    <3>2. Fix(p, j) /\ Fix(q, j)
      BY <1>1, <3>1 DEF FixedBelow
    <3>3. Alone(j)
      BY <1>3
    <3>4. \A e \in D : rank[e] < j => p[e] = q[e]
      BY <3>2, <3>3 DEF OneBelow
    <3>5. \A e \in D : rank[e] < rank[d] => p[e] = q[e]
      BY <1>1, <3>1, <3>4
    <3>6. Step[d][p] = Step[d][q]
      BY <3>5 DEF LooksBelow
    <3>. QED BY <3>1, <3>6 DEF FixedBelow
  <2>. QED BY <2>2, <2>3, <2>4
<1>4. k \in good
  <2> HIDE DEF good
  <2>. QED BY <1>2, <1>3, NumberInduction
<1>. QED BY <1>4

\* A function is defined by what it makes of its values at lower ranks.
LEMMA RankedFunction ==
  ASSUME NEW D, NEW S, NEW rank, Ranks(D, rank), NEW Step \in [D -> [[D -> S] -> S]],
         LooksBelow(D, S, rank, Step), NEW some \in [D -> S]
  PROVE  \E f \in [D -> S] : Fixed(D, Step, f)
<1> DEFINE F == [D -> S]
           Fix(g, k) == FixedBelow(D, rank, Step, g, k)
           upTo == [k \in Nat |-> CHOOSE g \in F : Fix(g, k)]
           f == [d \in D |-> upTo[rank[d] + 1][d]]
<1>1. \A d \in D : rank[d] \in Nat
  BY DEF Ranks
<1>2. \A k \in Nat : upTo[k] \in F /\ Fix(upTo[k], k)
  BY RankedBelow
<1>3. \A k \in Nat : OneBelow(D, S, rank, Step, k)
  BY RankedBelow
<1> HIDE DEF upTo
<1>4. f \in F
  BY <1>1, <1>2
<1>5. ASSUME NEW d \in D PROVE f[d] = Step[d][f]
  <2> DEFINE g == upTo[rank[d] + 1]
  <2>1. g \in F /\ Fix(g, rank[d] + 1) /\ rank[d] < rank[d] + 1 /\ f[d] = g[d]
    BY <1>1, <1>2
  <2>2. ASSUME NEW e \in D, rank[e] < rank[d] PROVE g[e] = f[e]
    <3> DEFINE h == upTo[rank[e] + 1]
    <3>1. h \in F /\ Fix(h, rank[e] + 1) /\ rank[e] < rank[e] + 1 /\ f[e] = h[e]
      BY <1>1, <1>2
    <3>2. Fix(g, rank[e] + 1)
      BY <1>1, <2>1, <2>2 DEF FixedBelow
    <3> HIDE DEF f, g, h
    <3>3. OneBelow(D, S, rank, Step, rank[e] + 1)
      BY <1>1, <1>3
    <3>4. FixedBelow(D, rank, Step, g, rank[e] + 1) /\ FixedBelow(D, rank, Step, h, rank[e] + 1)
      BY <3>1, <3>2
    <3>5. g[e] = h[e]
      BY <2>1, <3>1, <3>3, <3>4 DEF OneBelow
    <3>. QED BY <3>1, <3>5
  <2> HIDE DEF f, g
  <2>3. Step[d][g] = Step[d][f]
    BY <1>4, <2>1, <2>2 DEF LooksBelow
  <2>. QED BY <2>1, <2>3 DEF FixedBelow
<1>. QED BY <1>4, <1>5 DEF Fixed
-----------------------------------------------------------------------------
(***************************************************************************)
(* User values.                                                            *)
(***************************************************************************)
\* Symbols and choices are disjoint kinds of items.
LEMMA ItemShape ==
  /\ \A s \in Symbols : s \in Items /\ s \notin Choices
  /\ \A c \in Choices : c \in Items /\ c \notin Symbols
BY TreeAssumption DEF Items

\* ConfigItems speaks of the same items.
LEMMA SameItems == U!Items = Items
BY DEF U!Items, Items

\* Users are the functions that give each item a user value set_value() accepts.
LEMMA UserType ==
  ASSUME NEW u \in U!Users
  PROVE  u = [i \in Items |-> u[i]] /\ \A i \in Items : u[i] \in UserVals[i]
<1>1. PICK f \in U!SymbolUsers, g \in U!ChoiceUsers :
        u = [i \in Items |-> IF i \in Symbols THEN f[i] ELSE g[i]]
  BY SameItems DEF U!Users
<1>2. \A i \in Items : IF i \in Symbols THEN u[i] = f[i] ELSE u[i] = g[i] /\ i \in Choices
  BY <1>1 DEF Items
<1>3. \A i \in Items : u[i] \in UserVals[i]
  BY <1>2 DEF U!SymbolUsers, U!ChoiceUsers
<1>. QED BY <1>1, <1>3

\* ... and every function that does so is in Users.
LEMMA UserIntro ==
  ASSUME NEW u, u = [i \in Items |-> u[i]], \A i \in Items : u[i] \in UserVals[i]
  PROVE  u \in U!Users
<1> DEFINE f == [s \in Symbols |-> u[s]]
           g == [c \in Choices |-> u[c]]
<1>1. \A s \in Symbols : f[s] = u[s] /\ u[s] \in UserVals[s]
  BY ItemShape
<1>2. \A c \in Choices : g[c] = u[c] /\ u[c] \in UserVals[c]
  BY ItemShape
<1>3. f \in U!SymbolUsers
  BY <1>1 DEF U!SymbolUsers
<1>4. g \in U!ChoiceUsers
  BY <1>2 DEF U!ChoiceUsers
<1> HIDE DEF f, g
<1>5. u = [i \in Items |-> IF i \in Symbols THEN f[i] ELSE g[i]]
  BY <1>1, <1>2 DEF Items
<1>. QED BY <1>3, <1>4, <1>5, SameItems DEF U!Users

\* What holds of any function over the items holds of the users of the present type.
LEMMA UserUpdate ==
  ASSUME NEW u \in U!Users, NEW i \in Items, NEW x \in UserVals[i]
  PROVE  [u EXCEPT ![i] = x] \in U!Users
<1> DEFINE w == [u EXCEPT ![i] = x]
<1>1. \A j \in Items : w[j] = IF j = i THEN x ELSE u[j]
  BY UserType
<1>2. w = [j \in Items |-> w[j]]
  BY UserType
<1>3. \A j \in Items : w[j] \in UserVals[j]
  BY <1>1, UserType
<1> HIDE DEF w
<1>4. w \in U!Users
  BY <1>2, <1>3, UserIntro
<1>. QED BY <1>4 DEF w

\* The user values of a choice are the pairs of a mode and a symbol of it, or none.
LEMMA ChoiceUser ==
  ASSUME NEW c \in Choices
  PROVE  /\ \A x \in UserVals[c] : /\ x = [mode |-> x.mode, sel |-> x.sel]
                                   /\ x.mode \in Modes(c)
                                   /\ x.sel \in SymsOf(c) \cup {NoSym}
         /\ \A m \in Modes(c), s \in SymsOf(c) \cup {NoSym} :
              [mode |-> m, sel |-> s] \in UserVals[c]
<1> DEFINE modes == Modes(c)
           sels == SymsOf(c) \cup {NoSym}
<1>1. UserVals[c] = [mode : modes, sel : sels]
  BY UserValsAssumption
<1> HIDE DEF modes, sels
<1>2. \A x \in UserVals[c] : x = [mode |-> x.mode, sel |-> x.sel] /\ x.mode \in modes /\ x.sel \in sels
  BY <1>1
<1>3. \A m \in modes, s \in sels : [mode |-> m, sel |-> s] \in UserVals[c]
  BY <1>1
<1>. QED BY <1>2, <1>3 DEF modes, sels

\* A symbol in a choice is one of its symbols.
LEMMA SymbolInChoice ==
  ASSUME NEW s \in Symbols, InChoice(s)
  PROVE  Def[s].choice \in Choices /\ s \in SymsOf(Def[s].choice) /\ IsTri(s)
<1>1. Def[s].choice \in Choices \cup {NoChoice} /\ IsTri(s)
  BY TreeAssumption, Zenon
<1>. QED BY <1>1 DEF InChoice, SymsOf

\* Without any user values
LEMMA UntouchedType == U!Untouched \in U!Users
<1>1. \A i \in Items : U!Untouched[i] = IF i \in Symbols THEN NoUser ELSE U!UntouchedChoice
  BY SameItems DEF U!Untouched
<1>2. \A s \in Symbols : U!Untouched[s] \in UserVals[s]
  BY <1>1, ItemShape, UserValsAssumption
<1>3. ASSUME NEW c \in Choices PROVE U!Untouched[c] \in UserVals[c]
  <2>1. NoUser \in Modes(c)
    BY UserValsAssumption
  <2>2. U!UntouchedChoice \in UserVals[c]
    BY <2>1, ChoiceUser DEF U!UntouchedChoice
  <2>. QED BY <2>2, <1>1, ItemShape
<1>4. U!Untouched = [i \in Items |-> U!Untouched[i]]
  BY SameItems DEF U!Untouched
<1>5. \A i \in Items : U!Untouched[i] \in UserVals[i]
  BY <1>2, <1>3 DEF Items
<1>. QED BY <1>4, <1>5, UserIntro

\* The four changes of user values keep them well formed.
LEMMA WithValueType ==
  ASSUME NEW u \in U!Users, NEW s \in Symbols, NEW x \in UserVals[s]
  PROVE  U!WithValue(u, s, x) \in U!Users
<1>1. [u EXCEPT ![s] = x] \in U!Users
  BY UserUpdate, ItemShape
<1>2. CASE U!SelectsChoice(s, x)
  <2> DEFINE c == SymChoice[s]
             r == [mode |-> u[c].mode, sel |-> s]
  <2>1. c = Def[s].choice /\ InChoice(s)
    BY <1>2 DEF U!SelectsChoice, SymChoice, InChoice
  <2>2. c \in Choices /\ s \in SymsOf(c)
    BY <2>1, SymbolInChoice
  <2>3. r \in UserVals[c]
    BY <2>2, ChoiceUser, UserType, ItemShape
  <2>4. [[u EXCEPT ![s] = x] EXCEPT ![c] = r] \in U!Users
    BY <1>1, <2>2, <2>3, UserUpdate, ItemShape
  <2>. QED BY <1>2, <2>4 DEF U!WithValue
<1>3. CASE ~U!SelectsChoice(s, x)
  BY <1>1, <1>3 DEF U!WithValue
<1>. QED BY <1>2, <1>3

\* Symbol.unset_value()
LEMMA WithoutValueType ==
  ASSUME NEW u \in U!Users, NEW s \in Symbols
  PROVE  U!WithoutValue(u, s) \in U!Users
BY UserUpdate, ItemShape, UserValsAssumption DEF U!WithoutValue

\* Choice.set_value()
LEMMA WithModeType ==
  ASSUME NEW u \in U!Users, NEW c \in Choices, NEW m \in Modes(c)
  PROVE  U!WithMode(u, c, m) \in U!Users
BY UserType, ChoiceUser, UserUpdate, ItemShape DEF U!WithMode

\* Choice.unset_value()
LEMMA WithoutModeType ==
  ASSUME NEW u \in U!Users, NEW c \in Choices
  PROVE  U!WithoutMode(u, c) \in U!Users
<1>1. U!UntouchedChoice \in UserVals[c]
  BY ChoiceUser, UserValsAssumption DEF U!UntouchedChoice
<1>. QED BY <1>1, UserUpdate, ItemShape DEF U!WithoutMode
-----------------------------------------------------------------------------
(***************************************************************************)
(* Loading a file, line by line.                                           *)
(***************************************************************************)

\* A file is loaded line by line: the states in between, all in a set S of states.
MergeSteps(after, u, set, file, S) ==
  \A k \in 0..Len(file) :
    /\ after[k] = IF k = 0 THEN Loading(u, set) ELSE Assign(after[k - 1], file[k])
    /\ after[k] \in S

LEMMA MergeIs ==
  ASSUME NEW S, NEW u, NEW set, NEW file, Len(file) \in Nat, Loading(u, set) \in S,
         \A k \in 1..Len(file) : \A st \in S : Assign(st, file[k]) \in S
  PROVE  \E after : MergeSteps(after, u, set, file, S) /\ Merge(u, set, file) = after[Len(file)]
<1> DEFINE n == Len(file)
           Step == [k \in 1..n |-> [st \in S |-> Assign(st, file[k])]]
           Loads(f) == f = [k \in 0..n |-> IF k = 0 THEN Loading(u, set)
                                           ELSE Assign(f[k - 1], file[k])]
           after == CHOOSE f : Loads(f)
           kept == {k \in Nat : k <= n => after[k] \in S}
           first == Loading(u, set)
<1>1. n \in Nat /\ first \in S /\ Step \in [1..n -> [S -> S]]
  OBVIOUS
<1>2. PICK f \in [0..n -> S] : Steps(f, n, first, Step)
  <2> HIDE DEF Step, n, first
  <2>. QED BY <1>1, RecursiveFunction
<1>3. ASSUME NEW k \in 0..n
      PROVE  f[k] = IF k = 0 THEN Loading(u, set) ELSE Assign(f[k - 1], file[k])
  <2>1. k # 0 => f[k - 1] \in S /\ k \in 1..n
    OBVIOUS
  <2>. QED BY <1>2, <2>1 DEF Steps
<1>4. Loads(f)
  BY <1>3
<1>5. Loads(after)
  BY <1>4
<1> HIDE DEF after
<1>6. \A k \in 0..n : after[k] = IF k = 0 THEN Loading(u, set)
                                 ELSE Assign(after[k - 1], file[k])
  BY <1>5
<1>7. 0 \in kept
  BY <1>6
<1>8. ASSUME NEW k \in Nat, k \in kept PROVE k + 1 \in kept
  <2>1. SUFFICES ASSUME k + 1 <= n PROVE after[k + 1] \in S
    OBVIOUS
  <2>2. after[k + 1] = Assign(after[k], file[k + 1])
    BY <1>6, <2>1
  <2>3. after[k] \in S /\ k + 1 \in 1..n
    BY <1>8, <2>1
  <2>. QED BY <2>2, <2>3
<1>9. Nat \subseteq kept
  <2> HIDE DEF kept
  <2>. QED BY <1>7, <1>8, NumberInduction
<1>10. MergeSteps(after, u, set, file, S)
  BY <1>6, <1>9 DEF MergeSteps
<1>11. Merge(u, set, file) = after[n]
  BY DEF Merge, after
<1>. QED BY <1>10, <1>11

\* What holds before a file is loaded and is kept by every line holds after it.
LEMMA MergeKeeps ==
  ASSUME NEW S, NEW u, NEW set, NEW file, Len(file) \in Nat, Loading(u, set) \in S,
         \A k \in 1..Len(file) : \A st \in S : Assign(st, file[k]) \in S
  PROVE  Merge(u, set, file) \in S
<1>1. PICK after : MergeSteps(after, u, set, file, S) /\ Merge(u, set, file) = after[Len(file)]
  BY MergeIs
<1>2. Len(file) \in 0..Len(file)
  OBVIOUS
<1>. QED BY <1>1, <1>2 DEF MergeSteps

\* The entries of a list that are in a set, and all of them.
LEMMA WithinIs ==
  ASSUME NEW list, Len(list) \in Nat, NEW set
  PROVE  /\ Within(list, set) \in Seq({list[k] : k \in 1..Len(list)} \cap set)
         /\ \A k \in 1..Len(list) : list[k] \in set =>
              \E j \in DOMAIN Within(list, set) : Within(list, set)[j] = list[k]
<1> DEFINE n == Len(list)
           T == {list[k] : k \in 1..n} \cap set
           S == Seq(T)
           More(k, some) == IF list[k] \in set THEN Append(some, list[k]) ELSE some
           Step == [k \in 1..n |-> [some \in S |-> More(k, some)]]
           Keeps(f) == f = [k \in 0..n |-> IF k = 0 THEN <<>> ELSE More(k, f[k - 1])]
           upTo == CHOOSE f : Keeps(f)
           first == <<>>
           Has(some, m) == \A k \in 1..m : list[k] \in set => \E j \in 1..Len(some) : some[j] = list[k]
           kept == {k \in Nat : k <= n => upTo[k] \in S /\ Has(upTo[k], k)}
<1>1. n \in Nat /\ first \in S
  OBVIOUS
<1>2. ASSUME NEW k \in 1..n, NEW some \in S PROVE More(k, some) \in S
  <2>1. list[k] \in set => list[k] \in T
    OBVIOUS
  <2> HIDE DEF T
  <2>. QED BY <2>1
<1>3. Step \in [1..n -> [S -> S]]
  <2> HIDE DEF More, S
  <2>. QED BY <1>2
<1>4. PICK f \in [0..n -> S] : Steps(f, n, first, Step)
  <2> HIDE DEF Step, n, first, S
  <2>. QED BY <1>1, <1>3, RecursiveFunction
<1>5. ASSUME NEW k \in 0..n
      PROVE  f[k] = IF k = 0 THEN <<>> ELSE More(k, f[k - 1])
  <2> HIDE DEF More, S
  <2>1. k # 0 => f[k - 1] \in S /\ k \in 1..n
    BY <1>1
  <2>. QED BY <1>4, <2>1 DEF Steps
<1> HIDE DEF n, S, first
<1>6. Keeps(f)
  BY <1>5
<1>7. Keeps(upTo)
  BY <1>6
<1> HIDE DEF upTo
<1>8. \A k \in 0..n : upTo[k] = IF k = 0 THEN <<>> ELSE More(k, upTo[k - 1])
  BY <1>7
<1>9. 0 \in kept
  BY <1>1, <1>8 DEF first
<1>10. ASSUME NEW k \in Nat, k \in kept PROVE k + 1 \in kept
  <2>1. SUFFICES ASSUME k + 1 <= n PROVE upTo[k + 1] \in S /\ Has(upTo[k + 1], k + 1)
    OBVIOUS
  <2>2. k + 1 \in 0..n /\ k + 1 \in 1..n /\ k + 1 # 0 /\ (k + 1) - 1 = k /\ k <= n
    BY <2>1, <1>1
  <2> HIDE DEF More, Has
  <2>3. upTo[k + 1] = More(k + 1, upTo[k])
    BY <1>8, <2>2
  <2>4. upTo[k] \in S /\ Has(upTo[k], k)
    BY <1>10, <2>2
  <2>5. upTo[k + 1] \in S
    BY <2>2, <2>3, <2>4, <1>2
  <2>6. ASSUME NEW j \in 1..(k + 1), list[j] \in set
        PROVE  \E i \in 1..Len(upTo[k + 1]) : upTo[k + 1][i] = list[j]
    <3>1. CASE j \in 1..k
      <4>1. PICK i \in 1..Len(upTo[k]) : upTo[k][i] = list[j]
        BY <2>4, <2>6, <3>1 DEF Has
      <4>2. upTo[k + 1] = upTo[k] \/ upTo[k + 1] = Append(upTo[k], list[k + 1])
        BY <2>3 DEF More
      <4>3. i \in 1..Len(upTo[k + 1]) /\ upTo[k + 1][i] = upTo[k][i]
        BY <2>4, <4>2 DEF S
      <4>. QED BY <4>1, <4>3
    <3>2. CASE j = k + 1
      <4>1. upTo[k + 1] = Append(upTo[k], list[k + 1])
        BY <2>3, <2>6, <3>2 DEF More
      <4>2. Len(upTo[k]) + 1 \in 1..Len(upTo[k + 1])
            /\ upTo[k + 1][Len(upTo[k]) + 1] = list[k + 1]
        BY <2>4, <4>1 DEF S
      <4>. QED BY <4>2, <3>2
    <3>. QED BY <3>1, <3>2
  <2>. QED BY <2>5, <2>6 DEF Has
<1>11. n \in kept
  <2> HIDE DEF kept
  <2>. QED BY <1>1, <1>9, <1>10, NumberInduction
<1>12. Within(list, set) = upTo[n]
  BY DEF Within, upTo, n
<1>13. upTo[n] \in S /\ Has(upTo[n], n)
  BY <1>1, <1>11
<1>14. DOMAIN upTo[n] = 1..Len(upTo[n])
  BY <1>13 DEF S
<1>. QED BY <1>12, <1>13, <1>14 DEF S, n

\* What is written is a sequence of lines of the symbols that are to be written.
LEMMA LinesType ==
  ASSUME NEW wanted, NEW v
  PROVE  Lines(wanted, v) \in Seq({Line(s, v) : s \in Symbols \cap wanted})
<1> DEFINE kept == Within(SymbolOrder, wanted)
<1>1. Len(SymbolOrder) \in Nat /\ \A k \in 1..Len(SymbolOrder) : SymbolOrder[k] \in Symbols
  BY UserValsAssumption
<1>2. kept \in Seq({SymbolOrder[k] : k \in 1..Len(SymbolOrder)} \cap wanted)
  BY <1>1, WithinIs
<1>3. kept \in Seq(Symbols \cap wanted)
  <2> HIDE DEF kept
  <2>. QED BY <1>1, <1>2
<1>4. Lines(wanted, v) = [k \in DOMAIN kept |-> Line(kept[k], v)]
  BY DEF Lines
<1> HIDE DEF kept
<1>5. \A k \in 1..Len(kept) : kept[k] \in Symbols \cap wanted
  BY <1>3
<1>6. DOMAIN kept = 1..Len(kept) /\ Len(kept) \in Nat
  BY <1>3
<1>7. [k \in 1..Len(kept) |-> Line(kept[k], v)] \in Seq({Line(s, v) : s \in Symbols \cap wanted})
  BY <1>5, <1>6
<1>. QED BY <1>4, <1>6, <1>7

\* Loads of a file from other user values, and what is known of all of them.
Loads == [user : U!Users, set : SUBSET Items, dead : BOOLEAN]

\* Every line keeps the types.
LEMMA AssignType ==
  ASSUME NEW st \in Loads, NEW line
  PROVE  Assign(st, line) \in Loads
<1> DEFINE s == line.sym
           x == line.val
<1>1. SUFFICES ASSUME WellFormed(line) PROVE Assigned(Inferred(st, s, x), s, x) \in Loads
  BY DEF Assign
<1>2. s \in Symbols /\ x \in UserVals[s] /\ x # NoUser
  BY <1>1 DEF WellFormed
<1> HIDE DEF s, x
<1>3. Inferred(st, s, x) \in Loads
  <2>1. SUFFICES ASSUME SetsMode(s, x)
                 PROVE  /\ U!WithMode(st.user, Def[s].choice, x) \in U!Users
                        /\ Def[s].choice \in Items
    BY DEF Inferred, Loads
  <2>2. Def[s].choice \in Choices
    BY <1>2, <2>1, SymbolInChoice DEF SetsMode
  <2>3. x \in Modes(Def[s].choice)
    BY <2>1, <2>2, UserValsAssumption DEF SetsMode
  <2>. QED BY <2>2, <2>3, WithModeType, ItemShape DEF Loads
<1>4. ASSUME NEW t \in Loads PROVE Assigned(t, s, x) \in Loads
  <2>1. U!WithValue(t.user, s, x) \in U!Users
    BY <1>2, WithValueType DEF Loads
  <2>2. [t EXCEPT !.dead = TRUE] \in Loads
    BY DEF Loads
  <2>3. [t EXCEPT !.user = U!WithValue(t.user, s, x), !.set = t.set \cup {s}] \in Loads
    BY <2>1, <1>2, ItemShape DEF Loads
  <2>. QED BY <2>2, <2>3 DEF Assigned
<1>. QED BY <1>3, <1>4

LEMMA MergeType ==
  ASSUME NEW u \in U!Users, NEW set \in SUBSET Items, NEW file, Len(file) \in Nat
  PROVE  Merge(u, set, file) \in Loads
<1>1. Loading(u, set) \in Loads
  BY DEF Loading, Loads
<1>. QED BY <1>1, AssignType, MergeKeeps

\* The user values of what has been set are kept, the others are unset.
LEMMA UnsetOthersType ==
  ASSUME NEW st \in Loads
  PROVE  UnsetOthers(st) \in Loads
<1> DEFINE w == [i \in Items |-> IF i \in st.set THEN st.user[i] ELSE U!Untouched[i]]
<1>1. st.user \in U!Users
  BY DEF Loads
<1>2. \A i \in Items : w[i] \in UserVals[i]
  BY <1>1, UserType, UntouchedType
<1>3. w = [i \in Items |-> w[i]]
  OBVIOUS
<1> HIDE DEF w
<1>4. w \in U!Users
  BY <1>2, <1>3, UserIntro
<1>. QED BY <1>4 DEF w, UnsetOthers, Loads

LEMMA LoadType ==
  ASSUME NEW u \in U!Users, NEW file, Len(file) \in Nat
  PROVE  Load(u, file) \in Loads
<1>1. Merge(u, {}, file) \in Loads
  BY MergeType
<1>. QED BY <1>1, UnsetOthersType DEF Load
-----------------------------------------------------------------------------
(***************************************************************************)
(* What is known of the attributes under any user values.                  *)
(***************************************************************************)

\* The first of a set of indexes is one of them.
LEMMA FirstIndex ==
  ASSUME NEW S, S \subseteq Nat
  PROVE  /\ S = {} => First(S) = 0
         /\ S # {} => First(S) \in S /\ \A k \in S : First(S) <= k
BY LeastNumber DEF First

\* The highest of n and values among n, m and y
LEMMA HighestValue ==
  ASSUME NEW S, S \subseteq 0..2
  PROVE  Highest({0} \cup S) \in {0} \cup S
<1>1. \E x \in {0} \cup S : \A y \in {0} \cup S : y <= x
  <2>1. CASE 2 \in S
    BY <2>1
  <2>2. CASE 2 \notin S /\ 1 \in S
    <3>1. \A y \in {0} \cup S : y <= 1
      BY <2>2
    <3>. QED BY <3>1, <2>2
  <2>3. CASE 2 \notin S /\ 1 \notin S
    <3>1. \A y \in {0} \cup S : y <= 0
      BY <2>3
    <3>. QED BY <3>1
  <2>. QED BY <2>1, <2>2, <2>3
<1>. QED BY <1>1 DEF Highest

LEMMA EngineValues ==
  ASSUME NEW u \in U!Users, NEW v, v = Attributes(u)
  PROVE  /\ \A i \in Items : \A k \in KindsOf(i) : v[<<i, k>>] = AttrValue(<<i, k>>, u, v)
         /\ \A a \in AllAttributes : \A e \in EvaluatedBy(a) : ExprValue(e, u, v) \in 0..2
         /\ \A s \in Symbols : InChoice(s) => \A k \in DOMAIN Def[s].prompts :
              ExprValue(Def[s].prompts[k], u, v) <= ChoiceTri(Def[s].choice, u, v)
<1>1. \A a \in AllAttributes : v[a] = AttrValue(a, u, v)
  BY EngineAssumption
<1>2. \A i \in Items : \A k \in KindsOf(i) : <<i, k>> \in AllAttributes
  BY DEF AllAttributes
<1>3. \A a \in AllAttributes : \A e \in EvaluatedBy(a) : e \in DOMAIN ExprRank
  BY RankAssumption DEF IsExpr
<1>4. \A e \in DOMAIN ExprRank : ExprValue(e, u, v) \in 0..2
  BY EngineAssumption
<1>. QED BY <1>1, <1>2, <1>3, <1>4, EngineAssumption

\* Each item has a visibility: what its prompts and the mode of its choice make of it.
LEMMA VisibilityValue ==
  ASSUME NEW u \in U!Users, NEW v, v = Attributes(u), NEW i \in Items
  PROVE  v[Vis(i)] = Visibility(i, u, v)
<1>1. "vis" \in KindsOf(i)
  BY DEF KindsOf
<1>2. v[<<i, "vis">>] = AttrValue(<<i, "vis">>, u, v)
  BY <1>1, EngineValues
<1>. QED BY <1>2 DEF Vis, AttrValue

LEMMA TriValueIs ==
  ASSUME NEW u \in U!Users, NEW v, v = Attributes(u), NEW s \in Symbols, IsTri(s)
  PROVE  v[Value(s)] = TriValue(s, u, v)
<1>1. "tri" \in KindsOf(s) /\ s \in Items
  BY ItemShape DEF KindsOf
<1>2. v[<<s, "tri">>] = AttrValue(<<s, "tri">>, u, v)
  BY <1>1, EngineValues
<1>. QED BY <1>2 DEF Value, AttrValue

LEMMA IntValueIs ==
  ASSUME NEW u \in U!Users, NEW v, v = Attributes(u), NEW s \in Symbols, Def[s].type = "INT"
  PROVE  v[Value(s)] = IntValue(s, u, v)
<1>1. ~IsTri(s)
  BY DEF IsTri
<1>2. "str" \in KindsOf(s) /\ s \in Items
  BY <1>1, ItemShape DEF KindsOf
<1>3. v[<<s, "str">>] = AttrValue(<<s, "str">>, u, v)
  BY <1>2, EngineValues
<1>. QED BY <1>1, <1>3 DEF Value, AttrValue

LEMMA SelectionIs ==
  ASSUME NEW u \in U!Users, NEW v, v = Attributes(u), NEW c \in Choices
  PROVE  v[<<c, "sel">>] = Selection(c, u, v)
<1>1. "sel" \in KindsOf(c) /\ c \in Items
  BY ItemShape DEF KindsOf
<1>2. v[<<c, "sel">>] = AttrValue(<<c, "sel">>, u, v)
  BY <1>1, EngineValues
<1>. QED BY <1>2 DEF AttrValue

\* A prompt value is n, m or y, and if it is not n, that of one of the prompts.
LEMMA PromptValueType ==
  ASSUME NEW u \in U!Users, NEW v, v = Attributes(u), NEW i \in Items
  PROVE  /\ PromptValue(i, u, v) \in 0..2
         /\ PromptValue(i, u, v) # 0 =>
              \E k \in DOMAIN Def[i].prompts :
                PromptValue(i, u, v) = ExprValue(Def[i].prompts[k], u, v)
<1> DEFINE S == {ExprValue(Def[i].prompts[k], u, v) : k \in DOMAIN Def[i].prompts}
<1>1. \A k \in DOMAIN Def[i].prompts : Def[i].prompts[k] \in EvaluatedBy(<<i, "vis">>)
  BY DEF EvaluatedBy
<1>0. <<i, "vis">> \in AllAttributes
  BY DEF AllAttributes, KindsOf
<1>2. S \subseteq 0..2
  BY <1>0, <1>1, EngineValues
<1>3. PromptValue(i, u, v) = Highest({0} \cup S)
  BY DEF PromptValue
<1>4. PromptValue(i, u, v) \in {0} \cup S
  <2> HIDE DEF S
  <2>. QED BY <1>2, <1>3, HighestValue
<1>. QED BY <1>2, <1>4

LEMMA VisibilityType ==
  ASSUME NEW u \in U!Users, NEW v, v = Attributes(u), NEW i \in Items
  PROVE  v[Vis(i)] \in 0..2
BY VisibilityValue, PromptValueType DEF Visibility, VisibilityAt

\* A list of entries whose conditions are looked at: the first active entry is one of them.
LEMMA FirstActiveType ==
  ASSUME NEW u, NEW v, NEW list, IsList(list)
  PROVE  FirstActive(list, u, v) = 0 \/ FirstActive(list, u, v) \in DOMAIN list
<1> DEFINE S == {k \in DOMAIN list : ExprValue(list[k].cond, u, v) # 0}
<1>1. S \subseteq Nat
  BY DEF IsList
<1>2. FirstActive(list, u, v) = First(S)
  BY DEF FirstActive
<1>. QED BY <1>1, <1>2, FirstIndex

\* The value of a bool or tristate symbol is n, m or y before it is promoted, ...
LEMMA ChosenType ==
  ASSUME NEW u \in U!Users, NEW v, v = Attributes(u), NEW s \in Symbols, IsTri(s)
  PROVE  /\ ChosenValue(s, u, v) \in 0..2 /\ DefaultValue(s, u, v) \in 0..2
         /\ ExprValue(Def[s].rev, u, v) \in 0..2 /\ ExprValue(Def[s].weak, u, v) \in 0..2
<1> DEFINE d == Def[s]
<1>1. <<s, "tri">> \in AllAttributes /\ s \in Items
  BY ItemShape DEF AllAttributes, KindsOf
<1>2. \A e \in EvaluatedBy(<<s, "tri">>) : ExprValue(e, u, v) \in 0..2
  BY <1>1, EngineValues
<1>3. d.rev \in EvaluatedBy(<<s, "tri">>) /\ d.weak \in EvaluatedBy(<<s, "tri">>)
  BY DEF EvaluatedBy
<1>4. \A k \in DOMAIN d.defaults : /\ d.defaults[k].cond \in EvaluatedBy(<<s, "tri">>)
                                   /\ d.defaults[k].val \in EvaluatedBy(<<s, "tri">>)
  BY DEF EvaluatedBy
<1>5. DefaultValue(s, u, v) \in 0..2
  <2> DEFINE k == FirstActive(d.defaults, u, v)
  <2>1. k = 0 \/ k \in DOMAIN d.defaults
    BY <1>1, TreeAssumption, FirstActiveType
  <2>2. DefaultValue(s, u, v) = TriDefault(s, k, u, v)
    BY DEF DefaultValue
  <2> HIDE DEF k
  <2>. QED BY <1>2, <1>4, <2>1, <2>2 DEF TriDefault, Lesser
<1>6. ImpliedValue(s, u, v) \in 0..2
  BY <1>2, <1>3 DEF ImpliedValue
<1>7. v[Vis(s)] \in 0..2
  BY <1>1, VisibilityType
<1>8. HasUserValue(s, u, v) => u[s] \in 0..2
  BY <1>1, UserType, UserValsAssumption DEF HasUserValue
<1>9. ChosenValue(s, u, v) \in 0..2
  BY <1>5, <1>6, <1>7, <1>8 DEF ChosenValue, Lesser, Greater
<1>. QED BY <1>2, <1>3, <1>5, <1>9

\* ... and after it, and m only if the symbol is tristate.
LEMMA TriValueType ==
  ASSUME NEW u \in U!Users, NEW v, v = Attributes(u), NEW s \in Symbols, IsTri(s)
  PROVE  v[Value(s)] \in 0..2 /\ (v[Value(s)] = 1 => IsTristate(s))
<1> DEFINE val == UnpromotedValue(s, u, v)
<1>1. s \in Items
  BY ItemShape
<1>2. val \in 0..2
  BY ChosenType DEF UnpromotedValue, Greater
<1>3. ~IsTristate(s) => NotTristate(s, u, v)
  BY DEF NotTristate
<1>4. v[Vis(s)] = 1 => ~NotTristate(s, u, v)
  BY <1>1, VisibilityValue DEF Visibility, VisibilityAt
<1>5. v[Value(s)] = TriValue(s, u, v)
  BY TriValueIs
<1> HIDE DEF val
<1>6. CASE InChoice(s)
  <2>1. v[Value(s)] = ValueInChoice(s, v[Vis(s)], u, v)
    BY <1>5, <1>6 DEF TriValue
  <2>. QED BY <1>3, <1>4, <2>1 DEF ValueInChoice
<1>7. CASE ~InChoice(s)
  <2>1. v[Value(s)] = PromotedValue(s, val, u, v)
    BY <1>5, <1>7 DEF TriValue, val
  <2>. QED BY <1>2, <1>3, <2>1 DEF PromotedValue
<1>. QED BY <1>6, <1>7

\* Modes are n, m and y.
LEMMA ChoiceTriType ==
  ASSUME NEW u \in U!Users, NEW v, v = Attributes(u), NEW c \in Choices
  PROVE  ChoiceTri(c, u, v) \in 0..2
<1>1. v[Vis(c)] \in 0..2
  BY VisibilityType, ItemShape
<1>2. u[c].mode \in {NoUser} \cup 0..2
  BY UserType, ItemShape, ChoiceUser, UserValsAssumption
<1>3. WantedMode(c, u, v) \in 0..2
  BY <1>1, <1>2 DEF WantedMode, Greater, Lesser
<1>. QED BY <1>3 DEF ChoiceTri, PromotedMode
-----------------------------------------------------------------------------
(***************************************************************************)
(* Choices and their symbols.                                              *)
(***************************************************************************)

\* A choice symbol is visible at m in a choice in m mode only.
LEMMA VisibleAtM ==
  ASSUME NEW u \in U!Users, NEW v, v = Attributes(u),
         NEW c \in Choices, NEW s \in SymsOf(c), v[Vis(s)] = 1
  PROVE  ChoiceTri(c, u, v) = 1
<1>1. s \in Symbols /\ s \in Items /\ Def[s].choice = c /\ InChoice(s)
  BY ItemShape, TreeAssumption DEF SymsOf, InChoice
<1>2. VisibilityAt(s, PromptValue(s, u, v), u, v) = 1
  BY <1>1, VisibilityValue DEF Visibility
<1>3. PromptValue(s, u, v) = 1 /\ ~NotTristate(s, u, v)
  BY <1>2 DEF VisibilityAt
<1>4. ChoiceTri(c, u, v) # 2
  BY <1>1, <1>3 DEF NotTristate
<1>5. PICK k \in DOMAIN Def[s].prompts : ExprValue(Def[s].prompts[k], u, v) = 1
  BY <1>1, <1>3, PromptValueType
<1>6. ExprValue(Def[s].prompts[k], u, v) <= ChoiceTri(c, u, v)
  BY <1>1, EngineValues
<1>. QED BY <1>4, <1>5, <1>6, ChoiceTriType

\* A choice symbol is n, m if it is visible at m, or y if it is the selection.
LEMMA ChoiceSymbolValue ==
  ASSUME NEW u \in U!Users, NEW v, v = Attributes(u), NEW c \in Choices, NEW s \in SymsOf(c)
  PROVE  /\ v[Value(s)] = 1 => v[Vis(s)] = 1
         /\ v[Value(s)] = 2 <=> v[Vis(s)] = 2 /\ Selection(c, u, v) = s
<1>1. s \in Symbols /\ Def[s].choice = c /\ InChoice(s) /\ IsTri(s)
  BY TreeAssumption DEF SymsOf, InChoice
<1>2. v[Value(s)] = ValueInChoice(s, v[Vis(s)], u, v)
  BY <1>1, TriValueIs DEF TriValue
<1>3. v[<<Def[s].choice, "sel">>] = Selection(c, u, v)
  BY <1>1, SelectionIs
<1>. QED BY <1>2, <1>3 DEF ValueInChoice

\* In y mode the selection is a visible symbol of the choice, if it has one.
LEMMA SelectionIsVisible ==
  ASSUME NEW u \in U!Users, NEW v, v = Attributes(u), NEW c \in Choices,
         ChoiceTri(c, u, v) = 2, NEW s \in SymsOf(c), v[Vis(s)] # 0
  PROVE  Selection(c, u, v) \in SymsOf(c) /\ v[Vis(Selection(c, u, v))] # 0
<1>1. CASE UserSelection(c, u, v) # NoSym
  <2>1. u[c].sel # NoSym /\ v[Vis(u[c].sel)] # 0
    BY <1>1 DEF UserSelection
  <2>2. u[c].sel \in SymsOf(c)
    BY <2>1, UserType, ItemShape, ChoiceUser
  <2>. QED BY <1>1, <2>1, <2>2 DEF Selection
<1>2. CASE UserSelection(c, u, v) = NoSym
  <2> DEFINE D == {k \in DOMAIN Def[c].defaults : /\ ExprValue(Def[c].defaults[k].cond, u, v) # 0
                                                  /\ v[Vis(Def[c].defaults[k].sym)] # 0}
             F == {k \in DOMAIN Def[c].syms : v[Vis(Def[c].syms[k])] # 0}
  <2>1. Selection(c, u, v) = SelectionAt(c, First(D), v)
    BY <1>2 DEF Selection, DefaultSelection, DefaultIndex
  <2>2. D \subseteq Nat \ {0} /\ F \subseteq Nat \ {0}
    <3>1. IsList(Def[c].defaults) /\ Def[c].syms \in Seq(Symbols)
      BY TreeAssumption, ItemShape
    <3>. QED BY <3>1 DEF IsList
  <2>3. CASE First(D) # 0
    <3>1. First(D) \in D
      BY <2>2, <2>3, FirstIndex
    <3>2. Def[c].defaults[First(D)].sym \in SymsOf(c)
      BY <3>1, TreeAssumption
    <3>. QED BY <2>1, <2>3, <3>1, <3>2 DEF SelectionAt
  <2>4. CASE First(D) = 0
    <3>1. Selection(c, u, v) = SymbolAt(Def[c].syms, First(F))
      BY <2>1, <2>4 DEF SelectionAt, FirstVisible
    <3>2. PICK k \in DOMAIN Def[c].syms : Def[c].syms[k] = s
      BY TreeAssumption DEF SymsOf
    <3>3. k \in F
      BY <3>2
    <3>4. First(F) \in F /\ First(F) # 0
      BY <3>3, <2>2, FirstIndex
    <3>5. Def[c].syms[First(F)] \in SymsOf(c)
      <4>1. First(F) \in DOMAIN Def[c].syms /\ Def[c].syms \in Seq(Symbols)
        BY <3>4, TreeAssumption
      <4>2. \A q \in Seq(Symbols) : \A j \in DOMAIN q : q[j] \in Symbols
        OBVIOUS
      <4>3. Def[c].syms[First(F)] \in Symbols
        BY <4>1, <4>2
      <4>. QED BY <4>1, <4>3, TreeAssumption
    <3>. QED BY <3>1, <3>4, <3>5 DEF SymbolAt
  <2>. QED BY <2>3, <2>4
<1>. QED BY <1>1, <1>2
-----------------------------------------------------------------------------
(***************************************************************************)
(* Two user values whose difference is not looked at yet, up to a rank.    *)
(***************************************************************************)
SameBelow(u, w, n) ==
  \A a \in AllAttributes : Rank[a] < n => Attributes(u)[a] = Attributes(w)[a]

SameModesBelow(u, w, n) ==
  \A c \in Choices : Rank[Vis(c)] < n => u[c].mode = w[c].mode

\* The attributes that other attributes and expressions look at are some.
LEMMA LookedAt ==
  /\ \A i \in Items : Vis(i) \in AllAttributes
  /\ \A s \in Symbols : Value(s) \in AllAttributes
  /\ \A c \in Choices : <<c, "sel">> \in AllAttributes
  /\ Modules # NoSym => <<Modules, "tri">> \in AllAttributes
<1>1. \A i \in Items : \A k \in KindsOf(i) : <<i, k>> \in AllAttributes
  BY DEF AllAttributes
<1>2. \A i \in Items : "vis" \in KindsOf(i)
  BY DEF KindsOf
<1>3. \A s \in Symbols : s \in Items /\ (IF IsTri(s) THEN "tri" \in KindsOf(s) ELSE "str" \in KindsOf(s))
  BY ItemShape DEF KindsOf
<1>4. \A c \in Choices : c \in Items /\ "sel" \in KindsOf(c)
  BY ItemShape DEF KindsOf
<1>5. Modules # NoSym => Modules \in Symbols /\ IsTri(Modules)
  BY TreeAssumption
<1>6. \A i \in Items : Vis(i) \in AllAttributes
  BY <1>1, <1>2 DEF Vis
<1>7. \A s \in Symbols : Value(s) \in AllAttributes
  BY <1>1, <1>3 DEF Value
<1>8. Modules # NoSym => <<Modules, "tri">> \in AllAttributes
  BY <1>1, <1>3, <1>5
<1>. QED BY <1>1, <1>4, <1>6, <1>7, <1>8

\* The symbols of a choice and of its defaults are those that are in it.
LEMMA ChoiceListsSymbols ==
  ASSUME NEW c \in Choices
  PROVE  /\ \A k \in DOMAIN Def[c].syms : Def[c].syms[k] \in SymsOf(c)
         /\ \A k \in DOMAIN Def[c].defaults : Def[c].defaults[k].sym \in SymsOf(c)
         /\ \A s \in SymsOf(c) : /\ s \in Symbols /\ s \in Items
                                 /\ \E k \in DOMAIN Def[c].syms : Def[c].syms[k] = s
<1>1. \A p \in Seq(Symbols) : \A j \in DOMAIN p : p[j] \in Symbols
  OBVIOUS
<1>2. Def[c].syms \in Seq(Symbols)
  BY TreeAssumption
<1>3. \A k \in DOMAIN Def[c].syms : Def[c].syms[k] \in Symbols
  BY <1>1, <1>2
<1>. QED BY <1>3, TreeAssumption, ItemShape DEF SymsOf

LEMMA LookedAtAre ==
  ASSUME NEW i \in Items, NEW k \in KindsOf(i)
  PROVE  LooksAt(<<i, k>>) \subseteq AllAttributes
<1>1. ModulesReads \subseteq AllAttributes
  BY LookedAt DEF ModulesReads
<1>2. InChoice(i) => Def[i].choice \in Choices /\ Def[i].choice \in Items
  BY SymbolInChoice, ItemShape DEF InChoice
<1>3. InChoice(i) => ValueReads(Def[i].choice) \subseteq AllAttributes
  BY <1>1, <1>2, LookedAt, ItemShape DEF ValueReads
<1>4. InChoice(i) => <<Def[i].choice, "sel">> \in AllAttributes
  BY <1>2, LookedAt
<1>5. k = "sel" => /\ \A j \in DOMAIN Def[i].syms : Vis(Def[i].syms[j]) \in AllAttributes
                   /\ \A j \in DOMAIN Def[i].defaults : Vis(Def[i].defaults[j].sym) \in AllAttributes
  <2>1. k = "sel" => i \in Choices
    BY ItemShape DEF KindsOf
  <2>. QED BY <2>1, LookedAt, ChoiceListsSymbols
<1>6. Vis(i) \in AllAttributes
  BY LookedAt
<1>. QED BY <1>1, <1>3, <1>4, <1>5, <1>6 DEF LooksAt

\* Two user values under which a choice has the same mode, and an expression the
\* same value
Settled(c, u, w) == ChoiceTri(c, u, Attributes(u)) = ChoiceTri(c, w, Attributes(w))

SameExpr(e, u, w) == ExprValue(e, u, Attributes(u)) = ExprValue(e, w, Attributes(w))

LEMMA SameModules ==
  ASSUME NEW u, NEW w, \A a \in ModulesReads : Attributes(u)[a] = Attributes(w)[a]
  PROVE  ModulesValue(Attributes(u)) = ModulesValue(Attributes(w))
BY DEF ModulesReads, ModulesValue

\* The mode of a choice
LEMMA SameChoiceTri ==
  ASSUME NEW u, NEW w, NEW n, SameBelow(u, w, n), SameModesBelow(u, w, n), NEW c \in Choices,
         \A a \in ValueReads(c) : Rank[a] < n
  PROVE  Settled(c, u, w)
<1>1. c \notin Symbols /\ c \in Items
  BY ItemShape
<1>2. Rank[Vis(c)] < n /\ (IsTristate(c) => \A a \in ModulesReads : Rank[a] < n)
  BY <1>1 DEF ValueReads
<1>3. Attributes(u)[Vis(c)] = Attributes(w)[Vis(c)] /\ u[c].mode = w[c].mode
  BY <1>1, <1>2, LookedAt DEF SameBelow, SameModesBelow
<1>4. IsTristate(c) => ModulesValue(Attributes(u)) = ModulesValue(Attributes(w))
  <2>1. \A a \in ModulesReads : a \in AllAttributes
    BY LookedAt DEF ModulesReads
  <2>. QED BY <1>2, <2>1, SameModules DEF SameBelow
<1>5. WantedMode(c, u, Attributes(u)) = WantedMode(c, w, Attributes(w))
  BY <1>3 DEF WantedMode
<1>. QED BY <1>4, <1>5 DEF Settled, ChoiceTri, PromotedMode

\* An operand
LEMMA SameOperand ==
  ASSUME NEW u, NEW w, NEW n, SameBelow(u, w, n), NEW o, OperandBelow(o, n)
  PROVE  Operand(o, Attributes(u)) = Operand(o, Attributes(w))
BY LookedAt DEF OperandBelow, Operand, SameBelow

\* The expressions of G are made of each other and of what is the same; what is
\* after an n && does not matter.
Closed(G, u, w) ==
  \A e \in G :
    /\ e.op = "item" /\ e.i \in Choices => Settled(e.i, u, w)
    /\ e.op = "item" /\ e.i \in Symbols => Attributes(u)[Value(e.i)] = Attributes(w)[Value(e.i)]
    /\ e.op = "not" => e.a \in G
    /\ e.op \in {"and", "or"} => e.a \in G
    /\ e.op = "or" => e.b \in G
    /\ e.op = "and" => e.b \in G \/ ExprValue(e.a, u, Attributes(u)) = 0
    /\ e.op = "rel" => /\ Operand(e.a, Attributes(u)) = Operand(e.a, Attributes(w))
                       /\ Operand(e.b, Attributes(u)) = Operand(e.b, Attributes(w))

LEMMA SameExprsIn ==
  ASSUME NEW u \in U!Users, NEW w \in U!Users, NEW G \in SUBSET DOMAIN ExprRank,
         Closed(G, u, w)
  PROVE  \A e \in G : SameExpr(e, u, w)
<1> DEFINE v == Attributes(u)
           x == Attributes(w)
           ranks == {k \in Nat : \A e \in G : ExprRank[e] < k => SameExpr(e, u, w)}
<1>1. \A e \in G : ExprRank[e] \in Nat /\ ExprRanked(e)
  BY RankAssumption
<1>2. 0 \in ranks
  BY <1>1
<1>3. ASSUME NEW k \in Nat, k \in ranks PROVE k + 1 \in ranks
  <2>1. SUFFICES ASSUME NEW e \in G, ExprRank[e] < k + 1 PROVE SameExpr(e, u, w)
    OBVIOUS
  <2>2. SUFFICES ASSUME ExprRank[e] = k PROVE SameExpr(e, u, w)
    BY <1>1, <1>3, <2>1
  <2>3. SUFFICES ValueOfParts(e, u, v) = ValueOfParts(e, w, x)
    BY EngineAssumption DEF SameExpr
  <2>4. \A f \in G : ExprRank[f] < ExprRank[e] => ExprValue(f, u, v) = ExprValue(f, w, x)
    BY <1>1, <1>3, <2>1, <2>2 DEF SameExpr
  <2>5. ExprRanked(e)
    BY <1>1
  <2>6. CASE e.op = "const"
    BY <2>6 DEF ValueOfParts
  <2>7. CASE e.op = "item" /\ e.i \in Choices
    <3>1. ChoiceTri(e.i, u, v) = ChoiceTri(e.i, w, x)
      BY <2>7 DEF Closed, Settled
    <3>. QED BY <2>7, <3>1 DEF ValueOfParts
  <2>8. CASE e.op = "item" /\ e.i \notin Choices /\ e.i \in Items
    <3>1. e.i \in Symbols
      BY <2>8 DEF Items
    <3>2. v[Value(e.i)] = x[Value(e.i)]
      BY <2>8, <3>1 DEF Closed
    <3>. QED BY <2>8, <3>2 DEF ValueOfParts
  <2>9. CASE e.op = "not" /\ ExprRank[e.a] < ExprRank[e]
    <3>1. e.a \in G
      BY <2>9 DEF Closed
    <3>. QED BY <2>4, <2>9, <3>1 DEF ValueOfParts
  <2>10. CASE e.op \in {"and", "or"} /\ e.b \in DOMAIN ExprRank
                /\ ExprRank[e.a] < ExprRank[e] /\ ExprRank[e.b] < ExprRank[e]
    <3>1. e.a \in G /\ (e.b \in G \/ (e.op = "and" /\ ExprValue(e.a, u, v) = 0))
      BY <2>10 DEF Closed
    <3>2. ExprValue(e.a, u, v) = ExprValue(e.a, w, x)
      BY <2>4, <2>10, <3>1
    <3>3. CASE e.b \in G
      BY <2>4, <2>10, <3>2, <3>3 DEF ValueOfParts
    <3>4. CASE e.op = "and" /\ ExprValue(e.a, u, v) = 0
      <4>1. ExprValue(e.b, u, v) \in 0..2 /\ ExprValue(e.b, w, x) \in 0..2
        BY <2>10, EngineAssumption
      <4>2. ValueOfParts(e, u, v) = Lesser(ExprValue(e.a, u, v), ExprValue(e.b, u, v))
        BY <3>4 DEF ValueOfParts
      <4>3. ValueOfParts(e, w, x) = Lesser(ExprValue(e.a, w, x), ExprValue(e.b, w, x))
        BY <3>4 DEF ValueOfParts
      <4>4. \A y \in 0..2 : Lesser(0, y) = 0
        BY DEF Lesser
      <4>5. Lesser(0, ExprValue(e.b, u, v)) = 0 /\ Lesser(0, ExprValue(e.b, w, x)) = 0
        BY <4>1, <4>4
      <4>. QED BY <3>2, <3>4, <4>2, <4>3, <4>5
    <3>. QED BY <3>1, <3>3, <3>4
  <2>11. CASE e.op = "rel"
    <3>1. Operand(e.a, v) = Operand(e.a, x) /\ Operand(e.b, v) = Operand(e.b, x)
      BY <2>11 DEF Closed
    <3>. QED BY <2>11, <3>1 DEF ValueOfParts
  <2>. QED BY <2>5, <2>6, <2>7, <2>8, <2>9, <2>10, <2>11 DEF ExprRanked, IsExpr
<1>4. Nat \subseteq ranks
  <2> HIDE DEF ranks
  <2>. QED BY <1>2, <1>3, NumberInduction
<1>5. ASSUME NEW e \in G PROVE SameExpr(e, u, w)
  <2>1. ExprRank[e] + 1 \in ranks
    BY <1>1, <1>4
  <2>. QED BY <1>1, <2>1
<1>. QED BY <1>5

LEMMA SameExprs ==
  ASSUME NEW u \in U!Users, NEW w \in U!Users, NEW n \in Nat,
         SameBelow(u, w, n), SameModesBelow(u, w, n)
  PROVE  \A e \in DOMAIN ExprRank : ExprRank[e] <= n => SameExpr(e, u, w)
<1> DEFINE G == {e \in DOMAIN ExprRank : ExprRank[e] <= n}
<1>1. \A a \in AllAttributes : Rank[a] \in Nat
  BY RankAssumption
<1>2. \A c \in Choices : Vis(c) \in AllAttributes
  BY ItemShape, LookedAt
<1>3. ASSUME NEW e \in G
      PROVE  /\ e.op = "item" /\ e.i \in Choices => Settled(e.i, u, w)
             /\ e.op = "item" /\ e.i \in Symbols =>
                  Attributes(u)[Value(e.i)] = Attributes(w)[Value(e.i)]
             /\ e.op = "not" => e.a \in G
             /\ e.op \in {"and", "or"} => e.a \in G
             /\ e.op = "or" => e.b \in G
             /\ e.op = "and" => e.b \in G \/ ExprValue(e.a, u, Attributes(u)) = 0
             /\ e.op = "rel" => /\ Operand(e.a, Attributes(u)) = Operand(e.a, Attributes(w))
                                /\ Operand(e.b, Attributes(u)) = Operand(e.b, Attributes(w))
  <2> DEFINE m == ExprRank[e]
  <2>1. m \in Nat /\ m <= n /\ ExprRanked(e) /\ \A f \in DOMAIN ExprRank : ExprRank[f] \in Nat
    BY RankAssumption
  <2>2. SameBelow(u, w, m) /\ SameModesBelow(u, w, m)
    <3> HIDE DEF m
    <3>. QED BY <1>1, <1>2, <2>1 DEF SameBelow, SameModesBelow
  <2>3. CASE e.op = "item"
    <3>1. \A a \in ValueReads(e.i) : Rank[a] < m
      BY <2>1, <2>3 DEF ExprRanked
    <3> HIDE DEF m
    <3>2. e.i \in Choices => Settled(e.i, u, w)
      BY <2>2, <3>1, SameChoiceTri
    <3>3. e.i \in Symbols => Attributes(u)[Value(e.i)] = Attributes(w)[Value(e.i)]
      BY <2>2, <3>1, LookedAt DEF SameBelow, ValueReads
    <3>. QED BY <2>3, <3>2, <3>3
  <2>4. CASE e.op = "not"
    BY <2>1, <2>4 DEF ExprRanked, IsExpr
  <2>5. CASE e.op \in {"and", "or"}
    BY <2>1, <2>5 DEF ExprRanked, IsExpr
  <2>6. CASE e.op = "rel"
    <3>1. OperandBelow(e.a, m) /\ OperandBelow(e.b, m)
      BY <2>1, <2>6 DEF ExprRanked
    <3> HIDE DEF m
    <3>. QED BY <2>2, <2>6, <3>1, SameOperand
  <2>7. CASE e.op \notin {"item", "not", "and", "or", "rel"}
    BY <2>7
  <2>. QED BY <2>3, <2>4, <2>5, <2>6, <2>7
<1>4. Closed(G, u, w)
  <2> HIDE DEF G
  <2>. QED BY <1>3 DEF Closed
<1>5. \A e \in G : SameExpr(e, u, w)
  <2>1. G \in SUBSET DOMAIN ExprRank
    OBVIOUS
  <2> HIDE DEF G
  <2>. QED BY <1>4, <2>1, SameExprsIn
<1>. QED BY <1>5

\* The user value that an attribute looks at is the same.
SameInput(u, w, i, k) ==
  /\ i \in Symbols /\ k \in {"tri", "str"} => u[i] = w[i]
  /\ k = "sel" => u[i].sel = w[i].sel \/ ChoiceTri(i, u, Attributes(u)) # 2

\* What the properties of item i are made of, all of lower rank than n
LookedAtBelow(i, k, n) ==
  /\ \A e \in EvaluatedBy(<<i, k>>) : IsExpr(e) /\ ExprRank[e] < n
  /\ \A o \in OperandsOf(<<i, k>>) : OperandBelow(o, n)
  /\ \A b \in LooksAt(<<i, k>>) : Rank[b] < n

\* ... and the same for both user values
LooksAlike(u, w, i, k) ==
  /\ \A e \in EvaluatedBy(<<i, k>>) : SameExpr(e, u, w)
  /\ \A o \in OperandsOf(<<i, k>>) : Operand(o, Attributes(u)) = Operand(o, Attributes(w))
  /\ \A b \in LooksAt(<<i, k>>) : Attributes(u)[b] = Attributes(w)[b]
  /\ InChoice(i) => Settled(Def[i].choice, u, w)
  /\ k = "sel" => Settled(i, u, w)

LEMMA AlikeBelow ==
  ASSUME NEW u \in U!Users, NEW w \in U!Users, NEW n \in Nat,
         SameBelow(u, w, n), SameModesBelow(u, w, n),
         NEW i \in Items, NEW k \in KindsOf(i), LookedAtBelow(i, k, n)
  PROVE  LooksAlike(u, w, i, k)
<1>1. \A e \in EvaluatedBy(<<i, k>>) : SameExpr(e, u, w)
  <2>1. \A e \in EvaluatedBy(<<i, k>>) : e \in DOMAIN ExprRank /\ ExprRank[e] <= n
    BY RankAssumption DEF LookedAtBelow, IsExpr
  <2>. QED BY <2>1, SameExprs
<1>2. \A o \in OperandsOf(<<i, k>>) : Operand(o, Attributes(u)) = Operand(o, Attributes(w))
  BY SameOperand DEF LookedAtBelow
<1>3. \A b \in LooksAt(<<i, k>>) : b \in AllAttributes
  BY LookedAtAre
<1>4. InChoice(i) => Settled(Def[i].choice, u, w)
  <2>1. InChoice(i) => ValueReads(Def[i].choice) \subseteq LooksAt(<<i, k>>)
    BY DEF LooksAt
  <2>2. InChoice(i) => Def[i].choice \in Choices
    BY SymbolInChoice DEF InChoice
  <2>. QED BY <2>1, <2>2, SameChoiceTri DEF LookedAtBelow
<1>5. k = "sel" => Settled(i, u, w)
  <2>1. k = "sel" => i \in Choices /\ i \notin Symbols
    BY ItemShape DEF KindsOf
  <2>2. k = "sel" => ValueReads(i) \subseteq LooksAt(<<i, k>>)
    BY <2>1 DEF ValueReads, LooksAt
  <2>. QED BY <2>1, <2>2, SameChoiceTri DEF LookedAtBelow
<1>. QED BY <1>1, <1>2, <1>3, <1>4, <1>5 DEF LooksAlike, LookedAtBelow, SameBelow

LEMMA SameNotTristate ==
  ASSUME NEW u, NEW w, NEW i, NEW k, LooksAlike(u, w, i, k)
  PROVE  NotTristate(i, u, Attributes(u)) = NotTristate(i, w, Attributes(w))
<1>1. IsTristate(i) => ModulesReads \subseteq LooksAt(<<i, k>>)
  BY DEF LooksAt
<1>2. IsTristate(i) => ModulesValue(Attributes(u)) = ModulesValue(Attributes(w))
  BY <1>1, SameModules DEF LooksAlike
<1>. QED BY <1>2 DEF NotTristate, LooksAlike, Settled

LEMMA SameVisibility ==
  ASSUME NEW u \in U!Users, NEW w \in U!Users, NEW i \in Items, LooksAlike(u, w, i, "vis")
  PROVE  Visibility(i, u, Attributes(u)) = Visibility(i, w, Attributes(w))
<1> DEFINE v == Attributes(u)
           x == Attributes(w)
           p == Def[i].prompts
<1>1. \A k \in DOMAIN p : ExprValue(p[k], u, v) = ExprValue(p[k], w, x)
  <2>1. \A k \in DOMAIN p : p[k] \in EvaluatedBy(<<i, "vis">>)
    BY DEF EvaluatedBy
  <2>. QED BY <2>1 DEF LooksAlike, SameExpr
<1>2. {ExprValue(p[k], u, v) : k \in DOMAIN p} = {ExprValue(p[k], w, x) : k \in DOMAIN p}
  BY <1>1
<1>3. PromptValue(i, u, v) = PromptValue(i, w, x)
  BY <1>2, Zenon DEF PromptValue
<1>4. \A y : VisibilityAt(i, y, u, v) = VisibilityAt(i, y, w, x)
  <2>1. \A y : HiddenByMode(i, y, u, v) = HiddenByMode(i, y, w, x)
    <3>1. \A y : ModeDecides(i, y) => InChoice(i)
      BY DEF ModeDecides
    <3>. QED BY <3>1 DEF HiddenByMode, LooksAlike, Settled
  <2>. QED BY <2>1, SameNotTristate DEF VisibilityAt
<1>. QED BY <1>3, <1>4 DEF Visibility

\* The first active entry of a list
LEMMA SameFirstActive ==
  ASSUME NEW u, NEW w, NEW list, \A k \in DOMAIN list : SameExpr(list[k].cond, u, w)
  PROVE  FirstActive(list, u, Attributes(u)) = FirstActive(list, w, Attributes(w))
<1>1. {k \in DOMAIN list : ExprValue(list[k].cond, u, Attributes(u)) # 0}
        = {k \in DOMAIN list : ExprValue(list[k].cond, w, Attributes(w)) # 0}
  BY DEF SameExpr
<1>. QED BY <1>1, Zenon DEF FirstActive

\* What tri_value is made of, but for the user value
SameTriParts(s, u, v, w, x) ==
  /\ v[Vis(s)] = x[Vis(s)]
  /\ FirstActive(Def[s].defaults, u, v) = FirstActive(Def[s].defaults, w, x)
  /\ DefaultValue(s, u, v) = DefaultValue(s, w, x)
  /\ ImpliedValue(s, u, v) = ImpliedValue(s, w, x)
  /\ ExprValue(Def[s].rev, u, v) = ExprValue(Def[s].rev, w, x)
  /\ ExprValue(Def[s].weak, u, v) = ExprValue(Def[s].weak, w, x)
  /\ NotTristate(s, u, v) = NotTristate(s, w, x)

LEMMA TriPartsAlike ==
  ASSUME NEW u \in U!Users, NEW w \in U!Users, NEW s \in Symbols, IsTri(s),
         LooksAlike(u, w, s, "tri")
  PROVE  SameTriParts(s, u, Attributes(u), w, Attributes(w))
<1> DEFINE v == Attributes(u)
           x == Attributes(w)
           d == Def[s]
<1>1. v[Vis(s)] = x[Vis(s)]
  <2>1. Vis(s) \in LooksAt(<<s, "tri">>)
    BY DEF LooksAt
  <2>. QED BY <2>1 DEF LooksAlike
<1>2. d.rev \in EvaluatedBy(<<s, "tri">>) /\ d.weak \in EvaluatedBy(<<s, "tri">>)
        /\ d.direct \in EvaluatedBy(<<s, "tri">>)
  BY DEF EvaluatedBy
<1>3. \A k \in DOMAIN d.defaults : d.defaults[k].cond \in EvaluatedBy(<<s, "tri">>)
                                    /\ d.defaults[k].val \in EvaluatedBy(<<s, "tri">>)
  BY DEF EvaluatedBy
<1>4. FirstActive(d.defaults, u, v) = FirstActive(d.defaults, w, x)
  BY <1>3, SameFirstActive DEF LooksAlike
<1>5. FirstActive(d.defaults, u, v) = 0 \/ FirstActive(d.defaults, u, v) \in DOMAIN d.defaults
  <2>1. IsList(d.defaults)
    BY ItemShape, TreeAssumption
  <2>. QED BY <2>1, FirstActiveType
<1>6. DefaultValue(s, u, v) = DefaultValue(s, w, x)
  BY <1>3, <1>4, <1>5 DEF DefaultValue, TriDefault, LooksAlike, SameExpr
<1>7. ImpliedValue(s, u, v) = ImpliedValue(s, w, x)
  BY <1>2 DEF ImpliedValue, LooksAlike, SameExpr
<1>8. NotTristate(s, u, v) = NotTristate(s, w, x)
  BY SameNotTristate
<1>9. /\ ExprValue(d.rev, u, v) = ExprValue(d.rev, w, x)
      /\ ExprValue(d.weak, u, v) = ExprValue(d.weak, w, x)
  BY <1>2 DEF LooksAlike, SameExpr
<1>. QED BY <1>1, <1>4, <1>6, <1>7, <1>8, <1>9 DEF SameTriParts

LEMMA SameTriValue ==
  ASSUME NEW u \in U!Users, NEW w \in U!Users, NEW s \in Symbols, IsTri(s),
         LooksAlike(u, w, s, "tri"), u[s] = w[s]
  PROVE  TriValue(s, u, Attributes(u)) = TriValue(s, w, Attributes(w))
<1> DEFINE v == Attributes(u)
           x == Attributes(w)
<1>1. SameTriParts(s, u, v, w, x)
  BY TriPartsAlike
<1>2. CASE InChoice(s)
  <2>1. <<Def[s].choice, "sel">> \in LooksAt(<<s, "tri">>)
    BY <1>2 DEF LooksAt
  <2>2. v[<<Def[s].choice, "sel">>] = x[<<Def[s].choice, "sel">>]
    BY <2>1 DEF LooksAlike
  <2>. QED BY <1>1, <1>2, <2>2 DEF TriValue, ValueInChoice, SameTriParts
<1>3. CASE ~InChoice(s)
  <2>1. UnpromotedValue(s, u, v) = UnpromotedValue(s, w, x)
    BY <1>1 DEF UnpromotedValue, ChosenValue, HasUserValue, SameTriParts
  <2>2. \A y : PromotedValue(s, y, u, v) = PromotedValue(s, y, w, x)
    BY <1>1 DEF PromotedValue, SameTriParts
  <2>. QED BY <1>3, <2>1, <2>2 DEF TriValue
<1>. QED BY <1>2, <1>3

\* What str_value is made of, but for the user value
SameStrParts(s, u, v, w, x) ==
  /\ v[Vis(s)] = x[Vis(s)]
  /\ FirstActive(Def[s].defaults, u, v) = FirstActive(Def[s].defaults, w, x)
  /\ FirstActive(Def[s].ranges, u, v) = FirstActive(Def[s].ranges, w, x)
  /\ \A k \in DOMAIN Def[s].defaults \cup {0} : StrDefaultAt(s, k, v) = StrDefaultAt(s, k, x)
  /\ \A k \in DOMAIN Def[s].ranges :
       /\ Operand(Def[s].ranges[k].low, v) = Operand(Def[s].ranges[k].low, x)
       /\ Operand(Def[s].ranges[k].high, v) = Operand(Def[s].ranges[k].high, x)

LEMMA StrPartsAlike ==
  ASSUME NEW u \in U!Users, NEW w \in U!Users, NEW s \in Symbols, LooksAlike(u, w, s, "str")
  PROVE  SameStrParts(s, u, Attributes(u), w, Attributes(w))
<1> DEFINE v == Attributes(u)
           x == Attributes(w)
           d == Def[s].defaults
           q == Def[s].ranges
<1>1. v[Vis(s)] = x[Vis(s)]
  <2>1. Vis(s) \in LooksAt(<<s, "str">>)
    BY DEF LooksAt
  <2>. QED BY <2>1 DEF LooksAlike
<1>2. \A o \in OperandsOf(<<s, "str">>) : Operand(o, v) = Operand(o, x)
  BY DEF LooksAlike
<1>3. \A k \in DOMAIN d \cup {0} : StrDefaultAt(s, k, v) = StrDefaultAt(s, k, x)
  <2>1. \A k \in DOMAIN d : d[k].val \in OperandsOf(<<s, "str">>)
    BY DEF OperandsOf
  <2>. QED BY <1>2, <2>1 DEF StrDefaultAt
<1>4. \A k \in DOMAIN q : /\ Operand(q[k].low, v) = Operand(q[k].low, x)
                          /\ Operand(q[k].high, v) = Operand(q[k].high, x)
  <2>1. \A k \in DOMAIN q : {q[k].low, q[k].high} \subseteq OperandsOf(<<s, "str">>)
    BY DEF OperandsOf
  <2>. QED BY <1>2, <2>1
<1>5. FirstActive(d, u, v) = FirstActive(d, w, x)
  <2>1. \A k \in DOMAIN d : d[k].cond \in EvaluatedBy(<<s, "str">>)
    BY DEF EvaluatedBy
  <2>. QED BY <2>1, SameFirstActive DEF LooksAlike
<1>6. FirstActive(q, u, v) = FirstActive(q, w, x)
  <2>1. \A k \in DOMAIN q : q[k].cond \in EvaluatedBy(<<s, "str">>)
    BY DEF EvaluatedBy
  <2>. QED BY <2>1, SameFirstActive DEF LooksAlike
<1>. QED BY <1>1, <1>3, <1>4, <1>5, <1>6 DEF SameStrParts

LEMMA SameStrValue ==
  ASSUME NEW u \in U!Users, NEW w \in U!Users, NEW s \in Symbols, ~IsTri(s),
         LooksAlike(u, w, s, "str"), u[s] = w[s]
  PROVE  /\ IntValue(s, u, Attributes(u)) = IntValue(s, w, Attributes(w))
         /\ StringValue(s, u, Attributes(u)) = StringValue(s, w, Attributes(w))
<1> DEFINE v == Attributes(u)
           x == Attributes(w)
           d == Def[s].defaults
           q == Def[s].ranges
<1>1. SameStrParts(s, u, v, w, x) /\ IsList(d) /\ IsList(q)
  BY ItemShape, TreeAssumption, StrPartsAlike
<1>2. FirstActive(d, u, v) \in DOMAIN d \cup {0} /\ FirstActive(q, u, v) \in DOMAIN q \cup {0}
  BY <1>1, FirstActiveType
<1>3. HasUserValue(s, u, v) = HasUserValue(s, w, x)
  BY <1>1 DEF HasUserValue, SameStrParts
<1>4. StringValue(s, u, v) = StringValue(s, w, x)
  BY <1>1, <1>2, <1>3 DEF StringValue, SameStrParts
<1>5. \A r \in DOMAIN q \cup {0} : \A y :
        /\ Clamped(s, r, y, v) = Clamped(s, r, y, x)
        /\ UsesUserInt(s, r, u, v) = UsesUserInt(s, r, w, x)
  <2>1. TAKE r \in DOMAIN q \cup {0}
  <2>2. TAKE y
  <2>3. CASE r = 0
    BY <1>3, <2>3 DEF Clamped, UsesUserInt
  <2>4. CASE r \in DOMAIN q
    BY <1>1, <1>3, <2>4 DEF Clamped, UsesUserInt, SameStrParts
  <2>. QED BY <2>3, <2>4
<1>6. IntValue(s, u, v) = IntValue(s, w, x)
  <2>1. \A r \in DOMAIN q \cup {0} : \A k \in DOMAIN d \cup {0} :
          IntValueAt(s, r, k, u, v) = IntValueAt(s, r, k, w, x)
    BY <1>1, <1>5 DEF IntValueAt, SameStrParts
  <2>. QED BY <1>1, <1>2, <2>1 DEF IntValue, SameStrParts
<1>. QED BY <1>4, <1>6

LEMMA SameAssignable ==
  ASSUME NEW u \in U!Users, NEW w \in U!Users, NEW i \in Items, LooksAlike(u, w, i, "asg")
  PROVE  Assignable(i, u, Attributes(u)) = Assignable(i, w, Attributes(w))
<1> DEFINE v == Attributes(u)
           x == Attributes(w)
<1>1. v[Vis(i)] = x[Vis(i)]
  <2>1. Vis(i) \in LooksAt(<<i, "asg">>)
    BY DEF LooksAt
  <2>. QED BY <2>1 DEF LooksAlike
<1>2. NotTristate(i, u, v) = NotTristate(i, w, x)
  BY SameNotTristate
<1>3. CASE i \in Choices
  BY <1>1, <1>2, <1>3 DEF Assignable, AssignableModes
<1>4. CASE i \notin Choices
  <2>1. {Def[i].rev, Def[i].weak} \subseteq EvaluatedBy(<<i, "asg">>)
    BY <1>4 DEF EvaluatedBy
  <2>2. /\ ExprValue(Def[i].rev, u, v) = ExprValue(Def[i].rev, w, x)
        /\ ExprValue(Def[i].weak, u, v) = ExprValue(Def[i].weak, w, x)
    BY <2>1 DEF LooksAlike, SameExpr
  <2>. QED BY <1>1, <1>2, <1>4, <2>2 DEF Assignable, AssignableIn
<1>. QED BY <1>3, <1>4

\* A choice with the same symbols visible and the same defaults active
SameDefaults(c, u, w) ==
  /\ \A s \in SymsOf(c) : Attributes(u)[Vis(s)] = Attributes(w)[Vis(s)]
  /\ \A k \in DOMAIN Def[c].defaults : SameExpr(Def[c].defaults[k].cond, u, w)

LEMMA SameDefaultSelection ==
  ASSUME NEW u, NEW w, NEW c \in Choices, SameDefaults(c, u, w)
  PROVE  DefaultSelection(c, u, Attributes(u)) = DefaultSelection(c, w, Attributes(w))
<1> DEFINE v == Attributes(u)
           x == Attributes(w)
           d == Def[c].defaults
           q == Def[c].syms
<1>1. \A k \in DOMAIN q : q[k] \in SymsOf(c)
  BY ChoiceListsSymbols
<1>2. \A k \in DOMAIN d : d[k].sym \in SymsOf(c)
  BY ChoiceListsSymbols
<1>3. \A s \in SymsOf(c) : v[Vis(s)] = x[Vis(s)]
  BY DEF SameDefaults
<1>4. \A k \in DOMAIN d : ExprValue(d[k].cond, u, v) = ExprValue(d[k].cond, w, x)
  BY DEF SameDefaults, SameExpr
<1>5. DefaultIndex(c, u, v) = DefaultIndex(c, w, x)
  <2>1. {k \in DOMAIN d : ExprValue(d[k].cond, u, v) # 0 /\ v[Vis(d[k].sym)] # 0}
          = {k \in DOMAIN d : ExprValue(d[k].cond, w, x) # 0 /\ x[Vis(d[k].sym)] # 0}
    BY <1>2, <1>3, <1>4
  <2>. QED BY <2>1, Zenon DEF DefaultIndex
<1>6. FirstVisible(q, v) = FirstVisible(q, x)
  <2>1. {k \in DOMAIN q : v[Vis(q[k])] # 0} = {k \in DOMAIN q : x[Vis(q[k])] # 0}
    BY <1>1, <1>3
  <2>. QED BY <2>1, Zenon DEF FirstVisible
<1>. QED BY <1>5, <1>6 DEF DefaultSelection, SelectionAt

LEMMA SameSelection ==
  ASSUME NEW u \in U!Users, NEW w \in U!Users, NEW c \in Choices, LooksAlike(u, w, c, "sel"),
         u[c].sel = w[c].sel \/ ChoiceTri(c, u, Attributes(u)) # 2
  PROVE  Selection(c, u, Attributes(u)) = Selection(c, w, Attributes(w))
<1> DEFINE v == Attributes(u)
           x == Attributes(w)
<1>1. c \in Items /\ c \notin Symbols
  BY ItemShape
<1>2. ChoiceTri(c, u, v) = ChoiceTri(c, w, x)
  BY DEF LooksAlike, Settled
<1>3. CASE ChoiceTri(c, u, v) # 2
  BY <1>2, <1>3 DEF Selection
<1>4. CASE ChoiceTri(c, u, v) = 2
  <2>1. \A s \in SymsOf(c) : v[Vis(s)] = x[Vis(s)]
    <3>1. TAKE s \in SymsOf(c)
    <3>2. \E k \in DOMAIN Def[c].syms : Def[c].syms[k] = s
      BY ChoiceListsSymbols
    <3>3. Vis(s) \in LooksAt(<<c, "sel">>)
      BY <3>2 DEF LooksAt
    <3>. QED BY <3>3 DEF LooksAlike
  <2>2. UserSelection(c, u, v) = UserSelection(c, w, x)
    <3>1. u[c].sel \in SymsOf(c) \cup {NoSym}
      BY <1>1, UserType, ItemShape, ChoiceUser
    <3>2. u[c].sel = w[c].sel
      BY <1>4
    <3>. QED BY <3>1, <3>2, <2>1 DEF UserSelection
  <2>3. SameDefaults(c, u, w)
    <3>1. \A k \in DOMAIN Def[c].defaults : Def[c].defaults[k].cond \in EvaluatedBy(<<c, "sel">>)
      BY DEF EvaluatedBy
    <3>. QED BY <2>1, <3>1 DEF LooksAlike, SameDefaults
  <2>4. DefaultSelection(c, u, v) = DefaultSelection(c, w, x)
    BY <2>3, SameDefaultSelection
  <2>. QED BY <1>2, <1>4, <2>2, <2>4 DEF Selection
<1>. QED BY <1>3, <1>4
-----------------------------------------------------------------------------
(***************************************************************************)
(* The frame of the engine: an attribute only depends on the attributes,   *)
(* the modes and the user value it looks at.                               *)
(***************************************************************************)
LEMMA SameAttribute ==
  ASSUME NEW u \in U!Users, NEW w \in U!Users, NEW i \in Items, NEW k \in KindsOf(i),
         LooksAlike(u, w, i, k), SameInput(u, w, i, k)
  PROVE  Attributes(u)[<<i, k>>] = Attributes(w)[<<i, k>>]
<1> DEFINE v == Attributes(u)
           x == Attributes(w)
<1>1. SUFFICES AttrValue(<<i, k>>, u, v) = AttrValue(<<i, k>>, w, x)
  BY EngineValues
<1>2. CASE k = "vis"
  <2>1. Visibility(i, u, v) = Visibility(i, w, x)
    BY <1>2, SameVisibility
  <2>. QED BY <1>2, <2>1 DEF AttrValue
<1>3. CASE k = "tri"
  <2>1. i \in Symbols /\ IsTri(i)
    BY <1>3, ItemShape DEF KindsOf, Items
  <2>2. u[i] = w[i]
    BY <1>3, <2>1 DEF SameInput
  <2>3. TriValue(i, u, v) = TriValue(i, w, x)
    BY <1>3, <2>1, <2>2, SameTriValue
  <2>. QED BY <1>3, <2>3 DEF AttrValue
<1>4. CASE k = "str"
  <2>1. i \in Symbols /\ ~IsTri(i)
    BY <1>4, ItemShape DEF KindsOf, Items
  <2>2. u[i] = w[i]
    BY <1>4, <2>1 DEF SameInput
  <2>3. IntValue(i, u, v) = IntValue(i, w, x) /\ StringValue(i, u, v) = StringValue(i, w, x)
    BY <1>4, <2>1, <2>2, SameStrValue
  <2>. QED BY <1>4, <2>3 DEF AttrValue
<1>5. CASE k = "asg"
  <2>1. Assignable(i, u, v) = Assignable(i, w, x)
    BY <1>5, SameAssignable
  <2>. QED BY <1>5, <2>1 DEF AttrValue
<1>6. CASE k = "sel"
  <2>1. i \in Choices
    BY <1>6 DEF KindsOf
  <2>2. u[i].sel = w[i].sel \/ ChoiceTri(i, u, v) # 2
    BY <1>6 DEF SameInput
  <2>3. Selection(i, u, v) = Selection(i, w, x)
    BY <1>6, <2>1, <2>2, SameSelection
  <2>. QED BY <1>6, <2>3 DEF AttrValue
<1>. QED BY <1>2, <1>3, <1>4, <1>5, <1>6 DEF KindsOf

LEMMA SameAtRank ==
  ASSUME NEW u \in U!Users, NEW w \in U!Users, NEW i \in Items, NEW k \in KindsOf(i),
         SameBelow(u, w, Rank[<<i, k>>]), SameModesBelow(u, w, Rank[<<i, k>>]),
         SameInput(u, w, i, k)
  PROVE  Attributes(u)[<<i, k>>] = Attributes(w)[<<i, k>>]
<1> DEFINE n == Rank[<<i, k>>]
<1>1. <<i, k>> \in AllAttributes
  BY DEF AllAttributes
<1>2. n \in Nat /\ LookedAtBelow(i, k, n) /\ SameBelow(u, w, n) /\ SameModesBelow(u, w, n)
  BY <1>1, RankAssumption DEF LookedAtBelow
<1> HIDE DEF n
<1>. QED BY <1>2, AlikeBelow, SameAttribute

\* All attributes up to a rank have the same input.
SameInputs(u, w, n) ==
  \A i \in Items : \A k \in KindsOf(i) : Rank[<<i, k>>] < n => SameInput(u, w, i, k)

\* ... and so the same value.
LEMMA SameAttributes ==
  ASSUME NEW u \in U!Users, NEW w \in U!Users, NEW n \in Nat,
         SameModesBelow(u, w, n), SameInputs(u, w, n)
  PROVE  SameBelow(u, w, n)
<1> DEFINE ranks == {m \in Nat : m <= n => SameBelow(u, w, m)}
<1>0. \A a \in AllAttributes : Rank[a] \in Nat
  BY RankAssumption
<1>1. 0 \in ranks
  BY <1>0 DEF SameBelow
<1>2. ASSUME NEW m \in Nat, m \in ranks PROVE m + 1 \in ranks
  <2>1. SUFFICES ASSUME m + 1 <= n, NEW a \in AllAttributes, Rank[a] < m + 1
                 PROVE  Attributes(u)[a] = Attributes(w)[a]
    BY DEF SameBelow
  <2>2. SameBelow(u, w, m)
    BY <1>2, <2>1
  <2>3. CASE Rank[a] < m
    BY <2>2, <2>3 DEF SameBelow
  <2>4. CASE ~(Rank[a] < m)
    <3>1. Rank[a] = m /\ m < n
      BY <1>0, <2>1, <2>4
    <3>2. PICK i \in Items : \E k \in KindsOf(i) : a = <<i, k>>
      BY DEF AllAttributes
    <3>3. PICK k \in KindsOf(i) : a = <<i, k>>
      BY <3>2
    <3>4. SameInput(u, w, i, k)
      BY <3>1, <3>3 DEF SameInputs
    <3>5. SameModesBelow(u, w, m)
      <4>1. \A c \in Choices : Vis(c) \in AllAttributes
        BY ItemShape, LookedAt
      <4>. QED BY <1>0, <3>1, <4>1 DEF SameModesBelow
    <3>. QED BY <2>2, <3>1, <3>3, <3>4, <3>5, SameAtRank
  <2>. QED BY <2>3, <2>4
<1>3. Nat \subseteq ranks
  <2> HIDE DEF ranks
  <2>. QED BY <1>1, <1>2, NumberInduction
<1>. QED BY <1>3

\* User values that differ only in selections that are not looked at, ...
AlikeUsers(u, w) ==
  /\ \A s \in Symbols : u[s] = w[s]
  /\ \A c \in Choices : /\ u[c].mode = w[c].mode
                        /\ u[c].sel = w[c].sel \/ ChoiceTri(c, u, Attributes(u)) # 2

AlikeAttributes(u, w) == /\ \A a \in AllAttributes : Attributes(u)[a] = Attributes(w)[a]
                         /\ \A c \in Choices : Settled(c, u, w)

\* ... give all attributes and all modes the same values.
LEMMA AlikeUsersSame ==
  ASSUME NEW u \in U!Users, NEW w \in U!Users, AlikeUsers(u, w)
  PROVE  AlikeAttributes(u, w)
<1>1. \A n \in Nat : SameModesBelow(u, w, n)
  BY DEF AlikeUsers, SameModesBelow
<1>2. \A n \in Nat : SameInputs(u, w, n)
  <2>1. \A i \in Items : \A k \in KindsOf(i) : k = "sel" => i \in Choices
    BY DEF KindsOf
  <2>. QED BY <2>1 DEF AlikeUsers, SameInputs, SameInput
<1>3. \A n \in Nat : SameBelow(u, w, n)
  BY <1>1, <1>2, SameAttributes
<1>4. ASSUME NEW a \in AllAttributes PROVE Attributes(u)[a] = Attributes(w)[a]
  <2>1. Rank[a] + 1 \in Nat /\ Rank[a] < Rank[a] + 1
    BY RankAssumption
  <2>. QED BY <1>3, <2>1 DEF SameBelow
<1>5. ASSUME NEW c \in Choices PROVE Settled(c, u, w)
  <2>1. c \in Items /\ u[c].mode = w[c].mode
    BY ItemShape DEF AlikeUsers
  <2>2. Attributes(u)[Vis(c)] = Attributes(w)[Vis(c)]
    BY <1>4, <2>1, LookedAt
  <2>3. ModulesValue(Attributes(u)) = ModulesValue(Attributes(w))
    BY <1>4, LookedAt, SameModules DEF ModulesReads
  <2>. QED BY <2>1, <2>2, <2>3 DEF Settled, ChoiceTri, WantedMode, PromotedMode
<1>. QED BY <1>4, <1>5 DEF AlikeAttributes
-----------------------------------------------------------------------------
(***************************************************************************)
(* Loading a file twice, from different user values.                       *)
(***************************************************************************)

\* A load goes line by line.
LEMMA LoadSteps ==
  ASSUME NEW u \in U!Users, NEW set \in SUBSET Items, NEW file, Len(file) \in Nat
  PROVE  \E after : /\ MergeSteps(after, u, set, file, Loads)
                    /\ Merge(u, set, file) = after[Len(file)]
<1> DEFINE S == Loads
<1>1. Loading(u, set) \in S
  BY DEF Loading, Loads
<1>2. \A k \in 1..Len(file) : \A st \in S : Assign(st, file[k]) \in S
  BY AssignType
<1>3. \E after : MergeSteps(after, u, set, file, S) /\ Merge(u, set, file) = after[Len(file)]
  <2> HIDE DEF S
  <2>. QED BY <1>1, <1>2, MergeIs, Z3
<1>. QED BY <1>3

\* Two loads go line by line, and what every line keeps of both holds after them.
LEMMA MergesKeep ==
  ASSUME NEW S, NEW u \in U!Users, NEW w \in U!Users, NEW set \in SUBSET Items,
         NEW file, Len(file) \in Nat,
         <<Loading(u, set), Loading(w, set)>> \in S,
         \A a \in Loads, b \in Loads : \A k \in 1..Len(file) :
           <<a, b>> \in S => <<Assign(a, file[k]), Assign(b, file[k])>> \in S
  PROVE  <<Merge(u, set, file), Merge(w, set, file)>> \in S
<1>3. PICK f : MergeSteps(f, u, set, file, Loads) /\ Merge(u, set, file) = f[Len(file)]
  BY LoadSteps
<1>4. PICK g : MergeSteps(g, w, set, file, Loads) /\ Merge(w, set, file) = g[Len(file)]
  BY LoadSteps
<1> DEFINE n == Len(file)
           kept == {k \in Nat : k <= n => <<f[k], g[k]>> \in S}
<1>5. 0 \in kept
  BY <1>3, <1>4 DEF MergeSteps
<1>6. ASSUME NEW k \in Nat, k \in kept PROVE k + 1 \in kept
  <2>1. SUFFICES ASSUME k + 1 <= n PROVE <<f[k + 1], g[k + 1]>> \in S
    OBVIOUS
  <2>2. k \in 0..n /\ k + 1 \in 0..n /\ k + 1 \in 1..n /\ k + 1 # 0 /\ (k + 1) - 1 = k /\ k <= n
    BY <2>1
  <2>3. f[k + 1] = Assign(f[k], file[k + 1]) /\ f[k] \in Loads
    BY <1>3, <2>2 DEF MergeSteps
  <2>4. g[k + 1] = Assign(g[k], file[k + 1]) /\ g[k] \in Loads
    BY <1>4, <2>2 DEF MergeSteps
  <2>5. <<f[k], g[k]>> \in S
    BY <1>6, <2>2
  <2>. QED BY <2>2, <2>3, <2>4, <2>5
<1>7. Nat \subseteq kept
  <2> HIDE DEF kept
  <2>. QED BY <1>5, <1>6, NumberInduction
<1>. QED BY <1>3, <1>4, <1>7

\* A load that no exception ends: the symbols that were set have user values.
Clean(st) == ~st.dead /\ \A s \in Symbols : s \in st.set => st.user[s] # NoUser

\* What a well-formed line does to user values and flags.
LEMMA AssignIs ==
  ASSUME NEW st \in Loads, Clean(st), NEW line, WellFormed(line),
         NEW s, s = line.sym, NEW x, x = line.val, NEW t, t = Assign(st, line)
  PROVE  /\ ~t.dead
         /\ t.set = st.set \cup {s} \cup (IF SetsMode(s, x) THEN {Def[s].choice} ELSE {})
         /\ \A r \in Symbols : t.user[r] = IF r = s THEN x ELSE st.user[r]
         /\ \A c \in Choices :
              t.user[c] = IF SetsMode(s, x) /\ c = Def[s].choice
                            THEN [mode |-> x, sel |-> IF x = 2 THEN s ELSE st.user[c].sel]
                            ELSE st.user[c]
<1> DEFINE a == Inferred(st, s, x)
           c == Def[s].choice
<1>1. s \in Symbols /\ x \in UserVals[s] /\ x # NoUser /\ t = Assigned(a, s, x)
  BY DEF WellFormed, Assign, Clean
<1>2. s \in Items /\ st.user \in U!Users /\ st.user = [i \in Items |-> st.user[i]]
  BY <1>1, ItemShape, UserType DEF Loads
<1>3. InChoice(s) => c \in Choices /\ c \in Items /\ c # s
  BY <1>1, SymbolInChoice, ItemShape
<1>4. /\ a.dead = st.dead
      /\ a.set = st.set \cup (IF SetsMode(s, x) THEN {c} ELSE {})
      /\ a.user = [i \in Items |-> a.user[i]]
      /\ \A i \in Items : a.user[i] = IF SetsMode(s, x) /\ i = c
                                        THEN [mode |-> x, sel |-> st.user[c].sel]
                                        ELSE st.user[i]
  <2>1. CASE SetsMode(s, x)
    <3>1. InChoice(s)
      BY <2>1 DEF SetsMode
    <3>2. a.user = [st.user EXCEPT ![c] = [mode |-> x, sel |-> st.user[c].sel]]
      BY <2>1 DEF Inferred, U!WithMode, Loads
    <3>3. a.dead = st.dead /\ a.set = st.set \cup {c}
      BY <2>1 DEF Inferred, Loads
    <3> HIDE DEF a
    <3>. QED BY <1>2, <1>3, <2>1, <3>1, <3>2, <3>3
  <2>2. CASE ~SetsMode(s, x)
    <3>1. a = st
      BY <2>2 DEF Inferred
    <3>. QED BY <1>2, <2>2, <3>1
  <2>. QED BY <2>1, <2>2
<1>5. ~WarningRaises(a, s)
  <2>1. s \in a.set => s \in st.set
    BY <1>3, <1>4 DEF SetsMode
  <2>2. a.user[s] = st.user[s]
    BY <1>2, <1>3, <1>4 DEF SetsMode
  <2>. QED BY <1>1, <2>1, <2>2 DEF WarningRaises, Clean
<1>6. a \in [user : {a.user}, set : {a.set}, dead : {a.dead}]
  BY DEF Inferred, Loads
<1> HIDE DEF a
<1>7. t = [a EXCEPT !.user = U!WithValue(a.user, s, x), !.set = a.set \cup {s}]
  BY <1>1, <1>5 DEF Assigned
<1>8. t.dead = st.dead /\ t.set = a.set \cup {s} /\ t.user = U!WithValue(a.user, s, x)
  BY <1>4, <1>6, <1>7
<1>9. U!SelectsChoice(s, x) <=> InChoice(s) /\ x = 2
  BY <1>1 DEF U!SelectsChoice, SymChoice, InChoice
<1>10. U!SelectsChoice(s, x) => SetsMode(s, x) /\ SymChoice[s] = c
  BY <1>1, <1>9 DEF SetsMode, SymChoice
<1>11. CASE U!SelectsChoice(s, x)
  <2>1. t.user = [a.user EXCEPT ![s] = x, ![c] = [mode |-> a.user[c].mode, sel |-> s]]
    BY <1>8, <1>10, <1>11 DEF U!WithValue
  <2>2. \A i \in Items : t.user[i] = IF i = c THEN [mode |-> a.user[c].mode, sel |-> s]
                                     ELSE IF i = s THEN x ELSE a.user[i]
    BY <1>2, <1>3, <1>4, <1>9, <1>11, <2>1
  <2>3. a.user[c].mode = x /\ SetsMode(s, x)
    BY <1>3, <1>4, <1>9, <1>10, <1>11
  <2>4. \A r \in Symbols : t.user[r] = IF r = s THEN x ELSE st.user[r]
    BY <1>3, <1>4, <1>9, <1>11, <2>2, ItemShape
  <2>5. \A d \in Choices : t.user[d] = IF d = c THEN [mode |-> x, sel |-> s] ELSE st.user[d]
    BY <1>1, <1>3, <1>4, <1>9, <1>11, <2>2, <2>3, ItemShape
  <2>. QED BY <1>4, <1>8, <1>9, <1>11, <2>3, <2>4, <2>5 DEF Clean
<1>12. CASE ~U!SelectsChoice(s, x)
  <2>1. t.user = [a.user EXCEPT ![s] = x]
    BY <1>8, <1>12 DEF U!WithValue
  <2>2. \A i \in Items : t.user[i] = IF i = s THEN x ELSE a.user[i]
    BY <1>2, <1>4, <2>1
  <2>3. SetsMode(s, x) => x # 2
    BY <1>9, <1>12 DEF SetsMode
  <2>4. SetsMode(s, x) => c \in Choices /\ c # s
    BY <1>3 DEF SetsMode
  <2>5. \A r \in Symbols : a.user[r] = st.user[r]
    BY <1>4, <2>4, ItemShape
  <2>6. \A d \in Choices : t.user[d] = a.user[d]
    BY <1>1, <2>2, ItemShape
  <2>7. \A r \in Symbols : t.user[r] = IF r = s THEN x ELSE st.user[r]
    BY <2>2, <2>5, ItemShape
  <2>8. \A d \in Choices :
          t.user[d] = IF SetsMode(s, x) /\ d = c
                        THEN [mode |-> x, sel |-> IF x = 2 THEN s ELSE st.user[d].sel]
                        ELSE st.user[d]
    <3>1. \A d \in Choices : t.user[d] = IF SetsMode(s, x) /\ d = c
                                           THEN [mode |-> x, sel |-> st.user[c].sel]
                                           ELSE st.user[d]
      BY <1>4, <2>6, ItemShape
    <3>. QED BY <2>3, <3>1
  <2>. QED BY <1>4, <1>8, <2>7, <2>8 DEF Clean
<1>. QED BY <1>11, <1>12

\* Two loads of a file so far: only the selection of a choice that the file puts at
\* m can differ in what was set.
LoadedAlike(a, b) ==
  /\ Clean(a) /\ Clean(b) /\ a.set = b.set
  /\ \A s \in Symbols : s \in a.set => a.user[s] = b.user[s]
  /\ \A c \in Choices : c \in a.set =>
       /\ a.user[c].mode = b.user[c].mode
       /\ a.user[c].mode # 1 => a.user[c].sel = b.user[c].sel

LEMMA AssignAlike ==
  ASSUME NEW a \in Loads, NEW b \in Loads, LoadedAlike(a, b), NEW line
  PROVE  LoadedAlike(Assign(a, line), Assign(b, line))
<1>1. CASE ~WellFormed(line)
  <2>1. Assign(a, line) = a /\ Assign(b, line) = b
    BY <1>1 DEF Assign
  <2>. QED BY <2>1
<1>2. CASE WellFormed(line)
  <2> DEFINE s == line.sym
             x == line.val
             t == Assign(a, line)
             q == Assign(b, line)
  <2>1. Clean(a) /\ Clean(b)
    BY DEF LoadedAlike
  <2>2. s \in Symbols /\ x # NoUser
    BY <1>2 DEF WellFormed
  <2>3. SetsMode(s, x) => Def[s].choice \in Choices /\ (x = 1 \/ x = 2)
    BY <2>2, SymbolInChoice DEF SetsMode
  <2>4. /\ ~t.dead /\ t.set = a.set \cup {s} \cup (IF SetsMode(s, x) THEN {Def[s].choice} ELSE {})
        /\ \A r \in Symbols : t.user[r] = IF r = s THEN x ELSE a.user[r]
        /\ \A c \in Choices :
             t.user[c] = IF SetsMode(s, x) /\ c = Def[s].choice
                           THEN [mode |-> x, sel |-> IF x = 2 THEN s ELSE a.user[c].sel]
                           ELSE a.user[c]
    BY <1>2, <2>1, AssignIs
  <2>5. /\ ~q.dead /\ q.set = b.set \cup {s} \cup (IF SetsMode(s, x) THEN {Def[s].choice} ELSE {})
        /\ \A r \in Symbols : q.user[r] = IF r = s THEN x ELSE b.user[r]
        /\ \A c \in Choices :
             q.user[c] = IF SetsMode(s, x) /\ c = Def[s].choice
                           THEN [mode |-> x, sel |-> IF x = 2 THEN s ELSE b.user[c].sel]
                           ELSE b.user[c]
    BY <1>2, <2>1, AssignIs
  <2> HIDE DEF s, x, t, q
  <2>6. t.set = q.set
    BY <2>4, <2>5 DEF LoadedAlike
  <2>7. \A r \in Symbols : r \in t.set => r = s \/ r \in a.set
    BY <2>3, <2>4, ItemShape
  <2>8. Clean(t) /\ Clean(q)
    BY <2>2, <2>4, <2>5, <2>6, <2>7 DEF Clean, LoadedAlike
  <2>9. \A r \in Symbols : r \in t.set => t.user[r] = q.user[r]
    BY <2>4, <2>5, <2>7 DEF LoadedAlike
  <2>10. ASSUME NEW c \in Choices, c \in t.set
         PROVE  /\ t.user[c].mode = q.user[c].mode
                /\ t.user[c].mode # 1 => t.user[c].sel = q.user[c].sel
    <3>1. CASE SetsMode(s, x) /\ c = Def[s].choice
      <4>1. /\ t.user[c] = [mode |-> x, sel |-> IF x = 2 THEN s ELSE a.user[c].sel]
            /\ q.user[c] = [mode |-> x, sel |-> IF x = 2 THEN s ELSE b.user[c].sel]
        BY <2>4, <2>5, <3>1
      <4>2. x = 1 \/ x = 2
        BY <2>3, <3>1
      <4>. QED BY <4>1, <4>2
    <3>2. CASE ~(SetsMode(s, x) /\ c = Def[s].choice)
      <4>1. c \in a.set
        BY <2>2, <2>4, <2>10, <3>2, ItemShape
      <4>2. t.user[c] = a.user[c] /\ q.user[c] = b.user[c]
        BY <2>4, <2>5, <3>2
      <4>. QED BY <4>1, <4>2 DEF LoadedAlike
    <3>. QED BY <3>1, <3>2
  <2>11. LoadedAlike(t, q)
    BY <2>6, <2>8, <2>9, <2>10 DEF LoadedAlike
  <2>. QED BY <2>11 DEF t, q
<1>. QED BY <1>1, <1>2

\* After a load with replace=True
LEMMA LoadAlike ==
  ASSUME NEW u \in U!Users, NEW w \in U!Users, NEW file, Len(file) \in Nat
  PROVE  /\ \A s \in Symbols : LoadedUser(u, file)[s] = LoadedUser(w, file)[s]
         /\ \A c \in Choices :
              /\ LoadedUser(u, file)[c].mode = LoadedUser(w, file)[c].mode
              /\ LoadedUser(u, file)[c].mode # 1 =>
                   LoadedUser(u, file)[c].sel = LoadedUser(w, file)[c].sel
<1> DEFINE a == Merge(u, {}, file)
           b == Merge(w, {}, file)
           S == {p \in Loads \X Loads : LoadedAlike(p[1], p[2])}
<1>1. <<Loading(u, {}), Loading(w, {})>> \in S
  BY DEF Loading, Loads, LoadedAlike, Clean
<1>2. \A p \in Loads, q \in Loads : \A k \in 1..Len(file) :
        <<p, q>> \in S => <<Assign(p, file[k]), Assign(q, file[k])>> \in S
  BY AssignAlike, AssignType
<1>3. <<a, b>> \in S
  <2> HIDE DEF S
  <2>. QED BY <1>1, <1>2, MergesKeep
<1>4. LoadedAlike(a, b) /\ a \in Loads /\ b \in Loads
  BY <1>3
<1> HIDE DEF a, b
<1>5. LoadedUser(u, file) = [i \in Items |-> IF i \in a.set THEN a.user[i] ELSE U!Untouched[i]]
  BY <1>4 DEF LoadedUser, Load, UnsetOthers, Loads, a
<1>6. LoadedUser(w, file) = [i \in Items |-> IF i \in b.set THEN b.user[i] ELSE U!Untouched[i]]
  BY <1>4 DEF LoadedUser, Load, UnsetOthers, Loads, b
<1>. QED BY <1>4, <1>5, <1>6, ItemShape DEF LoadedAlike

\* What a file sets a symbol to is in one of its lines.
LEMMA LoadedFromFile ==
  ASSUME NEW u \in U!Users, NEW file, Len(file) \in Nat, NEW s \in Symbols,
         LoadedUser(u, file)[s] # NoUser
  PROVE  \E k \in 1..Len(file) : file[k].sym = s /\ file[k].val = LoadedUser(u, file)[s]
<1> DEFINE HasLine(r, x) == \E k \in 1..Len(file) : file[k].sym = r /\ file[k].val = x
           S == {st \in Loads : Clean(st) /\ \A r \in Symbols : r \in st.set => HasLine(r, st.user[r])}
           a == Merge(u, {}, file)
<1>1. Loading(u, {}) \in S
  BY DEF Loading, Loads, Clean
<1>2. ASSUME NEW k \in 1..Len(file), NEW st \in S PROVE Assign(st, file[k]) \in S
  <2>1. CASE ~WellFormed(file[k])
    BY <2>1 DEF Assign
  <2>2. CASE WellFormed(file[k])
    <3> DEFINE t == Assign(st, file[k])
               r == file[k].sym
               x == file[k].val
    <3>1. st \in Loads /\ Clean(st) /\ r \in Symbols /\ x # NoUser /\ HasLine(r, x)
      BY <2>2 DEF WellFormed
    <3>2. \A q \in Symbols : q \in st.set => HasLine(q, st.user[q])
      OBVIOUS
    <3>3. t \in Loads
      BY <3>1, AssignType
    <3> HIDE DEF t, r, x, HasLine
    <3>4. /\ ~t.dead
          /\ t.set = st.set \cup {r} \cup (IF SetsMode(r, x) THEN {Def[r].choice} ELSE {})
          /\ \A q \in Symbols : t.user[q] = IF q = r THEN x ELSE st.user[q]
      BY <2>2, <3>1, AssignIs DEF t, r, x
    <3>5. \A q \in Symbols : q \in t.set => q \in st.set \cup {r}
      BY <3>1, <3>4, SymbolInChoice, ItemShape DEF SetsMode
    <3>6. Clean(t)
      BY <3>1, <3>4, <3>5 DEF Clean
    <3>7. \A q \in Symbols : q \in t.set => HasLine(q, t.user[q])
      BY <3>1, <3>2, <3>4, <3>5
    <3>. QED BY <3>3, <3>6, <3>7 DEF t
  <2>. QED BY <2>1, <2>2
<1>3. a \in S
  <2> HIDE DEF S
  <2>. QED BY <1>1, <1>2, MergeKeeps
<1>4. a \in Loads /\ (s \in a.set => HasLine(s, a.user[s]))
  BY <1>3
<1> HIDE DEF a, HasLine
<1>5. LoadedUser(u, file) = [i \in Items |-> IF i \in a.set THEN a.user[i] ELSE U!Untouched[i]]
  BY <1>4 DEF LoadedUser, Load, UnsetOthers, Loads, a
<1>6. U!Untouched[s] = NoUser /\ s \in Items
  BY ItemShape, SameItems DEF U!Untouched
<1>7. s \in a.set /\ LoadedUser(u, file)[s] = a.user[s]
  BY <1>5, <1>6
<1>. QED BY <1>4, <1>7 DEF HasLine
-----------------------------------------------------------------------------
(***************************************************************************)
(* Assignable values: what a new value changes ranks above what decides    *)
(* whether it is taken.                                                    *)
(***************************************************************************)

\* Two user values that differ in one symbol only: nothing below its value differs.
LEMMA SymbolChanges ==
  ASSUME NEW u \in U!Users, NEW w \in U!Users, NEW s \in Symbols, IsTri(s),
         \A i \in Items : i # s => w[i] = u[i]
  PROVE  /\ Rank[Value(s)] \in Nat /\ LookedAtBelow(s, "tri", Rank[Value(s)])
         /\ SameBelow(u, w, Rank[Value(s)]) /\ SameModesBelow(u, w, Rank[Value(s)])
<1> DEFINE n == Rank[Value(s)]
<1>1. <<s, "tri">> \in AllAttributes /\ Value(s) = <<s, "tri">>
  BY LookedAt DEF Value
<1>2. n \in Nat /\ LookedAtBelow(s, "tri", n)
  BY <1>1, RankAssumption DEF LookedAtBelow
<1>3. SameModesBelow(u, w, n)
  BY ItemShape DEF SameModesBelow
<1>4. SameInputs(u, w, n)
  <2>1. SUFFICES ASSUME NEW i \in Items, NEW k \in KindsOf(i), Rank[<<i, k>>] < n
                 PROVE  SameInput(u, w, i, k)
    BY DEF SameInputs
  <2>2. i = s => k # "tri" /\ k # "sel" /\ k # "str"
    BY <1>1, <1>2, <2>1, ItemShape DEF KindsOf
  <2>. QED BY <2>2 DEF SameInput
<1> HIDE DEF n
<1>5. SameBelow(u, w, n)
  BY <1>2, <1>3, <1>4, SameAttributes
<1>. QED BY <1>2, <1>3, <1>5 DEF n

\* A symbol that is in no choice
LEMMA AssignableSymbol ==
  ASSUME NEW u \in U!Users, NEW s \in Symbols, IsTri(s), ~InChoice(s),
         NEW x \in Assignable(s, u, Attributes(u)),
         ~(/\ Attributes(u)[Vis(s)] = 1
           /\ ExprValue(Def[s].rev, u, Attributes(u)) = 1
           /\ ExprValue(Def[s].weak, u, Attributes(u)) = 2)
  PROVE  x \in UserVals[s] /\ Attributes(U!WithValue(u, s, x))[Value(s)] = x
<1> DEFINE v == Attributes(u)
           w == U!WithValue(u, s, x)
           y == Attributes(w)
           n == Rank[Value(s)]
           vis == v[Vis(s)]
           rev == ExprValue(Def[s].rev, u, v)
           weak == ExprValue(Def[s].weak, u, v)
           bool == NotTristate(s, u, v)
<1>1. s \in Items /\ s \notin Choices /\ SymChoice[s] = NoChoice
  BY ItemShape DEF InChoice, SymChoice
<1>2. vis \in 0..2 /\ (vis = 1 => ~bool)
  <2>1. vis = 1 => ~bool
    BY <1>1, VisibilityValue DEF Visibility, VisibilityAt
  <2>. QED BY <1>1, <2>1, VisibilityType
<1>3. rev \in 0..2 /\ weak \in 0..2
  <2>1. <<s, "tri">> \in AllAttributes
    BY LookedAt DEF Value
  <2>2. {Def[s].rev, Def[s].weak} \subseteq EvaluatedBy(<<s, "tri">>)
    BY DEF EvaluatedBy
  <2>. QED BY <2>1, <2>2, EngineValues
<1>4. x \in AssignableIn(s, vis, rev, u, v)
  BY <1>1 DEF Assignable
<1>5. /\ vis # 0 /\ ~(vis = 1 /\ rev = 1 /\ weak = 2)
      /\ \/ rev = 2 /\ x = 2
         \/ rev < 2 /\ vis = 2 /\ x = 2
         \/ rev = 0 /\ vis = 2 /\ x = 0
         \/ rev < 2 /\ vis = 2 /\ x = 1 /\ ~bool /\ weak # 2
         \/ rev = 1 /\ vis = 1 /\ x = 1 /\ weak # 2
         \/ rev = 0 /\ vis = 1 /\ x = 0
         \/ rev = 0 /\ vis = 1 /\ x = 1 /\ weak # 2
         \/ rev = 0 /\ vis = 1 /\ x = 2 /\ weak = 2
  <2> HIDE DEF vis, rev, weak, bool
  <2>1. vis # 0
    BY <1>4 DEF AssignableIn
  <2>2. CASE rev = 2
    BY <1>4, <2>1, <2>2 DEF AssignableIn
  <2>3. CASE rev < 2 /\ vis = 2
    BY <1>3, <1>4, <2>3 DEF AssignableIn, weak, bool
  <2>4. CASE rev < 2 /\ vis = 1
    BY <1>3, <1>4, <2>4 DEF AssignableIn, weak, vis, rev
  <2>5. ~(vis = 1 /\ rev = 1 /\ weak = 2)
    BY DEF vis, rev, weak
  <2>. QED BY <1>2, <1>3, <2>1, <2>2, <2>3, <2>4, <2>5
<1>6. x \in UserVals[s]
  <2>1. bool \/ IsTristate(s)
    BY DEF NotTristate
  <2>2. x \in {0, 2} \/ (x = 1 /\ IsTristate(s))
    BY <1>2, <1>5, <2>1
  <2>. QED BY <2>2, UserValsAssumption
<1>7. w = [u EXCEPT ![s] = x]
  BY <1>1 DEF U!WithValue, U!SelectsChoice
<1>8. w \in U!Users /\ w[s] = x /\ \A i \in Items : i # s => w[i] = u[i]
  BY <1>1, <1>6, <1>7, WithValueType, UserType
<1> HIDE DEF w
<1>9. /\ n \in Nat /\ LookedAtBelow(s, "tri", n)
      /\ SameBelow(u, w, n) /\ SameModesBelow(u, w, n)
  BY <1>8, SymbolChanges
<1>10. y[Vis(s)] = vis
  <2>1. Vis(s) \in LooksAt(<<s, "tri">>)
    BY DEF LooksAt
  <2>. QED BY <1>1, <1>9, <2>1, LookedAt DEF LookedAtBelow, SameBelow
<1> HIDE DEF n
<1>11. ExprValue(Def[s].rev, w, y) = rev /\ ExprValue(Def[s].weak, w, y) = weak
  <2>1. \A e \in EvaluatedBy(<<s, "tri">>) : e \in DOMAIN ExprRank /\ ExprRank[e] <= n
    BY <1>9, RankAssumption DEF LookedAtBelow, IsExpr
  <2>2. {Def[s].rev, Def[s].weak} \subseteq EvaluatedBy(<<s, "tri">>)
    BY DEF EvaluatedBy
  <2>. QED BY <1>8, <1>9, <2>1, <2>2, SameExprs DEF SameExpr
<1>12. NotTristate(s, w, y) = bool
  <2>1. "tri" \in KindsOf(s)
    BY <1>1 DEF KindsOf
  <2>2. LooksAlike(u, w, s, "tri")
    BY <1>1, <1>8, <1>9, <2>1, AlikeBelow
  <2>. QED BY <2>2, SameNotTristate
<1>13. y[Value(s)] = PromotedValue(s, UnpromotedValue(s, w, y), w, y)
  BY <1>8, TriValueIs DEF TriValue
<1>14. UnpromotedValue(s, w, y) = Greater(Lesser(x, vis), rev)
  <2>1. x # NoUser
    BY <1>5, UserValsAssumption
  <2>. QED BY <1>5, <1>8, <1>10, <1>11, <2>1 DEF UnpromotedValue, ChosenValue, HasUserValue
<1>15. \A z : PromotedValue(s, z, w, y) = IF z = 1 /\ (bool \/ weak = 2) THEN 2 ELSE z
  BY <1>11, <1>12 DEF PromotedValue
<1> HIDE DEF vis, rev, weak, bool
<1>16. y[Value(s)] = x
  <2> DEFINE z == Greater(Lesser(x, vis), rev)
  <2>1. y[Value(s)] = IF z = 1 /\ (bool \/ weak = 2) THEN 2 ELSE z
    BY <1>13, <1>14, <1>15
  <2>2. CASE rev = 2 /\ x = 2
    BY <1>2, <2>1, <2>2 DEF Greater, Lesser
  <2>3. CASE rev < 2 /\ vis = 2 /\ x = 2
    BY <1>3, <2>1, <2>3 DEF Greater, Lesser
  <2>4. CASE rev = 0 /\ x = 0
    BY <1>2, <2>1, <2>4 DEF Greater, Lesser
  <2>5. CASE rev < 2 /\ x = 1 /\ vis # 0 /\ ~bool /\ weak # 2
    <3>1. z = 1
      BY <1>2, <1>3, <2>5 DEF Greater, Lesser
    <3>. QED BY <2>1, <2>5, <3>1
  <2>6. CASE rev = 0 /\ vis = 1 /\ x = 2 /\ weak = 2
    <3>1. z = 1
      BY <2>6 DEF Greater, Lesser
    <3>. QED BY <2>1, <2>6, <3>1
  <2>. QED BY <1>2, <1>5, <2>2, <2>3, <2>4, <2>5, <2>6
<1>. QED BY <1>6, <1>16 DEF w

\* Selects and implies do not reach the symbols of a choice.
LEMMA NotSelected ==
  ASSUME NEW u \in U!Users, NEW s \in Symbols, InChoice(s)
  PROVE  /\ ExprValue(Def[s].rev, u, Attributes(u)) = 0
         /\ ExprValue(Def[s].weak, u, Attributes(u)) = 0
<1>1. IsTri(s) /\ <<s, "tri">> \in AllAttributes
  BY SymbolInChoice, LookedAt DEF Value
<1>2. {Def[s].rev, Def[s].weak} \subseteq EvaluatedBy(<<s, "tri">>)
  BY DEF EvaluatedBy
<1>3. \A e \in EvaluatedBy(<<s, "tri">>) : e \in DOMAIN ExprRank
  BY <1>1, RankAssumption DEF IsExpr
<1>4. \A e \in {Def[s].rev, Def[s].weak} : e.op = "const" /\ e.v = 0
  BY TreeAssumption
<1>5. \A e \in {Def[s].rev, Def[s].weak} :
        ExprValue(e, u, Attributes(u)) = ValueOfParts(e, u, Attributes(u))
  BY <1>2, <1>3, EngineAssumption
<1>. QED BY <1>4, <1>5 DEF ValueOfParts

\* A choice symbol is visible at y in a choice in y mode only.
LEMMA VisibleAtY ==
  ASSUME NEW u \in U!Users, NEW v, v = Attributes(u),
         NEW c \in Choices, NEW s \in SymsOf(c), v[Vis(s)] = 2
  PROVE  ChoiceTri(c, u, v) = 2
<1>1. s \in Symbols /\ s \in Items /\ Def[s].choice = c /\ InChoice(s)
  BY ItemShape, TreeAssumption DEF SymsOf, InChoice
<1> DEFINE p == PromptValue(s, u, v)
           mode == ChoiceTri(c, u, v)
<1>2. VisibilityAt(s, p, u, v) = 2
  BY <1>1, VisibilityValue DEF Visibility
<1>3. ~HiddenByMode(s, p, u, v) /\ (p = 2 \/ (p = 1 /\ NotTristate(s, u, v)))
  BY <1>2 DEF VisibilityAt
<1>4. PICK k \in DOMAIN Def[s].prompts : ExprValue(Def[s].prompts[k], u, v) = p
  BY <1>1, <1>3, PromptValueType
<1>5. p <= mode /\ mode \in 0..2
  BY <1>1, <1>4, EngineValues, ChoiceTriType
<1>6. SUFFICES ASSUME mode = 1 PROVE FALSE
  BY <1>3, <1>5
<1>7. p = 1 /\ NotTristate(s, u, v)
  BY <1>3, <1>5, <1>6
<1>8. IsTristate(c) /\ ModulesValue(v) # 0
  BY <1>6 DEF ChoiceTri, PromotedMode
<1>9. ~IsTristate(s)
  BY <1>1, <1>6, <1>7, <1>8 DEF NotTristate
<1>10. HiddenByMode(s, p, u, v)
  BY <1>1, <1>6, <1>8, <1>9 DEF HiddenByMode, ModeDecides
<1>. QED BY <1>3, <1>10

\* A symbol of a choice
LEMMA AssignableChoiceSymbol ==
  ASSUME NEW u \in U!Users, NEW s \in Symbols, InChoice(s),
         NEW x \in Assignable(s, u, Attributes(u))
  PROVE  x \in UserVals[s] /\ Attributes(U!WithValue(u, s, x))[Value(s)] = x
<1> DEFINE v == Attributes(u)
           w == U!WithValue(u, s, x)
           y == Attributes(w)
           c == Def[s].choice
           vis == v[Vis(s)]
<1>1. s \in Items /\ s \notin Choices /\ IsTri(s) /\ SymChoice[s] = c
  BY ItemShape, SymbolInChoice DEF SymChoice
<1>2. c \in Choices /\ c \in Items /\ c # s /\ s \in SymsOf(c) /\ c # NoChoice /\ s # NoSym
  BY SymbolInChoice, ItemShape, TreeAssumption
<1>3. vis \in 0..2
  BY <1>1, VisibilityType
<1>4. x \in AssignableIn(s, vis, 0, u, v) /\ ExprValue(Def[s].weak, u, v) = 0
  BY <1>1, NotSelected DEF Assignable
<1>5. (vis = 2 /\ x = 2) \/ (vis = 1 /\ x \in {0, 1})
  <2> HIDE DEF vis
  <2>. QED BY <1>3, <1>4 DEF AssignableIn
<1>6. x \in UserVals[s]
  <2>1. vis = 1 => IsTristate(s)
    <3>1. vis = 1 => ~NotTristate(s, u, v)
      BY <1>1, VisibilityValue DEF Visibility, VisibilityAt
    <3>. QED BY <3>1 DEF NotTristate
  <2>. QED BY <1>1, <1>5, <2>1, UserValsAssumption
<1>7. w \in U!Users
  BY <1>6, WithValueType
<1>8. y[Value(s)] = ValueInChoice(s, y[Vis(s)], w, y) /\ y[<<c, "sel">>] = Selection(c, w, y)
  BY <1>1, <1>2, <1>7, TriValueIs, SelectionIs DEF TriValue
<1>9. CASE vis = 1
  <2>1. w = [u EXCEPT ![s] = x]
    BY <1>5, <1>9 DEF U!WithValue, U!SelectsChoice
  <2>2. w[s] = x /\ \A i \in Items : i # s => w[i] = u[i]
    BY <1>1, <2>1, UserType
  <2> DEFINE n == Rank[Value(s)]
  <2> HIDE DEF w
  <2>3. n \in Nat /\ LookedAtBelow(s, "tri", n) /\ SameBelow(u, w, n)
    BY <1>1, <1>7, <2>2, SymbolChanges
  <2>4. y[Vis(s)] = 1
    <3>1. Vis(s) \in LooksAt(<<s, "tri">>)
      BY DEF LooksAt
    <3>. QED BY <1>1, <1>9, <2>3, <3>1, LookedAt DEF LookedAtBelow, SameBelow
  <2>. QED BY <1>5, <1>6, <1>8, <1>9, <2>2, <2>4 DEF ValueInChoice, w
<1>10. CASE vis = 2
  <2> DEFINE n == Rank[<<c, "sel">>]
  <2>1. x = 2 /\ w = [u EXCEPT ![s] = x, ![c] = [mode |-> u[c].mode, sel |-> s]]
    BY <1>1, <1>2, <1>5, <1>10 DEF U!WithValue, U!SelectsChoice
  <2>2. /\ w[c].sel = s /\ w[c].mode = u[c].mode
        /\ \A i \in Items : i # s /\ i # c => w[i] = u[i]
    BY <1>1, <1>2, <2>1, UserType
  <2> HIDE DEF w
  <2>3. <<c, "sel">> \in AllAttributes /\ <<s, "tri">> \in AllAttributes
    BY <1>1, <1>2, LookedAt DEF Value
  <2>4. n \in Nat /\ LookedAtBelow(c, "sel", n)
    BY <2>3, RankAssumption DEF LookedAtBelow
  <2>5. n < Rank[<<s, "tri">>]
    <3>1. <<c, "sel">> \in LooksAt(<<s, "tri">>)
      BY DEF LooksAt
    <3>. QED BY <2>3, <3>1, RankAssumption
  <2>6. \A m \in Nat : SameModesBelow(u, w, m)
    BY <1>1, <1>2, <2>2, ItemShape DEF SameModesBelow
  <2>7. SameInputs(u, w, n)
    <3>1. SUFFICES ASSUME NEW i \in Items, NEW k \in KindsOf(i), Rank[<<i, k>>] < n
                   PROVE  SameInput(u, w, i, k)
      BY DEF SameInputs
    <3>2. Rank[<<s, "tri">>] \in Nat
      BY <2>3, RankAssumption
    <3>3. i = s => k # "tri" /\ k # "sel" /\ k # "str"
      BY <1>1, <2>4, <2>5, <3>1, <3>2 DEF KindsOf
    <3>4. i = c => k # "sel" /\ i \notin Symbols
      BY <1>2, <2>4, <3>1, ItemShape
    <3>. QED BY <2>2, <3>3, <3>4 DEF SameInput
  <2> HIDE DEF n
  <2>8. SameBelow(u, w, n)
    BY <1>7, <2>4, <2>6, <2>7, SameAttributes
  <2>9. y[Vis(s)] = 2
    <3>1. \E k \in DOMAIN Def[c].syms : Def[c].syms[k] = s
      BY <1>2, TreeAssumption DEF SymsOf
    <3>2. Vis(s) \in LooksAt(<<c, "sel">>)
      BY <3>1 DEF LooksAt
    <3>. QED BY <1>1, <1>10, <2>4, <2>8, <3>2, LookedAt DEF LookedAtBelow, SameBelow
  <2>10. ChoiceTri(c, w, y) = 2
    BY <1>2, <1>7, <2>9, VisibleAtY
  <2>11. Selection(c, w, y) = s
    BY <1>2, <2>2, <2>9, <2>10 DEF Selection, UserSelection
  <2>. QED BY <1>6, <1>8, <2>1, <2>9, <2>11 DEF ValueInChoice, w
<1>. QED BY <1>5, <1>9, <1>10

\* The mode of a choice
LEMMA AssignableMode ==
  ASSUME NEW u \in U!Users, NEW c \in Choices, NEW x \in Assignable(c, u, Attributes(u))
  PROVE  x \in Modes(c) /\ ChoiceTri(c, U!WithMode(u, c, x), Attributes(U!WithMode(u, c, x))) = x
<1> DEFINE v == Attributes(u)
           w == U!WithMode(u, c, x)
           y == Attributes(w)
           vis == v[Vis(c)]
           n == Rank[Vis(c)]
           bool == NotTristate(c, u, v)
<1>1. c \in Items /\ c \notin Symbols
  BY ItemShape
<1>2. vis \in 0..2 /\ (vis = 1 => ~bool)
  <2>1. vis = 1 => ~bool
    BY <1>1, VisibilityValue DEF Visibility, VisibilityAt
  <2>. QED BY <1>1, <2>1, VisibilityType
<1>3. x \in AssignableModes(c, vis, u, v)
  BY DEF Assignable
<1>4. \/ vis = 2 /\ x = 2
      \/ vis # 0 /\ x = 0 /\ Def[c].optional
      \/ vis # 0 /\ x = 1 /\ ~bool
  <2> HIDE DEF vis
  <2>. QED BY <1>2, <1>3 DEF AssignableModes
<1>5. bool <=> (IsTristate(c) => ModulesValue(v) = 0)
  BY <1>1 DEF NotTristate, InChoice
<1>6. x \in Modes(c)
  <2>1. bool \/ IsTristate(c)
    BY <1>5
  <2>. QED BY <1>4, <2>1, UserValsAssumption
<1>7. w = [u EXCEPT ![c] = [mode |-> x, sel |-> u[c].sel]]
  BY DEF U!WithMode
<1>8. /\ w \in U!Users /\ w[c].mode = x /\ w[c].sel = u[c].sel
      /\ \A i \in Items : i # c => w[i] = u[i]
  <2>1. w \in U!Users
    BY <1>6, WithModeType
  <2> HIDE DEF w
  <2>2. w[c] = [mode |-> x, sel |-> u[c].sel] /\ \A i \in Items : i # c => w[i] = u[i]
    BY <1>1, <1>7, UserType
  <2>. QED BY <2>1, <2>2
<1> HIDE DEF w
<1>9. Vis(c) \in AllAttributes /\ \A a \in AllAttributes : Rank[a] \in Nat
  BY <1>1, LookedAt, RankAssumption
<1>10. SameModesBelow(u, w, n)
  BY <1>8, <1>9, ItemShape DEF SameModesBelow
<1>11. SameInputs(u, w, n)
  BY <1>1, <1>8 DEF SameInputs, SameInput
<1>12. n \in Nat
  BY <1>9
<1>13. "vis" \in KindsOf(c) /\ Vis(c) = <<c, "vis">>
  BY DEF KindsOf, Vis
<1>14. SameBelow(u, w, n)
  <2> HIDE DEF n
  <2>. QED BY <1>8, <1>10, <1>11, <1>12, SameAttributes
<1>15. y[Vis(c)] = vis
  <2>1. SameInput(u, w, c, "vis")
    BY <1>1 DEF SameInput
  <2>. QED BY <1>1, <1>8, <1>10, <1>13, <1>14, <2>1, SameAtRank
<1>16. IsTristate(c) => ModulesValue(y) = ModulesValue(v)
  <2>1. IsTristate(c) => \A a \in ModulesReads : Rank[a] < n
    <3>1. IsTristate(c) => ModulesReads \subseteq LooksAt(<<c, "vis">>)
      BY DEF LooksAt
    <3>. QED BY <1>9, <1>13, <3>1, RankAssumption
  <2> HIDE DEF n
  <2>2. \A a \in ModulesReads : a \in AllAttributes
    BY LookedAt DEF ModulesReads
  <2>. QED BY <1>14, <2>1, <2>2, SameModules DEF SameBelow
<1>17. ChoiceTri(c, w, y) = IF WantedMode(c, w, y) = 1 /\ bool THEN 2 ELSE WantedMode(c, w, y)
  BY <1>5, <1>16 DEF ChoiceTri, PromotedMode
<1>18. WantedMode(c, w, y) = x
  <2>1. x # NoUser
    BY <1>4, UserValsAssumption
  <2>2. WantedMode(c, w, y) = Lesser(Greater(IF Def[c].optional THEN 0 ELSE 1, x), vis)
    BY <1>8, <1>15, <2>1 DEF WantedMode
  <2> HIDE DEF vis
  <2>. QED BY <1>2, <1>4, <2>2 DEF Lesser, Greater
<1>. QED BY <1>4, <1>6, <1>17, <1>18 DEF w
-----------------------------------------------------------------------------
(***************************************************************************)
(* The symbols of a choice tell its mode, unless all are at n.             *)
(***************************************************************************)
LEMMA SymbolTellsMode ==
  ASSUME NEW u \in U!Users, NEW v, v = Attributes(u), NEW c \in Choices, NEW s \in SymsOf(c)
  PROVE  /\ v[Value(s)] \in 0..2
         /\ v[Value(s)] # 0 => v[Vis(s)] # 0 /\ ChoiceTri(c, u, v) = v[Value(s)]
         /\ v[Value(s)] = 2 => Selection(c, u, v) = s
         /\ v[Value(s)] = 1 => IsTristate(c) /\ IsTristate(s)
<1>1. s \in Symbols /\ s \in Items /\ IsTri(s)
  BY ItemShape, TreeAssumption DEF SymsOf, InChoice
<1>2. v[Value(s)] \in 0..2 /\ (v[Value(s)] = 1 => IsTristate(s))
  BY <1>1, TriValueType
<1>3. v[Value(s)] = 1 => v[Vis(s)] = 1 /\ ChoiceTri(c, u, v) = 1
  BY ChoiceSymbolValue, VisibleAtM
<1>4. v[Value(s)] = 2 => v[Vis(s)] = 2 /\ ChoiceTri(c, u, v) = 2 /\ Selection(c, u, v) = s
  BY ChoiceSymbolValue, VisibleAtY
<1>5. ChoiceTri(c, u, v) = 1 => IsTristate(c)
  BY DEF ChoiceTri, PromotedMode
<1>. QED BY <1>2, <1>3, <1>4, <1>5

\* In y mode a visible choice symbol means that one is selected.
LEMMA VisibleMeansSelected ==
  ASSUME NEW u \in U!Users, NEW v, v = Attributes(u), NEW c \in Choices,
         ChoiceTri(c, u, v) = 2, NEW s \in SymsOf(c), v[Vis(s)] # 0
  PROVE  \E t \in SymsOf(c) : v[Vis(t)] = 2 /\ v[Value(t)] = 2 /\ Selection(c, u, v) = t
<1> DEFINE t == Selection(c, u, v)
<1>1. t \in SymsOf(c) /\ v[Vis(t)] # 0
  BY SelectionIsVisible
<1> HIDE DEF t
<1>2. t \in Items
  BY <1>1, ItemShape DEF SymsOf
<1>3. v[Vis(t)] \in 0..2 /\ v[Vis(t)] # 1
  BY <1>1, <1>2, VisibilityType, VisibleAtM
<1>4. v[Vis(t)] = 2
  BY <1>1, <1>3
<1>5. v[Value(t)] = 2
  BY <1>1, <1>4, ChoiceSymbolValue DEF t
<1>. QED BY <1>1, <1>4, <1>5 DEF t
-----------------------------------------------------------------------------
(***************************************************************************)
(* What a file sets is set after it is loaded.                             *)
(***************************************************************************)
LEMMA AssignClean ==
  ASSUME NEW st \in Loads, Clean(st), NEW line
  PROVE  /\ Assign(st, line) \in Loads /\ Clean(Assign(st, line))
         /\ st.set \subseteq Assign(st, line).set
         /\ WellFormed(line) => line.sym \in Assign(st, line).set
         /\ \A r \in Symbols : r \in Assign(st, line).set => r = line.sym \/ r \in st.set
<1>1. Assign(st, line) \in Loads
  BY AssignType
<1>2. CASE ~WellFormed(line)
  BY <1>1, <1>2 DEF Assign
<1>3. CASE WellFormed(line)
  <2> DEFINE s == line.sym
             x == line.val
             t == Assign(st, line)
  <2>1. s \in Symbols /\ x # NoUser
    BY <1>3 DEF WellFormed
  <2> HIDE DEF s, x, t
  <2>2. /\ ~t.dead
        /\ t.set = st.set \cup {s} \cup (IF SetsMode(s, x) THEN {Def[s].choice} ELSE {})
        /\ \A r \in Symbols : t.user[r] = IF r = s THEN x ELSE st.user[r]
    BY <1>3, AssignIs DEF s, x, t
  <2>3. \A r \in Symbols : r \in t.set => r = s \/ r \in st.set
    BY <2>1, <2>2, SymbolInChoice, ItemShape DEF SetsMode
  <2>4. Clean(t)
    BY <2>1, <2>2, <2>3 DEF Clean
  <2>. QED BY <1>1, <2>2, <2>3, <2>4 DEF s, t
<1>. QED BY <1>2, <1>3

LEMMA LinesAreSet ==
  ASSUME NEW u \in U!Users, NEW file, Len(file) \in Nat,
         NEW j \in 1..Len(file), WellFormed(file[j])
  PROVE  file[j].sym \in Merge(u, {}, file).set
<1> DEFINE n == Len(file)
<1>1. PICK after : MergeSteps(after, u, {}, file, Loads) /\ Merge(u, {}, file) = after[n]
  BY LoadSteps
<1> DEFINE Done(k) == Clean(after[k]) /\ (j <= k => file[j].sym \in after[k].set)
           kept == {k \in Nat : k <= n => Done(k)}
<1>2. 0 \in kept
  BY <1>1 DEF MergeSteps, Clean, Loading
<1>3. ASSUME NEW k \in Nat, k \in kept PROVE k + 1 \in kept
  <2>1. SUFFICES ASSUME k + 1 <= n PROVE Done(k + 1)
    OBVIOUS
  <2>2. k \in 0..n /\ k + 1 \in 0..n /\ k + 1 # 0 /\ (k + 1) - 1 = k /\ k <= n
    BY <2>1
  <2>3. after[k + 1] = Assign(after[k], file[k + 1]) /\ after[k] \in Loads
    BY <1>1, <2>2 DEF MergeSteps
  <2>4. Done(k)
    <3> HIDE DEF Done
    <3>. QED BY <1>3, <2>2
  <2>5. /\ Clean(after[k + 1]) /\ after[k].set \subseteq after[k + 1].set
        /\ WellFormed(file[k + 1]) => file[k + 1].sym \in after[k + 1].set
    BY <2>3, <2>4, AssignClean
  <2>. QED BY <2>4, <2>5
<1>4. n \in kept
  <2> HIDE DEF kept
  <2>. QED BY <1>2, <1>3, NumberInduction
<1>5. Done(n)
  <2> HIDE DEF Done
  <2>. QED BY <1>4
<1>. QED BY <1>1, <1>5

\* A symbol is written with a value that set_value() accepts.
Saved(s, u) ==
  WriteToConf(s, u, Attributes(u)) /\ Attributes(u)[Value(s)] \in UserVals[s] \ {NoUser}

\* A state of loading what was written under user values u
LoadsSaved(st, u) ==
  LET v == Attributes(u)
  IN  /\ Clean(st)
      /\ \A s \in Symbols : s \in st.set =>
           /\ Saved(s, u) /\ st.user[s] = v[Value(s)]
           /\ SetsMode(s, v[Value(s)]) =>
                /\ Def[s].choice \in st.set
                /\ v[Value(s)] = 2 => st.user[Def[s].choice].sel = s
      /\ \A c \in Choices : c \in st.set =>
           /\ st.user[c].mode = ChoiceTri(c, u, v)
           /\ \E s \in SymsOf(c) : s \in st.set /\ v[Value(s)] # 0

LEMMA AssignSaved ==
  ASSUME NEW u \in U!Users, NEW st \in Loads, LoadsSaved(st, u), NEW s \in Symbols,
         WriteToConf(s, u, Attributes(u))
  PROVE  LoadsSaved(Assign(st, Line(s, Attributes(u))), u)
<1> DEFINE v == Attributes(u)
           x == v[Value(s)]
           line == Line(s, v)
           t == Assign(st, line)
<1>1. line.sym = s /\ line.val = x
  BY DEF Line
<1>2. CASE ~WellFormed(line)
  BY <1>2 DEF Assign
<1>3. CASE WellFormed(line)
  <2>1. Saved(s, u) /\ x # NoUser
    BY <1>1, <1>3 DEF WellFormed, Saved
  <2>2. Clean(st) /\ Clean(t)
    BY AssignClean DEF LoadsSaved
  <2> DEFINE c == Def[s].choice
             sets == SetsMode(s, x)
  <2>3. sets => InChoice(s) /\ c \in Choices /\ s \in SymsOf(c) /\ x # 0 /\ x = ChoiceTri(c, u, v)
    <3>1. sets => InChoice(s) /\ x # 0
      BY DEF SetsMode
    <3>. QED BY <3>1, SymbolInChoice, SymbolTellsMode
  <2> HIDE DEF t, line
  <2>4. /\ t.set = st.set \cup {s} \cup (IF sets THEN {c} ELSE {})
        /\ \A r \in Symbols : t.user[r] = IF r = s THEN x ELSE st.user[r]
        /\ \A d \in Choices :
             t.user[d] = IF sets /\ d = c THEN [mode |-> x, sel |-> IF x = 2 THEN s ELSE st.user[d].sel]
                         ELSE st.user[d]
    BY <1>1, <1>3, <2>2, AssignIs DEF t
  <2> HIDE DEF sets, x, c
  <2>5. ASSUME NEW r \in Symbols, r \in t.set
        PROVE  /\ Saved(r, u) /\ t.user[r] = v[Value(r)]
               /\ SetsMode(r, v[Value(r)]) =>
                    /\ Def[r].choice \in t.set
                    /\ v[Value(r)] = 2 => t.user[Def[r].choice].sel = r
    <3>1. CASE r = s
      <4>1. Saved(r, u) /\ t.user[r] = v[Value(r)]
        BY <2>1, <2>4, <3>1 DEF x
      <4>2. SetsMode(r, v[Value(r)]) => sets /\ c = Def[r].choice
        BY <3>1 DEF sets, x, c
      <4>3. sets /\ v[Value(r)] = 2 => t.user[c].sel = r
        BY <2>3, <2>4, <3>1 DEF x
      <4>. QED BY <2>4, <4>1, <4>2, <4>3
    <3>2. CASE r # s
      <4>1. r \in st.set
        BY <2>3, <2>4, <2>5, <3>2, ItemShape
      <4>2. /\ Saved(r, u) /\ st.user[r] = v[Value(r)] /\ t.user[r] = st.user[r]
            /\ SetsMode(r, v[Value(r)]) =>
                 /\ Def[r].choice \in st.set
                 /\ v[Value(r)] = 2 => st.user[Def[r].choice].sel = r
        BY <2>4, <3>2, <4>1 DEF LoadsSaved
      <4>3. ASSUME SetsMode(r, v[Value(r)]), v[Value(r)] = 2
            PROVE  t.user[Def[r].choice].sel = r
        <5>1. Def[r].choice \in Choices /\ r \in SymsOf(Def[r].choice)
          BY <4>3, SymbolInChoice DEF SetsMode
        <5>2. ChoiceTri(Def[r].choice, u, v) = 2 /\ Selection(Def[r].choice, u, v) = r
          BY <4>3, <5>1, SymbolTellsMode
        <5>3. CASE sets /\ Def[r].choice = c
          <6>1. x = 2
            BY <2>3, <5>2, <5>3
          <6>2. Selection(c, u, v) = s
            BY <2>3, <5>3, <6>1, SymbolTellsMode DEF x
          <6>. QED BY <3>2, <5>2, <5>3, <6>2
        <5>4. CASE ~(sets /\ Def[r].choice = c)
          <6>1. t.user[Def[r].choice] = st.user[Def[r].choice]
            BY <2>4, <5>1, <5>4
          <6>. QED BY <4>2, <4>3, <6>1
        <5>. QED BY <5>3, <5>4
      <4>. QED BY <2>4, <4>2, <4>3
    <3>. QED BY <3>1, <3>2
  <2>6. ASSUME NEW d \in Choices, d \in t.set
        PROVE  /\ t.user[d].mode = ChoiceTri(d, u, v)
               /\ \E r \in SymsOf(d) : r \in t.set /\ v[Value(r)] # 0
    <3>1. CASE sets /\ d = c
      <4>1. t.user[d] = [mode |-> x, sel |-> IF x = 2 THEN s ELSE st.user[d].sel]
        BY <2>4, <3>1
      <4>2. x = ChoiceTri(d, u, v)
        BY <2>3, <3>1
      <4>3. s \in SymsOf(d) /\ s \in t.set /\ v[Value(s)] # 0
        BY <2>3, <2>4, <3>1 DEF x
      <4>. QED BY <4>1, <4>2, <4>3
    <3>2. CASE ~(sets /\ d = c)
      <4>1. d \in st.set /\ t.user[d] = st.user[d]
        BY <2>4, <2>6, <3>2, ItemShape
      <4>2. st.set \subseteq t.set
        BY <2>4
      <4>. QED BY <4>1, <4>2 DEF LoadsSaved
    <3>. QED BY <3>1, <3>2
  <2>7. LoadsSaved(t, u)
    BY <2>2, <2>5, <2>6 DEF LoadsSaved
  <2>. QED BY <2>7 DEF t, line
<1>. QED BY <1>2, <1>3

\* A symbol that a file need not have: it has its value without a user value.
Derived(s, u) ==
  LET v == Attributes(u)
      val == v[Value(s)]
      vis == v[Vis(s)]
      rev == ExprValue(Def[s].rev, u, v)
  IN  IF InChoice(s) THEN val = 0 \/ (SelectedByDefault(s, u, v) /\ ~IsTristate(Def[s].choice))
      ELSE IF ~IsTri(s) THEN vis = 0 \/ val = StrDefault(s, u, v)
      ELSE \/ CannotBeChanged(s, u, v) /\ ~(vis = 1 /\ rev = 1)
           \/ val = StrDefault(s, u, v) /\ (vis # 0 => ExprValue(Def[s].direct, u, v) # 0)

\* A file has the symbols that are wanted; those that it lacks can be derived.
Suffices(wanted, u) ==
  /\ wanted \subseteq WrittenSymbols(u, Attributes(u))
  /\ \A s \in WrittenSymbols(u, Attributes(u)) \ wanted : Derived(s, u)

SymbolReloaded(s, u, w) ==
  \/ w[s] = Attributes(u)[Value(s)] /\ Saved(s, u)
  \/ w[s] = NoUser /\ (Saved(s, u) => Derived(s, u))

ChoiceReloaded(c, u, w) ==
  LET v == Attributes(u)
  IN  /\ \A s \in SymsOf(c) : v[Value(s)] # 0 =>
           \/ w[c].mode = ChoiceTri(c, u, v) /\ (v[Value(s)] = 2 => w[c].sel = s)
           \/ w[c].mode = NoUser /\ w[c].sel = NoSym /\ Derived(s, u)
      /\ (\A s \in SymsOf(c) : v[Value(s)] = 0) => w[c].mode = NoUser

\* What loading what was written under u leaves as user values w
Reloaded(u, w) ==
  /\ \A s \in Symbols : SymbolReloaded(s, u, w)
  /\ \A c \in Choices : ChoiceReloaded(c, u, w)

\* The lines of what is to be written, and no others
LEMMA LinesAre ==
  ASSUME NEW wanted, NEW v
  PROVE  /\ Len(Lines(wanted, v)) \in Nat
         /\ \A k \in 1..Len(Lines(wanted, v)) :
              \E s \in Symbols \cap wanted : Lines(wanted, v)[k] = Line(s, v)
         /\ \A s \in Symbols \cap wanted :
              \E k \in 1..Len(Lines(wanted, v)) : Lines(wanted, v)[k] = Line(s, v)
<1> DEFINE f == Lines(wanted, v)
           kept == Within(SymbolOrder, wanted)
           S == {Line(s, v) : s \in Symbols \cap wanted}
<1>1. f \in Seq(S)
  BY LinesType
<1>2. Len(SymbolOrder) \in Nat /\ DOMAIN SymbolOrder = 1..Len(SymbolOrder)
  BY UserValsAssumption
<1>3. \A k \in 1..Len(SymbolOrder) : SymbolOrder[k] \in wanted =>
        \E j \in DOMAIN kept : kept[j] = SymbolOrder[k]
  BY <1>2, WithinIs
<1>4. DOMAIN f = DOMAIN kept /\ \A j \in DOMAIN kept : f[j] = Line(kept[j], v)
  BY DEF Lines
<1> HIDE DEF f, kept, S
<1>5. DOMAIN f = 1..Len(f) /\ Len(f) \in Nat /\ \A k \in 1..Len(f) : f[k] \in S
  BY <1>1
<1>6. ASSUME NEW s \in Symbols \cap wanted PROVE \E k \in 1..Len(f) : f[k] = Line(s, v)
  <2>1. PICK k \in 1..Len(SymbolOrder) : SymbolOrder[k] = s
    BY <1>2, UserValsAssumption
  <2>2. PICK j \in DOMAIN kept : kept[j] = s
    BY <1>3, <2>1
  <2>. QED BY <1>4, <1>5, <2>2
<1>7. \A k \in 1..Len(f) : \E s \in Symbols \cap wanted : f[k] = Line(s, v)
  BY <1>5 DEF S
<1>. QED BY <1>5, <1>6, <1>7 DEF f

LEMMA ReloadIs ==
  ASSUME NEW u \in U!Users, NEW start \in U!Users, NEW wanted, Suffices(wanted, u), NEW w,
         w = LoadedUser(start, Lines(wanted, Attributes(u)))
  PROVE  w \in U!Users /\ Reloaded(u, w) /\ \A s \in Symbols \ wanted : w[s] = NoUser
<1> DEFINE v == Attributes(u)
           f == Lines(wanted, v)
           a == Merge(start, {}, f)
           S == {st \in Loads : LoadsSaved(st, u) /\ \A s \in Symbols : s \in st.set => s \in wanted}
<1>0. \A s \in Symbols : /\ s \in wanted => WriteToConf(s, u, v)
                         /\ WriteToConf(s, u, v) => s \in wanted \/ Derived(s, u)
  BY DEF Suffices, WrittenSymbols
<1>1. Len(f) \in Nat
  BY LinesAre
<1>2. w \in U!Users
  BY <1>1, LoadType DEF LoadedUser, Loads
<1>3. Loading(start, {}) \in S
  BY DEF Loading, Loads, LoadsSaved, Clean
<1>4. ASSUME NEW k \in 1..Len(f), NEW st \in S PROVE Assign(st, f[k]) \in S
  <2>1. PICK s \in Symbols : s \in wanted /\ f[k] = Line(s, v)
    BY LinesAre
  <2>2. s \in Symbols /\ s \in wanted
    BY <2>1
  <2>3. WriteToConf(s, u, v)
    BY <1>0, <2>2
  <2>4. st \in Loads /\ LoadsSaved(st, u) /\ Clean(st) /\ \A r \in Symbols : r \in st.set => r \in wanted
    BY <1>4 DEF LoadsSaved
  <2>5. Assign(st, f[k]) \in Loads /\ LoadsSaved(Assign(st, f[k]), u)
    BY <2>1, <2>3, <2>4, AssignSaved, AssignType
  <2>6. \A r \in Symbols : r \in Assign(st, f[k]).set => r = f[k].sym \/ r \in st.set
    BY <2>4, AssignClean
  <2>7. f[k].sym = s
    BY <2>1 DEF Line
  <2>. QED BY <2>1, <2>4, <2>5, <2>6, <2>7
<1>5. a \in S
  <2> HIDE DEF S, f
  <2>. QED BY <1>1, <1>3, <1>4, MergeKeeps
<1>6. a \in Loads /\ LoadsSaved(a, u) /\ \A s \in Symbols : s \in a.set => s \in wanted
  BY <1>5
<1>7. \A k \in 1..Len(f) : WellFormed(f[k]) => f[k].sym \in a.set
  <2> HIDE DEF f
  <2>. QED BY <1>1, LinesAreSet
<1>8. ASSUME NEW s \in Symbols, Saved(s, u), ~Derived(s, u) PROVE s \in a.set
  <2>1. PICK k \in 1..Len(f) : f[k] = Line(s, v)
    BY <1>0, <1>8, LinesAre DEF Saved
  <2>2. WellFormed(f[k]) /\ f[k].sym = s
    BY <1>8, <2>1 DEF WellFormed, Line, Saved
  <2>. QED BY <1>7, <2>2
<1> HIDE DEF f
<1>9. w = [i \in Items |-> IF i \in a.set THEN a.user[i] ELSE U!Untouched[i]]
  <2> HIDE DEF a
  <2>. QED BY <1>6 DEF LoadedUser, Load, UnsetOthers, Loads, a, f
<1> HIDE DEF a
<1>10. \A i \in Items : U!Untouched[i] = IF i \in Symbols THEN NoUser ELSE U!UntouchedChoice
  BY SameItems DEF U!Untouched
<1>11. ASSUME NEW s \in Symbols
       PROVE  \/ w[s] = v[Value(s)] /\ Saved(s, u)
              \/ w[s] = NoUser /\ (Saved(s, u) => Derived(s, u))
  <2>1. CASE s \in a.set
    BY <1>6, <1>9, <2>1, ItemShape DEF LoadsSaved
  <2>2. CASE s \notin a.set
    BY <1>8, <1>9, <1>10, <2>2, ItemShape
  <2>. QED BY <2>1, <2>2
<1>12. ASSUME NEW c \in Choices, c \notin a.set PROVE w[c].mode = NoUser /\ w[c].sel = NoSym
  BY <1>9, <1>10, <1>12, ItemShape DEF U!UntouchedChoice
<1>13. ASSUME NEW c \in Choices, NEW s \in SymsOf(c), v[Value(s)] # 0
       PROVE  \/ w[c].mode = ChoiceTri(c, u, v) /\ (v[Value(s)] = 2 => w[c].sel = s)
              \/ w[c].mode = NoUser /\ w[c].sel = NoSym /\ Derived(s, u)
  <2>1. s \in Symbols /\ InChoice(s) /\ Def[s].choice = c /\ IsTri(s)
    BY TreeAssumption DEF SymsOf, InChoice
  <2>2. v[Value(s)] \in {1, 2} /\ v[Vis(s)] # 0 /\ (v[Value(s)] = 1 => IsTristate(c) /\ IsTristate(s))
    BY <1>13, SymbolTellsMode
  <2>3. SetsMode(s, v[Value(s)])
    BY <2>1, <2>2 DEF SetsMode
  <2>4. Saved(s, u)
    BY <2>1, <2>2, UserValsAssumption DEF Saved, WriteToConf
  <2>5. CASE s \in a.set
    <3>1. c \in a.set /\ (v[Value(s)] = 2 => a.user[c].sel = s) /\ a.user[c].mode = ChoiceTri(c, u, v)
      BY <1>6, <2>1, <2>3, <2>5 DEF LoadsSaved
    <3>. QED BY <1>9, <3>1, ItemShape
  <2>6. CASE s \notin a.set
    <3>1. Derived(s, u)
      BY <1>8, <2>1, <2>4, <2>6
    <3>2. SelectedByDefault(s, u, v) /\ v[Value(s)] = 2
      BY <1>13, <2>1, <3>1 DEF Derived, SelectedByDefault
    <3>3. c \notin a.set
      <4>1. SUFFICES ASSUME NEW t \in SymsOf(c), t \in a.set, v[Value(t)] # 0 PROVE FALSE
        BY <1>6 DEF LoadsSaved
      <4>2. ChoiceTri(c, u, v) = 2 /\ Selection(c, u, v) = s
        BY <3>2, SymbolTellsMode
      <4>3. v[Value(t)] = 2
        BY <4>1, <4>2, SymbolTellsMode
      <4>. QED BY <2>6, <4>1, <4>2, <4>3, SymbolTellsMode
    <3>. QED BY <1>12, <3>1, <3>3
  <2>. QED BY <2>5, <2>6
<1>14. ASSUME NEW c \in Choices, \A s \in SymsOf(c) : v[Value(s)] = 0 PROVE w[c].mode = NoUser
  <2>1. c \notin a.set
    BY <1>6, <1>14 DEF LoadsSaved
  <2>. QED BY <1>12, <2>1
<1>15. \A s \in Symbols \ wanted : w[s] = NoUser
  BY <1>6, <1>9, <1>10, ItemShape
<1>16. \A s \in Symbols : SymbolReloaded(s, u, w)
  BY <1>11 DEF SymbolReloaded
<1>17. \A c \in Choices : ChoiceReloaded(c, u, w)
  BY <1>13, <1>14 DEF ChoiceReloaded
<1>. QED BY <1>2, <1>15, <1>16, <1>17 DEF Reloaded
-----------------------------------------------------------------------------
(***************************************************************************)
(* ChoicesIn is what its definition says.                                  *)
(***************************************************************************)
LEMMA ChoicesInIs ==
  ASSUME NEW e \in DOMAIN ExprRank
  PROVE  /\ ChoicesIn[e] \subseteq Choices
         /\ e.op = "item" => ChoicesIn[e] = {e.i} \cap Choices
         /\ e.op = "not" => ChoicesIn[e] = ChoicesIn[e.a]
         /\ e.op \in {"and", "or"} =>
              ChoicesIn[e] = ChoicesIn[e.a] \cup (ChoicesIn[e.b] \ ChoiceBefore(e))
<1> DEFINE D == DOMAIN ExprRank
           S == SUBSET Choices
           F == [D -> S]
           In(f, d) == IF d.op = "item" THEN {d.i} \cap Choices
                       ELSE IF d.op = "not" THEN f[d.a]
                       ELSE IF d.op \in {"and", "or"} THEN f[d.a] \cup (f[d.b] \ ChoiceBefore(d))
                       ELSE {}
           All(f) == [d \in D |-> In(f, d)]
           Step == [d \in D |-> [f \in F |-> In(f, d)]]
           some == [d \in D |-> {}]
<1>1. \A d \in D : /\ ExprRank[d] \in Nat
                   /\ d.op = "not" => d.a \in D /\ ExprRank[d.a] < ExprRank[d]
                   /\ d.op \in {"and", "or"} => /\ d.a \in D /\ ExprRank[d.a] < ExprRank[d]
                                                /\ d.b \in D /\ ExprRank[d.b] < ExprRank[d]
  <2>1. ASSUME NEW d \in D
        PROVE  /\ ExprRank[d] \in Nat
               /\ d.op = "not" => d.a \in D /\ ExprRank[d.a] < ExprRank[d]
               /\ d.op \in {"and", "or"} => /\ d.a \in D /\ ExprRank[d.a] < ExprRank[d]
                                            /\ d.b \in D /\ ExprRank[d.b] < ExprRank[d]
    BY RankAssumption DEF ExprRanked, IsExpr
  <2>. QED BY <2>1
<1>2. ASSUME NEW d \in D, NEW f \in F PROVE In(f, d) \in S
  BY <1>1
<1>3. Step \in [D -> [F -> S]] /\ some \in F
  <2> HIDE DEF In, F
  <2>1. Step \in [D -> [F -> S]]
    BY <1>2
  <2>. QED BY <2>1 DEF F
<1>4. Ranks(D, ExprRank)
  BY <1>1 DEF Ranks
<1>5. LooksBelow(D, S, ExprRank, Step)
  <2>1. SUFFICES ASSUME NEW d \in D, NEW g \in F, NEW h \in F,
                        \A c \in D : ExprRank[c] < ExprRank[d] => g[c] = h[c]
                 PROVE  Step[d][g] = Step[d][h]
    BY DEF LooksBelow
  <2>2. In(g, d) = In(h, d)
    BY <1>1, <2>1
  <2>. QED BY <2>2
<1>6. PICK f \in F : Fixed(D, Step, f)
  <2> HIDE DEF Step, D, some, S
  <2>. QED BY <1>3, <1>4, <1>5, RankedFunction
<1>7. f = All(f)
  <2>1. \A d \in D : Step[d][f] = In(f, d)
    OBVIOUS
  <2> HIDE DEF Step, In
  <2>. QED BY <1>6, <2>1 DEF Fixed
<1> DEFINE Shows(g) == g = All(g)
           chosen == CHOOSE g : Shows(g)
<1>8. ChoicesIn = chosen
  BY DEF ChoicesIn
<1>9. Shows(chosen)
  <2> HIDE DEF All
  <2>. QED BY <1>7
<1> HIDE DEF chosen
<1>10. \A d \in D : ChoicesIn[d] = In(ChoicesIn, d)
  BY <1>8, <1>9
<1> DEFINE ranks == {k \in Nat : \A d \in D : ExprRank[d] < k => ChoicesIn[d] \in S}
<1>11. 0 \in ranks
  BY <1>1
<1>12. ASSUME NEW k \in Nat, k \in ranks PROVE k + 1 \in ranks
  <2>1. SUFFICES ASSUME NEW d \in D, ExprRank[d] < k + 1 PROVE ChoicesIn[d] \in S
    OBVIOUS
  <2>2. \A c \in D : ExprRank[c] < ExprRank[d] => ChoicesIn[c] \in S
    BY <1>1, <1>12, <2>1
  <2>3. In(ChoicesIn, d) \in S
    BY <1>1, <2>2
  <2>. QED BY <1>10, <2>3
<1>13. ExprRank[e] + 1 \in ranks
  <2> HIDE DEF ranks
  <2>. QED BY <1>1, <1>11, <1>12, NumberInduction
<1>14. ChoicesIn[e] \in S
  BY <1>1, <1>13
<1>. QED BY <1>10, <1>14
-----------------------------------------------------------------------------
(***************************************************************************)
(* The mode of a choice after a reload.                                    *)
(***************************************************************************)
AllAtN(c, u) == \A s \in SymsOf(c) : Attributes(u)[Value(s)] = 0

\* The modes of n: what a reload makes of them may differ.
Lost(c, u, w) == AllAtN(c, u) /\ AllAtN(c, w) /\ ~ModeIsSaved(c)

\* A choice that is the same but for its user values
SameBounds(c, u, w) ==
  /\ Attributes(u)[Vis(c)] = Attributes(w)[Vis(c)]
  /\ IsTristate(c) => ModulesValue(Attributes(u)) = ModulesValue(Attributes(w))

LEMMA ReloadedMode ==
  ASSUME NEW u \in U!Users, NEW w \in U!Users, Reloaded(u, w), NEW c \in Choices,
         SameBounds(c, u, w)
  PROVE  Settled(c, u, w) \/ Lost(c, u, w)
<1> DEFINE v == Attributes(u)
           x == Attributes(w)
           mode == ChoiceTri(c, u, v)
           vis == v[Vis(c)]
           bool == IsTristate(c) => ModulesValue(v) = 0
           floor == IF Def[c].optional THEN 0 ELSE 1
           Asked(m) == IF m = NoUser THEN floor ELSE Greater(floor, m)
           Promoted(m) == IF m = 1 /\ bool THEN 2 ELSE m
<1>1. c \in Items /\ vis \in 0..2 /\ mode \in 0..2
  BY ItemShape, VisibilityType, ChoiceTriType
<1>2. u[c].mode \in {NoUser} \cup 0..2 /\ NoUser \notin 0..2
  BY <1>1, UserType, ChoiceUser, UserValsAssumption
<1>3. mode = Promoted(Lesser(Asked(u[c].mode), vis))
  BY DEF ChoiceTri, WantedMode, PromotedMode
<1>4. ChoiceTri(c, w, x) = Promoted(Lesser(Asked(w[c].mode), vis))
  BY DEF ChoiceTri, WantedMode, PromotedMode, SameBounds
<1>5. CASE ~AllAtN(c, u)
  <2>1. PICK s \in SymsOf(c) : v[Value(s)] # 0
    BY <1>5 DEF AllAtN
  <2>2. mode # 0 /\ (w[c].mode = mode \/ (w[c].mode = NoUser /\ Derived(s, u)))
    BY <2>1, SymbolTellsMode DEF Reloaded, ChoiceReloaded
  <2>3. CASE w[c].mode = mode
    <3> HIDE DEF mode, vis, bool
    <3>1. Promoted(Lesser(Asked(mode), vis)) = mode
      BY <1>1, <1>2, <1>3, <2>2 DEF Lesser, Greater
    <3>. QED BY <1>4, <2>3, <3>1 DEF Settled, mode
  <2>4. CASE w[c].mode = NoUser /\ Derived(s, u)
    <3>1. InChoice(s) /\ Def[s].choice = c
      BY TreeAssumption DEF SymsOf, InChoice
    <3>2. v[Value(s)] = 2 /\ ~Def[c].optional /\ ~IsTristate(c)
      BY <2>1, <2>4, <3>1 DEF Derived, SelectedByDefault
    <3>3. mode = 2 /\ bool /\ floor = 1
      BY <3>2, SymbolTellsMode
    <3> HIDE DEF mode, vis, bool, floor
    <3>4. Promoted(Lesser(Asked(NoUser), vis)) = 2
      BY <1>1, <1>2, <1>3, <3>3 DEF Lesser, Greater
    <3>. QED BY <1>4, <2>4, <3>3, <3>4 DEF Settled, mode
  <2>. QED BY <2>2, <2>3, <2>4
<1>6. CASE AllAtN(c, u)
  <2>1. w[c].mode = NoUser
    BY <1>6 DEF Reloaded, ChoiceReloaded, AllAtN
  <2>2. CASE ModeIsSaved(c)
    <3>1. mode = ChoiceTri(c, U!WithoutMode(u, c), v)
      BY <1>6, <2>2 DEF ModeIsSaved, AllAtN
    <3>2. U!WithoutMode(u, c)[c].mode = NoUser
      BY <1>1, UserType DEF U!WithoutMode, U!UntouchedChoice
    <3>3. ChoiceTri(c, U!WithoutMode(u, c), v) = Promoted(Lesser(Asked(NoUser), vis))
      BY <3>2 DEF ChoiceTri, WantedMode, PromotedMode
    <3>. QED BY <1>4, <2>1, <3>1, <3>3 DEF Settled
  <2>3. CASE ~ModeIsSaved(c) /\ ChoiceTri(c, w, x) = 2
    <3>1. Promoted(Lesser(floor, vis)) = 2
      BY <1>4, <2>1, <2>3
    <3> HIDE DEF mode, vis, bool
    <3>2. mode = 2
      BY <1>1, <1>2, <1>3, <3>1 DEF Lesser, Greater
    <3>. QED BY <2>3, <3>2 DEF Settled, mode
  <2>4. CASE ~ModeIsSaved(c) /\ ChoiceTri(c, w, x) # 2
    <3>1. ASSUME NEW s \in SymsOf(c) PROVE x[Value(s)] = 0
      <4>1. s \in Symbols /\ s \in Items /\ InChoice(s) /\ Def[s].choice = c /\ IsTri(s)
        BY ItemShape, TreeAssumption DEF SymsOf, InChoice
      <4>2. w[s] \in {0, NoUser}
        BY <1>6, <4>1 DEF Reloaded, SymbolReloaded, AllAtN
      <4>3. x[Vis(s)] # 2
        BY <2>4, VisibleAtY
      <4>4. x[Value(s)] = ValueInChoice(s, x[Vis(s)], w, x)
        BY <4>1, TriValueIs DEF TriValue
      <4>5. w[s] \notin {1, 2}
        BY <1>2, <4>2, UserValsAssumption
      <4>. QED BY <4>3, <4>4, <4>5 DEF ValueInChoice
    <3>. QED BY <1>6, <2>4, <3>1 DEF Lost, AllAtN
  <2>. QED BY <2>2, <2>3, <2>4
<1>. QED BY <1>5, <1>6
-----------------------------------------------------------------------------
(***************************************************************************)
(* What a reload keeps, by induction over the ranks: the values, and the   *)
(* visibilities of all but the symbols of a choice whose mode is lost.     *)
(***************************************************************************)
KeptBelow(u, w, n) ==
  LET v == Attributes(u)
      x == Attributes(w)
  IN  /\ \A s \in Symbols : Rank[Value(s)] < n => v[Value(s)] = x[Value(s)]
      /\ \A i \in Items :
           Rank[Vis(i)] < n /\ (InChoice(i) => Settled(Def[i].choice, u, w)) => v[Vis(i)] = x[Vis(i)]

LEMMA KeptBefore ==
  ASSUME NEW u, NEW w, NEW n \in Nat, KeptBelow(u, w, n), NEW m \in Nat, m <= n
  PROVE  KeptBelow(u, w, m)
<1>1. \A a \in AllAttributes : Rank[a] \in Nat
  BY RankAssumption
<1>2. \A a \in AllAttributes : Rank[a] < m => Rank[a] < n
  BY <1>1
<1>. QED BY <1>2, LookedAt DEF KeptBelow

LEMMA ModeBelow ==
  ASSUME NEW u \in U!Users, NEW w \in U!Users, Reloaded(u, w), NEW n, KeptBelow(u, w, n),
         NEW c \in Choices, \A a \in ValueReads(c) : Rank[a] < n
  PROVE  SameBounds(c, u, w) /\ (Settled(c, u, w) \/ Lost(c, u, w))
<1>1. c \in Items /\ c \notin Symbols /\ ~InChoice(c)
  BY ItemShape DEF InChoice
<1>2. Vis(c) \in ValueReads(c) /\ (IsTristate(c) => ModulesReads \subseteq ValueReads(c))
  BY <1>1 DEF ValueReads
<1>3. Attributes(u)[Vis(c)] = Attributes(w)[Vis(c)]
  BY <1>1, <1>2 DEF KeptBelow
<1>4. ASSUME IsTristate(c) PROVE ModulesValue(Attributes(u)) = ModulesValue(Attributes(w))
  <2>1. CASE Modules = NoSym
    BY <2>1 DEF ModulesValue
  <2>2. CASE Modules # NoSym
    <3>1. Modules \in Symbols /\ Value(Modules) = <<Modules, "tri">>
      BY <2>2, TreeAssumption DEF Value
    <3>2. Rank[Value(Modules)] < n
      BY <1>2, <1>4, <2>2, <3>1 DEF ModulesReads
    <3>. QED BY <2>2, <3>1, <3>2 DEF KeptBelow, ModulesValue
  <2>. QED BY <2>1, <2>2
<1>5. SameBounds(c, u, w)
  BY <1>3, <1>4 DEF SameBounds
<1>. QED BY <1>5, ReloadedMode

\* An expression keeps its value unless the mode of a choice in it may be lost.
ModesKeptIn(e, u, w) == \A c \in ChoicesIn[e] : Settled(c, u, w) \/ ModeIsSaved(c)

LEMMA OperandKept ==
  ASSUME NEW u, NEW w, NEW n, KeptBelow(u, w, n), NEW o, OperandBelow(o, n)
  PROVE  Operand(o, Attributes(u)) = Operand(o, Attributes(w))
BY DEF OperandBelow, Operand, KeptBelow

LEMMA ExprsKept ==
  ASSUME NEW u \in U!Users, NEW w \in U!Users, Reloaded(u, w), NEW n \in Nat, KeptBelow(u, w, n)
  PROVE  \A e \in DOMAIN ExprRank : ExprRank[e] <= n /\ ModesKeptIn(e, u, w) => SameExpr(e, u, w)
<1> DEFINE v == Attributes(u)
           x == Attributes(w)
           G == {e \in DOMAIN ExprRank : ExprRank[e] <= n /\ ModesKeptIn(e, u, w)}
<1>1. \A a \in AllAttributes : Rank[a] \in Nat /\ \A b \in LooksAt(a) : Rank[b] < Rank[a]
  BY RankAssumption
<1>2. ASSUME NEW e \in G
      PROVE  /\ e.op = "item" /\ e.i \in Choices => Settled(e.i, u, w)
             /\ e.op = "item" /\ e.i \in Symbols => v[Value(e.i)] = x[Value(e.i)]
             /\ e.op = "not" => e.a \in G
             /\ e.op \in {"and", "or"} => e.a \in G
             /\ e.op = "or" => e.b \in G
             /\ e.op = "and" => e.b \in G \/ ExprValue(e.a, u, v) = 0
             /\ e.op = "rel" => /\ Operand(e.a, v) = Operand(e.a, x)
                                /\ Operand(e.b, v) = Operand(e.b, x)
  <2> DEFINE m == ExprRank[e]
  <2>1. m \in Nat /\ m <= n /\ ExprRanked(e) /\ \A f \in DOMAIN ExprRank : ExprRank[f] \in Nat
    BY RankAssumption
  <2>2. ModesKeptIn(e, u, w) /\ e \in DOMAIN ExprRank
    OBVIOUS
  <2> HIDE DEF m
  <2>3. CASE e.op = "item"
    <3>1. e.i \in Items /\ \A a \in ValueReads(e.i) : Rank[a] < m
      BY <2>1, <2>3 DEF ExprRanked, m
    <3>2. ASSUME NEW c \in Choices, c = e.i PROVE Settled(c, u, w)
      <4>1. \A a \in ValueReads(c) : a \in AllAttributes
        BY <3>2, LookedAt, ItemShape DEF ValueReads, ModulesReads
      <4>2. \A a \in ValueReads(c) : Rank[a] < n
        BY <1>1, <2>1, <3>1, <3>2, <4>1
      <4>3. Settled(c, u, w) \/ Lost(c, u, w)
        BY <4>2, ModeBelow
      <4>4. c \in ChoicesIn[e]
        BY <2>2, <2>3, <3>2, ChoicesInIs
      <4>. QED BY <2>2, <4>3, <4>4 DEF ModesKeptIn, Lost
    <3>3. ASSUME NEW s \in Symbols, s = e.i PROVE v[Value(s)] = x[Value(s)]
      <4>1. Rank[Value(s)] < m /\ Rank[Value(s)] \in Nat
        BY <1>1, <3>1, <3>3, LookedAt DEF ValueReads
      <4>2. Rank[Value(s)] < n
        BY <2>1, <4>1
      <4>. QED BY <4>2 DEF KeptBelow
    <3>. QED BY <2>3, <3>2, <3>3
  <2>4. CASE e.op = "not"
    <3>1. e.a \in DOMAIN ExprRank /\ ExprRank[e.a] <= n
      BY <2>1, <2>4 DEF ExprRanked, IsExpr, m
    <3>2. ModesKeptIn(e.a, u, w)
      BY <2>2, <2>4, ChoicesInIs DEF ModesKeptIn
    <3>. QED BY <2>4, <3>1, <3>2
  <2>5. CASE e.op \in {"and", "or"}
    <3>1. /\ e.a \in DOMAIN ExprRank /\ ExprRank[e.a] <= n /\ ExprRank[e.a] \in Nat
          /\ e.b \in DOMAIN ExprRank /\ ExprRank[e.b] <= n
      BY <2>1, <2>5 DEF ExprRanked, IsExpr, m
    <3>2. ChoicesIn[e] = ChoicesIn[e.a] \cup (ChoicesIn[e.b] \ ChoiceBefore(e))
      BY <2>2, <2>5, ChoicesInIs
    <3>3. ModesKeptIn(e.a, u, w)
      BY <2>2, <3>2 DEF ModesKeptIn
    <3>4. ASSUME ~ModesKeptIn(e.b, u, w) PROVE e.op = "and" /\ ExprValue(e.a, u, v) = 0
      <4>1. PICK c \in ChoicesIn[e.b] : ~Settled(c, u, w) /\ ~ModeIsSaved(c)
        BY <3>4 DEF ModesKeptIn
      <4>2. c \in ChoiceBefore(e)
        BY <2>2, <3>2, <4>1 DEF ModesKeptIn
      <4> DEFINE s == e.a.i
      <4>3. e.op = "and" /\ e.a.op = "item" /\ InChoice(s) /\ c = Def[s].choice
        BY <4>2 DEF ChoiceBefore
      <4>4. s \in Symbols /\ c \in Choices /\ s \in SymsOf(c) /\ IsTri(s)
        BY <4>3, SymbolInChoice DEF InChoice
      <4>5. Rank[Value(s)] < ExprRank[e.a]
        <5>1. ExprRanked(e.a)
          BY <3>1, RankAssumption
        <5>. QED BY <4>3, <4>4, <5>1 DEF ExprRanked, ValueReads
      <4>6. Value(s) = <<s, "tri">> /\ Value(s) \in AllAttributes
        BY <4>4, LookedAt DEF Value
      <4>7. \A a \in ValueReads(c) : a \in LooksAt(Value(s)) /\ a \in AllAttributes
        <5>1. ValueReads(c) \subseteq LooksAt(<<s, "tri">>)
          BY <4>3 DEF LooksAt
        <5>2. ValueReads(c) \subseteq AllAttributes
          BY <4>4, LookedAt, ItemShape DEF ValueReads, ModulesReads
        <5>. QED BY <4>6, <5>1, <5>2
      <4> HIDE DEF s
      <4>8. \A a \in ValueReads(c) : Rank[a] < n
        BY <1>1, <3>1, <4>5, <4>6, <4>7
      <4>9. Lost(c, u, w)
        BY <4>1, <4>4, <4>8, ModeBelow
      <4>10. v[Value(s)] = 0
        BY <4>4, <4>9 DEF Lost, AllAtN
      <4>11. ExprValue(e.a, u, v) = ValueOfParts(e.a, u, v)
        BY <3>1, EngineAssumption
      <4>12. ValueOfParts(e.a, u, v) = v[Value(s)]
        BY <4>3, <4>4, ItemShape DEF ValueOfParts, s
      <4>. QED BY <4>3, <4>10, <4>11, <4>12
    <3>. QED BY <2>5, <3>1, <3>3, <3>4
  <2>6. CASE e.op = "rel"
    <3>1. OperandBelow(e.a, n) /\ OperandBelow(e.b, n)
      <4>1. OperandBelow(e.a, m) /\ OperandBelow(e.b, m)
        BY <2>1, <2>6 DEF ExprRanked, m
      <4>2. \A s \in Symbols : Rank[Value(s)] \in Nat
        BY <1>1, LookedAt
      <4>. QED BY <2>1, <4>1, <4>2 DEF OperandBelow
    <3>. QED BY <2>6, <3>1, OperandKept
  <2>7. CASE e.op \notin {"item", "not", "and", "or", "rel"}
    BY <2>7
  <2>. QED BY <2>3, <2>4, <2>5, <2>6, <2>7
<1>3. Closed(G, u, w)
  <2> HIDE DEF G
  <2>. QED BY <1>2 DEF Closed
<1>4. \A e \in G : SameExpr(e, u, w)
  <2>1. G \in SUBSET DOMAIN ExprRank
    OBVIOUS
  <2> HIDE DEF G
  <2>. QED BY <1>3, <2>1, SameExprsIn
<1>. QED BY <1>4
-----------------------------------------------------------------------------
\* The expressions that an item evaluates
LEMMA CondsKept ==
  ASSUME ModesAreSaved, NEW u \in U!Users, NEW w \in U!Users, Reloaded(u, w),
         NEW i \in Items, NEW k \in KindsOf(i), KeptBelow(u, w, Rank[<<i, k>>]),
         InChoice(i) => Settled(Def[i].choice, u, w)
  PROVE  \A e \in EvaluatedBy(<<i, k>>) : SameExpr(e, u, w)
<1> DEFINE n == Rank[<<i, k>>]
<1>1. <<i, k>> \in AllAttributes
  BY DEF AllAttributes
<1>2. n \in Nat /\ LookedAtBelow(i, k, n)
  BY <1>1, RankAssumption DEF LookedAtBelow
<1>3. KeptBelow(u, w, n)
  OBVIOUS
<1> HIDE DEF n
<1>4. ASSUME NEW e \in EvaluatedBy(<<i, k>>) PROVE SameExpr(e, u, w)
  <2>1. e \in DOMAIN ExprRank /\ ExprRank[e] <= n
    BY <1>2, RankAssumption DEF LookedAtBelow, IsExpr
  <2>2. ASSUME NEW c \in ChoicesIn[e] PROVE Settled(c, u, w) \/ ModeIsSaved(c)
    <3>1. c \in Choices
      BY <2>1, ChoicesInIs
    <3>2. i \in SymsOf(c) \/ ModeIsSaved(c)
      BY <1>1 DEF ModesAreSaved
    <3>3. i \in SymsOf(c) => InChoice(i) /\ Def[i].choice = c
      BY <3>1, TreeAssumption DEF SymsOf, InChoice
    <3>. QED BY <3>2, <3>3
  <2>. QED BY <1>2, <1>3, <2>1, <2>2, ExprsKept DEF ModesKeptIn
<1>. QED BY <1>4

\* What visibilities, and values of symbols in no choice, are made of
LEMMA AlikeKept ==
  ASSUME ModesAreSaved, NEW u \in U!Users, NEW w \in U!Users, Reloaded(u, w),
         NEW i \in Items, NEW k \in KindsOf(i), k \in {"vis", "tri", "str"},
         KeptBelow(u, w, Rank[<<i, k>>]),
         InChoice(i) => k = "vis" /\ Settled(Def[i].choice, u, w)
  PROVE  LooksAlike(u, w, i, k)
<1> DEFINE n == Rank[<<i, k>>]
           v == Attributes(u)
           x == Attributes(w)
<1>1. <<i, k>> \in AllAttributes
  BY DEF AllAttributes
<1>2. n \in Nat /\ LookedAtBelow(i, k, n)
  BY <1>1, RankAssumption DEF LookedAtBelow
<1>3. KeptBelow(u, w, n)
  OBVIOUS
<1> HIDE DEF n
<1>4. \A e \in EvaluatedBy(<<i, k>>) : SameExpr(e, u, w)
  BY CondsKept
<1>5. \A o \in OperandsOf(<<i, k>>) : Operand(o, v) = Operand(o, x)
  BY <1>2, <1>3, OperandKept DEF LookedAtBelow
<1>6. ASSUME NEW b \in LooksAt(<<i, k>>) PROVE v[b] = x[b]
  <2>1. Rank[b] < n
    BY <1>2 DEF LookedAtBelow
  <2>2. \A j \in Items : b = Vis(j) /\ (InChoice(j) => Settled(Def[j].choice, u, w)) => v[b] = x[b]
    BY <1>3, <2>1 DEF KeptBelow
  <2>3. \A s \in Symbols : b = Value(s) => v[b] = x[b]
    BY <1>3, <2>1 DEF KeptBelow
  <2>4. b \in ModulesReads => v[b] = x[b]
    BY <2>3, TreeAssumption DEF ModulesReads, Value
  <2>5. b = Vis(i) => v[b] = x[b]
    BY <2>2
  <2>6. InChoice(i) /\ b \in ValueReads(Def[i].choice) => v[b] = x[b]
    <3>1. InChoice(i) => Def[i].choice \in Choices
      BY SymbolInChoice DEF InChoice
    <3>2. InChoice(i) => Def[i].choice \in Items /\ Def[i].choice \notin Symbols
      BY <3>1, ItemShape
    <3>. QED BY <2>2, <2>4, <3>2 DEF ValueReads, InChoice
  <2>. QED BY <2>4, <2>5, <2>6 DEF LooksAt
<1>. QED BY <1>4, <1>5, <1>6 DEF LooksAlike

\* A bool or tristate symbol in no choice: a default holds it above its visibility.
HeldByDefault(s, u) ==
  LET v == Attributes(u)
  IN  /\ v[Vis(s)] = 1 /\ v[Value(s)] = 2
      /\ ExprValue(Def[s].rev, u, v) # 2 /\ ExprValue(Def[s].weak, u, v) # 2

LEMMA TriKept ==
  ASSUME NEW u \in U!Users, NEW w \in U!Users, Reloaded(u, w), NEW s \in Symbols, IsTri(s),
         ~InChoice(s), HeldByDefault(s, u) => w[s] = NoUser,
         SameTriParts(s, u, Attributes(u), w, Attributes(w))
  PROVE  Attributes(u)[Value(s)] = Attributes(w)[Value(s)]
<1> DEFINE v == Attributes(u)
           x == Attributes(w)
           val == v[Value(s)]
           vis == v[Vis(s)]
           rev == ExprValue(Def[s].rev, u, v)
           weak == ExprValue(Def[s].weak, u, v)
           up == NotTristate(s, u, v) \/ weak = 2
           Promoted(y) == IF y = 1 /\ up THEN 2 ELSE y
           other == Greater(DefaultValue(s, u, v), ImpliedValue(s, u, v))
<1>1. s \in Items /\ vis \in 0..2
  BY ItemShape, VisibilityType
<1>2. val \in 0..2 /\ (val = 1 => IsTristate(s))
  BY TriValueType
<1>3. /\ rev \in 0..2 /\ weak \in 0..2
      /\ ChosenValue(s, u, v) \in 0..2 /\ DefaultValue(s, u, v) \in 0..2
  BY ChosenType
<1>4. val = Promoted(Greater(ChosenValue(s, u, v), rev))
  BY TriValueIs DEF TriValue, UnpromotedValue, PromotedValue
<1>5. x[Value(s)] = Promoted(Greater(ChosenValue(s, w, x), rev))
  <2>1. x[Value(s)] = PromotedValue(s, UnpromotedValue(s, w, x), w, x)
    BY TriValueIs DEF TriValue
  <2>2. UnpromotedValue(s, w, x) = Greater(ChosenValue(s, w, x), rev)
    BY DEF UnpromotedValue, SameTriParts
  <2>3. \A y : PromotedValue(s, y, w, x) = Promoted(y)
    BY DEF PromotedValue, SameTriParts
  <2>. QED BY <2>1, <2>2, <2>3
<1>6. CASE vis = 0
  <2>1. ChosenValue(s, u, v) = other /\ ChosenValue(s, w, x) = other
    BY <1>6 DEF ChosenValue, HasUserValue, SameTriParts
  <2>. QED BY <1>4, <1>5, <2>1
<1>7. vis # 0 => \/ w[s] = val /\ val \in UserVals[s] \ {NoUser}
                 \/ w[s] = NoUser /\ Derived(s, u)
  <2>1. val \in UserVals[s] \ {NoUser}
    BY <1>2, UserValsAssumption
  <2>. QED BY <2>1 DEF Reloaded, SymbolReloaded, Saved, WriteToConf
<1>8. CASE vis # 0 /\ w[s] # NoUser
  <2>1. w[s] = val
    BY <1>7, <1>8
  <2>2. ChosenValue(s, w, x) = Lesser(val, vis)
    BY <1>8, <2>1 DEF ChosenValue, HasUserValue, SameTriParts
  <2>3. ~(vis = 1 /\ val = 2 /\ rev # 2 /\ weak # 2)
    BY <1>8 DEF HeldByDefault
  <2>4. weak = 2 => up
    OBVIOUS
  <2> DEFINE chosen == ChosenValue(s, u, v)
             first == Greater(chosen, rev)
             again == Greater(Lesser(val, vis), rev)
  <2>5. x[Value(s)] = Promoted(again) /\ val = Promoted(first)
    BY <1>4, <1>5, <2>2
  <2>6. first \in 0..2 /\ rev <= first
    BY <1>3 DEF Greater
  <2> HIDE DEF val, vis, rev, weak, up, chosen, first
  <2>7. (val = first /\ ~(first = 1 /\ up)) \/ (val = 2 /\ first = 1 /\ up)
    BY <2>5
  <2>8. CASE vis = 2
    <3>1. again = val
      BY <1>2, <1>3, <2>6, <2>7, <2>8 DEF Greater, Lesser
    <3>. QED BY <2>5, <2>7, <3>1 DEF val
  <2>9. CASE vis = 1 /\ val # 2
    <3>1. again = val
      BY <1>2, <1>3, <2>6, <2>7, <2>9 DEF Greater, Lesser
    <3>. QED BY <2>5, <2>7, <3>1 DEF val
  <2>10. CASE vis = 1 /\ val = 2 /\ rev = 2
    <3>1. again = 2
      BY <2>10 DEF Greater, Lesser
    <3>. QED BY <2>5, <2>10, <3>1 DEF val
  <2>11. CASE vis = 1 /\ val = 2 /\ rev # 2 /\ weak = 2
    <3>1. again = 1
      BY <1>3, <2>11 DEF Greater, Lesser
    <3>. QED BY <2>4, <2>5, <2>11, <3>1 DEF val
  <2>. QED BY <1>1, <1>8, <2>3, <2>8, <2>9, <2>10, <2>11 DEF vis
<1>9. CASE vis # 0 /\ w[s] = NoUser
  <2>1. Derived(s, u)
    BY <1>2, <1>7, <1>9, UserValsAssumption
  <2>2. x[Value(s)] = Promoted(Greater(other, rev)) /\ other \in 0..2
    <3>1. ChosenValue(s, w, x) = other
      BY <1>9 DEF ChosenValue, HasUserValue, SameTriParts
    <3>2. ChosenValue(s, w, x) \in 0..2
      BY ChosenType
    <3>. QED BY <1>5, <3>1, <3>2
  <2>3. CASE vis <= rev /\ ~(vis = 1 /\ rev = 1)
    <3> HIDE DEF vis, rev, up, other
    <3>1. rev = 2
      BY <1>1, <1>3, <1>9, <2>3 DEF vis
    <3>2. Greater(other, rev) = 2 /\ Greater(ChosenValue(s, u, v), rev) = 2
      BY <1>3, <2>2, <3>1 DEF Greater
    <3>. QED BY <1>4, <2>2, <3>2
  <2>4. CASE val = StrDefault(s, u, v) /\ ExprValue(Def[s].direct, u, v) # 0
    <3> DEFINE default == DefaultValue(s, u, v)
               most == Greater(default, Greater(rev, weak))
    <3>1. other = Greater(default, weak)
      BY <2>4 DEF ImpliedValue
    <3>2. val = IF most = 1 /\ NotTristate(s, u, v) THEN 2 ELSE most
      BY <2>4 DEF StrDefault, DefaultAtM
    <3>3. default \in 0..2
      BY <1>3
    <3> HIDE DEF val, rev, weak, other, default
    <3>4. Greater(other, rev) = most /\ (most = 1 => weak # 2)
      BY <1>3, <3>1, <3>3 DEF Greater
    <3> HIDE DEF most
    <3>5. Promoted(most) = val
      BY <3>2, <3>4
    <3>. QED BY <2>2, <3>4, <3>5 DEF val
  <2>. QED BY <1>9, <2>1, <2>3, <2>4 DEF Derived, CannotBeChanged
<1>. QED BY <1>6, <1>8, <1>9

\* A symbol of a choice
LEMMA ChoiceSymbolKept ==
  ASSUME ModesAreSaved, NEW u \in U!Users, NEW w \in U!Users, Reloaded(u, w),
         NEW s \in Symbols, InChoice(s), KeptBelow(u, w, Rank[Value(s)])
  PROVE  Attributes(u)[Value(s)] = Attributes(w)[Value(s)]
<1> DEFINE v == Attributes(u)
           x == Attributes(w)
           c == Def[s].choice
           n == Rank[Value(s)]
<1>1. s \in Items /\ IsTri(s) /\ c \in Choices /\ c \in Items /\ s \in SymsOf(c)
  BY SymbolInChoice, ItemShape
<1>2. Value(s) \in AllAttributes /\ Value(s) = <<s, "tri">> /\ <<c, "sel">> \in AllAttributes
  BY <1>1, LookedAt DEF Value
<1>3. n \in Nat /\ \A b \in LooksAt(<<s, "tri">>) : Rank[b] < n
  BY <1>2, RankAssumption
<1>4. KeptBelow(u, w, n)
  OBVIOUS
<1> HIDE DEF n
<1>5. Settled(c, u, w) \/ Lost(c, u, w)
  <2>1. ValueReads(c) \subseteq LooksAt(<<s, "tri">>)
    BY DEF LooksAt
  <2>. QED BY <1>1, <1>3, <1>4, <2>1, ModeBelow
<1>6. CASE Lost(c, u, w)
  BY <1>1, <1>6 DEF Lost, AllAtN
<1>7. CASE Settled(c, u, w)
  <2>1. ASSUME NEW t \in SymsOf(c) PROVE v[Vis(t)] = x[Vis(t)]
    <3>1. t \in Items /\ t \in Symbols /\ Def[t].choice = c
      BY ItemShape DEF SymsOf
    <3>2. PICK k \in DOMAIN Def[c].syms : Def[c].syms[k] = t
      BY <1>1, ChoiceListsSymbols
    <3>3. Vis(t) \in LooksAt(<<c, "sel">>) /\ Vis(t) \in AllAttributes
      BY <3>1, <3>2, LookedAt DEF LooksAt
    <3>4. <<c, "sel">> \in LooksAt(<<s, "tri">>)
      BY DEF LooksAt
    <3>5. Rank[Vis(t)] < Rank[<<c, "sel">>] /\ Rank[<<c, "sel">>] < n
      BY <1>2, <1>3, <3>3, <3>4, RankAssumption
    <3>6. Rank[Vis(t)] \in Nat /\ Rank[<<c, "sel">>] \in Nat
      BY <1>2, <3>3, RankAssumption
    <3>7. Rank[Vis(t)] < n
      BY <1>3, <3>5, <3>6
    <3>. QED BY <1>4, <1>7, <3>1, <3>7 DEF KeptBelow
  <2>2. v[Value(s)] = ValueInChoice(s, v[Vis(s)], u, v) /\ x[Value(s)] = ValueInChoice(s, x[Vis(s)], w, x)
    BY <1>1, TriValueIs DEF TriValue
  <2>3. v[Vis(s)] = x[Vis(s)] /\ v[Vis(s)] \in 0..2
    BY <1>1, <2>1, VisibilityType
  <2>4. CASE v[Vis(s)] = 0
    BY <2>2, <2>3, <2>4 DEF ValueInChoice
  <2>5. CASE v[Vis(s)] = 1
    <3>1. v[Value(s)] \in {0, 1} /\ v[Value(s)] \in UserVals[s] \ {NoUser}
      <4>1. v[Value(s)] \in {0, 1}
        BY <2>2, <2>5 DEF ValueInChoice
      <4>2. v[Value(s)] = 1 => IsTristate(s)
        BY <1>1, TriValueType
      <4>. QED BY <1>1, <4>1, <4>2, UserValsAssumption
    <3>2. w[s] = v[Value(s)] \/ (w[s] = NoUser /\ v[Value(s)] = 0)
      <4>1. WriteToConf(s, u, v)
        BY <2>5 DEF WriteToConf
      <4>2. Derived(s, u) => v[Value(s)] = 0
        BY <3>1 DEF Derived, SelectedByDefault
      <4>. QED BY <3>1, <4>1, <4>2 DEF Reloaded, SymbolReloaded, Saved
    <3>3. NoUser \notin {1, 2}
      BY UserValsAssumption
    <3>. QED BY <2>2, <2>3, <2>5, <3>1, <3>2, <3>3 DEF ValueInChoice
  <2>6. CASE v[Vis(s)] = 2
    <3>1. ChoiceTri(c, u, v) = 2 /\ ChoiceTri(c, w, x) = 2
      BY <1>1, <1>7, <2>6, VisibleAtY DEF Settled
    <3>2. PICK t \in SymsOf(c) : v[Vis(t)] = 2 /\ v[Value(t)] = 2 /\ Selection(c, u, v) = t
      BY <1>1, <2>6, <3>1, VisibleMeansSelected
    <3>3. x[Vis(t)] = 2 /\ t # NoSym /\ InChoice(t) /\ Def[t].choice = c
      BY <1>1, <2>1, <3>2, TreeAssumption DEF SymsOf, InChoice
    <3>4. Selection(c, w, x) = t
      <4>1. CASE w[c].sel = t
        BY <3>1, <3>3, <4>1 DEF Selection, UserSelection
      <4>2. CASE w[c].sel = NoSym /\ Derived(t, u)
        <5>1. DefaultSelection(c, u, v) = t
          BY <3>2, <3>3, <4>2 DEF Derived, SelectedByDefault
        <5>2. \A k \in DOMAIN Def[c].defaults :
                Def[c].defaults[k].cond \in EvaluatedBy(<<c, "sel">>)
          BY DEF EvaluatedBy
        <5>3. KeptBelow(u, w, Rank[<<c, "sel">>])
          <6>1. <<c, "sel">> \in LooksAt(<<s, "tri">>)
            BY DEF LooksAt
          <6>. QED BY <1>2, <1>3, <1>4, <6>1, KeptBefore, RankAssumption
        <5>4. "sel" \in KindsOf(c) /\ ~InChoice(c)
          BY <1>1, ItemShape DEF KindsOf, InChoice
        <5>5. SameDefaults(c, u, w)
          BY <1>1, <2>1, <5>2, <5>3, <5>4, CondsKept DEF SameDefaults
        <5>6. DefaultSelection(c, w, x) = t
          BY <1>1, <5>1, <5>5, SameDefaultSelection
        <5>. QED BY <3>1, <4>2, <5>6 DEF Selection, UserSelection
      <4>. QED BY <1>1, <3>2, <4>1, <4>2 DEF Reloaded, ChoiceReloaded
    <3>5. v[<<c, "sel">>] = t /\ x[<<c, "sel">>] = t
      BY <1>1, <3>2, <3>4, SelectionIs
    <3>. QED BY <2>2, <2>3, <2>6, <3>5 DEF ValueInChoice
  <2>. QED BY <2>3, <2>4, <2>5, <2>6
<1>. QED BY <1>5, <1>6, <1>7

\* An int or string symbol: a value that set_value() does not take is the default.
LEMMA StrValueIs ==
  ASSUME NEW u \in U!Users, NEW v, v = Attributes(u), NEW s \in Symbols, ~IsTri(s)
  PROVE  v[Value(s)] = IF Def[s].type = "INT" THEN IntValue(s, u, v) ELSE StringValue(s, u, v)
<1>1. "str" \in KindsOf(s) /\ s \in Items
  BY ItemShape DEF KindsOf
<1>2. v[<<s, "str">>] = AttrValue(<<s, "str">>, u, v)
  BY <1>1, EngineValues
<1>. QED BY <1>2 DEF Value, AttrValue

LEMMA StrKept ==
  ASSUME NEW u \in U!Users, NEW w \in U!Users, Reloaded(u, w), NEW s \in Symbols, ~IsTri(s),
         SameStrParts(s, u, Attributes(u), w, Attributes(w))
  PROVE  Attributes(u)[Value(s)] = Attributes(w)[Value(s)]
<1> DEFINE v == Attributes(u)
           x == Attributes(w)
           d == Def[s].defaults
           q == Def[s].ranges
           r == FirstActive(q, u, v)
           k == FirstActive(d, u, v)
           val == v[Value(s)]
           default == StrDefaultAt(s, k, v)
           low == AsNumber(Operand(q[r].low, v))
           high == AsNumber(Operand(q[r].high, v))
           clamped == Clamped(s, r, default, v)
<1>1. s \in Items /\ IsList(d) /\ IsList(q)
  BY ItemShape, TreeAssumption
<1>2. r \in DOMAIN q \cup {0} /\ k \in DOMAIN d \cup {0}
  BY <1>1, FirstActiveType
<1>3. r = FirstActive(q, w, x) /\ k = FirstActive(d, w, x) /\ v[Vis(s)] = x[Vis(s)]
  BY DEF SameStrParts
<1>4. default = StrDefaultAt(s, k, x)
  <2> HIDE DEF k
  <2>. QED BY <1>2 DEF SameStrParts
<1>5. r # 0 => low = AsNumber(Operand(q[r].low, x)) /\ high = AsNumber(Operand(q[r].high, x))
  <2> HIDE DEF r
  <2>. QED BY <1>2 DEF SameStrParts
<1>6. u[s] \in UserVals[s]
  BY <1>1, UserType
<1>7. v[Vis(s)] # 0 =>
        \/ w[s] = val /\ val \in UserVals[s] \ {NoUser}
        \/ w[s] = NoUser /\ (val \in UserVals[s] \ {NoUser} => val = default)
  <2>1. ~InChoice(s) /\ StrDefault(s, u, v) = default
    BY SymbolInChoice DEF StrDefault
  <2>2. Derived(s, u) /\ v[Vis(s)] # 0 => val = default
    <3> HIDE DEF default
    <3>. QED BY <2>1 DEF Derived
  <2>. QED BY <2>2 DEF Reloaded, SymbolReloaded, Saved, WriteToConf
<1>8. CASE Def[s].type = "INT"
  <2>1. val = IF HasUserValue(s, u, v) /\ (r # 0 => u[s] \in low..high) THEN u[s] ELSE clamped
    BY <1>8, StrValueIs DEF IntValue, IntValueAt, UsesUserInt
  <2>2. clamped = Clamped(s, r, default, x)
    <3> HIDE DEF default, r
    <3>. QED BY <1>5 DEF Clamped
  <2>3. x[Value(s)] = IF HasUserValue(s, w, x) /\ (r # 0 => w[s] \in low..high) THEN w[s] ELSE clamped
    <3>1. x[Value(s)] = IntValueAt(s, r, k, w, x)
      BY <1>3, <1>8, StrValueIs DEF IntValue
    <3> HIDE DEF r, k, default, clamped, low, high
    <3>. QED BY <1>4, <1>5, <2>2, <3>1 DEF IntValueAt, UsesUserInt, low, high
  <2>4. (r # 0 => default \in low..high) => clamped = default
    <3> HIDE DEF default, r
    <3>. QED BY DEF Clamped, AsNumber
  <2>5. CASE w[s] = NoUser /\ v[Vis(s)] # 0 /\ val \in UserVals[s] \ {NoUser}
    <3>1. val = default
      BY <1>7, <2>5
    <3>2. val = clamped
      <4> HIDE DEF r, low, high, clamped, default, val
      <4>. QED BY <2>1, <2>4, <3>1
    <3>. QED BY <2>3, <2>5, <3>2 DEF HasUserValue, val
  <2>6. CASE ~(w[s] = NoUser /\ v[Vis(s)] # 0 /\ val \in UserVals[s] \ {NoUser})
    <3> HIDE DEF r, low, high, clamped, default, val
    <3>. QED BY <1>3, <1>6, <1>7, <2>1, <2>3, <2>6 DEF HasUserValue, val
  <2>. QED BY <2>5, <2>6
<1>9. CASE Def[s].type # "INT"
  <2>1. val = IF HasUserValue(s, u, v) THEN u[s] ELSE default
    BY <1>9, StrValueIs DEF StringValue
  <2>2. x[Value(s)] = IF HasUserValue(s, w, x) THEN w[s] ELSE default
    BY <1>3, <1>4, <1>9, StrValueIs DEF StringValue
  <2> HIDE DEF default, val
  <2>. QED BY <1>3, <1>6, <1>7, <2>1, <2>2 DEF HasUserValue, val
<1>. QED BY <1>8, <1>9

(***************************************************************************)
(* A reload keeps all values.                                              *)
(***************************************************************************)
HeldAreUnset(u, w) ==
  \A s \in Symbols : IsTri(s) /\ ~InChoice(s) /\ HeldByDefault(s, u) => w[s] = NoUser

LEMMA ReloadKeeps ==
  ASSUME ModesAreSaved, NEW u \in U!Users, NEW w \in U!Users, Reloaded(u, w), HeldAreUnset(u, w)
  PROVE  \A n \in Nat : KeptBelow(u, w, n)
<1> DEFINE v == Attributes(u)
           x == Attributes(w)
           ranks == {n \in Nat : KeptBelow(u, w, n)}
<1>0. \A a \in AllAttributes : Rank[a] \in Nat
  BY RankAssumption
<1>1. 0 \in ranks
  BY <1>0, LookedAt DEF KeptBelow
<1>2. ASSUME NEW n \in Nat, n \in ranks PROVE n + 1 \in ranks
  <2>1. KeptBelow(u, w, n)
    BY <1>2
  <2>2. ASSUME NEW s \in Symbols, Rank[Value(s)] < n + 1 PROVE v[Value(s)] = x[Value(s)]
    <3>1. CASE Rank[Value(s)] < n
      BY <2>1, <3>1 DEF KeptBelow
    <3>2. CASE Rank[Value(s)] = n
      <4>1. s \in Items
        BY ItemShape
      <4>2. CASE InChoice(s)
        BY <2>1, <3>2, <4>2, ChoiceSymbolKept
      <4>3. CASE ~InChoice(s) /\ IsTri(s)
        <5>1. "tri" \in KindsOf(s) /\ Value(s) = <<s, "tri">>
          BY <4>3, ItemShape DEF KindsOf, Value
        <5>2. LooksAlike(u, w, s, "tri")
          BY <2>1, <3>2, <4>1, <4>3, <5>1, AlikeKept
        <5>. QED BY <4>3, <5>2, TriPartsAlike, TriKept DEF HeldAreUnset
      <4>4. CASE ~InChoice(s) /\ ~IsTri(s)
        <5>1. "str" \in KindsOf(s) /\ Value(s) = <<s, "str">>
          BY <4>4, ItemShape DEF KindsOf, Value
        <5>2. LooksAlike(u, w, s, "str")
          BY <2>1, <3>2, <4>1, <4>4, <5>1, AlikeKept
        <5>. QED BY <4>4, <5>2, StrPartsAlike, StrKept
      <4>. QED BY <4>2, <4>3, <4>4
    <3>3. Rank[Value(s)] \in Nat
      BY <1>0, LookedAt
    <3>. QED BY <2>2, <3>1, <3>2, <3>3
  <2>3. ASSUME NEW i \in Items, Rank[Vis(i)] < n + 1, InChoice(i) => Settled(Def[i].choice, u, w)
        PROVE  v[Vis(i)] = x[Vis(i)]
    <3>1. CASE Rank[Vis(i)] < n
      BY <2>1, <2>3, <3>1 DEF KeptBelow
    <3>2. CASE Rank[Vis(i)] = n
      <4>1. "vis" \in KindsOf(i) /\ Vis(i) = <<i, "vis">>
        BY DEF KindsOf, Vis
      <4>2. LooksAlike(u, w, i, "vis")
        BY <2>1, <2>3, <3>2, <4>1, AlikeKept
      <4>. QED BY <4>2, SameVisibility, VisibilityValue
    <3>3. Rank[Vis(i)] \in Nat
      BY <1>0, LookedAt
    <3>. QED BY <2>3, <3>1, <3>2, <3>3
  <2>. QED BY <2>2, <2>3 DEF KeptBelow
<1>3. Nat \subseteq ranks
  <2> HIDE DEF ranks
  <2>. QED BY <1>1, <1>2, NumberInduction
<1>. QED BY <1>3

ValuesKept(u, w) == \A s \in Symbols : Attributes(w)[Value(s)] = Attributes(u)[Value(s)]

LEMMA ReloadKeepsAll ==
  ASSUME ModesAreSaved, NEW u \in U!Users, NEW w \in U!Users, Reloaded(u, w), HeldAreUnset(u, w)
  PROVE  ValuesKept(u, w)
<1>1. ASSUME NEW s \in Symbols PROVE Attributes(w)[Value(s)] = Attributes(u)[Value(s)]
  <2>1. Rank[Value(s)] \in Nat
    BY LookedAt, RankAssumption
  <2> DEFINE n == Rank[Value(s)] + 1
  <2>2. n \in Nat /\ Rank[Value(s)] < n
    BY <2>1
  <2> HIDE DEF n
  <2>3. KeptBelow(u, w, n)
    BY <2>2, ReloadKeeps
  <2>. QED BY <2>2, <2>3 DEF KeptBelow
<1>. QED BY <1>1 DEF ValuesKept

\* No symbol has its value from a default above its visibility.
NothingHeld(u) == \A s \in Symbols : IsTri(s) => ~HeldByDefault(s, u)

\* write_config() writes all that is to be written.
LEMMA ContentsReload ==
  ASSUME NEW u \in U!Users, NEW start \in U!Users, NothingHeld(u),
         NEW w, w = LoadedUser(start, Contents(u, Attributes(u)))
  PROVE  w \in U!Users /\ Reloaded(u, w) /\ HeldAreUnset(u, w)
<1> DEFINE wanted == WrittenSymbols(u, Attributes(u))
<1>1. Suffices(wanted, u)
  BY DEF Suffices
<1>2. w = LoadedUser(start, Lines(wanted, Attributes(u)))
  BY DEF Contents
<1> HIDE DEF wanted
<1>3. w \in U!Users /\ Reloaded(u, w)
  BY <1>1, <1>2, ReloadIs
<1>. QED BY <1>3 DEF NothingHeld, HeldAreUnset

\* Writing and loading give the values that were written, whatever is set before.
LEMMA ReloadGivesValues ==
  ASSUME ModesAreSaved, NEW u \in U!Users, NEW start \in U!Users, NothingHeld(u),
         NEW w, w = LoadedUser(start, Contents(u, Attributes(u)))
  PROVE  w \in U!Users /\ Reloaded(u, w) /\ ValuesKept(u, w)
BY ContentsReload, ReloadKeepsAll

\* ... and every choice whose mode cannot be lost has the mode it was written with.
LEMMA ReloadGivesModes ==
  ASSUME ModesAreSaved, NEW u \in U!Users, NEW start \in U!Users,
         NothingHeld(u), NEW c \in Choices, ModeIsSaved(c),
         NEW w, w = LoadedUser(start, Contents(u, Attributes(u)))
  PROVE  Settled(c, u, w)
<1>1. w \in U!Users /\ Reloaded(u, w) /\ HeldAreUnset(u, w)
  BY ContentsReload
<1>2. PICK n \in Nat : \A a \in ValueReads(c) : Rank[a] < n
  <2>1. c \in Items /\ c \notin Symbols
    BY ItemShape
  <2>2. Rank[Vis(c)] \in Nat
    BY <2>1, LookedAt, RankAssumption
  <2>3. PICK m \in Nat : \A a \in ModulesReads : Rank[a] = m
    <3>1. CASE Modules = NoSym
      BY <3>1 DEF ModulesReads
    <3>2. CASE Modules # NoSym
      BY <3>2, LookedAt, RankAssumption DEF ModulesReads
    <3>. QED BY <3>1, <3>2
  <2> DEFINE n == Rank[Vis(c)] + m + 1
  <2>4. n \in Nat /\ Rank[Vis(c)] < n /\ m < n
    BY <2>2, <2>3
  <2> HIDE DEF n
  <2>. QED BY <2>1, <2>3, <2>4 DEF ValueReads
<1>3. KeptBelow(u, w, n)
  BY <1>1, ReloadKeeps
<1>4. Settled(c, u, w) \/ Lost(c, u, w)
  BY <1>1, <1>2, <1>3, ModeBelow
<1>. QED BY <1>4 DEF Lost
-----------------------------------------------------------------------------
(***************************************************************************)
(* write_min_config() leaves out what can be derived.                      *)
(***************************************************************************)
MinimalSymbols(u) ==
  LET v == Attributes(u)
  IN  {s \in WrittenSymbols(u, v) : /\ ~CannotBeChanged(s, u, v)
                                    /\ v[Value(s)] # StrDefault(s, u, v)
                                    /\ ~SelectedByDefault(s, u, v)}

\* No symbol that write_min_config() leaves out is both visible and selected at m.
NothingLockedAtM(u) ==
  \A s \in Symbols : \/ InChoice(s)
                     \/ Attributes(u)[Vis(s)] # 1
                     \/ ExprValue(Def[s].rev, u, Attributes(u)) # 1

LEMMA MinimalSuffices ==
  ASSUME MinimalTellsAll(U!Users), NEW u \in U!Users, NothingLockedAtM(u)
  PROVE  Suffices(MinimalSymbols(u), u)
<1> DEFINE v == Attributes(u)
<1>1. ASSUME NEW s \in WrittenSymbols(u, v), s \notin MinimalSymbols(u) PROVE Derived(s, u)
  <2>1. s \in Symbols /\ s \in Items
    BY ItemShape DEF WrittenSymbols
  <2>2. \/ CannotBeChanged(s, u, v)
        \/ v[Value(s)] = StrDefault(s, u, v)
        \/ SelectedByDefault(s, u, v)
    BY <1>1 DEF MinimalSymbols
  <2>3. v[Vis(s)] \in 0..2
    BY <2>1, VisibilityType
  <2>4. IF IsTri(s) THEN v[Vis(s)] # 0 => ExprValue(Def[s].direct, u, v) # 0
                    ELSE ExprValue(Def[s].rev, u, v) = 0
    BY <2>1 DEF MinimalTellsAll
  <2>5. CASE InChoice(s)
    <3>1. IsTri(s)
      BY <2>1, <2>5, SymbolInChoice
    <3>2. SelectedByDefault(s, u, v) => ~IsTristate(Def[s].choice)
      BY <2>1, <2>5 DEF MinimalTellsAll, SelectedByDefault, IsTristate
    <3>. QED BY <2>2, <2>5, <3>1, <3>2 DEF Derived, CannotBeChanged, StrDefault
  <2>6. CASE ~InChoice(s) /\ ~IsTri(s)
    <3>1. CannotBeChanged(s, u, v) => v[Vis(s)] = 0
      BY <2>3, <2>4, <2>6 DEF CannotBeChanged
    <3>. QED BY <2>2, <2>6, <3>1 DEF Derived, SelectedByDefault
  <2>7. CASE ~InChoice(s) /\ IsTri(s)
    <3>1. ~(v[Vis(s)] = 1 /\ ExprValue(Def[s].rev, u, v) = 1)
      BY <2>1, <2>7 DEF NothingLockedAtM
    <3>. QED BY <2>2, <2>4, <2>7, <3>1 DEF Derived, SelectedByDefault
  <2>. QED BY <2>5, <2>6, <2>7
<1>. QED BY <1>1 DEF Suffices, MinimalSymbols

\* A symbol that its default holds above its visibility is at its default.
LEMMA HeldIsDefault ==
  ASSUME NEW u \in U!Users, NothingLockedAtM(u), NEW s \in Symbols, IsTri(s), ~InChoice(s),
         HeldByDefault(s, u)
  PROVE  Attributes(u)[Value(s)] = StrDefault(s, u, Attributes(u))
<1> DEFINE v == Attributes(u)
           rev == ExprValue(Def[s].rev, u, v)
           weak == ExprValue(Def[s].weak, u, v)
           chosen == ChosenValue(s, u, v)
           default == DefaultValue(s, u, v)
<1>1. rev \in 0..2 /\ weak \in 0..2 /\ chosen \in 0..2 /\ default \in 0..2
  BY ChosenType
<1>2. v[Vis(s)] = 1 /\ v[Value(s)] = 2 /\ rev = 0 /\ weak \in {0, 1}
  BY <1>1 DEF HeldByDefault, NothingLockedAtM
<1>3. ~NotTristate(s, u, v)
  BY <1>2, VisibilityValue, ItemShape DEF Visibility, VisibilityAt
<1>4. v[Value(s)] = Greater(chosen, rev)
  BY <1>2, <1>3, TriValueIs DEF TriValue, UnpromotedValue, PromotedValue
<1>5. chosen = 2
  BY <1>1, <1>2, <1>4 DEF Greater
<1>6. ~HasUserValue(s, u, v)
  BY <1>2, <1>5 DEF ChosenValue, Lesser
<1>7. chosen = Greater(default, ImpliedValue(s, u, v))
  BY <1>6 DEF ChosenValue
<1>8. ImpliedValue(s, u, v) \in {0, 1}
  BY <1>2 DEF ImpliedValue
<1>9. default = 2
  BY <1>1, <1>5, <1>7, <1>8 DEF Greater
<1> HIDE DEF default, rev, weak
<1>10. Greater(default, Greater(rev, weak)) = 2
  BY <1>2, <1>9 DEF Greater
<1>. QED BY <1>2, <1>10 DEF StrDefault, DefaultAtM, default, rev, weak

\* Loading what write_min_config() wrote gives the values, whatever is set before.
LEMMA MinimalReloadGivesValues ==
  ASSUME ModesAreSaved, MinimalTellsAll(U!Users), NEW u \in U!Users, NEW start \in U!Users,
         NothingLockedAtM(u), NEW w, w = LoadedUser(start, MinContents(u, Attributes(u)))
  PROVE  ValuesKept(u, w)
<1> DEFINE wanted == MinimalSymbols(u)
<1>1. Suffices(wanted, u)
  BY MinimalSuffices
<1>2. w = LoadedUser(start, Lines(wanted, Attributes(u)))
  BY DEF MinContents, MinimalSymbols
<1>3. ASSUME NEW s \in Symbols, IsTri(s), ~InChoice(s), HeldByDefault(s, u) PROVE s \notin wanted
  BY <1>3, HeldIsDefault DEF MinimalSymbols
<1> HIDE DEF wanted
<1>4. w \in U!Users /\ Reloaded(u, w) /\ \A s \in Symbols \ wanted : w[s] = NoUser
  BY <1>1, <1>2, ReloadIs
<1>5. HeldAreUnset(u, w)
  BY <1>3, <1>4 DEF HeldAreUnset
<1>. QED BY <1>4, <1>5, ReloadKeepsAll
=============================================================================
