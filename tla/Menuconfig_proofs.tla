--------------------------- MODULE Menuconfig_proofs ---------------------------
(***************************************************************************)
(* Proofs about Menuconfig, for every tree, every way to evaluate its      *)
(* expressions and every set of files that satisfy the assumptions.        *)
(***************************************************************************)
EXTENDS Menuconfig, KconfigFiles_proofs, FiniteSetTheorems

(***************************************************************************)
(* Functions on the nodes that are defined by recursion along the tree.    *)
(***************************************************************************)

\* The place of a node among the nodes
LEMMA PlaceIs ==
  ASSUME NEW n \in Nodes
  PROVE  Place(n) \in 1..Len(NodeOrder) /\ NodeOrder[Place(n)] = n
<1> DEFINE S == {k \in DOMAIN NodeOrder : NodeOrder[k] = n}
<1>1. DOMAIN NodeOrder = 1..Len(NodeOrder) /\ Len(NodeOrder) \in Nat
  BY NodeAssumption
<1>2. S \subseteq Nat /\ S # {}
  BY <1>1 DEF Nodes
<1>3. First(S) \in S
  <2> HIDE DEF S
  <2>. QED BY <1>2, FirstIndex
<1>. QED BY <1>1, <1>3 DEF Place, Index

\* The position of what is in a list, and 0 for what is not.
LEMMA IndexIs ==
  ASSUME NEW list, IsList(list), NEW n
  PROVE  /\ Index(list, n) \in {0} \cup DOMAIN list
         /\ InList(n, list) => Index(list, n) \in DOMAIN list /\ list[Index(list, n)] = n
<1> DEFINE S == {k \in DOMAIN list : list[k] = n}
<1>1. S \subseteq Nat /\ (InList(n, list) => S # {})
  BY DEF IsList, InList
<1>2. First(S) = 0 \/ First(S) \in S
  <2> HIDE DEF S
  <2>. QED BY <1>1, FirstIndex
<1>3. InList(n, list) => First(S) \in S
  <2> HIDE DEF S
  <2>. QED BY <1>1, FirstIndex
<1>. QED BY <1>2, <1>3 DEF Index

\* The top node is a node and the parent of itself, the others have theirs above.
LEMMA ParentIs ==
  ASSUME NEW n \in Nodes
  PROVE  /\ Top \in Nodes /\ Node[n].parent \in Nodes
         /\ n # Top => Place(Node[n].parent) < Place(n)
         /\ ~IsMenu(Node[n].parent) => n # Top /\ Place(Node[n].parent) < Place(n)
         /\ ~Node[Node[n].parent].menuconfig => Node[Node[n].parent].item \in Symbols
<1>1. Top \in Nodes
  BY NodeAssumption DEF Top, Nodes
<1>. QED BY <1>1, NodeAssumption DEF IsMenu

\* ParentMenu is what its definition says.
LEMMA ParentMenuIs ==
  /\ ParentMenu \in [Nodes -> Nodes]
  /\ \A n \in Nodes : ParentMenu[n] = IF IsMenu(Node[n].parent) THEN Node[n].parent
                                      ELSE ParentMenu[Node[n].parent]
<1> DEFINE Above(f) == [n \in Nodes |-> IF IsMenu(Node[n].parent) THEN Node[n].parent
                                        ELSE f[Node[n].parent]]
           F == [Nodes -> Nodes]
           Step == [n \in Nodes |-> [f \in F |-> Above(f)[n]]]
           rank == [n \in Nodes |-> Place(n)]
           some == [n \in Nodes |-> n]
<1>1. \A f \in F : Above(f) \in F
  BY ParentIs
<1>2. Step \in [Nodes -> [F -> Nodes]] /\ some \in F
  <2> HIDE DEF Above
  <2>. QED BY <1>1
<1>3. Ranks(Nodes, rank)
  BY PlaceIs DEF Ranks
<1>4. LooksBelow(Nodes, Nodes, rank, Step)
  <2>1. SUFFICES ASSUME NEW n \in Nodes, NEW g \in F, NEW h \in F,
                        \A e \in Nodes : rank[e] < rank[n] => g[e] = h[e]
                 PROVE  Step[n][g] = Step[n][h]
    BY DEF LooksBelow
  <2>. QED BY <2>1, ParentIs
<1>5. PICK f \in F : Fixed(Nodes, Step, f)
  <2> HIDE DEF Step, rank, some
  <2>. QED BY <1>2, <1>3, <1>4, RankedFunction
<1>6. f = Above(f)
  <2>1. \A n \in Nodes : Step[n][f] = Above(f)[n]
    OBVIOUS
  <2>2. f = [n \in Nodes |-> Above(f)[n]]
    <3> HIDE DEF Step, Above
    <3>. QED BY <1>5, <2>1 DEF Fixed
  <2>. QED BY <2>2
<1>7. ParentMenu = CHOOSE x : x = Above(x)
  BY DEF ParentMenu
<1>8. ParentMenu = Above(ParentMenu)
  BY <1>6, <1>7
<1>9. DOMAIN ParentMenu = Nodes /\ ParentMenu = [n \in Nodes |-> ParentMenu[n]]
  BY <1>8
<1>10. \A n \in Nodes : ParentMenu[n] = Above(ParentMenu)[n]
  BY <1>8
<1> DEFINE in == {k \in Nat : \A n \in Nodes : Place(n) < k => ParentMenu[n] \in Nodes}
<1>11. 0 \in in
  BY PlaceIs
<1>12. ASSUME NEW k \in Nat, k \in in PROVE k + 1 \in in
  <2>1. SUFFICES ASSUME NEW n \in Nodes, Place(n) < k + 1 PROVE ParentMenu[n] \in Nodes
    OBVIOUS
  <2>2. Node[n].parent \in Nodes /\ Place(n) \in Nat /\ Place(Node[n].parent) \in Nat
    BY ParentIs, PlaceIs
  <2>3. ~IsMenu(Node[n].parent) => Place(Node[n].parent) < k
    BY <2>1, <2>2, ParentIs
  <2>. QED BY <1>10, <1>12, <2>2, <2>3
<1>13. Nat \subseteq in
  <2> HIDE DEF in
  <2>. QED BY <1>11, <1>12, NumberInduction
<1>14. \A n \in Nodes : ParentMenu[n] \in Nodes
  <2>1. SUFFICES ASSUME NEW n \in Nodes PROVE ParentMenu[n] \in Nodes
    OBVIOUS
  <2>2. Place(n) + 1 \in Nat /\ Place(n) < Place(n) + 1
    BY PlaceIs
  <2>. QED BY <1>13, <2>2
<1>. QED BY <1>9, <1>10, <1>14

\* ... so it is a menu.
LEMMA ParentMenuIsMenu ==
  ASSUME NEW n \in Nodes
  PROVE  ParentMenu[n] \in Nodes /\ IsMenu(ParentMenu[n])
<1> DEFINE in == {k \in Nat : \A m \in Nodes : Place(m) < k => IsMenu(ParentMenu[m])}
<1>1. 0 \in in
  BY PlaceIs
<1>2. ASSUME NEW k \in Nat, k \in in PROVE k + 1 \in in
  <2>1. SUFFICES ASSUME NEW m \in Nodes, Place(m) < k + 1 PROVE IsMenu(ParentMenu[m])
    OBVIOUS
  <2>2. Node[m].parent \in Nodes /\ Place(m) \in Nat /\ Place(Node[m].parent) \in Nat
    BY ParentIs, PlaceIs
  <2>3. ~IsMenu(Node[m].parent) => Place(Node[m].parent) < k
    BY <2>1, <2>2, ParentIs
  <2>. QED BY <1>2, <2>2, <2>3, ParentMenuIs
<1>3. Place(n) + 1 \in in
  <2> HIDE DEF in
  <2>. QED BY <1>1, <1>2, NumberInduction, PlaceIs
<1>4. Place(n) < Place(n) + 1
  BY PlaceIs
<1>. QED BY <1>3, <1>4, ParentMenuIs

\* ShownFor is what its definition says.
SeenBelow(n) == {m \in Nodes \ {Top} : Node[m].parent = n /\ Node[n].item \in Symbols}

LEMMA ShownForIs ==
  ASSUME NEW n \in Nodes
  PROVE  ShownFor[n] = {n} \cup UNION {ShownFor[c] : c \in SeenBelow(n)}
<1> DEFINE SeenFrom(f, m) == {m} \cup UNION {f[c] : c \in SeenBelow(m)}
           All(f) == [m \in Nodes |-> SeenFrom(f, m)]
           S == SUBSET Nodes
           F == [Nodes -> S]
           Step == [m \in Nodes |-> [f \in F |-> SeenFrom(f, m)]]
           rank == [m \in Nodes |-> Len(NodeOrder) - Place(m)]
           some == [m \in Nodes |-> {}]
<1>1. Len(NodeOrder) \in Nat /\ some \in F
  BY NodeAssumption
<1>2. ASSUME NEW m \in Nodes, NEW f \in F PROVE SeenFrom(f, m) \in S
  <2>1. \A c \in SeenBelow(m) : f[c] \in S
    BY DEF SeenBelow
  <2>. QED BY <2>1
<1>3. Step \in [Nodes -> [F -> S]]
  <2> HIDE DEF SeenFrom, F, S
  <2>. QED BY <1>2
<1>4. Ranks(Nodes, rank)
  BY <1>1, PlaceIs DEF Ranks
<1>5. LooksBelow(Nodes, S, rank, Step)
  <2>1. SUFFICES ASSUME NEW m \in Nodes, NEW g \in F, NEW h \in F,
                        \A e \in Nodes : rank[e] < rank[m] => g[e] = h[e]
                 PROVE  Step[m][g] = Step[m][h]
    BY DEF LooksBelow
  <2>2. ASSUME NEW c \in SeenBelow(m) PROVE g[c] = h[c]
    <3>1. c \in Nodes /\ Place(m) < Place(c)
      BY ParentIs DEF SeenBelow
    <3>2. rank[c] < rank[m]
      BY <3>1, <1>1, PlaceIs
    <3>. QED BY <2>1, <3>1, <3>2
  <2>3. SeenFrom(g, m) = SeenFrom(h, m)
    BY <2>2
  <2>. QED BY <2>3
<1>6. PICK f \in F : Fixed(Nodes, Step, f)
  <2> HIDE DEF Step, rank, some, S
  <2>. QED BY <1>1, <1>3, <1>4, <1>5, RankedFunction
<1>7. f = All(f)
  <2>1. \A m \in Nodes : Step[m][f] = SeenFrom(f, m)
    OBVIOUS
  <2> HIDE DEF Step, SeenFrom
  <2>. QED BY <1>6, <2>1 DEF Fixed
<1> DEFINE Shows(x) == x = All(x)
           chosen == CHOOSE x : Shows(x)
<1>8. ShownFor = chosen
  BY DEF ShownFor, SeenBelow
<1>9. Shows(chosen)
  <2>1. Shows(f)
    BY <1>7
  <2> HIDE DEF Shows
  <2>. QED BY <2>1
<1> HIDE DEF chosen
<1>10. chosen = All(chosen)
  BY <1>9
<1>11. chosen[n] = SeenFrom(chosen, n)
  <2>1. All(chosen)[n] = SeenFrom(chosen, n)
    OBVIOUS
  <2> HIDE DEF All, SeenFrom
  <2>. QED BY <1>10, <2>1
<1>. QED BY <1>8, <1>11
-----------------------------------------------------------------------------
(***************************************************************************)
(* What is shown.                                                          *)
(***************************************************************************)

\* The nodes of a set in their order are the nodes of the set.
LEMMA InOrderIs ==
  ASSUME NEW S, S \subseteq Nodes
  PROVE  /\ InOrder(S) \in Seq(Nodes) /\ IsList(InOrder(S))
         /\ \A k \in DOMAIN InOrder(S) : InOrder(S)[k] \in S
         /\ \A n \in S : InList(n, InOrder(S))
<1> DEFINE T == {NodeOrder[k] : k \in 1..Len(NodeOrder)} \cap S
           list == Within(NodeOrder, S)
<1>1. Len(NodeOrder) \in Nat
  BY NodeAssumption
<1>2. /\ list \in Seq(T)
      /\ \A k \in 1..Len(NodeOrder) : NodeOrder[k] \in S => \E j \in DOMAIN list : list[j] = NodeOrder[k]
  BY <1>1, WithinIs
<1> HIDE DEF T, list
<1>3. list \in Seq(Nodes) /\ DOMAIN list \subseteq Nat \ {0} /\ \A k \in DOMAIN list : list[k] \in S
  <2>1. T \subseteq S /\ T \subseteq Nodes
    BY DEF T
  <2>. QED BY <1>2, <2>1
<1>4. \A n \in S : \E j \in DOMAIN list : list[j] = n
  BY <1>2, PlaceIs
<1>5. InOrder(S) = list
  BY DEF InOrder, list
<1>. QED BY <1>3, <1>4, <1>5 DEF IsList, InList

\* The nodes on the screen are nodes of the menu that are listed.
ListedIn(m, on, u, v) == Once(m, {n \in NodesOf[m] : Listed(n, on, u, v)})

LEMMA ShownIs ==
  ASSUME NEW m \in Nodes, NEW on, NEW u, NEW v,
         NEW list, list = ShownNodes(m, on, u, v)
  PROVE  /\ list \in Seq(Nodes) /\ IsList(list)
         /\ \A n : InList(n, list) <=> n \in ListedIn(m, on, u, v)
<1> DEFINE S == ListedIn(m, on, u, v)
<1>1. S \subseteq Nodes
  BY DEF ListedIn, Once, NodesOf
<1>2. list = InOrder(S)
  BY DEF ShownNodes, ListedIn
<1> HIDE DEF S
<1>3. list \in Seq(Nodes) /\ IsList(list) /\ \A k \in DOMAIN list : list[k] \in S
  BY <1>1, <1>2, InOrderIs
<1>4. ASSUME NEW n PROVE InList(n, list) <=> n \in S
  <2>1. n \in S => InList(n, list)
    BY <1>1, <1>2, InOrderIs
  <2>. QED BY <2>1, <1>3 DEF InList
<1>. QED BY <1>3, <1>4 DEF S

\* There is something to show in the top menu.
LEMMA TopIsShown ==
  ASSUME NEW u, NEW v
  PROVE  ShownNodes(Top, TRUE, u, v) # <<>>
<1> DEFINE n == NodeOrder[2]
           list == ShownNodes(Top, TRUE, u, v)
<1>1. n \in Nodes /\ Top \in Nodes /\ n # Top
  BY NodeAssumption DEF Nodes, Top
<1>2. Place(n) = 2
  BY <1>1, PlaceIs, NodeAssumption
<1>3. Node[n].parent = Top
  BY <1>1, <1>2, ParentIs, PlaceIs DEF Top
<1>4. ParentMenu[n] = Top
  BY <1>1, <1>3, ParentMenuIs DEF IsMenu
<1>5. n \in ListedIn(Top, TRUE, u, v)
  BY <1>1, <1>4 DEF ListedIn, Once, NodesOf, Listed
<1> HIDE DEF n
<1>6. InList(n, list)
  BY <1>1, <1>5, ShownIs
<1> HIDE DEF list
<1>7. list # <<>>
  BY <1>6 DEF InList
<1>. QED BY <1>7 DEF list

\* What the engine computes, and what is offered
LEMMA AttributesAtIs ==
  ASSUME NEW u \in U!Users
  PROVE  AttributesAt[u] = Attributes(u)
BY DEF AttributesAt

\* What is offered for a symbol or choice has the form set_value() asks for.
LEMMA OptionType ==
  ASSUME NEW u \in U!Users, NEW v, v = Attributes(u), NEW i \in Items, IsTri(i),
         NEW x \in Assignable(i, u, v)
  PROVE  /\ x \in 0..2 /\ v[Vis(i)] # 0 /\ (x = 1 => IsTristate(i))
         /\ i \in Symbols => x \in UserVals[i]
         /\ i \in Choices => x \in Modes(i)
<1> DEFINE vis == v[Vis(i)]
<1>1. vis \in 0..2
  BY VisibilityType
<1>2. vis = 1 => ~NotTristate(i, u, v)
  BY VisibilityValue DEF Visibility, VisibilityAt
<1>3. ~NotTristate(i, u, v) => IsTristate(i)
  BY DEF NotTristate
<1> HIDE DEF vis
<1>4. CASE i \in Symbols
  <2>1. i \notin Choices
    BY <1>4, ItemShape
  <2> DEFINE rev == ExprValue(Def[i].rev, u, v)
  <2>2. x \in AssignableIn(i, vis, rev, u, v)
    BY <2>1 DEF Assignable, vis
  <2> HIDE DEF rev
  <2>3. vis # 0 /\ x \in 0..2 /\ (x = 1 => IsTristate(i))
    BY <1>1, <1>2, <1>3, <2>2 DEF AssignableIn
  <2>. QED BY <1>4, <2>1, <2>3, UserValsAssumption DEF vis
<1>5. CASE i \in Choices
  <2>1. i \notin Symbols
    BY <1>5, ItemShape
  <2>2. x \in AssignableModes(i, vis, u, v)
    BY <1>5 DEF Assignable, vis
  <2>3. vis # 0 /\ x \in 0..2 /\ (x = 1 => IsTristate(i)) /\ (x = 0 => Def[i].optional)
    BY <1>1, <1>2, <1>3, <2>2 DEF AssignableModes
  <2>. QED BY <1>5, <2>1, <2>3, UserValsAssumption DEF vis
<1>. QED BY <1>4, <1>5 DEF Items
-----------------------------------------------------------------------------
(***************************************************************************)
(* The state is always well formed, the cursor being on the screen or      *)
(* nowhere.                                                                *)
(***************************************************************************)
ScreenType == /\ menu \in Nodes /\ IsMenu(menu) /\ all \in BOOLEAN
              /\ shown \in Seq(Nodes) /\ cursor \in {0} \cup DOMAIN shown

IsFile(f) == /\ Len(f) \in Nat /\ DOMAIN f = 1..Len(f)
             /\ \A k \in DOMAIN f : f[k] = [sym |-> f[k].sym, val |-> f[k].val]

DataType == /\ user \in U!Users /\ vals = Attributes(user) /\ changed \in BOOLEAN
            /\ saved = Gone \/ IsFile(saved)

StateType == ScreenType /\ DataType

\* The files of others and those that are written
LEMMA FilesAre ==
  /\ \A f \in Files : IsFile(f)
  /\ \A u, v : IsFile(Contents(u, v))
<1>1. ASSUME NEW f \in Files PROVE IsFile(f)
  <2> DEFINE S == {[sym |-> f[k].sym, val |-> f[k].val] : k \in DOMAIN f}
  <2>1. f \in Seq(S)
    BY NodeAssumption
  <2>2. \A x \in S : x = [sym |-> x.sym, val |-> x.val]
    OBVIOUS
  <2> HIDE DEF S
  <2>3. Len(f) \in Nat /\ DOMAIN f = 1..Len(f) /\ \A k \in DOMAIN f : f[k] \in S
    BY <2>1
  <2>. QED BY <2>2, <2>3 DEF IsFile
<1>2. ASSUME NEW u, NEW v PROVE IsFile(Contents(u, v))
  <2>1. Contents(u, v) \in Seq({Line(s, v) : s \in Symbols \cap WrittenSymbols(u, v)})
    BY LinesType DEF Contents
  <2>. QED BY <2>1 DEF IsFile, Line
<1>. QED BY <1>1, <1>2

\* _update_menu(), and whatever shows a menu
LEMMA ShowMenuType ==
  ASSUME NEW m \in Nodes, IsMenu(m), NEW n, ShowMenu(m, n), all' \in BOOLEAN
  PROVE  ScreenType'
<1>1. shown' = ShownNodes(m, all', user', vals') /\ menu' = m /\ cursor' = Index(shown', n)
  BY DEF ShowMenu, ShownNext
<1>2. shown' \in Seq(Nodes) /\ IsList(shown')
  BY <1>1, ShownIs
<1>3. cursor' \in {0} \cup DOMAIN shown'
  BY <1>1, <1>2, IndexIs
<1>. QED BY <1>1, <1>2, <1>3 DEF ScreenType

\* The node under the cursor
LEMMA CurrentType ==
  ASSUME ScreenType, Running
  PROVE  cursor \in DOMAIN shown /\ Current \in Nodes
BY DEF ScreenType, Running, Current

\* The selected entry of a choice, or else the given one
LEMMA SelectedOrType ==
  ASSUME NEW m, NEW k \in DOMAIN shown', shown' \in Seq(Nodes)
  PROVE  SelectedOr(m, k) \in DOMAIN shown'
<1> DEFINE i == vals[<<Node[m].item, "sel">>]
           nodes == NodesWith(i)
           S == {j \in DOMAIN nodes : InList(nodes[j], shown')}
<1>1. IsList(nodes)
  BY InOrderIs DEF NodesWith
<1>2. S \subseteq Nat
  BY <1>1 DEF IsList
<1>3. First(S) # 0 => First(S) \in S
  <2> HIDE DEF S
  <2>. QED BY <1>2, FirstIndex
<1>4. IsList(shown')
  BY DEF IsList
<1>5. First(S) # 0 => Index(shown', nodes[First(S)]) \in DOMAIN shown'
  BY <1>3, <1>4, IndexIs
<1>6. SelectedOr(m, k) = k \/ (First(S) # 0 /\ SelectedOr(m, k) = Index(shown', nodes[First(S)]))
  BY DEF SelectedOr
<1>. QED BY <1>5, <1>6

\* A value that is offered or typed is accepted.
LEMMA WithType ==
  ASSUME DataType, NEW i \in Items, NEW x,
         IsTri(i) => x \in Options(i), ~IsTri(i) => x \in Typed[i]
  PROVE  With(i, x) \in U!Users
<1>1. user \in U!Users /\ vals = Attributes(user)
  BY DEF DataType
<1>2. CASE i \in Symbols
  <2>1. x \in UserVals[i]
    BY <1>1, <1>2, OptionType, NodeAssumption DEF Options
  <2>. QED BY <1>1, <1>2, <2>1, WithValueType DEF With
<1>3. CASE i \in Choices
  <2>1. i \notin Symbols /\ IsTri(i)
    BY <1>3, ItemShape, TreeAssumption
  <2>2. x \in Modes(i)
    BY <1>1, <1>3, <2>1, OptionType DEF Options
  <2>. QED BY <1>1, <1>3, <2>1, <2>2, WithModeType DEF With
<1>. QED BY <1>2, <1>3 DEF Items

LEMMA SetItemType ==
  ASSUME DataType, NEW i \in Items, NEW x, SetItem(i, x),
         x = CurrentValue(i) \/ With(i, x) \in U!Users
  PROVE  DataType' /\ all' = all
<1>1. CASE x = CurrentValue(i)
  BY <1>1 DEF SetItem, DataType
<1>2. CASE x # CurrentValue(i)
  <2>1. user' = With(i, x) /\ vals' = AttributesAt[user'] /\ changed' = TRUE /\ all' = all /\ saved' = saved
    BY <1>2 DEF SetItem
  <2>. QED BY <1>2, <2>1, AttributesAtIs DEF DataType
<1>. QED BY <1>1, <1>2

\* There is always an option when a value is toggled.
LEMMA NextOptionType ==
  ASSUME DataType, NEW n, Changeable(n), NEW i, i = Node[n].item, IsTri(i)
  PROVE  NextOption(i) \in Options(i) /\ Options(i) \subseteq 0..2
<1>1. i \in Items /\ user \in U!Users /\ vals = Attributes(user)
  BY DEF Changeable, DataType
<1>2. Options(i) \subseteq 0..2
  BY <1>1, OptionType DEF Options
<1>3. Options(i) # {}
  <2>1. CASE Cardinality(Options(i)) > 1
    BY <2>1, FS_EmptySet
  <2>2. CASE InYModeChoice(i, vals)
    <3>1. i \in Symbols /\ InChoice(i) /\ vals[Vis(i)] = 2
      BY <2>2 DEF InYModeChoice, InChoice
    <3>2. Options(i) = {2}
      BY <3>1, ItemShape DEF Options, Assignable, AssignableIn
    <3>. QED BY <3>2
  <2>. QED BY <2>1, <2>2 DEF Changeable
<1> DEFINE above == {y \in Options(i) : y > CurrentValue(i)}
<1>4. above \subseteq Nat /\ above \subseteq Options(i) /\ Options(i) \subseteq Nat
  BY <1>2
<1>5. above # {} => First(above) \in above
  <2> HIDE DEF above
  <2>. QED BY <1>4, FirstIndex
<1>6. First(Options(i)) \in Options(i)
  BY <1>3, <1>4, FirstIndex
<1>. QED BY <1>2, <1>4, <1>5, <1>6 DEF NextOption

\* A file that was read or written
LEMMA LoadOverType ==
  ASSUME NEW u \in U!Users, NEW f, f = Gone \/ IsFile(f), LoadOver(u, f)
  PROVE  DataType'
<1>1. user' \in U!Users
  BY LoadType DEF LoadOver, LoadedUser, Loads, IsFile
<1>2. (f = Gone \/ NeedsSave(user', vals')) \in BOOLEAN
  OBVIOUS
<1>. QED BY <1>1, <1>2, AttributesAtIs DEF LoadOver, DataType

\* A new session
LEMMA SessionType ==
  ASSUME NEW f, f = Gone \/ IsFile(f), Session(f)
  PROVE  StateType'
<1>1. DataType'
  BY UntouchedType, LoadOverType DEF Session
<1> DEFINE off == ShownNodes(Top, FALSE, user', vals')
<1>2. menu' = Top /\ all' = (off = <<>>) /\ shown' = ShownNodes(Top, all', user', vals') /\ cursor' = 1
  BY DEF Session, ShownNext
<1>3. Top \in Nodes /\ all' \in BOOLEAN
  BY <1>2, ParentIs, NodeAssumption DEF Nodes, Top
<1>4. shown' \in Seq(Nodes)
  BY <1>2, <1>3, ShownIs
<1>5. shown' # <<>>
  <2>1. CASE all'
    <3>1. all' = TRUE
      BY <1>3, <2>1
    <3>. QED BY <1>2, <3>1, TopIsShown
  <2>2. CASE ~all'
    <3>1. all' = FALSE
      BY <1>3, <2>2
    <3>. QED BY <1>2, <3>1
  <2>. QED BY <2>1, <2>2
<1>6. 1 \in DOMAIN shown'
  BY <1>4, <1>5
<1>. QED BY <1>1, <1>2, <1>3, <1>4, <1>6 DEF StateType, ScreenType, IsMenu

\* The highest of some indexes up to k
LEMMA HighestIndex ==
  ASSUME NEW k \in Nat, NEW S, S \subseteq 0..k, S # {}
  PROVE  Highest(S) \in S
<1> DEFINE T == {k - j : j \in S}
<1>1. T \subseteq Nat /\ T # {}
  <2>1. \A j \in S : k - j \in Nat
    OBVIOUS
  <2>2. PICK j : j \in S
    OBVIOUS
  <2>. QED BY <2>1, <2>2
<1>2. PICK m \in T : \A t \in T : m <= t
  <2> HIDE DEF T
  <2>. QED BY <1>1, LeastNumber
<1>3. PICK x \in S : m = k - x
  BY <1>2
<1>4. \A y \in S : y <= x
  <2>1. SUFFICES ASSUME NEW y \in S PROVE y <= x
    OBVIOUS
  <2>2. k - y \in T /\ x \in 0..k /\ y \in 0..k
    OBVIOUS
  <2> HIDE DEF T
  <2>. QED BY <1>2, <1>3, <2>2
<1>. QED BY <1>4 DEF Highest

\* The closest entry is one that is shown now, if there is any.
LEMMA ClosestType ==
  ASSUME NEW list, IsList(list), NEW k, k \in Nat, NEW now
  PROVE  /\ Closest(list, k, now) = 0 \/ (/\ Closest(list, k, now) \in DOMAIN list
                                          /\ InList(list[Closest(list, k, now)], now))
         /\ (\E j \in DOMAIN list : InList(list[j], now)) => Closest(list, k, now) # 0
<1> DEFINE kept == {j \in DOMAIN list : InList(list[j], now)}
           before == {j \in kept : j <= k}
<1>1. kept \subseteq Nat /\ before \subseteq 0..k /\ 0 \notin kept
  BY DEF IsList
<1>2. kept # {} => First(kept) \in kept
  <2> HIDE DEF kept
  <2>. QED BY <1>1, FirstIndex
<1>3. kept = {} => First(kept) = 0
  <2> HIDE DEF kept
  <2>. QED BY <1>1, FirstIndex
<1>4. before # {} => Highest(before) \in before
  <2> HIDE DEF before
  <2>. QED BY <1>1, HighestIndex
<1>5. Closest(list, k, now) = IF before # {} THEN Highest(before) ELSE First(kept)
  BY DEF Closest
<1>6. Closest(list, k, now) = 0 \/ Closest(list, k, now) \in kept
  BY <1>2, <1>3, <1>4, <1>5
<1>7. kept # {} => Closest(list, k, now) \in kept
  BY <1>2, <1>4, <1>5
<1>. QED BY <1>1, <1>6, <1>7

\* The first entry of a menu, and where one gets in it
LEMMA ChildrenAre ==
  ASSUME NEW m \in Nodes, Children(m) # <<>>
  PROVE  Children(m)[1] \in Nodes \ {Top} /\ Node[Children(m)[1]].parent = m
<1> DEFINE S == {n \in Nodes \ {Top} : Node[n].parent = m}
<1>1. S \subseteq Nodes /\ Children(m) = InOrder(S)
  BY DEF Children
<1> HIDE DEF S
<1>2. InOrder(S) \in Seq(Nodes) /\ \A k \in DOMAIN InOrder(S) : InOrder(S)[k] \in S
  BY <1>1, InOrderIs
<1>3. 1 \in DOMAIN InOrder(S)
  BY <1>1, <1>2
<1>. QED BY <1>1, <1>2, <1>3 DEF S

\* The nodes of a menu are listed in show-all mode.
LEMMA EntriesAreShown ==
  ASSUME NEW n \in Nodes \ {Top}, NEW u, NEW v
  PROVE  InList(n, ShownNodes(ParentMenu[n], TRUE, u, v))
<1> DEFINE m == ParentMenu[n]
<1>1. m \in Nodes
  BY ParentMenuIs
<1>2. n \in NodesOf[m] /\ Listed(n, TRUE, u, v) /\ ParentMenu[n] = m
  BY <1>1 DEF NodesOf, Listed
<1> HIDE DEF m
<1>3. n \in ListedIn(m, TRUE, u, v)
  BY <1>2 DEF ListedIn, Once
<1>4. InList(n, ShownNodes(m, TRUE, u, v))
  BY <1>1, <1>3, ShownIs
<1>. QED BY <1>4 DEF m

\* _jump_to() into a menu or choice: the cursor is on what is shown.
LEMMA JumpIntoIs ==
  ASSUME NEW m \in Nodes, m = Top \/ Node[m].menuconfig, Children(m) # <<>>, ScreenType,
         JumpInto(m), UNCHANGED <<user, vals>>
  PROVE  /\ menu' = m /\ all' \in BOOLEAN /\ shown' = ShownNodes(m, all', user', vals')
         /\ shown' \in Seq(Nodes) /\ cursor' \in DOMAIN shown'
<1> DEFINE now == ShownNodes(m, all, user, vals)
           every == ShownNodes(m, TRUE, user, vals)
           n == Children(m)[1]
           k == Closest(every, Index(every, n), now)
<1>1. n \in Nodes \ {Top} /\ ParentMenu[n] = m
  BY ChildrenAre, ParentMenuIs DEF IsMenu
<1>2. InList(n, every)
  BY <1>1, EntriesAreShown
<1>3. IsList(every) /\ IsList(now) /\ every \in Seq(Nodes) /\ now \in Seq(Nodes)
  BY ShownIs
<1>4. /\ menu' = m /\ all' = (all \/ k = 0) /\ shown' = IF k = 0 THEN every ELSE now
      /\ cursor' = SelectedOr(m, IF k = 0 THEN Index(every, n) ELSE Index(now, every[k]))
  BY DEF JumpInto, ShownNow
<1>5. all \in BOOLEAN
  BY DEF ScreenType
<1> HIDE DEF now, every, n
<1>6. Index(every, n) \in DOMAIN every /\ Index(every, n) \in Nat
  BY <1>2, <1>3, IndexIs DEF IsList
<1>7. k = 0 \/ InList(every[k], now)
  BY <1>3, <1>6, ClosestType
<1>8. k # 0 => Index(now, every[k]) \in DOMAIN now
  BY <1>3, <1>7, IndexIs
<1> DEFINE start == IF k = 0 THEN Index(every, n) ELSE Index(now, every[k])
<1> HIDE DEF k
<1>9. shown' \in Seq(Nodes) /\ start \in DOMAIN shown'
  BY <1>3, <1>4, <1>6, <1>8
<1>10. cursor' \in DOMAIN shown'
  <2>1. cursor' = SelectedOr(m, start)
    BY <1>4
  <2> HIDE DEF start
  <2>. QED BY <1>9, <2>1, SelectedOrType
<1>11. shown' = ShownNodes(m, all', user', vals') /\ all' \in BOOLEAN
  <2>1. CASE k = 0
    <3>1. all' = TRUE
      BY <1>4, <1>5, <2>1
    <3>. QED BY <1>4, <2>1, <3>1 DEF every
  <2>2. CASE k # 0
    <3>1. all' = all
      BY <1>4, <1>5, <2>2
    <3>. QED BY <1>4, <1>5, <2>2, <3>1 DEF now
  <2>. QED BY <2>1, <2>2
<1>. QED BY <1>4, <1>9, <1>10, <1>11

\* Jumping, to a menu or to any other node
LEMMA JumpType ==
  ASSUME StateType, NEW n \in Nodes \ {Top}, Jump(n)
  PROVE  StateType'
<1>1. UNCHANGED <<user, vals, changed, saved>>
  BY DEF Jump, Browse
<1>2. CASE Node[n].item \in Choices \cup {"MENU"} /\ Children(n) # <<>>
  <2>1. Node[n].menuconfig /\ JumpInto(n) /\ ScreenType
    BY <1>2, NodeAssumption DEF Jump, StateType
  <2>. QED BY <1>1, <1>2, <2>1, JumpIntoIs DEF StateType, ScreenType, DataType, IsMenu
<1>3. CASE ~(Node[n].item \in Choices \cup {"MENU"} /\ Children(n) # <<>>)
  <2> DEFINE m == ParentMenu[n]
  <2>1. m \in Nodes /\ IsMenu(m)
    BY ParentMenuIsMenu
  <2>2. all' = (all \/ ~InList(n, ShownNow(m))) /\ ShowMenu(m, n)
    BY <1>3 DEF Jump, JumpIn
  <2> HIDE DEF m
  <2>3. all' \in BOOLEAN
    BY <2>2
  <2>4. ScreenType'
    BY <2>1, <2>2, <2>3, ShowMenuType
  <2>. QED BY <1>1, <2>4 DEF StateType, DataType
<1>. QED BY <1>2, <1>3

\* Moving about
LEMMA BrowseType ==
  ASSUME StateType, Move \/ EnterMenu \/ LeaveMenu \/ ToggleShowAll
  PROVE  StateType'
<1>1. Running /\ UNCHANGED <<user, vals, changed, saved>>
  BY DEF Move, EnterMenu, LeaveMenu, ToggleShowAll, Browse
<1>2. DataType' /\ ScreenType
  BY <1>1 DEF StateType, DataType
<1>3. cursor \in DOMAIN shown /\ Current \in Nodes /\ IsList(shown) /\ cursor \in Nat
  BY <1>1, <1>2, CurrentType DEF ScreenType, IsList
<1>4. CASE Move
  BY <1>2, <1>4 DEF Move, StateType, ScreenType
<1>5. CASE EnterMenu
  <2>1. menu' = Current /\ IsMenu(Current) /\ shown' = ShownNodes(Current, all, user, vals)
        /\ shown' # <<>> /\ cursor' = SelectedOr(Current, 1) /\ all' = all
    BY <1>5 DEF EnterMenu, IsMenu, ShownNow
  <2>2. shown' \in Seq(Nodes)
    BY <1>3, <2>1, ShownIs
  <2>3. 1 \in DOMAIN shown'
    BY <2>1, <2>2
  <2>4. cursor' \in DOMAIN shown'
    BY <2>1, <2>2, <2>3, SelectedOrType
  <2>. QED BY <1>2, <1>3, <2>1, <2>2, <2>4 DEF StateType, ScreenType
<1>6. CASE LeaveMenu
  <2>1. ParentMenu[menu] \in Nodes /\ IsMenu(ParentMenu[menu])
    BY <1>2, ParentMenuIsMenu DEF ScreenType
  <2>2. ShowMenu(ParentMenu[menu], menu) /\ all' \in BOOLEAN
    BY <1>2, <1>6 DEF LeaveMenu, ScreenType
  <2>. QED BY <1>2, <2>1, <2>2, ShowMenuType DEF StateType
<1>7. CASE ToggleShowAll
  <2> DEFINE now == ShownNodes(menu, ~all, user, vals)
             k == Closest(shown, cursor, now)
  <2>1. now \in Seq(Nodes) /\ IsList(now)
    BY <1>2, ShownIs DEF ScreenType
  <2>2. k = 0 \/ InList(shown[k], now)
    <3> HIDE DEF now
    <3>. QED BY <1>3, ClosestType
  <2>3. /\ menu' = menu
        /\ IF k = 0 THEN all' = TRUE /\ UNCHANGED <<shown, cursor>>
           ELSE all' = ~all /\ shown' = now /\ cursor' = Index(now, shown[k])
    BY <1>7 DEF ToggleShowAll
  <2> HIDE DEF now, k
  <2>4. k # 0 => Index(now, shown[k]) \in DOMAIN now
    BY <2>1, <2>2, IndexIs
  <2>5. all' \in BOOLEAN
    BY <1>2, <2>3 DEF ScreenType
  <2>6. shown' \in Seq(Nodes) /\ cursor' \in {0} \cup DOMAIN shown'
    BY <1>2, <2>1, <2>3, <2>4 DEF ScreenType
  <2>. QED BY <1>2, <2>3, <2>5, <2>6 DEF StateType, ScreenType
<1>. QED BY <1>4, <1>5, <1>6, <1>7

\* Changing a value
LEMMA ChangeNodeType ==
  ASSUME StateType, ChangeNode
  PROVE  StateType'
<1>1. Running /\ Changeable(Current) /\ ScreenType /\ DataType
  BY DEF ChangeNode, StateType
<1> DEFINE i == Node[Current].item
<1>2. Current \in Nodes /\ i \in Items
  BY <1>1, CurrentType DEF Changeable
<1>3. CASE IndexRaises(i)
  <2>1. cursor' = 0 /\ UNCHANGED <<user, vals, changed, menu, shown, all, saved>>
    BY <1>3 DEF ChangeNode
  <2>. QED BY <1>1, <2>1 DEF StateType, ScreenType, DataType
<1>4. CASE ~IndexRaises(i)
  <2>1. PICK x \in NewValues(i) : ChangeTo(x)
    BY <1>4 DEF ChangeNode
  <2>2. SetItem(i, x) /\ menu' \in {menu, ParentMenu[menu]}
        /\ shown' = ShownNext(menu') /\ \E n : cursor' = Index(shown', n)
    BY <2>1 DEF ChangeTo
  <2>3. x = CurrentValue(i) \/ With(i, x) \in U!Users
    <3>1. CASE IsTri(i)
      BY <1>1, <1>2, <2>1, <3>1, NextOptionType, WithType DEF NewValues
    <3>2. CASE ~IsTri(i)
      BY <1>1, <1>2, <2>1, <3>2, WithType DEF NewValues
    <3>. QED BY <3>1, <3>2
  <2>4. DataType' /\ all' = all
    BY <1>1, <1>2, <2>2, <2>3, SetItemType
  <2>5. menu' \in Nodes /\ IsMenu(menu') /\ all' \in BOOLEAN
    BY <1>1, <2>2, <2>4, ParentMenuIsMenu DEF ScreenType
  <2>6. PICK n : ShowMenu(menu', n)
    BY <2>2 DEF ShowMenu
  <2>7. ScreenType'
    BY <2>5, <2>6, ShowMenuType
  <2>. QED BY <2>4, <2>7 DEF StateType
<1>. QED BY <1>3, <1>4

\* The keys n, m and y, and loading a file: what follows is _update_menu().
LEMMA UpdateMenuType ==
  ASSUME ScreenType, DataType', all' \in BOOLEAN, UpdateMenu
  PROVE  StateType'
BY ShowMenuType DEF UpdateMenu, ScreenType, StateType

LEMMA SetTriType ==
  ASSUME StateType, NEW x, SetTri(x)
  PROVE  StateType'
<1>1. PICK i \in Items : (i \in Choices \/ IsTri(i)) /\ x \in Options(i) /\ SetItem(i, x)
  BY DEF SetTri
<1>2. IsTri(i)
  BY <1>1, TreeAssumption
<1>3. With(i, x) \in U!Users
  BY <1>1, <1>2, WithType DEF StateType
<1>4. DataType' /\ all' = all
  BY <1>1, <1>3, SetItemType DEF StateType
<1>5. UpdateMenu /\ ScreenType /\ all \in BOOLEAN
  BY DEF SetTri, StateType, ScreenType
<1>. QED BY <1>4, <1>5, UpdateMenuType

LEMMA LoadDialogType ==
  ASSUME StateType, LoadDialog
  PROVE  StateType'
<1>1. PICK f \in Files \cup ({saved} \ {Gone}) : LoadOver(user, f)
  BY DEF LoadDialog
<1>2. f = Gone \/ IsFile(f)
  BY <1>1, FilesAre DEF StateType, DataType
<1>3. user \in U!Users /\ ScreenType
  BY DEF StateType, DataType
<1>4. DataType'
  BY <1>1, <1>2, <1>3, LoadOverType
<1>5. all' = (all \/ ~InList(Current, ShownNodes(menu, all, user', vals'))) /\ UpdateMenu
  BY DEF LoadDialog
<1>6. all' \in BOOLEAN
  BY <1>5
<1>. QED BY <1>3, <1>4, <1>5, <1>6, UpdateMenuType

\* Every step keeps the state well formed.
LEMMA NextType ==
  ASSUME StateType, [Next]_vars
  PROVE  StateType'
<1>1. CASE UNCHANGED vars
  BY <1>1 DEF vars, screen, StateType, ScreenType, DataType
<1>2. CASE Move \/ EnterMenu \/ LeaveMenu \/ ToggleShowAll
  BY <1>2, BrowseType
<1>3. CASE ChangeNode
  BY <1>3, ChangeNodeType
<1>4. CASE LoadDialog
  BY <1>4, LoadDialogType
<1>5. CASE SaveDialog \/ SaveFails
  <2>1. UNCHANGED <<user, vals, screen>> /\ changed' \in BOOLEAN
        /\ saved' \in {Contents(user, vals), Gone}
    BY <1>5 DEF SaveDialog, SaveFails, StateType, DataType
  <2>2. IsFile(Contents(user, vals))
    BY FilesAre
  <2>. QED BY <2>1, <2>2 DEF screen, StateType, ScreenType, DataType
<1>6. CASE Restart
  <2>1. PICK f \in Files \cup {saved} : Session(f)
    BY <1>6 DEF Restart
  <2>2. f = Gone \/ IsFile(f)
    BY <2>1, FilesAre DEF StateType, DataType
  <2>. QED BY <2>1, <2>2, SessionType
<1>7. ASSUME NEW x \in 0..2, SetTri(x) PROVE StateType'
  BY <1>7, SetTriType
<1>8. ASSUME NEW n \in Nodes \ {Top}, Jump(n) PROVE StateType'
  BY <1>8, JumpType
<1>. QED BY <1>1, <1>2, <1>3, <1>4, <1>5, <1>6, <1>7, <1>8 DEF Next

LEMMA InitType == Init => StateType
<1>1. SUFFICES ASSUME Init PROVE StateType
  OBVIOUS
<1>2. DataType
  BY <1>1, UntouchedType, AttributesAtIs DEF Init, DataType
<1> DEFINE off == ShownNodes(Top, FALSE, user, vals)
<1>3. menu = Top /\ all = (off = <<>>) /\ shown = ShownNodes(Top, all, user, vals) /\ cursor = 1
  BY <1>1 DEF Init, ShownNow
<1>4. Top \in Nodes /\ all \in BOOLEAN
  BY <1>3, NodeAssumption DEF Nodes, Top
<1>5. shown \in Seq(Nodes)
  BY <1>3, <1>4, ShownIs
<1>6. shown # <<>>
  <2>1. CASE all
    <3>1. all = TRUE
      BY <1>4, <2>1
    <3>. QED BY <1>3, <3>1, TopIsShown
  <2>2. CASE ~all
    <3>1. all = FALSE
      BY <1>4, <2>2
    <3>. QED BY <1>3, <3>1
  <2>. QED BY <2>1, <2>2
<1>7. 1 \in DOMAIN shown
  BY <1>5, <1>6
<1>. QED BY <1>2, <1>3, <1>4, <1>5, <1>7 DEF StateType, ScreenType, IsMenu

LEMMA TypeInvariant == Spec => []StateType
<1>1. StateType /\ [Next]_vars => StateType'
  BY NextType
<1>. QED BY <1>1, InitType, PTL DEF Spec

(***************************************************************************)
(* TypeOK: whatever keys are pressed and files loaded, saved or lost, the  *)
(* current menu is a menu, nodes are shown, and the user values are well   *)
(* formed.                                                                 *)
(***************************************************************************)
THEOREM MenuTypeCorrect == Spec => []TypeOK
<1>1. StateType => TypeOK
  <2> SUFFICES ASSUME StateType PROVE TypeOK
    OBVIOUS
  <2>1. Node[menu].menuconfig
    BY NodeAssumption, ParentIs DEF StateType, ScreenType, IsMenu
  <2>. QED BY <2>1, UserType DEF StateType, ScreenType, DataType, TypeOK
<1>. QED BY <1>1, TypeInvariant, PTL
-----------------------------------------------------------------------------
(***************************************************************************)
(* What the file lacks                                                     *)
(***************************************************************************)
AllWritten == ~changed /\ saved # Gone =>
                \A k \in DOMAIN Contents(user, vals) : InList(Contents(user, vals)[k], saved)

\* A file that needs no save after it was loaded has all lines.
LEMMA LoadedIsWritten ==
  ASSUME NEW u \in U!Users, NEW f, f = Gone \/ IsFile(f), LoadOver(u, f)
  PROVE  AllWritten'
<1>1. SUFFICES ASSUME f # Gone, ~NeedsSave(user', vals'), NEW k \in DOMAIN Contents(user', vals')
               PROVE  InList(Contents(user', vals')[k], f)
  BY DEF LoadOver, AllWritten
<1>2. PICK s \in Symbols \cap WrittenSymbols(user', vals') :
        Contents(user', vals')[k] = Line(s, vals')
  <2>1. Contents(user', vals') \in Seq({Line(s, vals') : s \in Symbols \cap WrittenSymbols(user', vals')})
    BY LinesType DEF Contents
  <2> HIDE DEF Contents
  <2>2. Contents(user', vals')[k] \in {Line(s, vals') : s \in Symbols \cap WrittenSymbols(user', vals')}
    BY <2>1, <1>1
  <2>. QED BY <2>2
<1>3. user'[s] # NoUser /\ vals'[Value(s)] = user'[s]
  BY <1>1, <1>2 DEF NeedsSave, WrittenSymbols
<1>4. user' = LoadedUser(u, f)
  BY <1>1 DEF LoadOver
<1>5. PICK j \in 1..Len(f) : f[j].sym = s /\ f[j].val = user'[s]
  BY <1>1, <1>3, <1>4, LoadedFromFile DEF IsFile
<1>6. j \in DOMAIN f /\ f[j] = Line(s, vals')
  BY <1>1, <1>3, <1>5 DEF IsFile, Line
<1>. QED BY <1>2, <1>6 DEF InList

\* Keys that change a value, or do not
LEMMA SetItemIsWritten ==
  ASSUME AllWritten, NEW i, NEW x, SetItem(i, x)
  PROVE  AllWritten'
BY DEF SetItem, AllWritten

LEMMA NextWrites ==
  ASSUME StateType, AllWritten, [Next]_vars
  PROVE  AllWritten'
<1>1. CASE UNCHANGED <<user, vals, changed, saved>>
  BY <1>1 DEF AllWritten
<1>2. CASE UNCHANGED vars
  BY <1>1, <1>2 DEF vars
<1>3. CASE Move \/ EnterMenu \/ LeaveMenu \/ ToggleShowAll \/ \E n \in Nodes \ {Top} : Jump(n)
  BY <1>1, <1>3 DEF Move, EnterMenu, LeaveMenu, ToggleShowAll, Jump, Browse
<1>4. CASE ChangeNode
  <2>1. UNCHANGED <<user, vals, changed, saved>> \/ \E i, x : SetItem(i, x)
    BY <1>4 DEF ChangeNode, ChangeTo
  <2>. QED BY <1>1, <2>1, SetItemIsWritten
<1>5. CASE \E x \in 0..2 : SetTri(x)
  <2>1. \E i, x : SetItem(i, x)
    BY <1>5 DEF SetTri
  <2>. QED BY <2>1, SetItemIsWritten
<1>6. CASE LoadDialog
  <2>1. PICK f \in Files \cup ({saved} \ {Gone}) : LoadOver(user, f)
    BY <1>6 DEF LoadDialog
  <2>2. f = Gone \/ IsFile(f)
    BY <2>1, FilesAre DEF StateType, DataType
  <2>. QED BY <2>1, <2>2, LoadedIsWritten DEF StateType, DataType
<1>7. CASE SaveDialog
  BY <1>7 DEF SaveDialog, AllWritten, InList
<1>8. CASE SaveFails
  BY <1>8 DEF SaveFails, AllWritten
<1>9. CASE Restart
  <2>1. PICK f \in Files \cup {saved} : Session(f)
    BY <1>9 DEF Restart
  <2>2. f = Gone \/ IsFile(f)
    BY <2>1, FilesAre DEF StateType, DataType
  <2>. QED BY <2>1, <2>2, LoadedIsWritten, UntouchedType DEF Session
<1>. QED BY <1>2, <1>3, <1>4, <1>5, <1>6, <1>7, <1>8, <1>9 DEF Next

(***************************************************************************)
(* NothingUnwritten: while _conf_changed is False, the file that is named  *)
(* has every line that saving would write, whatever was loaded and changed.*)
(***************************************************************************)
THEOREM NothingIsUnwritten == Spec => []NothingUnwritten
<1>1. Init => AllWritten
  BY DEF Init, AllWritten
<1>2. StateType /\ StateType' /\ AllWritten /\ [Next]_vars => AllWritten'
  BY NextWrites
<1>3. AllWritten => NothingUnwritten
  BY DEF AllWritten, NothingUnwritten
<1>. QED BY <1>1, <1>2, <1>3, TypeInvariant, PTL DEF Spec
-----------------------------------------------------------------------------
(***************************************************************************)
(* What a new session makes of the file: while nothing is to be saved, the *)
(* user values come from the file, or the file from them.                  *)
(***************************************************************************)
LoadedFrom(f, u) == \E w \in U!Users : u = LoadedUser(w, f)

InTheFile == ~changed /\ saved # Gone =>
               saved = Contents(user, vals) \/ LoadedFrom(saved, user)

LEMMA NextIsInFile ==
  ASSUME StateType, InTheFile, [Next]_vars
  PROVE  InTheFile'
<1>1. CASE UNCHANGED <<user, vals, changed, saved>>
  BY <1>1 DEF InTheFile
<1>2. CASE UNCHANGED vars
  BY <1>1, <1>2 DEF vars
<1>3. CASE Move \/ EnterMenu \/ LeaveMenu \/ ToggleShowAll \/ \E n \in Nodes \ {Top} : Jump(n)
  BY <1>1, <1>3 DEF Move, EnterMenu, LeaveMenu, ToggleShowAll, Jump, Browse
<1>4. CASE \E i, x : SetItem(i, x)
  BY <1>4 DEF SetItem, InTheFile
<1>5. CASE ChangeNode
  <2>1. UNCHANGED <<user, vals, changed, saved>> \/ \E i, x : SetItem(i, x)
    BY <1>5 DEF ChangeNode, ChangeTo
  <2>. QED BY <1>1, <1>4, <2>1
<1>6. CASE \E x \in 0..2 : SetTri(x)
  BY <1>4, <1>6 DEF SetTri
<1>7. ASSUME NEW u \in U!Users, NEW f, LoadOver(u, f) PROVE InTheFile'
  BY <1>7 DEF LoadOver, InTheFile, LoadedFrom
<1>8. CASE LoadDialog
  BY <1>7, <1>8 DEF LoadDialog, StateType, DataType
<1>9. CASE Restart
  BY <1>7, <1>9, UntouchedType DEF Restart, Session
<1>10. CASE SaveDialog
  BY <1>10 DEF SaveDialog, InTheFile
<1>11. CASE SaveFails
  BY <1>11 DEF SaveFails, InTheFile
<1>. QED BY <1>2, <1>3, <1>5, <1>6, <1>8, <1>9, <1>10, <1>11 DEF Next

\* A file sets the modes of choices that are not tristate to y only.
LEMMA LoadedModes ==
  ASSUME NoTristates, NEW u \in U!Users, NEW f, IsFile(f), NEW c \in Choices
  PROVE  LoadedUser(u, f)[c].mode \in {NoUser, 2}
<1> DEFINE a == Merge(u, {}, f)
           S == {st \in Loads : Clean(st) /\ (c \in st.set => st.user[c].mode = 2)}
<1>1. Len(f) \in Nat /\ c \in Items
  BY ItemShape DEF IsFile
<1>2. Loading(u, {}) \in S
  BY DEF Loading, Loads, Clean
<1>3. ASSUME NEW st \in S, NEW line PROVE Assign(st, line) \in S
  <2> DEFINE s == line.sym
             x == line.val
             t == Assign(st, line)
  <2>1. t \in Loads /\ Clean(t)
    BY AssignClean
  <2>2. CASE ~WellFormed(line)
    BY <2>2 DEF Assign
  <2>3. CASE WellFormed(line)
    <3>1. s \in Symbols
      BY <2>3 DEF WellFormed
    <3> HIDE DEF s, x, t
    <3>2. /\ t.set = st.set \cup {s} \cup (IF SetsMode(s, x) THEN {Def[s].choice} ELSE {})
          /\ \A d \in Choices :
               t.user[d] = IF SetsMode(s, x) /\ d = Def[s].choice
                             THEN [mode |-> x, sel |-> IF x = 2 THEN s ELSE st.user[d].sel]
                             ELSE st.user[d]
      BY <2>3, AssignIs DEF s, x, t
    <3>3. SetsMode(s, x) => x = 2
      BY <3>1, SymbolInChoice, ItemShape DEF SetsMode, NoTristates
    <3>4. CASE SetsMode(s, x) /\ c = Def[s].choice
      <4>1. t.user[c].mode = 2
        BY <3>2, <3>3, <3>4
      <4>. QED BY <2>1, <4>1 DEF t
    <3>5. CASE ~(SetsMode(s, x) /\ c = Def[s].choice)
      <4>1. t.user[c] = st.user[c] /\ (c \in t.set => c \in st.set)
        BY <3>1, <3>2, <3>5, ItemShape
      <4>2. c \in st.set => st.user[c].mode = 2
        OBVIOUS
      <4>. QED BY <2>1, <4>1, <4>2 DEF t
    <3>. QED BY <3>4, <3>5
  <2>. QED BY <2>2, <2>3
<1>4. a \in S
  <2> HIDE DEF S
  <2>. QED BY <1>1, <1>2, <1>3, MergeKeeps
<1>5. a \in Loads /\ (c \in a.set => a.user[c].mode = 2)
  BY <1>4
<1> HIDE DEF a
<1>6. LoadedUser(u, f) = [i \in Items |-> IF i \in a.set THEN a.user[i] ELSE U!Untouched[i]]
  BY <1>5 DEF LoadedUser, Load, UnsetOthers, Loads, a
<1>7. U!Untouched[c].mode = NoUser
  BY <1>1, ItemShape, SameItems DEF U!Untouched, U!UntouchedChoice
<1>. QED BY <1>1, <1>5, <1>6, <1>7

\* Without tristates no default is above the visibility.
LEMMA NoneIsHeld ==
  ASSUME NoTristates, NEW u \in U!Users
  PROVE  NothingHeld(u)
<1>1. ASSUME NEW s \in Symbols PROVE Attributes(u)[Vis(s)] # 1
  <2> DEFINE v == Attributes(u)
  <2>1. s \in Items
    BY ItemShape
  <2>2. v[Vis(s)] = VisibilityAt(s, PromptValue(s, u, v), u, v)
    BY <2>1, VisibilityValue DEF Visibility
  <2>3. NotTristate(s, u, v)
    BY <2>1 DEF NotTristate, NoTristates
  <2> HIDE DEF v
  <2>4. v[Vis(s)] # 1
    BY <2>2, <2>3 DEF VisibilityAt
  <2>. QED BY <2>4 DEF v
<1>. QED BY <1>1 DEF NothingHeld, HeldByDefault

ItemsKept(u, w) == \A i \in Items : ValueIn(i, w, Attributes(w)) = ValueIn(i, u, Attributes(u))

\* A new session on a file that was written, and on one that was loaded
LEMMA WrittenAreKept ==
  ASSUME FilesTellAll, NEW u \in U!Users,
         NEW w, w = LoadedUser(U!Untouched, Contents(u, Attributes(u)))
  PROVE  ItemsKept(u, w)
<1>1. NothingHeld(u) /\ U!Untouched \in U!Users
  BY NoneIsHeld, UntouchedType DEF FilesTellAll
<1>2. ModesAreSaved
  <2>1. SUFFICES ASSUME NEW a \in AllAttributes, NEW e \in EvaluatedBy(a), NEW c \in ChoicesIn[e]
                 PROVE  c \in Choices
    BY DEF ModesAreSaved, FilesTellAll
  <2>2. e \in DOMAIN ExprRank
    BY RankAssumption DEF IsExpr
  <2>. QED BY <2>2, ChoicesInIs
<1>3. ValuesKept(u, w)
  BY <1>1, <1>2, ReloadGivesValues
<1>4. ASSUME NEW c \in Choices PROVE Settled(c, u, w)
  <2>1. ModeIsSaved(c)
    BY DEF FilesTellAll
  <2>. QED BY <1>1, <1>2, <2>1, ReloadGivesModes
<1>. QED BY <1>3, <1>4 DEF ItemsKept, ValueIn, ValuesKept, Settled, Items

LEMMA LoadedAreKept ==
  ASSUME NoTristates, NEW f, IsFile(f), NEW u \in U!Users, LoadedFrom(f, u),
         NEW w, w = LoadedUser(U!Untouched, f)
  PROVE  ItemsKept(u, w)
<1>1. PICK start \in U!Users : u = LoadedUser(start, f)
  BY DEF LoadedFrom
<1>2. Len(f) \in Nat /\ U!Untouched \in U!Users
  BY UntouchedType DEF IsFile
<1>3. w \in U!Users
  BY <1>2, LoadType DEF LoadedUser, Loads
<1>4. \A c \in Choices : u[c].mode # 1
  BY <1>1, LoadedModes, UserValsAssumption
<1>5. AlikeUsers(u, w)
  BY <1>1, <1>2, <1>4, LoadAlike DEF AlikeUsers
<1>6. AlikeAttributes(u, w)
  BY <1>3, <1>5, AlikeUsersSame
<1>. QED BY <1>6, LookedAt DEF ItemsKept, ValueIn, AlikeAttributes, Settled, Items

(***************************************************************************)
(* QuitLosesNothing: while _conf_changed is False, a new session on the    *)
(* file that is named has the values of this one, so the menu may quit     *)
(* without a question.  The trees are those without tristate symbols and   *)
(* choices in which every mode of a choice is in the file (FilesTellAll).  *)
(***************************************************************************)
THEOREM QuittingLosesNothing == FilesTellAll /\ Spec => []QuitLosesNothing
<1> DEFINE Found == FilesTellAll /\ StateType /\ InTheFile
<1>1. Init => InTheFile
  BY DEF Init, InTheFile
<1>2. StateType /\ InTheFile /\ [Next]_vars => InTheFile'
  BY NextIsInFile
<1>3. Found => QuitLosesNothing
  <2> SUFFICES ASSUME FilesTellAll, StateType, InTheFile, ~changed, saved # Gone,
                      NEW w, w = LoadedUser(U!Untouched, saved), NEW i \in Items
               PROVE  ValueIn(i, w, AttributesAt[w]) = ValueIn(i, user, vals)
    BY DEF QuitLosesNothing, CurrentValue
  <2>1. user \in U!Users /\ vals = Attributes(user) /\ IsFile(saved)
    BY DEF StateType, DataType
  <2>2. w \in U!Users
    BY <2>1, UntouchedType, LoadType DEF LoadedUser, Loads, IsFile
  <2>3. ASSUME saved = Contents(user, vals) PROVE ItemsKept(user, w)
    BY <2>1, <2>3, WrittenAreKept
  <2>4. ASSUME LoadedFrom(saved, user) PROVE ItemsKept(user, w)
    BY <2>1, <2>4, LoadedAreKept DEF FilesTellAll
  <2>5. ItemsKept(user, w)
    BY <2>3, <2>4 DEF InTheFile
  <2>. QED BY <2>1, <2>2, <2>5, AttributesAtIs DEF ItemsKept
<1>4. FilesTellAll => FilesTellAll'
  BY DEF FilesTellAll, NoTristates, ModeIsSaved
<1> HIDE DEF Found
<1>5. FilesTellAll /\ StateType /\ InTheFile => Found
  BY DEF Found
<1>. QED BY <1>1, <1>2, <1>3, <1>4, <1>5, TypeInvariant, PTL DEF Spec
-----------------------------------------------------------------------------
(***************************************************************************)
(* Setting an item leaves its own prompts as they are.                     *)
(***************************************************************************)
OnlyChanges(u, w, i) ==
  /\ \A s \in Symbols : s # i => w[s] = u[s]
  /\ \A c \in Choices : /\ c # i => w[c].mode = u[c].mode
                        /\ w[c].sel = u[c].sel \/ i \in SymsOf(c)

\* Symbol.set_value() and Choice.set_value()
LEMMA WithOnlyChanges ==
  ASSUME user \in U!Users, NEW i \in Items, NEW x
  PROVE  OnlyChanges(user, With(i, x), i)
<1>1. CASE i \in Choices
  <2>1. With(i, x) = [user EXCEPT ![i] = [mode |-> x, sel |-> user[i].sel]]
    BY <1>1, ItemShape DEF With, U!WithMode
  <2>. QED BY <1>1, <2>1, ItemShape, UserType DEF OnlyChanges
<1>2. CASE i \in Symbols
  <2> DEFINE c == Def[i].choice
  <2>1. SymChoice[i] = c /\ With(i, x) = U!WithValue(user, i, x)
    BY <1>2 DEF SymChoice, With
  <2>2. CASE U!SelectsChoice(i, x)
    <3>1. InChoice(i)
      BY <1>2, <2>1, <2>2 DEF U!SelectsChoice, InChoice
    <3>2. c \in Choices /\ i \in SymsOf(c) /\ c # i /\ c \in Items
      BY <1>2, <3>1, SymbolInChoice, ItemShape
    <3>3. With(i, x) = [user EXCEPT ![i] = x, ![c] = [mode |-> user[c].mode, sel |-> i]]
      BY <2>1, <2>2 DEF U!WithValue
    <3> HIDE DEF c
    <3>. QED BY <1>2, <3>2, <3>3, ItemShape, UserType DEF OnlyChanges
  <2>3. CASE ~U!SelectsChoice(i, x)
    <3>1. With(i, x) = [user EXCEPT ![i] = x]
      BY <2>1, <2>3 DEF U!WithValue
    <3>. QED BY <1>2, <3>1, ItemShape, UserType DEF OnlyChanges
  <2>. QED BY <2>2, <2>3
<1>. QED BY <1>1, <1>2 DEF Items

LEMMA PromptsStay ==
  ASSUME NEW u \in U!Users, NEW w \in U!Users, NEW i \in Items, OnlyChanges(u, w, i),
         NEW e \in EvaluatedBy(Vis(i))
  PROVE  ExprValue(e, w, Attributes(w)) = ExprValue(e, u, Attributes(u))
<1> DEFINE n == Rank[Vis(i)]
<1>1. Vis(i) \in AllAttributes /\ n \in Nat
  BY LookedAt, RankAssumption
<1>2. e \in DOMAIN ExprRank /\ ExprRank[e] \in Nat /\ ExprRank[e] < n
  BY <1>1, RankAssumption DEF IsExpr
<1>3. SameModesBelow(u, w, n)
  <2>1. SUFFICES ASSUME NEW c \in Choices, Rank[Vis(c)] < n PROVE u[c].mode = w[c].mode
    BY DEF SameModesBelow
  <2>2. c # i
    BY <1>1, <2>1
  <2>. QED BY <2>2 DEF OnlyChanges
<1>4. SameInputs(u, w, n)
  <2>1. SUFFICES ASSUME NEW j \in Items, NEW k \in KindsOf(j), Rank[<<j, k>>] < n
                 PROVE  SameInput(u, w, j, k)
    BY DEF SameInputs
  <2>2. <<j, k>> \in AllAttributes
    BY DEF AllAttributes
  <2>3. ASSUME j \in Symbols, k \in {"tri", "str"} PROVE u[j] = w[j]
    <3>1. j = i => Vis(i) \in LooksAt(<<j, k>>)
      BY <2>3 DEF LooksAt
    <3>2. j # i
      BY <1>1, <2>1, <2>2, <3>1, RankAssumption
    <3>. QED BY <2>3, <3>2 DEF OnlyChanges
  <2>4. ASSUME k = "sel" PROVE u[j].sel = w[j].sel
    <3>1. j \in Choices
      BY <2>4 DEF KindsOf
    <3>2. i \in SymsOf(j) => Vis(i) \in LooksAt(<<j, k>>)
      <4>1. ASSUME i \in SymsOf(j) PROVE \E m \in DOMAIN Def[j].syms : Def[j].syms[m] = i
        BY <3>1, <4>1, TreeAssumption DEF SymsOf
      <4>. QED BY <2>4, <4>1 DEF LooksAt
    <3>3. i \notin SymsOf(j)
      BY <1>1, <2>1, <2>2, <3>2, RankAssumption
    <3>. QED BY <3>1, <3>3 DEF OnlyChanges
  <2>. QED BY <2>3, <2>4 DEF SameInput
<1> HIDE DEF n
<1>5. SameBelow(u, w, n)
  BY <1>1, <1>3, <1>4, SameAttributes
<1>6. \A f \in DOMAIN ExprRank :
        ExprRank[f] <= n => ExprValue(f, u, Attributes(u)) = ExprValue(f, w, Attributes(w))
  BY <1>1, <1>3, <1>5, SameExprs DEF SameExpr
<1>. QED BY <1>1, <1>2, <1>6
-----------------------------------------------------------------------------
(***************************************************************************)
(* Menus of a plain tree                                                   *)
(***************************************************************************)
\* What is on the screen are the nodes of the menu that are listed.
LEMMA PlainShown ==
  ASSUME DefinedOnce, NEW m \in Nodes, NEW on, NEW u, NEW v, NEW n
  PROVE  InList(n, ShownNodes(m, on, u, v)) <=>
           n \in Nodes \ {Top} /\ ParentMenu[n] = m /\ Listed(n, on, u, v)
<1> DEFINE same == {c \in Nodes : Node[m].item \in Choices /\ Node[c].item = Node[m].item}
<1>1. \A c \in same : c = m
  BY ItemShape DEF DefinedOnce
<1>2. NodesOf[m] = {o \in Nodes \ {Top} : ParentMenu[o] = m}
  <2>1. NodesOf[m] = {o \in Nodes \ {Top} : ParentMenu[o] \in {m} \cup same}
    BY DEF NodesOf
  <2> HIDE DEF same
  <2>. QED BY <1>1, <2>1
<1>3. ListedIn(m, on, u, v) = {o \in NodesOf[m] : Listed(o, on, u, v)}
  <2>1. \A o \in NodesOf[m] : ParentMenu[o] = m
    BY <1>2
  <2>. QED BY <2>1 DEF ListedIn, Once
<1>4. InList(n, ShownNodes(m, on, u, v)) <=> n \in ListedIn(m, on, u, v)
  BY ShownIs
<1>. QED BY <1>2, <1>3, <1>4

\* What is listed has its parent listed.
LEMMA ParentListed ==
  ASSUME EntriesNeedMenu, NEW u \in U!Users, NEW v, v = Attributes(u), NEW on,
         NEW n \in Nodes \ {Top}, Node[n].parent # Top, Listed(n, on, u, v)
  PROVE  Listed(Node[n].parent, on, u, v)
<1> DEFINE p == Node[n].parent
<1>1. p \in Nodes
  BY ParentIs
<1>2. CASE on
  BY <1>2 DEF Listed
<1>3. CASE \E c \in ShownFor[n] : NodeVisible(c, u, v)
  <2>1. PICK c \in ShownFor[n] : NodeVisible(c, u, v)
    BY <1>3
  <2>2. CASE Node[p].item \in Symbols
    <3>1. n \in SeenBelow(p)
      BY <2>2 DEF SeenBelow
    <3>2. c \in ShownFor[p]
      BY <1>1, <2>1, <3>1, ShownForIs
    <3>. QED BY <2>1, <3>2 DEF Listed
  <2>3. CASE Node[p].item \notin Symbols
    <3>1. NodeVisible(p, u, v)
      BY <2>1, <2>3, AttributesAtIs DEF EntriesNeedMenu
    <3>2. p \in ShownFor[p]
      BY <1>1, ShownForIs
    <3>. QED BY <3>1, <3>2 DEF Listed
  <2>. QED BY <2>2, <2>3
<1>. QED BY <1>2, <1>3 DEF Listed

\* ... and so its menu.
LEMMA MenuListed ==
  ASSUME EntriesNeedMenu, NEW u \in U!Users, NEW v, v = Attributes(u), NEW on,
         NEW n \in Nodes \ {Top}, ParentMenu[n] # Top, Listed(n, on, u, v)
  PROVE  Listed(ParentMenu[n], on, u, v)
<1> DEFINE Has(m) == m # Top /\ ParentMenu[m] # Top /\ Listed(m, on, u, v) =>
                       Listed(ParentMenu[m], on, u, v)
           in == {k \in Nat : \A m \in Nodes : Place(m) < k => Has(m)}
<1>1. 0 \in in
  BY PlaceIs
<1>2. ASSUME NEW k \in Nat, k \in in PROVE k + 1 \in in
  <2>1. SUFFICES ASSUME NEW m \in Nodes, Place(m) < k + 1, m # Top, ParentMenu[m] # Top,
                        Listed(m, on, u, v)
                 PROVE  Listed(ParentMenu[m], on, u, v)
    OBVIOUS
  <2> DEFINE p == Node[m].parent
  <2>2. p \in Nodes /\ Place(p) < k
    <3>1. p \in Nodes /\ Place(m) \in Nat /\ Place(p) \in Nat /\ Place(p) < Place(m)
      BY <2>1, ParentIs, PlaceIs
    <3>. QED BY <2>1, <3>1
  <2>3. ParentMenu[m] = IF IsMenu(p) THEN p ELSE ParentMenu[p]
    BY <2>1, ParentMenuIs
  <2>4. p # Top
    BY <2>1, <2>3 DEF IsMenu
  <2>5. Listed(p, on, u, v)
    BY <2>1, <2>4, ParentListed
  <2> HIDE DEF p
  <2>6. Has(p)
    BY <1>2, <2>2
  <2>. QED BY <2>1, <2>3, <2>4, <2>5, <2>6
<1>3. Place(n) + 1 \in in
  <2> HIDE DEF in
  <2>. QED BY <1>1, <1>2, NumberInduction, PlaceIs
<1>4. Place(n) < Place(n) + 1
  BY PlaceIs
<1>5. Has(n)
  BY <1>3, <1>4
<1>. QED BY <1>5

\* A menu in which something is shown is shown in the menu around it.
LEMMA MenuIsShown ==
  ASSUME DefinedOnce, EntriesNeedMenu, NEW u \in U!Users, NEW v, v = Attributes(u), NEW on,
         NEW m \in Nodes \ {Top}, NEW n, InList(n, ShownNodes(m, on, u, v))
  PROVE  InList(m, ShownNodes(ParentMenu[m], on, u, v))
<1>1. n \in Nodes \ {Top} /\ ParentMenu[n] = m /\ Listed(n, on, u, v)
  BY PlainShown
<1>2. Listed(m, on, u, v)
  BY <1>1, MenuListed
<1>3. ParentMenu[m] \in Nodes
  BY ParentMenuIs
<1>. QED BY <1>2, <1>3, PlainShown
-----------------------------------------------------------------------------
(***************************************************************************)
(* The cursor is on a node that is shown.                                  *)
(***************************************************************************)

\* An item that can be set has a visible node, and it is the one that is listed.
LEMMA OfferedIsVisible ==
  ASSUME DefinedOnce, NEW u \in U!Users, NEW v, v = Attributes(u),
         NEW n \in Nodes, NEW i \in Items, Node[n].item = i, v[Vis(i)] # 0,
         Listed(n, FALSE, u, v)
  PROVE  NodeVisible(n, u, v)
<1>1. PICK c \in ShownFor[n] : NodeVisible(c, u, v)
  BY DEF Listed
<1>2. ShownFor[n] = {n} \cup UNION {ShownFor[o] : o \in SeenBelow(n)}
  BY ShownForIs
<1>3. CASE SeenBelow(n) = {}
  <2>1. c = n
    BY <1>1, <1>2, <1>3
  <2>. QED BY <1>1, <2>1
<1>4. CASE SeenBelow(n) # {}
  <2>1. PromptValue(i, u, v) # 0
    BY VisibilityValue DEF Visibility, VisibilityAt
  <2>2. PICK k \in DOMAIN Def[i].prompts : ExprValue(Def[i].prompts[k], u, v) # 0
    BY <2>1, PromptValueType
  <2>3. PICK o \in Nodes : Node[o].item = i /\ Node[o].cond = Def[i].prompts[k]
    BY NodeAssumption
  <2>4. o = n
    BY <1>4, <2>3 DEF DefinedOnce, SeenBelow
  <2>. QED BY <2>2, <2>3, <2>4 DEF NodeVisible
<1>. QED BY <1>3, <1>4

\* A visible node stays so while its item is set.
LEMMA VisibleStays ==
  ASSUME NEW u \in U!Users, NEW w \in U!Users, NEW i \in Items, OnlyChanges(u, w, i),
         NEW n \in Nodes, Node[n].item = i, NodeVisible(n, u, Attributes(u))
  PROVE  NodeVisible(n, w, Attributes(w))
<1> DEFINE e == Node[n].cond
<1>1. ExprValue(e, u, Attributes(u)) # 0
  BY DEF NodeVisible
<1>2. e \in EvaluatedBy(Vis(i)) \/ (e \in DOMAIN ExprRank /\ e.op = "const" /\ e.v = 0)
  BY NodeAssumption
<1>3. ~(e \in DOMAIN ExprRank /\ e.op = "const" /\ e.v = 0)
  <2>1. SUFFICES ASSUME e \in DOMAIN ExprRank, e.op = "const", e.v = 0 PROVE FALSE
    OBVIOUS
  <2>2. ExprValue(e, u, Attributes(u)) = ValueOfParts(e, u, Attributes(u))
    BY <2>1, EngineAssumption
  <2>. QED BY <1>1, <2>1, <2>2 DEF ValueOfParts
<1>4. ExprValue(e, w, Attributes(w)) = ExprValue(e, u, Attributes(u))
  BY <1>2, <1>3, PromptsStay
<1>. QED BY <1>1, <1>4 DEF NodeVisible

\* Setting the item of a node leaves the node listed.
LEMMA SetStaysListed ==
  ASSUME DataType, DataType', NEW n \in Nodes, NEW i \in Items, Node[n].item = i, NEW x, NEW on,
         SetItem(i, x), on \/ NodeVisible(n, user, vals)
  PROVE  Listed(n, on, user', vals')
<1>1. n \in ShownFor[n]
  BY ShownForIs
<1>2. CASE on
  BY <1>2 DEF Listed
<1>3. CASE NodeVisible(n, user, vals)
  <2>1. user \in U!Users /\ vals = Attributes(user) /\ user' \in U!Users /\ vals' = Attributes(user')
    BY DEF DataType
  <2>2. CASE x = CurrentValue(i)
    BY <1>1, <1>3, <2>2 DEF SetItem, Listed
  <2>3. CASE x # CurrentValue(i)
    <3>1. user' = With(i, x)
      BY <2>3 DEF SetItem
    <3>2. OnlyChanges(user, user', i)
      BY <2>1, <3>1, WithOnlyChanges
    <3>3. NodeVisible(n, user', vals')
      BY <1>3, <2>1, <3>2, VisibleStays
    <3>. QED BY <1>1, <3>3 DEF Listed
  <2>. QED BY <2>2, <2>3
<1>. QED BY <1>2, <1>3

\* In a tree without tristate items there is no value between n and y.
LEMMA BoolValue ==
  ASSUME DataType, NEW i \in Items, IsTri(i), ~IsTristate(i)
  PROVE  CurrentValue(i) \in {0, 2}
<1>1. user \in U!Users /\ vals = Attributes(user)
  BY DEF DataType
<1>2. CASE i \in Symbols
  <2>1. i \notin Choices
    BY <1>2, ItemShape
  <2>2. vals[Value(i)] \in 0..2 /\ vals[Value(i)] # 1
    BY <1>1, <1>2, TriValueType
  <2>. QED BY <2>1, <2>2 DEF CurrentValue, ValueIn
<1>3. CASE i \in Choices
  <2>1. ChoiceTri(i, user, vals) \in 0..2
    BY <1>1, <1>3, ChoiceTriType
  <2>2. ChoiceTri(i, user, vals) # 1
    BY <2>1 DEF ChoiceTri, PromotedMode
  <2>. QED BY <1>3, <2>1, <2>2 DEF CurrentValue, ValueIn
<1>. QED BY <1>2, <1>3 DEF Items

\* ... so the current value is one of those offered, if there are several.
LEMMA NoIndexError ==
  ASSUME DataType, NEW i \in Items, IsTri(i) => ~IsTristate(i)
  PROVE  ~IndexRaises(i)
<1> SUFFICES ASSUME IsTri(i), Cardinality(Options(i)) > 1 PROVE CurrentValue(i) \in Options(i)
  BY DEF IndexRaises
<1>1. user \in U!Users /\ vals = Attributes(user)
  BY DEF DataType
<1>2. Options(i) \subseteq {0, 2}
  BY <1>1, OptionType DEF Options
<1>3. 0 \in Options(i) /\ 2 \in Options(i)
  <2> DEFINE O == Options(i)
  <2>1. O = {} => Cardinality(O) = 0
    BY FS_EmptySet
  <2>2. Cardinality({0}) = 1 /\ Cardinality({2}) = 1
    BY FS_Singleton
  <2>3. O = {} \/ O = {0} \/ O = {2} \/ (0 \in O /\ 2 \in O)
    BY <1>2
  <2>4. Cardinality(O) > 1
    OBVIOUS
  <2> HIDE DEF O
  <2>5. 0 \in O /\ 2 \in O
    BY <2>1, <2>2, <2>3, <2>4
  <2>. QED BY <2>5 DEF O
<1>. QED BY <1>3, BoolValue

\* Where what is to be selected is shown, it is.
LEMMA CursorFound ==
  ASSUME NEW m \in Nodes, NEW n, ShowMenu(m, n), InList(n, ShownNodes(m, all', user', vals'))
  PROVE  CursorIsOnShownNode'
<1>1. menu' = m /\ shown' = ShownNodes(m, all', user', vals') /\ cursor' = Index(shown', n)
  BY DEF ShowMenu, ShownNext
<1>2. IsList(shown')
  BY <1>1, ShownIs
<1>3. cursor' \in DOMAIN shown'
  BY <1>1, <1>2, IndexIs
<1>. QED BY <1>1, <1>3 DEF CursorIsOnShownNode, ShownNow

\* The node under the cursor is one of the menu.
LEMMA CurrentShown ==
  ASSUME DefinedOnce, StateType, CursorIsOnShownNode
  PROVE  /\ InList(Current, shown) /\ InList(Current, ShownNodes(menu, all, user, vals))
         /\ Current \in Nodes \ {Top} /\ ParentMenu[Current] = menu
         /\ Listed(Current, all, user, vals)
<1>1. menu \in Nodes /\ cursor \in DOMAIN shown /\ shown = ShownNodes(menu, all, user, vals)
  BY DEF StateType, ScreenType, CursorIsOnShownNode, ShownNow
<1>2. InList(Current, shown)
  BY <1>1 DEF Current, InList
<1>. QED BY <1>1, <1>2, PlainShown

\* Moving about
LEMMA BrowseFinds ==
  ASSUME PlainTree, StateType, CursorIsOnShownNode, Move \/ EnterMenu \/ LeaveMenu \/ ToggleShowAll
  PROVE  CursorIsOnShownNode'
<1>1. UNCHANGED <<user, vals>> /\ DefinedOnce /\ EntriesNeedMenu
  BY DEF Move, EnterMenu, LeaveMenu, ToggleShowAll, Browse, PlainTree
<1>2. menu \in Nodes /\ all \in BOOLEAN /\ shown \in Seq(Nodes) /\ cursor \in DOMAIN shown
      /\ shown = ShownNodes(menu, all, user, vals) /\ user \in U!Users /\ vals = Attributes(user)
  BY DEF StateType, ScreenType, DataType, CursorIsOnShownNode, ShownNow
<1>3. IsList(shown) /\ cursor \in Nat
  BY <1>2 DEF IsList
<1>4. CASE Move
  BY <1>1, <1>4 DEF Move, CursorIsOnShownNode, ShownNow
<1>5. CASE EnterMenu
  <2>1. menu' = Current /\ shown' = ShownNodes(Current, all, user, vals) /\ all' = all
        /\ shown' # <<>> /\ cursor' = SelectedOr(Current, 1)
    BY <1>5 DEF EnterMenu, ShownNow
  <2>2. shown' \in Seq(Nodes)
    BY <1>1, <2>1, CurrentShown, ShownIs
  <2>3. 1 \in DOMAIN shown'
    BY <2>1, <2>2
  <2>4. cursor' \in DOMAIN shown'
    BY <2>1, <2>2, <2>3, SelectedOrType
  <2>. QED BY <1>1, <2>1, <2>4 DEF CursorIsOnShownNode, ShownNow
<1>6. CASE LeaveMenu
  <2>1. menu # Top /\ all' = all /\ ShowMenu(ParentMenu[menu], menu)
    BY <1>6 DEF LeaveMenu
  <2>2. InList(menu, ShownNodes(ParentMenu[menu], all, user, vals))
    BY <1>1, <1>2, <2>1, CurrentShown, MenuIsShown
  <2>3. ParentMenu[menu] \in Nodes
    BY <1>2, ParentMenuIs
  <2>. QED BY <1>1, <2>1, <2>2, <2>3, CursorFound
<1>7. CASE ToggleShowAll
  <2> DEFINE now == ShownNodes(menu, ~all, user, vals)
             k == Closest(shown, cursor, now)
  <2>1. IsList(now)
    BY <1>2, ShownIs
  <2>2. ~all => InList(shown[cursor], now)
    <3>1. SUFFICES ASSUME ~all PROVE InList(Current, now)
      BY DEF Current
    <3>2. Listed(Current, ~all, user, vals)
      BY <3>1 DEF Listed
    <3>. QED BY <1>1, <1>2, <3>2, CurrentShown, PlainShown
  <2>3. /\ menu' = menu
        /\ IF k = 0 THEN all' = TRUE /\ UNCHANGED <<shown, cursor>>
           ELSE all' = ~all /\ shown' = now /\ cursor' = Index(now, shown[k])
    BY <1>7 DEF ToggleShowAll
  <2>4. CASE k = 0
    <3> HIDE DEF now
    <3>1. all
      BY <1>2, <1>3, <2>2, <2>4, ClosestType
    <3>2. all' = all
      BY <1>2, <2>3, <2>4, <3>1
    <3> HIDE DEF k
    <3>. QED BY <1>1, <1>2, <2>3, <2>4, <3>2 DEF CursorIsOnShownNode, ShownNow
  <2>5. CASE k # 0
    <3>1. InList(shown[k], now)
      <4> HIDE DEF now
      <4>. QED BY <1>3, <2>5, ClosestType
    <3>2. all' = ~all /\ shown' = ShownNodes(menu, all', user', vals') /\ cursor' = Index(now, shown[k])
      <4> HIDE DEF k
      <4>. QED BY <1>1, <2>3, <2>5
    <3>3. Index(now, shown[k]) \in DOMAIN now
      <4> HIDE DEF now, k
      <4>. QED BY <2>1, <3>1, IndexIs
    <3> HIDE DEF k
    <3>. QED BY <1>1, <2>3, <2>5, <3>2, <3>3 DEF CursorIsOnShownNode, ShownNow
  <2>. QED BY <2>4, <2>5
<1>. QED BY <1>4, <1>5, <1>6, <1>7

\* _jump_to()
LEMMA JumpFinds ==
  ASSUME StateType, NEW n \in Nodes \ {Top}, Jump(n)
  PROVE  CursorIsOnShownNode'
<1>1. UNCHANGED <<user, vals>> /\ ScreenType /\ all \in BOOLEAN
  BY DEF Jump, Browse, StateType, ScreenType
<1>2. CASE Node[n].item \in Choices \cup {"MENU"} /\ Children(n) # <<>>
  <2>1. Node[n].menuconfig /\ JumpInto(n)
    BY <1>2, NodeAssumption DEF Jump
  <2>. QED BY <1>1, <1>2, <2>1, JumpIntoIs DEF CursorIsOnShownNode, ShownNow
<1>3. CASE ~(Node[n].item \in Choices \cup {"MENU"} /\ Children(n) # <<>>)
  <2> DEFINE m == ParentMenu[n]
             now == ShownNodes(m, all, user, vals)
  <2>1. m \in Nodes
    BY ParentMenuIs
  <2>2. all' = (all \/ ~InList(n, now)) /\ ShowMenu(m, n)
    BY <1>3 DEF Jump, JumpIn, ShownNow
  <2>3. InList(n, ShownNodes(m, TRUE, user, vals))
    BY EntriesAreShown
  <2>4. InList(n, ShownNodes(m, all', user, vals))
    <3>1. CASE InList(n, now)
      <4>1. all' = all
        BY <1>1, <2>2, <3>1
      <4>. QED BY <3>1, <4>1
    <3>2. CASE ~InList(n, now)
      <4>1. all' = TRUE
        BY <1>1, <2>2, <3>2
      <4>. QED BY <2>3, <4>1
    <3>. QED BY <3>1, <3>2
  <2> HIDE DEF m
  <2>. QED BY <1>1, <2>1, <2>2, <2>4, CursorFound
<1>. QED BY <1>2, <1>3

\* _change_node(), which may leave a choice
LEMMA ChangeFinds ==
  ASSUME PlainTree, StateType, DataType', CursorIsOnShownNode, ChangeNode
  PROVE  CursorIsOnShownNode'
<1> DEFINE n == Current
           i == Node[n].item
<1>1. /\ n \in Nodes \ {Top} /\ ParentMenu[n] = menu /\ menu \in Nodes /\ DefinedOnce /\ EntriesNeedMenu
      /\ user' \in U!Users /\ vals' = Attributes(user')
  BY CurrentShown DEF StateType, ScreenType, DataType, PlainTree
<1>2. Changeable(n) /\ i \in Items /\ NodeVisible(n, user, vals) /\ ~IsTristate(i)
  BY <1>1 DEF ChangeNode, Changeable, PlainTree, NoTristates
<1>3. ~IndexRaises(i)
  BY <1>2, NoIndexError DEF StateType
<1>4. PICK x \in NewValues(i) : ChangeTo(x)
  BY <1>3 DEF ChangeNode
<1>5. /\ SetItem(i, x) /\ shown' = ShownNext(menu')
      /\ cursor' = Index(shown', IF menu' = menu THEN n ELSE menu)
      /\ menu' # menu => menu # Top /\ menu' = ParentMenu[menu] /\ InList(n, ShownNext(menu))
  BY <1>4 DEF ChangeTo
<1>6. all' = all
  BY <1>5 DEF SetItem
<1>7. Listed(n, all', user', vals')
  BY <1>1, <1>2, <1>5, <1>6, SetStaysListed DEF StateType
<1>8. InList(n, ShownNodes(menu, all', user', vals'))
  BY <1>1, <1>7, PlainShown
<1>9. CASE menu' = menu
  <2>1. ShowMenu(menu, n)
    BY <1>5, <1>9 DEF ShowMenu
  <2>. QED BY <1>1, <1>8, <2>1, CursorFound
<1>10. CASE menu' # menu
  <2>1. ShowMenu(ParentMenu[menu], menu) /\ menu # Top
    BY <1>5, <1>10 DEF ShowMenu
  <2>2. InList(menu, ShownNodes(ParentMenu[menu], all', user', vals'))
    BY <1>1, <1>8, <2>1, MenuIsShown
  <2>3. ParentMenu[menu] \in Nodes
    BY <1>1, ParentMenuIs
  <2>. QED BY <2>1, <2>2, <2>3, CursorFound
<1>. QED BY <1>9, <1>10

\* The keys n, m and y
LEMMA SetTriFinds ==
  ASSUME DefinedOnce, StateType, DataType', CursorIsOnShownNode, NEW x, SetTri(x)
  PROVE  CursorIsOnShownNode'
<1> DEFINE n == Current
<1>1. PICK i \in Items : Node[n].item = i /\ (i \in Choices \/ IsTri(i)) /\ x \in Options(i) /\ SetItem(i, x)
  BY DEF SetTri
<1>2. /\ n \in Nodes \ {Top} /\ ParentMenu[n] = menu /\ menu \in Nodes /\ Listed(n, all, user, vals)
      /\ all \in BOOLEAN /\ user \in U!Users /\ vals = Attributes(user)
  BY CurrentShown DEF StateType, ScreenType, DataType
<1>3. vals[Vis(i)] # 0
  BY <1>1, <1>2, TreeAssumption, OptionType DEF Options
<1>4. all \/ NodeVisible(n, user, vals)
  <2>1. SUFFICES ASSUME ~all PROVE NodeVisible(n, user, vals)
    OBVIOUS
  <2>2. Listed(n, FALSE, user, vals)
    BY <1>2, <2>1
  <2> HIDE DEF n
  <2>. QED BY <1>1, <1>2, <1>3, <2>2, OfferedIsVisible
<1>5. all' = all
  BY <1>1 DEF SetItem
<1>6. Listed(n, all', user', vals')
  <2> HIDE DEF n
  <2>. QED BY <1>1, <1>2, <1>4, <1>5, SetStaysListed DEF StateType
<1>7. InList(n, ShownNodes(menu, all', user', vals'))
  BY <1>2, <1>6, PlainShown
<1>. QED BY <1>2, <1>7, CursorFound DEF SetTri, UpdateMenu

\* _load_dialog()
LEMMA LoadFinds ==
  ASSUME DefinedOnce, StateType, CursorIsOnShownNode, LoadDialog
  PROVE  CursorIsOnShownNode'
<1> DEFINE n == Current
           now == ShownNodes(menu, all, user', vals')
<1>1. n \in Nodes \ {Top} /\ ParentMenu[n] = menu /\ menu \in Nodes /\ all \in BOOLEAN
  BY CurrentShown DEF StateType, ScreenType
<1>2. all' = (all \/ ~InList(n, now)) /\ ShowMenu(menu, n)
  BY DEF LoadDialog, UpdateMenu
<1>3. InList(n, ShownNodes(menu, all', user', vals'))
  <2>1. CASE all \/ ~InList(n, now)
    <3>1. all' = TRUE
      BY <1>1, <1>2, <2>1
    <3>2. Listed(n, TRUE, user', vals')
      BY DEF Listed
    <3>. QED BY <1>1, <3>1, <3>2, PlainShown
  <2>2. CASE ~all /\ InList(n, now)
    <3>1. all' = all
      BY <1>1, <1>2, <2>2
    <3>. QED BY <2>2, <3>1
  <2>. QED BY <2>1, <2>2
<1>. QED BY <1>1, <1>2, <1>3, CursorFound

\* Every step leaves the cursor on a node that is shown.
LEMMA NextFinds ==
  ASSUME PlainTree, StateType, StateType', CursorIsOnShownNode, [Next]_vars
  PROVE  CursorIsOnShownNode'
<1> USE DEF PlainTree
<1>1. CASE UNCHANGED vars \/ SaveDialog \/ SaveFails
  <2>1. UNCHANGED <<user, vals, screen>>
    BY <1>1 DEF vars, SaveDialog, SaveFails
  <2>. QED BY <2>1 DEF screen, CursorIsOnShownNode, ShownNow
<1>2. CASE Move \/ EnterMenu \/ LeaveMenu \/ ToggleShowAll
  BY <1>2, BrowseFinds
<1>3. CASE ChangeNode
  BY <1>3, ChangeFinds DEF StateType
<1>4. CASE LoadDialog
  BY <1>4, LoadFinds
<1>5. CASE Restart
  <2>1. menu' = Top /\ shown' = ShownNext(Top) /\ cursor' = 1
    BY <1>5 DEF Restart, Session
  <2>2. cursor' \in {0} \cup DOMAIN shown'
    BY DEF StateType, ScreenType
  <2>. QED BY <2>1, <2>2 DEF CursorIsOnShownNode, ShownNow, ShownNext
<1>6. ASSUME NEW x \in 0..2, SetTri(x) PROVE CursorIsOnShownNode'
  BY <1>6, SetTriFinds DEF StateType
<1>7. ASSUME NEW n \in Nodes \ {Top}, Jump(n) PROVE CursorIsOnShownNode'
  BY <1>7, JumpFinds
<1>. QED BY <1>1, <1>2, <1>3, <1>4, <1>5, <1>6, <1>7 DEF Next

LEMMA InitFinds == Init => CursorIsOnShownNode
<1> SUFFICES ASSUME Init PROVE CursorIsOnShownNode
  OBVIOUS
<1>1. cursor \in {0} \cup DOMAIN shown
  BY InitType DEF StateType, ScreenType
<1>. QED BY <1>1 DEF Init, CursorIsOnShownNode

(***************************************************************************)
(* CursorIsOnShownNode: in a plain tree no key raises one of the           *)
(* exceptions of index(), whatever is set, loaded and hidden, and what is  *)
(* shown is what the present values call for.                              *)
(***************************************************************************)
THEOREM CursorStaysOnShownNode == PlainTree /\ Spec => []CursorIsOnShownNode
<1> DEFINE Found == PlainTree /\ CursorIsOnShownNode
<1>1. PlainTree /\ Init => Found
  BY InitFinds
<1>2. StateType /\ StateType' /\ Found /\ [Next]_vars => Found'
  BY NextFinds
<1>3. Found => CursorIsOnShownNode
  OBVIOUS
<1> HIDE DEF Found
<1>. QED BY <1>1, <1>2, <1>3, TypeInvariant, PTL DEF Spec

(***************************************************************************)
(* MenuCanBeLeft: in a plain tree, _leave_menu() finds the node of the     *)
(* menu that is left in the menu around it.                                *)
(***************************************************************************)
THEOREM MenusCanBeLeft == PlainTree /\ Spec => []MenuCanBeLeft
<1>1. PlainTree /\ StateType /\ CursorIsOnShownNode => MenuCanBeLeft
  <2> SUFFICES ASSUME PlainTree, StateType, CursorIsOnShownNode, menu # Top
               PROVE  InList(menu, ShownNodes(ParentMenu[menu], all, user, vals))
    BY DEF MenuCanBeLeft, ShownNow
  <2>1. menu \in Nodes \ {Top} /\ user \in U!Users /\ vals = Attributes(user)
    BY DEF StateType, ScreenType, DataType
  <2>. QED BY <2>1, CurrentShown, MenuIsShown DEF PlainTree
<1>2. PlainTree => PlainTree'
  BY DEF PlainTree, DefinedOnce, NoTristates, EntriesNeedMenu, NodeVisible
<1>. QED BY <1>1, <1>2, CursorStaysOnShownNode, TypeInvariant, PTL
-----------------------------------------------------------------------------
(***************************************************************************)
(* Toggling.                                                               *)
(***************************************************************************)

\* The value that a toggle gives is another one.
LEMMA NextOptionIsNew ==
  ASSUME DataType, NEW i \in Items, IsTri(i), Cardinality(Options(i)) > 1
  PROVE  NextOption(i) \in Options(i) /\ NextOption(i) # CurrentValue(i)
<1> DEFINE O == Options(i)
           now == CurrentValue(i)
           above == {y \in O : y > now}
<1>1. user \in U!Users /\ vals = Attributes(user)
  BY DEF DataType
<1>2. O \subseteq 0..2
  BY <1>1, OptionType DEF Options
<1>3. now \in 0..2
  <2>1. i \in Symbols => i \notin Choices
    BY ItemShape
  <2>. QED BY <1>1, <2>1, TriValueType, ChoiceTriType DEF CurrentValue, ValueIn, Items
<1>4. NextOption(i) = First(IF above = {} THEN O ELSE above)
  BY DEF NextOption
<1>5. Cardinality(O) > 1
  OBVIOUS
<1> HIDE DEF O, now
<1>6. O # {} /\ O # {now}
  <2>1. Cardinality({}) = 0 /\ Cardinality({now}) = 1
    BY FS_EmptySet, FS_Singleton
  <2>. QED BY <1>5, <2>1
<1>7. CASE above = {}
  <2>1. O \subseteq Nat
    BY <1>2
  <2>2. First(O) \in O /\ \A k \in O : First(O) <= k
    BY <1>6, <2>1, FirstIndex
  <2>3. First(O) # now
    <3>1. SUFFICES ASSUME First(O) = now PROVE O = {now}
      BY <1>6
    <3>2. ASSUME NEW y \in O PROVE y = now
      <4>1. ~(y > now) /\ now <= y
        BY <1>7, <2>2, <3>1
      <4>. QED BY <1>2, <1>3, <4>1
    <3>. QED BY <2>2, <3>1, <3>2
  <2>. QED BY <1>4, <1>7, <2>2, <2>3 DEF O, now
<1>8. CASE above # {}
  <2>1. above \subseteq Nat
    <3>1. above \subseteq O
      OBVIOUS
    <3> HIDE DEF above
    <3>. QED BY <1>2, <3>1
  <2>2. First(above) \in above
    <3> HIDE DEF above
    <3>. QED BY <1>8, <2>1, FirstIndex
  <2>3. First(above) \in O /\ First(above) > now
    BY <2>2
  <2>4. First(above) # now
    BY <1>2, <1>3, <2>3
  <2> HIDE DEF above
  <2>. QED BY <1>4, <1>8, <2>3, <2>4 DEF O, now
<1>. QED BY <1>7, <1>8

\* A value that is offered beside another one is taken.
LEMMA OptionIsTaken ==
  ASSUME DataType, NEW i \in Items, IsTri(i), Cardinality(Options(i)) > 1, NEW x \in Options(i)
  PROVE  ValueIn(i, With(i, x), AttributesAt[With(i, x)]) = x
<1> DEFINE u == With(i, x)
<1>1. user \in U!Users /\ vals = Attributes(user)
  BY DEF DataType
<1>2. u \in U!Users
  BY WithType
<1>3. AttributesAt[u] = Attributes(u)
  <2> HIDE DEF u
  <2>. QED BY <1>2, AttributesAtIs
<1>4. x \in Assignable(i, user, Attributes(user))
  BY <1>1 DEF Options
<1>5. CASE i \in Symbols
  <2>1. u = U!WithValue(user, i, x) /\ i \notin Choices
    BY <1>5, ItemShape DEF With
  <2>2. Attributes(u)[Value(i)] = x
    <3>1. CASE InChoice(i)
      BY <1>1, <1>4, <1>5, <2>1, <3>1, AssignableChoiceSymbol
    <3>2. CASE ~InChoice(i)
      <4>1. ~(/\ Attributes(user)[Vis(i)] = 1
              /\ ExprValue(Def[i].rev, user, Attributes(user)) = 1
              /\ ExprValue(Def[i].weak, user, Attributes(user)) = 2)
        <5>1. SUFFICES ASSUME vals[Vis(i)] = 1, ExprValue(Def[i].rev, user, vals) = 1
                       PROVE  FALSE
          BY <1>1
        <5>2. Options(i) = {1}
          BY <2>1, <5>1 DEF Options, Assignable, AssignableIn
        <5>. QED BY <5>2, FS_Singleton
      <4>. QED BY <1>1, <1>4, <1>5, <2>1, <3>2, <4>1, AssignableSymbol
    <3>. QED BY <3>1, <3>2
  <2>. QED BY <1>3, <2>1, <2>2 DEF ValueIn
<1>6. CASE i \in Choices
  <2>1. u = U!WithMode(user, i, x)
    BY <1>6, ItemShape DEF With
  <2>2. ChoiceTri(i, u, Attributes(u)) = x
    BY <1>1, <1>4, <1>6, <2>1, AssignableMode
  <2>. QED BY <1>3, <1>6, <2>2 DEF ValueIn
<1>. QED BY <1>5, <1>6 DEF Items

(***************************************************************************)
(* TogglingTakesEffect: a node that _changeable() lets one toggle gets     *)
(* another value, for every tree and every state of its symbols.           *)
(***************************************************************************)
THEOREM TogglesTakeEffect == Spec => []TogglingTakesEffect
<1>1. StateType => TogglingTakesEffect
  <2>1. SUFFICES ASSUME StateType, NEW k \in DOMAIN shown, NEW i \in {Node[shown[k]].item} \cap Items,
                        Changeable(shown[k]), IsTri(i), ~InYModeChoice(i, vals)
                 PROVE  ValueIn(i, With(i, NextOption(i)), AttributesAt[With(i, NextOption(i))])
                          # CurrentValue(i)
    BY DEF TogglingTakesEffect
  <2>2. DataType /\ Cardinality(Options(i)) > 1
    BY <2>1 DEF StateType, Changeable
  <2>3. NextOption(i) \in Options(i) /\ NextOption(i) # CurrentValue(i)
    BY <2>1, <2>2, NextOptionIsNew
  <2>4. ValueIn(i, With(i, NextOption(i)), AttributesAt[With(i, NextOption(i))]) = NextOption(i)
    BY <2>1, <2>2, <2>3, OptionIsTaken
  <2>. QED BY <2>3, <2>4
<1>. QED BY <1>1, TypeInvariant, PTL
=============================================================================
