----------------------------- MODULE KconfigTree -----------------------------
(***************************************************************************)
(* Kconfig.__init__() of libs/menu/kconfiglib.py, once the Kconfig files   *)
(* are parsed: _finalize_tree() turns the menu nodes into menus, choices   *)
(* and symbols.                                                            *)
(***************************************************************************)
EXTENDS KconfigParse, TLC

Lists == INSTANCE SequencesExt

Semantics == INSTANCE KconfigExpressions WITH Modules <- NoSym, Empty <- NoSym, Def <- def
-----------------------------------------------------------------------------
(***************************************************************************)
(* _finalize_tree() of nodes p, on the pointers of tree t.                 *)
(***************************************************************************)
\* Mutant: a disjunction counts, too.
ExprMentions(e, s) ==
  \/ e = It(s)
  \/ e.op \in {"and", "or"} /\ It(s) \in {e.a, e.b}

\* _expr_depends_on(); "and" binds tighter than "or" in its test of relations.
RECURSIVE ExprDependsOn(_, _)
ExprDependsOn(e, s) ==
  LET other == IF e.b = It(s) THEN e.a ELSE e.b
  IN  \/ e = It(s)
      \/ /\ e.op = "rel" /\ e.rel \in {"=", "!="}
         /\ It(s) \in {e.a, e.b}
         /\ \/ e.rel = "=" /\ other = Const(1)
            \/ other = Y
            \/ e.rel = "!=" /\ other = N
      \/ e.op = "and" /\ \E f \in {e.a, e.b} : ExprDependsOn(f, s)

\* _auto_menu_dep()
AutoMenuDep(p, n, m) ==
  ExprDependsOn(IF p[m].prompt # <<>> THEN p[m].prompt[1] ELSE p[m].dep, p[n].item)

\* A list of nodes, from node n on
RECURSIVE Chain(_, _)
Chain(t, n) == IF n = 0 THEN <<>> ELSE <<n>> \o Chain(t, t.next[n])

\* Mutant: nodes that are moved up still point to the node they were below.
Moved(t, n) ==
  LET below == Chain(t, t.list[n])
  IN  [t EXCEPT !.next = [t.next EXCEPT ![below[Len(below)]] = t.next[n], ![n] = t.list[n]],
                !.list[n] = 0]

\* The nodes below node n are moved after it.
MovedUp(t, n) ==
  LET below == Chain(t, t.list[n])
  IN  [t EXCEPT !.parent = [m \in DOMAIN @ |-> IF m \in Lists!ToSet(below) THEN @[n] ELSE @[m]],
                !.next = [t.next EXCEPT ![below[Len(below)]] = t.next[n], ![n] = t.list[n]],
                !.list[n] = 0]

\* Mutant: only the ifs are flattened.
IsIf(p, n) == p[n].item = "IF"

\* A node that is no entry of a menu itself: an if, or a symbol without prompt.
IsFlat(p, n) == p[n].prompt = <<>> /\ p[n].item \notin Choices

\* _flatten()
RECURSIVE Flatten(_, _, _)
Flatten(p, t, n) ==
  IF n = 0 THEN t
  ELSE \* nodes moved up are gone through in turn
       LET after == IF t.list[n] # 0 /\ IsFlat(p, n) THEN MovedUp(t, n) ELSE t
       IN  Flatten(p, after, after.next[n])

\* The first node from node n on that is no if
RECURSIVE FirstItem(_, _, _)
FirstItem(p, t, n) == IF n = 0 \/ p[n].item # "IF" THEN n ELSE FirstItem(p, t, t.next[n])

RECURSIVE SkipIfs(_, _, _)
SkipIfs(p, t, n) ==
  IF n = 0 THEN t
  ELSE LET next == FirstItem(p, t, t.next[n]) IN SkipIfs(p, [t EXCEPT !.next[n] = next], next)

\* _remove_ifs()
RemoveIfs(p, t, n) ==
  LET first == FirstItem(p, t, t.list[n])
  IN  SkipIfs(p, [t EXCEPT !.list[n] = first], first)

Level(p, t, n) ==
  IF t.list[n] = 0 THEN t ELSE RemoveIfs(p, Flatten(p, t, t.list[n]), n)

RECURSIVE FinalizeTree(_, _, _), FinalizeEach(_, _, _), Submenu(_, _, _, _)

\* The nodes from node n on
FinalizeEach(p, t, n) ==
  IF n = 0 THEN t
  ELSE LET after == FinalizeTree(p, t, n) IN FinalizeEach(p, after, after.next[n])

\* The implicit menu of symbol node n; the nodes up to m are in it.
Submenu(p, t, n, m) ==
  LET k == t.next[m]
  IN  IF k # 0 /\ AutoMenuDep(p, n, k)
        THEN Submenu(p, [FinalizeTree(p, t, k) EXCEPT !.parent[k] = n], n, k)
      ELSE IF m = n THEN t
      ELSE [t EXCEPT !.list[n] = t.next[n], !.next = [t.next EXCEPT ![n] = k, ![m] = 0]]

FinalizeTree(p, t, n) ==
  Level(p, IF t.list[n] # 0 THEN FinalizeEach(p, t, t.list[n])
           ELSE IF p[n].item \in Symbols THEN Submenu(p, t, n, n)
           ELSE t, n)
-----------------------------------------------------------------------------
(***************************************************************************)
(* _add_props_to_sym() and _finalize_choice(): the symbols and choices.    *)
(***************************************************************************)
\* The nodes of item i, in the order of the files
NodesOf(p, i) == SelectSeq(p, LAMBDA nd : nd.item = i)

Joined(lists) == Lists!FlattenSeq(lists)

MakeOr(e, f) ==
  IF e = N THEN f ELSE IF f = N THEN e ELSE IF Y \in {e, f} THEN Y ELSE Or(e, f)

AnyOf(exprs) == Lists!FoldLeft(MakeOr, N, exprs)

\* The symbols that select or imply symbol s, with their conditions; lists has
\* the selects or implies of the nodes.
Reverse(p, s, lists) ==
  AnyOf(Joined([k \in DOMAIN p |->
    [j \in DOMAIN lists[k] |->
       IF lists[k][j].sym = s THEN MakeAnd(It(p[k].item), lists[k][j].cond) ELSE N]]))

\* _set_type(): the last type that is given
TypeOf(p, i) ==
  LET typed == SelectSeq(NodesOf(p, i), LAMBDA nd : nd.type # "UNKNOWN")
  IN  IF typed = <<>> THEN "UNKNOWN" ELSE typed[Len(typed)].type

\* The symbols whose nodes are right below a node of choice c
SymsOf(p, t, c) ==
  Joined([n \in DOMAIN p |->
    IF p[n].item # c THEN <<>>
    ELSE LET syms == SelectSeq(Chain(t, t.list[n]), LAMBDA m : p[m].item \in Symbols)
         IN  [k \in DOMAIN syms |-> p[syms[k]].item]])

ChoiceType(p, t, c) ==
  LET typed == SelectSeq(SymsOf(p, t, c), LAMBDA s : TypeOf(p, s) # "UNKNOWN")
  IN  IF TypeOf(p, c) = "UNKNOWN" /\ typed # <<>> THEN TypeOf(p, typed[1]) ELSE TypeOf(p, c)

\* A choice that is not defined is never referred to.
ChoiceOf(p, t, c) ==
  LET own == NodesOf(p, c)
  IN  [type |-> ChoiceType(p, t, c),
       prompts |-> Joined([k \in DOMAIN own |-> own[k].prompt]),
       optional |-> \E k \in DOMAIN own : own[k].optional,
       defaults |-> Joined([k \in DOMAIN own |-> own[k].defaults]),
       syms |-> SymsOf(p, t, c)]

\* Mutant: a symbol is in the choice its statement is in.
ChoiceAround(p, t, s) ==
  LET choices == {p[p[n].parent].item : n \in {m \in DOMAIN p : p[m].item = s}} \cap Choices
  IN  IF choices = {} THEN NoChoice ELSE CHOOSE c \in choices : TRUE

\* The choice of a symbol: one at most.
ChoiceWith(p, t, s) ==
  LET choices == {c \in Choices : s \in Lists!ToSet(SymsOf(p, t, c))}
  IN  IF choices = {} THEN NoChoice ELSE CHOOSE c \in choices : TRUE

\* A symbol that is not defined is n: that it is selected makes no difference.
SymbolOf(p, t, s) ==
  LET own == NodesOf(p, s)
      choice == ChoiceWith(p, t, s)
  IN  [type |-> IF TypeOf(p, s) = "UNKNOWN" /\ choice # NoChoice THEN ChoiceType(p, t, choice)
                ELSE TypeOf(p, s),
       prompts |-> Joined([k \in DOMAIN own |-> own[k].prompt]),
       defaults |-> Joined([k \in DOMAIN own |-> own[k].defaults]),
       ranges |-> Joined([k \in DOMAIN own |-> own[k].ranges]),
       rev |-> IF own = <<>> THEN N ELSE Reverse(p, s, [k \in DOMAIN p |-> p[k].selects]),
       weak |-> IF own = <<>> THEN N ELSE Reverse(p, s, [k \in DOMAIN p |-> p[k].implies]),
       direct |-> AnyOf([k \in DOMAIN own |-> own[k].dep]),
       choice |-> choice]

\* All of _finalize_tree(), at the end of the first file
Finalize ==
  /\ EndOfMainFile
  /\ \E t \in {FinalizeTree(nodes', FileTree, 1)} :
       /\ tree' = t
       /\ def' = [i \in Items |-> IF i \in Symbols THEN SymbolOf(nodes', t, i)
                                                   ELSE ChoiceOf(nodes', t, i)]

Parse == ParseStatement \/ Finalize
-----------------------------------------------------------------------------
\* The nodes are linked to nodes, and symbols and their choices know each other.
TypeOK ==
  /\ \A n \in DOMAIN parsed : {tree.list[n], tree.next[n], tree.parent[n]} \subseteq 0..Len(parsed)
  /\ Built => \A c \in Choices, s \in Symbols :
                 s \in Lists!ToSet(def[c].syms) <=> def[s].choice = c

RECURSIVE Preorder(_)
Preorder(n) ==
  IF n = 0 THEN <<>> ELSE <<n>> \o Preorder(tree.list[n]) \o Preorder(tree.next[n])

(***************************************************************************)
(* Whatever is moved into implicit menus, flattened and removed, the tree  *)
(* has every node of the files but the ifs, in the order of the files, and *)
(* a node points to the node it is below (kconfiglib.py:6287-6291 "This    *)
(* gives a clean menu structure with no unexpected jumps").                *)
(***************************************************************************)
NodesKeepOrder ==
  Built =>
    /\ Preorder(1) = SelectSeq([n \in DOMAIN nodes |-> n], LAMBDA n : nodes[n].item # "IF")
    /\ \A n \in Lists!ToSet(Preorder(1)) : \A m \in Lists!ToSet(Chain(tree, tree.list[n])) :
         tree.parent[m] = n

(***************************************************************************)
(* Only what has a line in the menu has nodes below it, or they could not  *)
(* be reached (menuconfig.py relies on it); choices without prompt stay.   *)
(***************************************************************************)
NodesHaveLines ==
  Built =>
    \A n \in DOMAIN nodes : tree.list[n] # 0 /\ nodes[n].item \notin Choices =>
      nodes[n].prompt # <<>> /\ nodes[n].item \in Symbols \cup {"MENU"}

NoModes == [c \in Choices |-> [mode |-> NoUser, sel |-> NoSym]]

\* The string value of a symbol that is not defined is its name.
Names == [c \in {<<s, "str">> : s \in Symbols} |-> c[1]]

ValueOf(e, v) == Semantics!Evaluated(e, NoModes, Names @@ v)

\* When node n is shown
Condition(n) == IF nodes[n].prompt # <<>> THEN nodes[n].prompt[1] ELSE nodes[n].dep

InSubmenu(n) == nodes[n].item # "IF" /\ tree.parent[n] # 0 /\ nodes[tree.parent[n]].item \in Symbols

\* The values while no symbol is selected against its dependencies
Regular ==
  {v \in Valuations : \A s \in Symbols :
     v[<<s, "tri">>] # 0 => ValueOf(def[s].direct, v) # 0}

\* What is in the implicit menu of a symbol is not shown while the symbol is n.
ShownWithHead(n) ==
  \A v \in Regular :
    ValueOf(Condition(n), v) # 0 => ValueOf(It(nodes[tree.parent[n]].item), v) # 0

RECURSIVE HasUnequal(_, _)
HasUnequal(e, s) ==
  \/ e.op = "rel" /\ e.rel = "!=" /\ It(s) \in {e.a, e.b}
  \/ e.op = "and" /\ \E f \in {e.a, e.b} : HasUnequal(f, s)

(***************************************************************************)
(* The entries of an implicit menu need the symbol at its head, so they    *)
(* never show without it.  The exceptions are relations with !=: also      *)
(* "sym != y" makes an entry one of the menu, though it is true while sym  *)
(* is n (kconfiglib.py:6259-6260 names "sym != n" only).                   *)
(***************************************************************************)
SubmenusNeedHead ==
  Built => \A n \in DOMAIN nodes :
    InSubmenu(n) /\ ~HasUnequal(Condition(n), nodes[tree.parent[n]].item) => ShownWithHead(n)
=============================================================================
