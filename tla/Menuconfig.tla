------------------------------ MODULE Menuconfig ------------------------------
(***************************************************************************)
(* libs/menu/menuconfig.py: the main loop of the menu and the screen it    *)
(* keeps, which remembers what was visible while every key may change what *)
(* is.  A key is one step.  An exception that nobody catches (of           *)
(* list.index() and tuple.index()) leaves the cursor nowhere and ends the  *)
(* session.  Scrolling, drawing and the help texts are left out.           *)
(*                                                                         *)
(* The file that _conf_filename names is the variable saved.  Saving under *)
(* another name and loading another file make that file the named one; of  *)
(* the file named before nothing more is known.                            *)
(***************************************************************************)
EXTENDS KconfigFiles, FiniteSets

CONSTANTS
  NodeOrder,  \* the menu nodes in the order of the Kconfig files, the top node first
  Node,       \* Node[n]: the menu node, as MenuNode has it
  Typed,      \* Typed[s]: what the user types for int or string symbol s
  Files,      \* files of others to load
  Gone        \* no such file

(***************************************************************************)
(* Node[n] has the item (a symbol, a choice, or else "MENU" or "COMMENT"), *)
(* the parent (of the top node: itself), is_menuconfig and cond: the       *)
(* condition of the prompt, together with the visibility of a menu, and n  *)
(* if there is no prompt.                                                  *)
(***************************************************************************)
Nodes == {NodeOrder[k] : k \in DOMAIN NodeOrder}

Top == NodeOrder[1]

InList(n, list) == \E k \in DOMAIN list : list[k] = n

\* The position of n in a list, or 0: list.index() raises ValueError.
Index(list, n) == First({k \in DOMAIN list : list[k] = n})

Place(n) == Index(NodeOrder, n)

InOrder(nodes) == Within(NodeOrder, nodes)

\* MenuNode.list
Children(n) == InOrder({m \in Nodes \ {Top} : Node[m].parent = n})

\* Symbol.nodes
NodesWith(i) == InOrder({n \in Nodes : Node[n].item = i})

\* Mutant: what a node is below is its menu.
AnyNode(m) == TRUE

IsMenu(m) == m = Top \/ Node[m].menuconfig

\* _parent_menu()
ParentMenu[n \in Nodes] ==
  LET m == Node[n].parent IN IF IsMenu(m) THEN m ELSE ParentMenu[m]

\* The nodes one sees in menu m; in a choice, those of all places it is defined at.
NodesOf ==
  [m \in Nodes |->
     {n \in Nodes \ {Top} :
        ParentMenu[n] \in {m} \cup {c \in Nodes : Node[m].item \in Choices /\
                                                Node[c].item = Node[m].item}}]

\* The nodes that make node n listed if they are visible: a symbol is listed
\* for the sake of what is below it.
ShownFor[n \in Nodes] ==
  {n} \cup UNION {ShownFor[c] : c \in {m \in Nodes \ {Top} : Node[m].parent = n /\
                                                           Node[n].item \in Symbols}}

\* The tree as the parser leaves it, with something in it (menuconfig.py:658-666):
\* menus, choices and symbols have children (after _flatten()), all prompts are
\* those of nodes; and what set_value() and load_config() get.
ASSUME NodeAssumption ==
  /\ NodeOrder \in Seq(Nodes) /\ Len(NodeOrder) > 1
  /\ \A j, k \in DOMAIN NodeOrder : NodeOrder[j] = NodeOrder[k] => j = k
  /\ Node[Top].parent = Top /\ Node[Top].item = "MENU"
  /\ \A n \in Nodes \ {Top} : Node[n].parent \in Nodes /\ Place(Node[n].parent) < Place(n)
  /\ \A n \in Nodes :
       /\ Node[Node[n].parent].menuconfig \/ Node[Node[n].parent].item \in Symbols
       /\ Node[n].item \in Choices \cup {"MENU"} => Node[n].menuconfig
       /\ Node[n].item \in Items =>
            Node[n].cond \in EvaluatedBy(Vis(Node[n].item))
                               \cup {e \in DOMAIN ExprRank : e.op = "const" /\ e.v = 0}
  /\ \A i \in Items : \A k \in DOMAIN Def[i].prompts :
       \E n \in Nodes : Node[n].item = i /\ Node[n].cond = Def[i].prompts[k]
  /\ \A s \in Symbols : ~IsTri(s) => Typed[s] \subseteq UserVals[s]
  /\ \A f \in Files : f \in Seq({[sym |-> f[k].sym, val |-> f[k].val] : k \in DOMAIN f})

\* ConfigCache returns these attributes, whatever was cached before.
AttributesAt == [u \in U!Users |-> Attributes(u)]

VARIABLES
  user,     \* the user values
  vals,     \* the attributes, which the engine computes from them
  changed,  \* _conf_changed
  menu,     \* _cur_menu
  shown,    \* _shown
  cursor,   \* _sel_node_i, from 1, or 0 once an exception was raised
  all,      \* _show_all
  saved     \* the file _conf_filename names

screen == <<menu, shown, cursor, all>>
vars == <<user, vals, changed, screen, saved>>

Running == cursor # 0

Current == shown[cursor]
-----------------------------------------------------------------------------
(***************************************************************************)
(* What is shown in a menu under user values u and attributes v, show-all  *)
(* mode being on or off.                                                   *)
(***************************************************************************)
NodeVisible(n, u, v) == ExprValue(Node[n].cond, u, v) # 0

\* Node n is listed in its menu: an invisible symbol with something to show below
\* it, too.
Listed(n, on, u, v) == on \/ \E c \in ShownFor[n] : NodeVisible(c, u, v)

\* A choice symbol that is defined at several places is shown once, where it is
\* defined at the present one, or else at the first one.
Once(m, nodes) ==
  {n \in nodes : \/ ParentMenu[n] = m \/ Node[n].item \notin Symbols
                 \/ \A o \in nodes : Node[o].item = Node[n].item =>
                                      ParentMenu[o] # m /\ Place(n) <= Place(o)}

\* _shown_nodes()
ShownNodes(m, on, u, v) == InOrder(Once(m, {n \in NodesOf[m] : Listed(n, on, u, v)}))

ShownNow(m) == ShownNodes(m, all, user, vals)

ShownNext(m) == ShownNodes(m, all', user', vals')
-----------------------------------------------------------------------------
(***************************************************************************)
(* Moving about.                                                           *)
(***************************************************************************)
ShowMenu(m, n) == menu' = m /\ shown' = ShownNext(m) /\ cursor' = Index(shown', n)

\* _update_menu(); without a change of values it changes nothing
UpdateMenu == ShowMenu(menu, Current)

\* _select_selected_choice_sym(): the node of the selection, or else k
SelectedOr(m, k) ==
  LET nodes == NodesWith(vals[<<Node[m].item, "sel">>])
      found == First({j \in DOMAIN nodes : InList(nodes[j], shown')})
  IN  IF Node[m].item \in Choices /\ found # 0 THEN Index(shown', nodes[found]) ELSE k

\* Keys that change no value
Browse == Running /\ UNCHANGED <<user, vals, changed, saved>>

\* _enter_menu(), which refuses nodes that are no menus and empty menus
EnterMenu == /\ Browse
             /\ Node[Current].menuconfig
             /\ menu' = Current
             /\ shown' = ShownNow(Current)
             /\ shown' # <<>>
             /\ cursor' = SelectedOr(Current, 1)
             /\ UNCHANGED all

\* _leave_menu()
LeaveMenu == /\ Browse
             /\ menu # Top
             /\ UNCHANGED all
             /\ ShowMenu(ParentMenu[menu], menu)

\* The node of list to select when the nodes now are shown instead: the closest
\* one before position k, or else after it; 0 if there is none.
Closest(list, k, now) ==
  LET kept == {j \in DOMAIN list : InList(list[j], now)}
      before == {j \in kept : j <= k}
  IN  IF before # {} THEN Highest(before) ELSE First(kept)

\* Mutant: the mode is left where nothing is visible, too.
ToggleAnywhere ==
  /\ Browse
  /\ all' = ~all
  /\ shown' = ShownNext(menu)
  /\ cursor' = Greater(1, Lesser(cursor, Len(shown')))
  /\ UNCHANGED menu

\* _toggle_show_all(), which leaves the mode on where nothing is visible
ToggleShowAll ==
  /\ Browse
  /\ \E now \in {ShownNodes(menu, ~all, user, vals)} : \E k \in {Closest(shown, cursor, now)} :
       IF k = 0 THEN all' = TRUE /\ UNCHANGED <<shown, cursor>>
       ELSE all' = ~all /\ shown' = now /\ cursor' = Index(now, shown[k])
  /\ UNCHANGED menu

\* _jump_to() node n of menu m, which turns show-all mode on if n is not shown
JumpIn(m, n) ==
  /\ all' = (all \/ ~InList(n, ShownNow(m)))
  /\ ShowMenu(m, n)

\* _jump_to() menu or choice m, to its first entry; if that one is not shown, to
\* the one that is and is closest, if there is one.
JumpInto(m) ==
  \E now \in {ShownNow(m)}, every \in {ShownNodes(m, TRUE, user, vals)} :
    \E n \in {Children(m)[1]} : \E k \in {Closest(every, Index(every, n), now)} :
      /\ menu' = m
      /\ all' = (all \/ k = 0)
      /\ shown' = IF k = 0 THEN every ELSE now
      /\ cursor' = SelectedOr(m, IF k = 0 THEN Index(every, n) ELSE Index(now, every[k]))

Jump(n) ==
  /\ Browse
  /\ IF Node[n].item \in Choices \cup {"MENU"} /\ Children(n) # <<>>
       THEN JumpInto(n) ELSE JumpIn(ParentMenu[n], n)

\* Down, up, end and home; page up and down are several of these.
Move == /\ Browse
        /\ cursor' \in {cursor - 1, cursor + 1, 1, Len(shown)} \cap DOMAIN shown
        /\ UNCHANGED <<menu, shown, all>>
-----------------------------------------------------------------------------
(***************************************************************************)
(* Changing values.                                                        *)
(***************************************************************************)
ValueIn(i, u, v) == IF i \in Choices THEN ChoiceTri(i, u, v) ELSE v[Value(i)]

CurrentValue(i) == ValueIn(i, user, vals)

With(i, x) == IF i \in Symbols THEN U!WithValue(user, i, x) ELSE U!WithMode(user, i, x)

\* Mutant: what the user types is set without a note that it was.
SetItemQuietly(i, x) ==
  /\ IF x = CurrentValue(i) THEN UNCHANGED <<user, vals, changed>>
     ELSE user' = With(i, x) /\ vals' = AttributesAt[user'] /\ changed' = (changed \/ IsTri(i))
  /\ UNCHANGED <<all, saved>>

\* _set_val(), to be followed by UpdateMenu
SetItem(i, x) ==
  /\ IF x = CurrentValue(i) THEN UNCHANGED <<user, vals, changed>>
     ELSE user' = With(i, x) /\ vals' = AttributesAt[user'] /\ changed' = TRUE
  /\ UNCHANGED <<all, saved>>

Options(i) == Assignable(i, user, vals)

\* _is_y_mode_choice_sym()
InYModeChoice(i, v) == InChoice(i) /\ v[Vis(i)] = 2

\* Mutant: one value that can be assigned is enough.
ChangeableToOne(n) ==
  LET i == Node[n].item
  IN  /\ i \in Items
      /\ NodeVisible(n, user, vals)
      /\ ~IsTri(i) \/ Cardinality(Options(i)) > 0

\* _changeable()
Changeable(n) ==
  LET i == Node[n].item
  IN  /\ i \in Items
      /\ NodeVisible(n, user, vals)
      /\ ~IsTri(i) \/ Cardinality(Options(i)) > 1 \/ InYModeChoice(i, vals)

\* The assignable value after x, and after the last one the first one.
NextOption(i) ==
  LET above == {y \in Options(i) : y > CurrentValue(i)}
  IN  First(IF above = {} THEN Options(i) ELSE above)

\* _change_node() gives its node value x.  A selection of a choice symbol with
\* no children is followed by _leave_menu().
ChangeTo(x) ==
  \E n \in {Current} :
    /\ SetItem(Node[n].item, x)
    /\ menu' = IF /\ InYModeChoice(Node[n].item, vals') /\ Children(n) = <<>>
                  /\ menu # Top /\ InList(n, ShownNext(menu))
                 THEN ParentMenu[menu] ELSE menu
    /\ shown' = ShownNext(menu')
    /\ cursor' = Index(shown', IF menu' = menu THEN n ELSE menu)

\* _check_valid(): an int is in the active range, if there is one.
CheckValid(i, x) ==
  Def[i].type = "INT" =>
    \A r \in {FirstActive(Def[i].ranges, user, vals)} \ {0} :
      x \in AsNumber(Operand(Def[i].ranges[r].low, vals))
             .. AsNumber(Operand(Def[i].ranges[r].high, vals))

\* A bool or tristate is toggled, for others the user is asked, and may cancel.
NewValues(i) == IF IsTri(i) THEN {NextOption(i)}
                ELSE {x \in Typed[i] : CheckValid(i, x)} \cup {CurrentValue(i)}

\* tuple.index(): the value is not an assignable one.
IndexRaises(i) == IsTri(i) /\ Cardinality(Options(i)) > 1 /\ CurrentValue(i) \notin Options(i)

\* _change_node().  Space tries this first, return tries _enter_menu() first, and
\* if that does nothing, the other one.
ChangeNode ==
  /\ Running
  /\ Changeable(Current)
  /\ IF IndexRaises(Node[Current].item)
       THEN cursor' = 0 /\ UNCHANGED <<user, vals, changed, menu, shown, all, saved>>
       ELSE \E x \in NewValues(Node[Current].item) : ChangeTo(x)

\* n, m and y: _set_sel_node_tri_val()
SetTri(x) ==
  /\ Running
  /\ \E i \in {Node[Current].item} \cap Items :
       (i \in Choices \/ IsTri(i)) /\ x \in Options(i) /\ SetItem(i, x)
  /\ UpdateMenu
-----------------------------------------------------------------------------
(***************************************************************************)
(* Files and sessions.                                                     *)
(***************************************************************************)
\* Mutant: symbols the file does not set are not looked at.
NeedsSaveIfSet(u, v) == \E s \in Symbols : u[s] # NoUser /\ v[Value(s)] # u[s]

\* _needs_save()
NeedsSave(u, v) ==
  \E s \in Symbols : IF u[s] = NoUser THEN WriteToConf(s, u, v) ELSE v[Value(s)] # u[s]

\* load_config(); without a file nothing is loaded, and there is something to save.
LoadOver(u, file) ==
  /\ user' = IF file = Gone THEN u ELSE LoadedUser(u, file)
  /\ vals' = AttributesAt[user']
  /\ changed' = (file = Gone \/ NeedsSave(user', vals'))
  /\ saved' = file

\* Mutant: show-all mode stays off.
LoadAsIs == /\ Running
            /\ \E f \in Files : LoadOver(user, f)
            /\ UNCHANGED all
            /\ UpdateMenu

\* _load_dialog(); with changes, the user is asked first, and may as well cancel.
\* Show-all mode is turned on if the node under the cursor is hidden now.
LoadDialog ==
  /\ Running
  /\ \E f \in Files \cup ({saved} \ {Gone}) : LoadOver(user, f)
  /\ all' = (all \/ ~InList(Current, ShownNodes(menu, all, user', vals')))
  /\ UpdateMenu

\* _save_dialog() with write_config(), or the save before quitting
SaveDialog ==
  /\ Running
  /\ changed' = FALSE
  /\ saved' = Contents(user, vals)
  /\ UNCHANGED <<user, vals, screen>>

\* The file could not be written; SaveConfig says when it is lost.
SaveFails ==
  /\ Running
  /\ saved # Contents(user, vals)
  /\ saved' = Gone
  /\ UNCHANGED <<user, vals, changed, screen>>

\* menuconfig() and _init(); there is something to show in show-all mode.
Session(file) ==
  /\ LoadOver(U!Untouched, file)
  /\ menu' = Top
  /\ all' = (ShownNodes(Top, FALSE, user', vals') = <<>>)
  /\ shown' = ShownNext(Top)
  /\ cursor' = 1

\* The user quits (after the question whether to save, or without if nothing
\* changed) or the program ended by an exception; it is started again.
Restart == \E f \in Files \cup {saved} : Session(f)

\* The first session has no file.
Init ==
  /\ user = U!Untouched /\ vals = AttributesAt[user] /\ changed = TRUE /\ saved = Gone
  /\ menu = Top
  /\ all = (ShownNodes(Top, FALSE, user, vals) = <<>>)
  /\ shown = ShownNow(Top)
  /\ cursor = 1

Next ==
  \/ Move \/ ChangeNode \/ EnterMenu \/ LeaveMenu \/ ToggleShowAll
  \/ LoadDialog \/ SaveDialog \/ SaveFails \/ Restart
  \/ \E x \in 0..2 : SetTri(x)
  \/ \E n \in Nodes \ {Top} : Jump(n)

Spec == Init /\ [][Next]_vars
-----------------------------------------------------------------------------
\* The user values are well formed, the current menu is one, and nodes are shown.
TypeOK ==
  /\ \A i \in Items : user[i] \in UserVals[i]
  /\ changed \in BOOLEAN /\ all \in BOOLEAN
  /\ Node[menu].menuconfig
  /\ \A k \in DOMAIN shown : shown[k] \in Nodes

(***************************************************************************)
(* The trees for which CursorIsOnShownNode and MenuCanBeLeft are proved.   *)
(***************************************************************************)
\* A choice is defined at one place, and so is a symbol that others are below.
DefinedOnce ==
  \A n, o \in Nodes : Node[n].item \in Items /\ Node[o].item = Node[n].item /\ o # n =>
    /\ Node[n].item \in Symbols
    /\ \A c \in Nodes \ {Top} : Node[c].parent # n

NoTristates == \A i \in Items : ~IsTristate(i)

\* What can be seen is in menus and choices that can be seen.  Only a "visible if"
\* that a menu or comment is below makes it otherwise.
EntriesNeedMenu ==
  \A u \in U!Users : \A v \in {AttributesAt[u]} : \A n \in Nodes \ {Top} :
    LET m == Node[n].parent
    IN  m # Top /\ Node[m].item \notin Symbols =>
          \A c \in ShownFor[n] : NodeVisible(c, u, v) => NodeVisible(m, u, v)

PlainTree == DefinedOnce /\ NoTristates /\ EntriesNeedMenu

\* The trees for which QuitLosesNothing is proved: a tristate can be y by its
\* default where the user may only choose m, and a file has no modes of choices.
FilesTellAll == NoTristates /\ \A c \in Choices : ModeIsSaved(c)

(***************************************************************************)
(* No key raises an exception, which would lose all changes, and the nodes *)
(* on the screen are the ones the present values call for, with the cursor *)
(* on one of them ("the implementation relies on always having a selected  *)
(* node", menuconfig.py:1281-1282).                                        *)
(***************************************************************************)
CursorIsOnShownNode == cursor \in DOMAIN shown /\ shown = ShownNow(menu)

(***************************************************************************)
(* However the current menu was entered or hidden since, its own node is   *)
(* shown in the menu around it, so it can be left (menuconfig.py:1174).    *)
(***************************************************************************)
MenuCanBeLeft == Running /\ menu # Top => InList(menu, ShownNow(ParentMenu[menu]))

(***************************************************************************)
(* Quitting without a question loses nothing: while _conf_changed is       *)
(* False, a new session on the saved file has the values of this one.      *)
(***************************************************************************)
QuitLosesNothing ==
  Running /\ ~changed /\ saved # Gone =>
    \A u \in {LoadedUser(U!Untouched, saved)} : \A v \in {AttributesAt[u]} :
      \A i \in Items : ValueIn(i, u, v) = CurrentValue(i)

\* ... and the file has every line that saving would write (menuconfig.py:718-719).
NothingUnwritten ==
  Running /\ ~changed /\ saved # Gone =>
    \A f \in {Contents(user, vals)} : \A k \in DOMAIN f : InList(f[k], saved)

(***************************************************************************)
(* A node that can be toggled is toggled to another value, so the key is   *)
(* not pressed in vain; only the symbols of a choice in y mode stay.       *)
(***************************************************************************)
TogglingTakesEffect ==
  Running =>
    \A k \in DOMAIN shown : \A i \in {Node[shown[k]].item} \cap Items :
      Changeable(shown[k]) /\ IsTri(i) /\ ~InYModeChoice(i, vals) =>
        \A u \in {With(i, NextOption(i))} : \A v \in {AttributesAt[u]} :
          ValueIn(i, u, v) # CurrentValue(i)
=============================================================================
