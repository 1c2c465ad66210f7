---------------------------- MODULE KconfigParse ----------------------------
(***************************************************************************)
(* Kconfig.__init__() of libs/menu/kconfiglib.py: the Kconfig files are    *)
(* parsed, one statement after the other, into a tree of menu nodes, and   *)
(* dependencies are propagated from each node to the nodes below it.       *)
(*                                                                         *)
(* Menu nodes are numbered in the order they are parsed, the top node is   *)
(* node 1, and 0 is None.  The words of a statement are left out: it comes *)
(* with its properties, as _parse_properties() leaves them.  Expressions   *)
(* are put together here and not evaluated: what they mean is a parameter. *)
(***************************************************************************)
EXTENDS ConfigTrees, KconfigState, FiniteSets

CONSTANTS
  Statements,  \* the statements that start a menu node
  Files,       \* the files that can be sourced, and
  MainFile,    \* the file where parsing starts
  MaxNodes,    \* a bound on the number of nodes
  MaxDefs,     \* MaxDefs[i]: a bound on the nodes of item i
  Meaning(_, _) \* Meaning(e, v): the value of expression e while attributes have values v

VARIABLES
  parsed,  \* the nodes with the properties of their statements
  tree,    \* MenuNode.list, next and parent of the nodes
  open,    \* the blocks being parsed, files included, the innermost last
  nodes    \* the nodes once dependencies are propagated

parsing == <<parsed, tree, open, nodes, def, status>>

Top == [kw |-> "menu", item |-> "MENU", menuconfig |-> TRUE, type |-> "UNKNOWN",
        parent |-> 0, dep |-> Y, prompt |-> <<Y>>, visible |-> Y, defaults |-> <<>>,
        ranges |-> <<>>, selects |-> <<>>, implies |-> <<>>, optional |-> FALSE]

\* Statements come with all properties, one prompt at most; "visible if" is for menus.
ASSUME StatementsAssumption ==
  \A st \in Statements :
    /\ st = [x \in DOMAIN Top |-> st[x]]
    /\ st.prompt # <<>> => DOMAIN st.prompt = {1}
    /\ st.item # "MENU" => st.visible = Y

\* Like the token after which a block has ended.
EndOf == [if |-> "endif", menu |-> "endmenu", choice |-> "endchoice"]

Block == open[Len(open)]

\* The blocks below the innermost one, the one around it continued after node n.
Left(n) == [k \in 1..(Len(open) - 1) |->
              IF k = Len(open) - 1 THEN [open[k] EXCEPT !.prev = n] ELSE open[k]]

Init ==
  /\ parsed = <<Top>>
  /\ tree = [list |-> <<0>>, next |-> <<0>>, parent |-> <<0>>]
  /\ open = <<[end |-> "EOF", node |-> 1, prev |-> 1, file |-> MainFile]>>
  /\ nodes = <<>> /\ def = <<>> /\ status = "parsing"
-----------------------------------------------------------------------------
(***************************************************************************)
(* Parsing: _parse_block().                                                *)
(***************************************************************************)
New == Len(parsed) + 1

Definitions(i) == {k \in DOMAIN parsed : parsed[k].item = i}

\* A node is made; what it comes after is linked to it when it is complete.
MakeNode(st) ==
  /\ status = "parsing"
  /\ New <= MaxNodes
  /\ st.item \in Items => Cardinality(Definitions(st.item)) < MaxDefs[st.item]
  /\ parsed' = Append(parsed, [st EXCEPT !.parent = Block.node])
  /\ UNCHANGED <<nodes, def, status>>

Unlinked == [list |-> Append(tree.list, 0), next |-> Append(tree.next, 0),
             parent |-> Append(tree.parent, Block.node)]

\* config, menuconfig and comment
Statement(st) ==
  /\ st.kw \notin DOMAIN EndOf
  /\ MakeNode(st)
  /\ tree' = [Unlinked EXCEPT !.next[Block.prev] = New]
  /\ open' = [open EXCEPT ![Len(open)].prev = New]

\* if, menu and choice: the recursive call
OpenBlock(st) ==
  /\ st.kw \in DOMAIN EndOf
  /\ MakeNode(st)
  /\ tree' = Unlinked
  /\ open' = Append(open, [end |-> EndOf[st.kw], node |-> New, prev |-> New,
                           file |-> Block.file])

\* An exception leaves nothing of the tree.
Raise == status' = "error" /\ parsed' = <<>> /\ tree' = <<>> /\ open' = <<>>

\* endif, endmenu and endchoice: the nodes of the block are tilted up above its
\* own node, which comes after the nodes before the block.
CloseBlock(end) ==
  /\ status = "parsing"
  /\ IF Block.end # end
       THEN Raise
       ELSE \E next \in {[tree.next EXCEPT ![Block.prev] = 0]} :
              /\ tree' = [tree EXCEPT !.list[Block.node] = next[Block.node],
                            !.next = [next EXCEPT ![open[Len(open) - 1].prev] = Block.node]]
              /\ open' = Left(Block.node)
              /\ UNCHANGED <<parsed, status>>
  /\ UNCHANGED <<nodes, def>>

\* source, and _enter_file(): a file must not source itself.
Source(f) ==
  /\ status = "parsing"
  /\ IF \E k \in DOMAIN open : open[k].file = f
       THEN Raise
       ELSE /\ open' = Append(open, [Block EXCEPT !.end = "EOF", !.file = f])
            /\ UNCHANGED <<parsed, tree, status>>
  /\ UNCHANGED <<nodes, def>>

\* The end of a sourced file, and _leave_file(); or of any file, with a block open.
EndOfFile ==
  /\ status = "parsing"
  /\ Len(open) > 1
  /\ IF Block.end # "EOF"
       THEN Raise
       ELSE /\ tree' = [tree EXCEPT !.next[Block.prev] = 0]
            /\ open' = Left(Block.prev)
            /\ UNCHANGED <<parsed, status>>
  /\ UNCHANGED <<nodes, def>>
-----------------------------------------------------------------------------
(***************************************************************************)
(* Dependencies are propagated from the blocks to what is in them.         *)
(***************************************************************************)
MakeAnd(e, f) ==
  IF e = Y THEN f ELSE IF f = Y THEN e ELSE IF N \in {e, f} THEN N ELSE And(e, f)

\* Mutant: what is in a choice depends on what the choice depends on.
DependencyOnly(up) == up.dep

\* What the nodes below a node depend on: on a choice itself.
BaseDependency(up) == IF up.item \in Choices THEN It(up.item) ELSE up.dep

\* _propagate_deps(): node st with the dependencies of the node up it is in;
\* visible is what the "visible if" of all menus around its children says.
Propagated(st, up) ==
  LET dep == MakeAnd(st.dep, BaseDependency(up))
      cond == IF st.item \in Items THEN MakeAnd(up.visible, dep) ELSE dep
      Under(list) == [k \in DOMAIN list |->
                        [list[k] EXCEPT !.cond = MakeAnd(list[k].cond, dep)]]
  IN  [st EXCEPT !.dep = dep,
                 !.visible = IF st.item = "MENU" THEN MakeAnd(up.visible, @) ELSE up.visible,
                 !.prompt = [k \in DOMAIN @ |-> MakeAnd(st.prompt[k], cond)],
                 !.defaults = Under(@), !.ranges = Under(@),
                 !.selects = Under(@), !.implies = Under(@)]

\* The first n nodes: a node is parsed after the one it is in.
PropagateDeps[n \in DOMAIN parsed] ==
  IF n = 1 THEN <<parsed[1]>>
  ELSE LET done == PropagateDeps[n - 1]
       IN  Append(done, Propagated(parsed[n], done[parsed[n].parent]))

\* The end of the first file: what is in the file is below the top node.
FileTree ==
  LET next == [tree.next EXCEPT ![Block.prev] = 0]
  IN  [tree EXCEPT !.list[1] = next[1], !.next = [next EXCEPT ![1] = 0]]

\* The tree of the nodes and the items are left to _finalize_tree().
EndOfMainFile ==
  /\ status = "parsing"
  /\ Len(open) = 1
  /\ nodes' = PropagateDeps[Len(parsed)]
  /\ status' = "built"
  /\ UNCHANGED <<parsed, open>>

ParseStatement ==
  \/ \E st \in Statements : Statement(st) \/ OpenBlock(st)
  \/ \E end \in {EndOf[kw] : kw \in DOMAIN EndOf} : CloseBlock(end)
  \/ \E f \in Files : Source(f)
  \/ EndOfFile

ParseSpec == Init /\ [][ParseStatement \/ EndOfMainFile]_parsing
-----------------------------------------------------------------------------
Built == status = "built"

ChildrenOf(n) == {m \in DOMAIN parsed : parsed[m].parent = n}

\* The first of a set of nodes, or None
IsFirst(m, S) == IF S = {} THEN m = 0 ELSE m \in S /\ \A k \in S : m <= k

(***************************************************************************)
(* The tree given to _finalize_tree(): each node has a list of the nodes   *)
(* that were parsed in its block, in the order of the files, and a block   *)
(* that was left is not entered again, however blocks are nested and       *)
(* divided into files (_parse_block() links a node when it is complete).   *)
(***************************************************************************)
FilesInOrder ==
  status = "parsing" /\ Len(open) = 1 =>
    LET t == FileTree
    IN  \A n \in DOMAIN parsed :
          /\ t.parent[n] = parsed[n].parent
          /\ IsFirst(t.list[n], ChildrenOf(n))
          /\ IsFirst(t.next[n], {m \in ChildrenOf(parsed[n].parent) : m > n})
          /\ \A k \in (n + 1)..Len(parsed) : parsed[k].parent < n =>
               \A m \in k..Len(parsed) : parsed[m].parent < n \/ parsed[m].parent >= k

\* The statements around node n
Enclosing[n \in DOMAIN parsed] ==
  IF n = 1 THEN {} ELSE {parsed[n].parent} \cup Enclosing[parsed[n].parent]

\* What the files require for the prompt of node n: its own condition and
\* dependencies, and those of everything around it; of a choice, its value.
Required(n) ==
  {parsed[n].prompt[1], parsed[n].dep}
    \cup {IF parsed[m].item \in Choices THEN It(parsed[m].item) ELSE parsed[m].dep :
            m \in {k \in Enclosing[n] : \A c \in Enclosing[n] : parsed[c].item \in Choices => c <= k}}
    \cup {parsed[m].visible : m \in Enclosing[n]}

\* All values of symbols and visibilities of choices, as attributes.
Valuations == [{<<s, "tri">> : s \in Symbols} \cup {<<c, "vis">> : c \in Choices} -> {0, 2}]

\* What n, y and conjunctions of expressions of a set mean
MeansConjunction(exprs) ==
  \A v \in Valuations :
    /\ Meaning(N, v) = 0 /\ Meaning(Y, v) = 2
    /\ \A e, f \in exprs :
         /\ Meaning(e, v) \in 0..2
         /\ Meaning(And(e, f), v) = IF Meaning(e, v) < Meaning(f, v) THEN Meaning(e, v)
                                                                   ELSE Meaning(f, v)

IsLeast(x, S) == x \in S /\ \A y \in S : x <= y

(***************************************************************************)
(* A prompt of a symbol or choice is visible exactly as far as everything  *)
(* around it in the files allows: as far as the next choice around it is,  *)
(* and all "visible if" of the menus.                                      *)
(***************************************************************************)
PromptsMeetRequirements ==
  Built =>
    \A n \in {k \in DOMAIN nodes : nodes[k].item \in Items /\ nodes[k].prompt # <<>>} :
      LET required == Required(n)
      IN  \A v \in Valuations :
            IsLeast(Meaning(nodes[n].prompt[1], v), {Meaning(e, v) : e \in required})
=============================================================================
