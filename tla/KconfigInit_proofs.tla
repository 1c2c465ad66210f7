-------------------------- MODULE KconfigInit_proofs --------------------------
(***************************************************************************)
(* What Kconfig.__init__() makes of the files: the tree it gives to        *)
(* _finalize_tree() and the dependencies it propagates, for all files, and *)
(* what the search for dependency loops finds, for every graph of symbols  *)
(* and choices.                                                            *)
(***************************************************************************)
EXTENDS KconfigParse, LoopSearch, FiniteSetTheorems, WellFoundedInduction, TLAPS

(***************************************************************************)
(* Part 1: parsing.  The innermost of the calls of _parse_block() reads    *)
(* the nodes of one block; the pointers of all other nodes are done.       *)
(***************************************************************************)

\* The nodes that can be made, and the calls of _parse_block().
ParsedNodes == {Top} \cup {[st EXCEPT !.parent = n] : st \in Statements, n \in Nat}

BlockCalls ==
  [end : {"EOF"} \cup {EndOf[kw] : kw \in DOMAIN EndOf}, node : Nat, prev : Nat,
   file : Files \cup {MainFile}]

ParsedOK ==
  /\ parsed \in Seq(ParsedNodes) /\ Len(parsed) > 0
  /\ parsed[1] = Top
  /\ \A n \in 2..Len(parsed) : parsed[n].parent \in 1..(n - 1)

OpenNodes == {open[j].node : j \in DOMAIN open}

\* Each block but the first is in the one below it, or goes on with it in another file.
OpenOK ==
  /\ open \in Seq(BlockCalls) /\ Len(open) > 0
  /\ open[1].node = 1 /\ open[1].end = "EOF"
  /\ \A j \in 2..Len(open) :
       IF open[j].end = "EOF" THEN open[j].node = open[j - 1].node
       ELSE /\ open[j].node \in 2..Len(parsed)
            /\ parsed[open[j].node].parent = open[j - 1].node

TreeOK ==
  /\ tree = [list |-> tree.list, next |-> tree.next, parent |-> tree.parent]
  /\ {tree.list, tree.next, tree.parent} \subseteq Seq(Nat)
  /\ Len(tree.list) = Len(parsed) /\ Len(tree.next) = Len(parsed) /\ Len(tree.parent) = Len(parsed)

\* The nodes that have been linked to the ones before them in the block of node n.
Kids(n) == ChildrenOf(n) \ OpenNodes

\* The innermost call that reads the block of its node.
Tip(j) == j = Len(open) \/ open[j + 1].node # open[j].node

\* What the next node of a block comes after
PrevOK(j) ==
  LET kids == Kids(open[j].node)
  IN  IF kids = {} THEN open[j].prev = open[j].node
      ELSE open[j].prev \in kids /\ \A m \in kids : m <= open[j].prev

\* The nodes of a block are linked; the last one while the block is open is not.
HeadOK(n) ==
  IF n \in OpenNodes THEN Kids(n) # {} => IsFirst(tree.next[n], Kids(n))
  ELSE IsFirst(tree.list[n], Kids(n))

Later(n) == {m \in Kids(parsed[n].parent) : m > n}

NextOK(n) ==
  n \notin OpenNodes /\ (Later(n) # {} \/ parsed[n].parent \notin OpenNodes) =>
    IsFirst(tree.next[n], Later(n))

LinksOK ==
  /\ \A n \in DOMAIN parsed : tree.parent[n] = parsed[n].parent /\ HeadOK(n) /\ NextOK(n)
  /\ \A j \in DOMAIN open : Tip(j) => PrevOK(j)
  /\ \A j \in 2..Len(open) : open[j].end # "EOF" =>
       \A m \in Kids(open[j - 1].node) : m < open[j].node

\* Parsing has left all blocks that ended before node k.
BlocksAreLeft ==
  /\ \A n \in DOMAIN parsed : \A k \in (n + 1)..Len(parsed) : parsed[k].parent < n =>
       /\ \A m \in k..Len(parsed) : parsed[m].parent < n \/ parsed[m].parent >= k
       /\ \A b \in OpenNodes : b < n \/ b >= k

ParsingInv == ParsedOK /\ OpenOK /\ TreeOK /\ LinksOK /\ BlocksAreLeft

\* What has been propagated to each node
NodesOK ==
  /\ DOMAIN nodes = DOMAIN parsed
  /\ nodes[1] = parsed[1]
  /\ \A n \in 2..Len(parsed) : nodes[n] = Propagated(parsed[n], nodes[parsed[n].parent])

ParseInv ==
  /\ status \in {"parsing", "built", "error"}
  /\ status = "parsing" => ParsingInv
  /\ status = "built" => ParsedOK /\ NodesOK
-----------------------------------------------------------------------------
LEMMA SetInduction ==
  ASSUME NEW T, 0 \in T, \A k \in Nat : k \in T => k + 1 \in T
  PROVE  Nat \subseteq T
<1>1. IsWellFoundedOn(OpToRel(<, Nat), Nat)
  BY NatLessThanWellFounded, Zenon
<1>2. SUFFICES ASSUME Nat \ T # {} PROVE FALSE
  OBVIOUS
<1>3. PICK m \in Nat \ T : \A k \in Nat \ T : <<k, m>> \notin OpToRel(<, Nat)
  BY <1>1, <1>2, WFMin, Zenon
<1>m. m \in Nat /\ m \notin T
  BY <1>3, Zenon
<1>4. m # 0 /\ m - 1 \in Nat /\ (m - 1) + 1 = m
  BY <1>m
<1>5. m - 1 \notin T
  BY <1>m, <1>4
<1>6. <<m - 1, m>> \in OpToRel(<, Nat)
  BY <1>3, <1>4 DEF OpToRel
<1>. QED BY <1>3, <1>4, <1>5, <1>6, Zenon

LEMMA NodeFields ==
  ASSUME NEW st \in Statements, NEW n \in Nat
  PROVE  LET nd == [st EXCEPT !.parent = n]
         IN  /\ nd.parent = n /\ nd.item = st.item /\ nd.dep = st.dep
             /\ nd.prompt = st.prompt /\ nd.visible = st.visible
             /\ nd = [x \in DOMAIN Top |-> nd[x]]
<1>1. st = [x \in DOMAIN Top |-> st[x]]
  BY StatementsAssumption
<1>2. DOMAIN Top = {"kw", "item", "menuconfig", "type", "parent", "dep", "prompt", "visible",
                    "defaults", "ranges", "selects", "implies", "optional"}
  BY DEF Top
<1>. QED BY <1>1, <1>2

\* The innermost blocks have the greatest nodes.
LEMMA OpenGrows ==
  ASSUME OpenOK, ParsedOK
  PROVE  /\ \A j \in DOMAIN open : open[j] \in BlockCalls /\ open[j].node \in 1..Len(parsed)
         /\ \A j \in 2..Len(open) : open[j - 1].node <= open[j].node
         /\ \A j \in 2..Len(open) : open[j].end # "EOF" => open[j - 1].node < open[j].node
         /\ \A i, j \in 1..Len(open) : i <= j => open[i].node <= open[j].node
         /\ \A j \in 1..Len(open) : open[j].node <= Block.node
         /\ Len(open) \in Nat \ {0} /\ DOMAIN open = 1..Len(open)
<1>1. Len(open) \in Nat \ {0} /\ DOMAIN open = 1..Len(open) /\ \A j \in DOMAIN open : open[j] \in BlockCalls
  BY DEF OpenOK
<1>2. Len(parsed) \in Nat \ {0} /\ DOMAIN parsed = 1..Len(parsed)
  BY DEF ParsedOK
<1>3. \A j \in DOMAIN open : open[j].node \in Nat
  BY <1>1 DEF BlockCalls
<1>4. \A j \in 2..Len(open) : /\ open[j - 1].node <= open[j].node
                              /\ open[j].end # "EOF" => open[j - 1].node < open[j].node
  <2>. SUFFICES ASSUME NEW j \in 2..Len(open)
                PROVE  /\ open[j - 1].node <= open[j].node
                       /\ open[j].end # "EOF" => open[j - 1].node < open[j].node
    OBVIOUS
  <2>1. j \in DOMAIN open /\ j - 1 \in DOMAIN open
    BY <1>1
  <2>2. CASE open[j].end = "EOF"
    BY <2>1, <2>2, <1>3 DEF OpenOK
  <2>3. CASE open[j].end # "EOF"
    <3>1. open[j].node \in 2..Len(parsed) /\ parsed[open[j].node].parent = open[j - 1].node
      BY <2>3 DEF OpenOK
    <3>2. parsed[open[j].node].parent \in 1..(open[j].node - 1)
      BY <3>1 DEF ParsedOK
    <3>. QED BY <3>1, <3>2, <1>2
  <2>. QED BY <2>2, <2>3
<1> DEFINE upTo == {j \in Nat : j \in DOMAIN open => open[j].node \in 1..Len(parsed)}
           up == {k \in Nat : \A i \in 1..Len(open) : i + k <= Len(open) => open[i].node <= open[i + k].node}
<1>5. \A j \in DOMAIN open : open[j].node \in 1..Len(parsed)
  <2>1. 0 \in upTo
    BY <1>1
  <2>2. ASSUME NEW j \in Nat, j \in upTo PROVE j + 1 \in upTo
    <3>1. SUFFICES ASSUME j + 1 \in DOMAIN open PROVE open[j + 1].node \in 1..Len(parsed)
      OBVIOUS
    <3>2. CASE j = 0
      BY <3>2, <1>2 DEF OpenOK
    <3>3. CASE j # 0
      <4>1. j \in DOMAIN open /\ j + 1 \in 2..Len(open) /\ (j + 1) - 1 = j
        BY <3>1, <3>3, <1>1
      <4>2. open[j].node \in 1..Len(parsed)
        BY <2>2, <4>1
      <4>. QED BY <4>1, <4>2 DEF OpenOK
    <3>. QED BY <3>2, <3>3
  <2>3. Nat \subseteq upTo
    <3>. HIDE DEF upTo
    <3>. QED BY <2>1, <2>2, SetInduction
  <2>. QED BY <2>3, <1>1
<1>6. ASSUME NEW k \in Nat, k \in up PROVE k + 1 \in up
  <2>1. SUFFICES ASSUME NEW i \in 1..Len(open), i + (k + 1) <= Len(open)
                 PROVE  open[i].node <= open[i + (k + 1)].node
    OBVIOUS
  <2>2. i + k \in 1..Len(open) /\ i + (k + 1) \in 2..Len(open) /\ (i + (k + 1)) - 1 = i + k
    BY <2>1, <1>1
  <2>3. open[i].node <= open[i + k].node /\ open[i + k].node <= open[i + (k + 1)].node
    BY <1>4, <1>6, <2>2
  <2>4. open[i].node \in Nat /\ open[i + k].node \in Nat /\ open[i + (k + 1)].node \in Nat
    BY <1>1, <1>3, <2>2
  <2>. QED BY <2>3, <2>4
<1>7. Nat \subseteq up
  <2>1. 0 \in up
    BY <1>1, <1>3
  <2>. HIDE DEF up
  <2>. QED BY <1>6, <2>1, SetInduction
<1>8. ASSUME NEW i \in 1..Len(open), NEW j \in 1..Len(open), i <= j
      PROVE  open[i].node <= open[j].node
  <2>1. j - i \in Nat /\ i + (j - i) = j /\ j <= Len(open)
    BY <1>1, <1>8
  <2>2. j - i \in up
    BY <1>7, <2>1
  <2>. QED BY <2>1, <2>2
<1>. QED BY <1>1, <1>4, <1>5, <1>8 DEF Block

LEMMA TipFacts ==
  ASSUME ParsingInv
  PROVE  /\ Len(open) \in DOMAIN open /\ Tip(Len(open)) /\ PrevOK(Len(open))
         /\ Block = open[Len(open)] /\ Block \in BlockCalls
         /\ Block.node \in DOMAIN parsed /\ Block.node \in OpenNodes
         /\ \A d \in OpenNodes : d \in DOMAIN parsed /\ d <= Block.node
         /\ \A j \in DOMAIN open : Tip(j) /\ j # Len(open) => open[j].node < Block.node
         /\ Block.prev \in DOMAIN parsed
         /\ Block.prev = Block.node \/ Block.prev \in Kids(Block.node)
<1>. USE DEF ParsingInv
<1>1. /\ Len(open) \in Nat \ {0} /\ DOMAIN open = 1..Len(open)
      /\ \A j \in DOMAIN open : open[j] \in BlockCalls /\ open[j].node \in 1..Len(parsed)
      /\ \A j \in 1..Len(open) : open[j].node <= Block.node
  BY OpenGrows
<1>2. Len(parsed) \in Nat /\ DOMAIN parsed = 1..Len(parsed)
  BY DEF ParsedOK
<1>3. Len(open) \in DOMAIN open /\ Tip(Len(open)) /\ Block = open[Len(open)]
  BY <1>1 DEF Tip, Block
<1>4. PrevOK(Len(open))
  BY <1>3 DEF LinksOK
<1>5. ASSUME NEW j \in DOMAIN open, Tip(j), j # Len(open) PROVE open[j].node < Block.node
  <2>1. j + 1 \in 2..Len(open) /\ (j + 1) - 1 = j
    BY <1>1, <1>5
  <2>2. open[j + 1].end # "EOF"
    BY <2>1, <1>5 DEF Tip, OpenOK
  <2>3. open[j].node < open[j + 1].node
    BY <2>1, <2>2, OpenGrows
  <2>4. open[j + 1].node <= Block.node /\ open[j].node \in Nat /\ open[j + 1].node \in Nat
    BY <1>1, <2>1
  <2>5. Block.node \in Nat
    BY <1>1, <1>3, <1>2
  <2>. QED BY <2>3, <2>4, <2>5
<1>6. Block.prev = Block.node \/ Block.prev \in Kids(Block.node)
  BY <1>3, <1>4 DEF PrevOK
<1>7. Kids(Block.node) \subseteq DOMAIN parsed
  BY DEF Kids, ChildrenOf
<1>. QED BY <1>1, <1>2, <1>3, <1>4, <1>5, <1>6, <1>7 DEF OpenNodes

LEMMA NewNode ==
  ASSUME ParsedOK, OpenOK, NEW st \in Statements, MakeNode(st)
  PROVE  /\ ParsedOK' /\ Len(parsed)' = Len(parsed) + 1
         /\ \A n \in 1..Len(parsed) : parsed'[n] = parsed[n]
         /\ parsed'[New].parent = Block.node
         /\ Block.node \in 1..Len(parsed)
         /\ New = Len(parsed) + 1 /\ Len(parsed) \in Nat
         /\ DOMAIN parsed = 1..Len(parsed) /\ DOMAIN parsed' = 1..New
<1>1. Len(open) \in DOMAIN open /\ Block.node \in 1..Len(parsed)
  BY OpenGrows DEF Block
<1> DEFINE nd == [st EXCEPT !.parent = Block.node]
<1>2. nd \in ParsedNodes /\ nd.parent = Block.node
  <2>1. Block.node \in Nat
    BY <1>1
  <2>. QED BY <2>1, NodeFields DEF ParsedNodes
<1>3. parsed' = Append(parsed, nd)
  BY DEF MakeNode
<1>. HIDE DEF nd
<1>4. /\ parsed' \in Seq(ParsedNodes) /\ Len(parsed') = Len(parsed) + 1
      /\ \A n \in 1..Len(parsed) : parsed'[n] = parsed[n]
      /\ parsed'[Len(parsed) + 1] = nd /\ Len(parsed) \in Nat \ {0}
      /\ DOMAIN parsed = 1..Len(parsed) /\ DOMAIN parsed' = 1..(Len(parsed) + 1)
  BY <1>2, <1>3 DEF ParsedOK
<1>5. parsed'[1] = Top
  BY <1>4 DEF ParsedOK
<1>6. ASSUME NEW n \in 2..Len(parsed') PROVE parsed'[n].parent \in 1..(n - 1)
  <2>1. CASE n \in 2..Len(parsed)
    BY <2>1, <1>4 DEF ParsedOK
  <2>2. CASE n = Len(parsed) + 1
    BY <2>2, <1>4, <1>2, <1>1
  <2>. QED BY <1>4, <2>1, <2>2
<1>. QED BY <1>1, <1>2, <1>4, <1>5, <1>6 DEF ParsedOK, New

\* A node is added to the pointers, below the innermost block.
LEMMA NewPointers ==
  ASSUME ParsingInv
  PROVE  /\ Unlinked = [list |-> Unlinked.list, next |-> Unlinked.next, parent |-> Unlinked.parent]
         /\ {Unlinked.list, Unlinked.next, Unlinked.parent} \subseteq Seq(Nat)
         /\ Len(Unlinked.list) = New /\ Len(Unlinked.next) = New /\ Len(Unlinked.parent) = New
         /\ \A n \in DOMAIN parsed : /\ Unlinked.list[n] = tree.list[n]
                                     /\ Unlinked.next[n] = tree.next[n]
                                     /\ Unlinked.parent[n] = tree.parent[n]
         /\ Unlinked.list[New] = 0 /\ Unlinked.next[New] = 0 /\ Unlinked.parent[New] = Block.node
<1>1. Block.node \in Nat
  BY TipFacts DEF BlockCalls
<1>2. /\ tree.list \in Seq(Nat) /\ tree.next \in Seq(Nat) /\ tree.parent \in Seq(Nat)
      /\ Len(tree.list) = Len(parsed) /\ Len(tree.next) = Len(parsed)
      /\ Len(tree.parent) = Len(parsed)
  BY DEF ParsingInv, TreeOK
<1>3. Len(parsed) \in Nat /\ DOMAIN parsed = 1..Len(parsed)
  BY DEF ParsingInv, ParsedOK
<1>4. /\ Unlinked.list = Append(tree.list, 0) /\ Unlinked.next = Append(tree.next, 0)
      /\ Unlinked.parent = Append(tree.parent, Block.node)
      /\ Unlinked = [list |-> Unlinked.list, next |-> Unlinked.next, parent |-> Unlinked.parent]
  BY DEF Unlinked
<1>5. /\ Unlinked.list \in Seq(Nat) /\ Len(Unlinked.list) = Len(parsed) + 1
      /\ \A n \in 1..Len(parsed) : Unlinked.list[n] = tree.list[n]
      /\ Unlinked.list[Len(parsed) + 1] = 0
  BY <1>2, <1>3, <1>4
<1>6. /\ Unlinked.next \in Seq(Nat) /\ Len(Unlinked.next) = Len(parsed) + 1
      /\ \A n \in 1..Len(parsed) : Unlinked.next[n] = tree.next[n]
      /\ Unlinked.next[Len(parsed) + 1] = 0
  BY <1>2, <1>3, <1>4
<1>7. /\ Unlinked.parent \in Seq(Nat) /\ Len(Unlinked.parent) = Len(parsed) + 1
      /\ \A n \in 1..Len(parsed) : Unlinked.parent[n] = tree.parent[n]
      /\ Unlinked.parent[Len(parsed) + 1] = Block.node
  BY <1>1, <1>2, <1>3, <1>4
<1>8. New = Len(parsed) + 1
  BY DEF New
<1>. QED BY <1>3, <1>4, <1>5, <1>6, <1>7, <1>8

LEMMA CallChanged ==
  ASSUME NEW call \in BlockCalls, NEW n \in Nat
  PROVE  LET after == [call EXCEPT !.prev = n]
         IN  /\ after \in BlockCalls /\ after.prev = n
             /\ after.node = call.node /\ after.end = call.end /\ after.file = call.file
BY DEF BlockCalls

LEMMA StatementOpen ==
  ASSUME ParsingInv, NEW st \in Statements, Statement(st)
  PROVE  /\ OpenOK' /\ OpenNodes' = OpenNodes /\ Len(open') = Len(open)
         /\ DOMAIN open' = DOMAIN open
         /\ \A j \in DOMAIN open : /\ open'[j].node = open[j].node
                                   /\ open'[j].end = open[j].end
                                   /\ open'[j].prev = IF j = Len(open) THEN New ELSE open[j].prev
<1>1. /\ ParsedOK' /\ Len(parsed)' = Len(parsed) + 1 /\ New = Len(parsed) + 1
      /\ \A n \in 1..Len(parsed) : parsed'[n] = parsed[n]
      /\ Len(parsed) \in Nat
  BY NewNode DEF Statement, ParsingInv
<1>2. open' = [open EXCEPT ![Len(open)].prev = New]
  BY DEF Statement
<1>3. open \in Seq(BlockCalls) /\ Len(open) \in Nat \ {0} /\ DOMAIN open = 1..Len(open)
  BY DEF ParsingInv, OpenOK
<1> DEFINE last == [open[Len(open)] EXCEPT !.prev = New]
<1>4. last \in BlockCalls /\ last.node = open[Len(open)].node /\ last.end = open[Len(open)].end
      /\ last.prev = New
  <2>1. open[Len(open)] \in BlockCalls /\ New \in Nat
    BY <1>1, <1>3
  <2>. QED BY <2>1, CallChanged
<1>5. open' = [open EXCEPT ![Len(open)] = last]
  BY <1>2
<1>. HIDE DEF last
<1>6. /\ open' \in Seq(BlockCalls) /\ Len(open') = Len(open) /\ DOMAIN open' = DOMAIN open
      /\ open'[Len(open)] = last
      /\ \A j \in DOMAIN open : j # Len(open) => open'[j] = open[j]
  BY <1>3, <1>4, <1>5
<1>7. \A j \in DOMAIN open : /\ open'[j].node = open[j].node
                             /\ open'[j].end = open[j].end
                             /\ open'[j].prev = IF j = Len(open) THEN New ELSE open[j].prev
  BY <1>4, <1>6
<1>8. OpenNodes' = OpenNodes
  BY <1>6, <1>7 DEF OpenNodes
<1>9. ASSUME NEW j \in 2..Len(open)
      PROVE  IF open'[j].end = "EOF" THEN open'[j].node = open'[j - 1].node
             ELSE /\ open'[j].node \in 2..Len(parsed')
                  /\ parsed'[open'[j].node].parent = open'[j - 1].node
  <2>1. j \in DOMAIN open /\ j - 1 \in DOMAIN open
    BY <1>3
  <2>2. /\ open'[j].node = open[j].node /\ open'[j].end = open[j].end
        /\ open'[j - 1].node = open[j - 1].node
    BY <2>1, <1>7
  <2>3. IF open[j].end = "EOF" THEN open[j].node = open[j - 1].node
        ELSE /\ open[j].node \in 2..Len(parsed)
             /\ parsed[open[j].node].parent = open[j - 1].node
    BY DEF ParsingInv, OpenOK
  <2>4. open[j].node \in 2..Len(parsed) =>
          open[j].node \in 2..Len(parsed') /\ parsed'[open[j].node] = parsed[open[j].node]
    BY <1>1
  <2>. QED BY <2>2, <2>3, <2>4
<1>10. open'[1].node = 1 /\ open'[1].end = "EOF"
  BY <1>3, <1>7 DEF ParsingInv, OpenOK
<1>. QED BY <1>3, <1>6, <1>7, <1>8, <1>9, <1>10 DEF OpenOK

LEMMA NewKids ==
  ASSUME ParsingInv, NEW st \in Statements, MakeNode(st),
         OpenNodes' = OpenNodes \/ OpenNodes' = OpenNodes \cup {New}
  PROVE  /\ \A n \in DOMAIN parsed :
              Kids(n)' = IF n = Block.node /\ New \notin OpenNodes' THEN Kids(n) \cup {New} ELSE Kids(n)
         /\ \A n \in Nat : n = New => Kids(n)' = {}
         /\ \A n \in Nat : Kids(n) \subseteq 1..Len(parsed)
         /\ New \notin OpenNodes
<1>1. /\ ParsedOK' /\ Len(parsed)' = Len(parsed) + 1 /\ New = Len(parsed) + 1
      /\ \A n \in 1..Len(parsed) : parsed'[n] = parsed[n]
      /\ parsed'[New].parent = Block.node /\ Len(parsed) \in Nat
      /\ DOMAIN parsed = 1..Len(parsed) /\ DOMAIN parsed' = 1..New
      /\ Block.node \in 1..Len(parsed)
  BY NewNode DEF ParsingInv
<1>2. OpenNodes \subseteq 1..Len(parsed)
  BY <1>1, TipFacts
<1>3. ASSUME NEW n \in 1..New
      PROVE  ChildrenOf(n)' = IF n = Block.node THEN ChildrenOf(n) \cup {New} ELSE ChildrenOf(n)
  BY <1>1 DEF ChildrenOf
<1>4. ChildrenOf(New) = {}
  <2>1. \A m \in 2..Len(parsed) : parsed[m].parent \in 1..(m - 1)
    BY DEF ParsingInv, ParsedOK
  <2>2. parsed[1].parent = 0
    BY DEF ParsingInv, ParsedOK, Top
  <2>3. \A m \in 1..Len(parsed) : parsed[m].parent # New
    BY <2>1, <2>2, <1>1
  <2>. QED BY <2>3, <1>1 DEF ChildrenOf
<1>5. ASSUME NEW n \in Nat, n = New PROVE Kids(n)' = {}
  <2>1. ChildrenOf(n)' = {}
    BY <1>1, <1>3, <1>4, <1>5
  <2>. QED BY <2>1 DEF Kids
<1>6. ASSUME NEW n \in 1..Len(parsed)
      PROVE  Kids(n)' = IF n = Block.node /\ New \notin OpenNodes' THEN Kids(n) \cup {New} ELSE Kids(n)
  <2>1. ChildrenOf(n) \subseteq 1..Len(parsed)
    BY <1>1 DEF ChildrenOf
  <2>2. New \notin 1..Len(parsed) /\ New \notin OpenNodes
    BY <1>1, <1>2
  <2>. QED BY <1>1, <1>3, <2>1, <2>2 DEF Kids
<1>7. \A n \in Nat : Kids(n) \subseteq 1..Len(parsed)
  BY <1>1 DEF Kids, ChildrenOf
<1>. QED BY <1>1, <1>2, <1>5, <1>6, <1>7

\* What is below a block that was left stays there.
LEMMA NewBlocksLeft ==
  ASSUME ParsingInv, NEW st \in Statements, MakeNode(st),
         OpenNodes' = OpenNodes \/ OpenNodes' = OpenNodes \cup {New}
  PROVE  BlocksAreLeft'
<1>1. /\ ParsedOK' /\ Len(parsed)' = Len(parsed) + 1 /\ New = Len(parsed) + 1
      /\ \A n \in 1..Len(parsed) : parsed'[n] = parsed[n]
      /\ parsed'[New].parent = Block.node /\ Len(parsed) \in Nat
      /\ DOMAIN parsed = 1..Len(parsed) /\ DOMAIN parsed' = 1..New
      /\ Block.node \in 1..Len(parsed)
  BY NewNode DEF ParsingInv
<1>2. OpenNodes \subseteq 1..Len(parsed) /\ Block.node \in OpenNodes /\ \A b \in OpenNodes : b <= Block.node
  BY <1>1, TipFacts
<1>. SUFFICES ASSUME NEW n \in 1..New, NEW k \in (n + 1)..New, parsed'[k].parent < n
              PROVE  /\ \A m \in k..New : parsed'[m].parent < n \/ parsed'[m].parent >= k
                     /\ \A b \in OpenNodes' : b < n \/ b >= k
  BY <1>1 DEF BlocksAreLeft
<1>3. CASE k = New
  <2>1. Block.node < n
    BY <1>1, <1>3
  <2>2. ASSUME NEW m \in k..New PROVE parsed'[m].parent < n
    <3>1. m = New
      BY <2>2, <1>1, <1>3
    <3>. QED BY <3>1, <2>1, <1>1
  <2>3. ASSUME NEW b \in OpenNodes' PROVE b < n \/ b >= k
    <3>1. CASE b \in OpenNodes
      <4>1. b <= Block.node /\ b \in Nat
        BY <3>1, <1>2, <1>1
      <4>. QED BY <4>1, <2>1, <1>1
    <3>2. CASE b = New
      BY <3>2, <1>3, <1>1
    <3>. QED BY <3>1, <3>2
  <2>. QED BY <2>2, <2>3
<1>4. CASE k # New
  <2>1. n \in 1..Len(parsed) /\ k \in (n + 1)..Len(parsed) /\ parsed[k].parent < n
    BY <1>1, <1>4
  <2>2. /\ \A m \in k..Len(parsed) : parsed[m].parent < n \/ parsed[m].parent >= k
        /\ \A b \in OpenNodes : b < n \/ b >= k
    BY <2>1, <1>1 DEF ParsingInv, BlocksAreLeft
  <2>3. \A m \in k..New : m \in k..Len(parsed) \/ m = New
    BY <2>1, <1>1
  <2>4. Block.node < n \/ Block.node >= k
    BY <2>2, <1>2
  <2>5. \A m \in k..New : parsed'[m].parent < n \/ parsed'[m].parent >= k
    BY <2>1, <2>2, <2>3, <2>4, <1>1
  <2>6. New >= k
    BY <2>1, <1>1
  <2>. QED BY <2>2, <2>5, <2>6
<1>. QED BY <1>3, <1>4

LEMMA OneChanged ==
  ASSUME NEW S, NEW s \in Seq(S), NEW i \in 1..Len(s), NEW x \in S
  PROVE  LET t == [s EXCEPT ![i] = x]
         IN  /\ t \in Seq(S) /\ Len(t) = Len(s)
             /\ \A k \in 1..Len(s) : t[k] = IF k = i THEN x ELSE s[k]
OBVIOUS

LEMMA IsSequence ==
  ASSUME NEW S, NEW n \in Nat, NEW f \in [1..n -> S]
  PROVE  f \in Seq(S) /\ Len(f) = n /\ DOMAIN f = 1..n
OBVIOUS

LEMMA LaterIs ==
  /\ \A n, d : d = parsed[n].parent => Later(n) = {m \in Kids(d) : m > n}
  /\ \A n, d : d = parsed'[n].parent => Later(n)' = {m \in Kids(d)' : m > n}
BY DEF Later, Kids, ChildrenOf

LEMMA ParentIs ==
  ASSUME ParsedOK
  PROVE  /\ Len(parsed) \in Nat \ {0} /\ DOMAIN parsed = 1..Len(parsed)
         /\ \A n \in 2..Len(parsed) : parsed[n].parent \in 1..(n - 1)
         /\ parsed[1].parent = 0
         /\ \A n \in DOMAIN parsed : parsed[n].parent \in Nat
<1>1. /\ Len(parsed) \in Nat \ {0} /\ DOMAIN parsed = 1..Len(parsed)
      /\ \A n \in 2..Len(parsed) : parsed[n].parent \in 1..(n - 1)
      /\ parsed[1].parent = 0
  BY DEF ParsedOK, Top
<1>2. \A n \in DOMAIN parsed : n = 1 \/ n \in 2..Len(parsed)
  BY <1>1
<1>. QED BY <1>1, <1>2

LEMMA StatementTree ==
  ASSUME ParsingInv, NEW st \in Statements, Statement(st)
  PROVE  /\ TreeOK'
         /\ \A n \in DOMAIN parsed :
              /\ tree'.list[n] = tree.list[n] /\ tree'.parent[n] = tree.parent[n]
              /\ tree'.next[n] = IF n = Block.prev THEN New ELSE tree.next[n]
         /\ tree'.list[New] = 0 /\ tree'.parent[New] = Block.node
<1>1. /\ Len(parsed)' = New /\ New = Len(parsed) + 1 /\ Len(parsed) \in Nat
      /\ DOMAIN parsed = 1..Len(parsed)
  BY NewNode DEF Statement, ParsingInv
<1>2. tree' = [Unlinked EXCEPT !.next[Block.prev] = New]
  BY DEF Statement
<1>3. Block.prev \in 1..Len(parsed)
  BY <1>1, TipFacts
<1>4. /\ tree' = [list |-> tree'.list, next |-> tree'.next, parent |-> tree'.parent]
      /\ tree'.list = Unlinked.list /\ tree'.parent = Unlinked.parent
      /\ tree'.next = [Unlinked.next EXCEPT ![Block.prev] = New]
  <2>1. Unlinked = [list |-> Unlinked.list, next |-> Unlinked.next, parent |-> Unlinked.parent]
    BY NewPointers
  <2>. QED BY <1>2, <2>1
<1>5. /\ Unlinked.next \in Seq(Nat) /\ Len(Unlinked.next) = New
      /\ Unlinked.list \in Seq(Nat) /\ Len(Unlinked.list) = New
      /\ Unlinked.parent \in Seq(Nat) /\ Len(Unlinked.parent) = New
  BY NewPointers
<1>6. /\ tree'.next \in Seq(Nat) /\ Len(tree'.next) = New
      /\ \A n \in 1..New : tree'.next[n] = IF n = Block.prev THEN New ELSE Unlinked.next[n]
  <2>1. New \in Nat /\ Block.prev \in 1..Len(Unlinked.next)
    BY <1>1, <1>3, <1>5
  <2>. QED BY <2>1, <1>4, <1>5, OneChanged
<1>7. TreeOK'
  BY <1>1, <1>4, <1>5, <1>6 DEF TreeOK
<1>8. \A n \in DOMAIN parsed : n \in 1..New
  BY <1>1
<1>. QED BY <1>4, <1>6, <1>7, <1>8, NewPointers

LEMMA StatementLinks ==
  ASSUME ParsingInv, NEW st \in Statements, Statement(st)
  PROVE  LinksOK'
<1>. USE DEF ParsingInv
<1>1. /\ Len(parsed)' = New /\ New = Len(parsed) + 1 /\ Len(parsed) \in Nat
      /\ DOMAIN parsed = 1..Len(parsed) /\ DOMAIN parsed' = 1..New
      /\ \A n \in 1..Len(parsed) : parsed'[n] = parsed[n]
      /\ parsed'[New].parent = Block.node
      /\ MakeNode(st) /\ ParsedOK'
  BY NewNode DEF Statement
<1>2. /\ OpenNodes' = OpenNodes /\ Len(open') = Len(open) /\ DOMAIN open' = DOMAIN open
      /\ \A j \in DOMAIN open : /\ open'[j].node = open[j].node
                                /\ open'[j].end = open[j].end
                                /\ open'[j].prev = IF j = Len(open) THEN New ELSE open[j].prev
  BY StatementOpen
<1>3. /\ New \notin OpenNodes
      /\ \A n \in DOMAIN parsed : Kids(n)' = IF n = Block.node THEN Kids(n) \cup {New} ELSE Kids(n)
      /\ \A n \in Nat : n = New => Kids(n)' = {}
      /\ \A n \in Nat : Kids(n) \subseteq 1..Len(parsed)
  BY <1>1, <1>2, NewKids
<1>4. /\ \A n \in DOMAIN parsed :
           /\ tree'.list[n] = tree.list[n] /\ tree'.parent[n] = tree.parent[n]
           /\ tree'.next[n] = IF n = Block.prev THEN New ELSE tree.next[n]
      /\ tree'.list[New] = 0 /\ tree'.parent[New] = Block.node
  BY StatementTree
<1>5. /\ Block = open[Len(open)] /\ Len(open) \in DOMAIN open /\ PrevOK(Len(open))
      /\ Block.node \in 1..Len(parsed) /\ Block.node \in OpenNodes
      /\ \A d \in OpenNodes : d \in 1..Len(parsed)
      /\ Block.prev \in 1..Len(parsed)
      /\ \A j \in DOMAIN open : Tip(j) /\ j # Len(open) => open[j].node < Block.node
  BY <1>1, TipFacts
<1>6. IF Kids(Block.node) = {} THEN Block.prev = Block.node
      ELSE Block.prev \in Kids(Block.node) /\ \A m \in Kids(Block.node) : m <= Block.prev
  BY <1>5 DEF PrevOK
<1>7. /\ \A n \in DOMAIN parsed : tree.parent[n] = parsed[n].parent /\ HeadOK(n) /\ NextOK(n)
      /\ \A j \in DOMAIN open : Tip(j) => PrevOK(j)
  BY DEF LinksOK
<1>8. ASSUME NEW n \in 1..New PROVE HeadOK(n)'
  <2>1. CASE n = New
    <3>1. Kids(n)' = {} /\ n \notin OpenNodes' /\ tree'.list[n] = 0
      BY <1>1, <1>2, <1>3, <1>4, <2>1
    <3>. QED BY <3>1 DEF HeadOK, IsFirst
  <2>2. CASE n # New
    <3>. n \in 1..Len(parsed)
      BY <1>1, <2>2
    <3>1. HeadOK(n)
      BY <1>1, <1>7
    <3>2. CASE n \notin OpenNodes
      <4>1. Kids(n)' = Kids(n) /\ tree'.list[n] = tree.list[n]
        BY <1>1, <1>3, <1>4, <1>5, <3>2
      <4>. QED BY <3>1, <3>2, <4>1, <1>2 DEF HeadOK
    <3>3. CASE n \in OpenNodes /\ n # Block.node
      <4>1. n # Block.prev
        <5>1. n \notin Kids(Block.node)
          BY <3>3 DEF Kids
        <5>. QED BY <5>1, <1>6, <3>3
      <4>2. Kids(n)' = Kids(n) /\ tree'.next[n] = tree.next[n]
        BY <1>1, <1>3, <1>4, <3>3, <4>1
      <4>. QED BY <3>1, <3>3, <4>2, <1>2 DEF HeadOK
    <3>4. CASE n = Block.node /\ Kids(n) = {}
      <4>1. Kids(n)' = {New} /\ tree'.next[n] = New /\ n \in OpenNodes'
        BY <1>1, <1>2, <1>3, <1>4, <1>5, <1>6, <3>4
      <4>. QED BY <4>1, <1>1 DEF HeadOK, IsFirst
    <3>5. CASE n = Block.node /\ Kids(n) # {}
      <4>1. Kids(n)' = Kids(n) \cup {New} /\ n \in OpenNodes
        BY <1>1, <1>3, <1>5, <3>5
      <4>2. n # Block.prev
        BY <1>5, <1>6, <3>5 DEF Kids
      <4>3. tree'.next[n] = tree.next[n]
        BY <1>1, <1>4, <4>2
      <4>4. tree.next[n] \in Kids(n) /\ \A k \in Kids(n) : tree.next[n] <= k
        BY <3>1, <3>5, <4>1 DEF HeadOK, IsFirst
      <4>5. tree.next[n] <= New
        BY <4>4, <1>1, <1>3
      <4>. QED BY <4>1, <4>3, <4>4, <4>5, <1>2 DEF HeadOK, IsFirst
    <3>. QED BY <3>2, <3>3, <3>4, <3>5
  <2>. QED BY <2>1, <2>2
<1>9. ASSUME NEW n \in 1..New PROVE NextOK(n)'
  <2>1. SUFFICES ASSUME n \notin OpenNodes',
                        (Later(n) # {})' \/ (parsed[n].parent \notin OpenNodes)'
                 PROVE  IsFirst(tree.next[n], Later(n))'
    BY DEF NextOK
  <2>2. CASE n = New
    <3>1. parsed'[n].parent = Block.node /\ Block.node \in OpenNodes'
      BY <1>1, <1>2, <1>5, <2>2
    <3>2. PICK d \in Nat : d = Block.node
      BY <1>5
    <3>3. Later(n)' = {m \in Kids(d)' : m > n}
      BY <3>1, <3>2, LaterIs
    <3>4. Kids(d)' \subseteq 1..New
      BY <1>1, <1>3, <1>5, <3>2
    <3>5. Later(n)' = {}
      BY <3>3, <3>4, <2>2, <1>1
    <3>. QED BY <2>1, <3>1, <3>5
  <2>3. CASE n # New
    <3>1. n \in 1..Len(parsed) /\ n \notin OpenNodes
      BY <1>1, <1>2, <2>1, <2>3
    <3>2. PICK d \in Nat : d = parsed[n].parent /\ d = parsed'[n].parent
      BY <3>1, <1>1, ParentIs
    <3>3. Later(n) = {m \in Kids(d) : m > n} /\ Later(n)' = {m \in Kids(d)' : m > n}
      BY <3>2, LaterIs
    <3>4. NextOK(n)
      BY <3>1, <1>1, <1>7
    <3>5. n # 1
      BY <3>1 DEF OpenOK, OpenNodes
    <3>6. d \in 1..Len(parsed)
      BY <3>1, <3>2, <3>5, <1>1, ParentIs
    <3>7. CASE d # Block.node
      <4>1. Kids(d)' = Kids(d)
        BY <1>1, <1>3, <3>6, <3>7
      <4>2. n # Block.prev
        <5>1. n \notin Kids(Block.node)
          BY <3>2, <3>7 DEF Kids, ChildrenOf
        <5>. QED BY <5>1, <1>5, <1>6, <3>1
      <4>3. tree'.next[n] = tree.next[n]
        BY <1>1, <1>4, <3>1, <4>2
      <4>4. Later(n)' = Later(n) /\ (parsed[n].parent \notin OpenNodes)' = (parsed[n].parent \notin OpenNodes)
        BY <3>2, <3>3, <4>1, <1>2
      <4>5. IsFirst(tree.next[n], Later(n))
        BY <2>1, <3>1, <3>4, <4>4 DEF NextOK
      <4>. QED BY <4>3, <4>4, <4>5 DEF IsFirst
    <3>8. CASE d = Block.node
      <4>1. Kids(d)' = Kids(d) \cup {New} /\ n \in Kids(d)
        <5>1. n \in Kids(d)
          BY <3>1, <3>2, <1>1 DEF Kids, ChildrenOf
        <5>. QED BY <5>1, <1>1, <1>3, <3>6, <3>8
      <4>2. Block.prev \in Kids(d) /\ \A m \in Kids(d) : m <= Block.prev
        BY <4>1, <1>6, <3>8
      <4>3. Later(n)' = Later(n) \cup {New}
        BY <3>1, <3>3, <4>1, <1>1
      <4>4. CASE n = Block.prev
        <5>1. Later(n) = {}
          BY <3>1, <3>3, <4>2, <4>4, <1>1, <1>3
        <5>2. tree'.next[n] = New
          BY <1>1, <1>4, <3>1, <4>4
        <5>. QED BY <4>3, <5>1, <5>2, <1>1 DEF IsFirst
      <4>5. CASE n # Block.prev
        <5>1. Block.prev \in Later(n)
          BY <3>1, <3>3, <4>1, <4>2, <4>5, <1>3, <1>5
        <5>2. tree.next[n] \in Later(n) /\ \A k \in Later(n) : tree.next[n] <= k
          BY <5>1, <3>1, <3>4 DEF NextOK, IsFirst
        <5>3. tree'.next[n] = tree.next[n]
          BY <1>1, <1>4, <3>1, <4>5
        <5>4. tree.next[n] <= New
          BY <5>2, <3>3, <1>1, <1>3
        <5>. QED BY <4>3, <5>2, <5>3, <5>4 DEF IsFirst
      <4>. QED BY <4>4, <4>5
    <3>. QED BY <3>7, <3>8
  <2>. QED BY <2>2, <2>3
<1>10. ASSUME NEW n \in 1..New PROVE tree'.parent[n] = parsed'[n].parent
  BY <1>1, <1>4, <1>7
<1>11. ASSUME NEW j \in DOMAIN open, Tip(j)' PROVE PrevOK(j)'
  <2>0. Len(open) \in Nat /\ DOMAIN open = 1..Len(open)
    BY DEF OpenOK
  <2>1. Tip(j)
    BY <2>0, <1>2, <1>11 DEF Tip
  <2>2. PICK d \in 1..Len(parsed) : d = open[j].node /\ d = open'[j].node
    BY <1>2, <1>1, OpenGrows
  <2>3. PrevOK(j)' <=> IF Kids(d)' = {} THEN open'[j].prev = d
                       ELSE open'[j].prev \in Kids(d)' /\ \A m \in Kids(d)' : m <= open'[j].prev
    BY <2>2 DEF PrevOK, Kids, ChildrenOf
  <2>4. CASE j = Len(open)
    <3>1. Kids(d)' = Kids(d) \cup {New} /\ open'[j].prev = New
      BY <1>1, <1>2, <1>3, <1>5, <2>2, <2>4
    <3>. QED BY <2>3, <3>1, <1>1, <1>3
  <2>5. CASE j # Len(open)
    <3>1. d # Block.node
      <4>1. open[j].node < Block.node
        BY <1>5, <2>1, <2>5
      <4>. QED BY <4>1, <2>2, <1>5
    <3>2. Kids(d)' = Kids(d) /\ open'[j].prev = open[j].prev
      BY <1>1, <1>2, <1>3, <2>2, <2>5, <3>1
    <3>3. PrevOK(j)
      BY <2>1, <1>7
    <3>. QED BY <2>2, <2>3, <3>2, <3>3 DEF PrevOK
  <2>. QED BY <2>4, <2>5
<1>12. ASSUME NEW j \in 2..Len(open), open'[j].end # "EOF", NEW m \in Kids(open[j - 1].node)'
       PROVE  m < open'[j].node
  <2>1. Len(open) \in Nat /\ DOMAIN open = 1..Len(open) /\ j \in DOMAIN open /\ j - 1 \in DOMAIN open
    BY DEF OpenOK
  <2>2. PICK d \in 1..Len(parsed) : d = open[j - 1].node /\ d = open'[j - 1].node
    BY <2>1, <1>2, <1>1, OpenGrows
  <2>3. m \in Kids(d)'
    BY <2>2, <1>12 DEF Kids, ChildrenOf
  <2>4. open[j].end # "EOF" /\ open'[j].node = open[j].node
    BY <1>2, <1>12, <2>1
  <2>5. d < open[j].node /\ open[j].node <= Block.node
    BY <2>1, <2>2, <2>4, OpenGrows
  <2>6. m \in Kids(d)
    <3>1. open[j].node \in 1..Len(parsed)
      BY <2>1, OpenGrows
    <3>2. d # Block.node
      BY <2>2, <2>5, <3>1, <1>1, <1>5
    <3>. QED BY <2>2, <2>3, <3>2, <1>1, <1>3
  <2>. QED BY <2>2, <2>4, <2>6 DEF LinksOK
<1>. QED BY <1>1, <1>2, <1>8, <1>9, <1>10, <1>11, <1>12 DEF LinksOK

\* A call is added to the ones being parsed.
LEMMA CallAdded ==
  ASSUME ParsingInv, NEW call \in BlockCalls, open' = Append(open, call)
  PROVE  /\ open' \in Seq(BlockCalls) /\ Len(open)' = Len(open) + 1
         /\ Len(open) \in Nat \ {0} /\ DOMAIN open = 1..Len(open)
         /\ DOMAIN open' = 1..(Len(open) + 1)
         /\ \A j \in 1..Len(open) : open'[j] = open[j]
         /\ open'[Len(open) + 1] = call
         /\ OpenNodes' = OpenNodes \cup {call.node}
<1>1. /\ open' \in Seq(BlockCalls) /\ Len(open)' = Len(open) + 1
      /\ Len(open) \in Nat \ {0} /\ DOMAIN open = 1..Len(open)
      /\ DOMAIN open' = 1..(Len(open) + 1)
      /\ \A j \in 1..Len(open) : open'[j] = open[j]
      /\ open'[Len(open) + 1] = call
  BY DEF ParsingInv, OpenOK
<1>2. OpenNodes' = OpenNodes \cup {call.node}
  BY <1>1 DEF OpenNodes
<1>. QED BY <1>1, <1>2

LEMMA OpenBlockKeeps ==
  ASSUME ParsingInv, NEW st \in Statements, OpenBlock(st)
  PROVE  ParsingInv'
<1>. USE DEF ParsingInv
<1>1. /\ Len(parsed)' = New /\ New = Len(parsed) + 1 /\ Len(parsed) \in Nat
      /\ DOMAIN parsed = 1..Len(parsed) /\ DOMAIN parsed' = 1..New
      /\ \A n \in 1..Len(parsed) : parsed'[n] = parsed[n]
      /\ parsed'[New].parent = Block.node
      /\ MakeNode(st) /\ ParsedOK'
  BY NewNode DEF OpenBlock
<1>2. PICK call \in BlockCalls :
        call.end # "EOF" /\ call.node = New /\ call.prev = New /\ open' = Append(open, call)
  <2>1. EndOf[st.kw] \in {EndOf[kw] : kw \in DOMAIN EndOf} /\ EndOf[st.kw] # "EOF"
    BY DEF OpenBlock, EndOf
  <2>2. Block.file \in Files \cup {MainFile}
    BY TipFacts DEF BlockCalls
  <2> DEFINE added == [end |-> EndOf[st.kw], node |-> New, prev |-> New, file |-> Block.file]
  <2>3. added \in BlockCalls /\ added.end # "EOF" /\ added.node = New /\ added.prev = New
    BY <1>1, <2>1, <2>2 DEF BlockCalls
  <2>. QED BY <2>3 DEF OpenBlock
<1>3. /\ open' \in Seq(BlockCalls) /\ Len(open)' = Len(open) + 1
      /\ Len(open) \in Nat \ {0} /\ DOMAIN open = 1..Len(open)
      /\ DOMAIN open' = 1..(Len(open) + 1)
      /\ \A j \in 1..Len(open) : open'[j] = open[j]
      /\ open'[Len(open) + 1] = call
      /\ OpenNodes' = OpenNodes \cup {New}
  BY <1>2, CallAdded
<1>4. /\ New \notin OpenNodes
      /\ \A n \in DOMAIN parsed : Kids(n)' = Kids(n)
      /\ \A n \in Nat : n = New => Kids(n)' = {}
      /\ \A n \in Nat : Kids(n) \subseteq 1..Len(parsed)
  BY <1>1, <1>3, NewKids
<1>5. /\ tree' = Unlinked
      /\ \A n \in DOMAIN parsed : /\ tree'.list[n] = tree.list[n] /\ tree'.parent[n] = tree.parent[n]
                                  /\ tree'.next[n] = tree.next[n]
      /\ tree'.parent[New] = Block.node
  BY NewPointers DEF OpenBlock
<1>6. TreeOK'
  BY <1>1, <1>5, NewPointers DEF TreeOK
<1>7. /\ Block = open[Len(open)] /\ Len(open) \in DOMAIN open /\ Tip(Len(open))
      /\ Block.node \in 1..Len(parsed) /\ Block.node \in OpenNodes
      /\ \A d \in OpenNodes : d \in 1..Len(parsed)
  BY <1>1, TipFacts
<1>8. OpenOK'
  <2>1. ASSUME NEW j \in 2..(Len(open) + 1)
        PROVE  IF open'[j].end = "EOF" THEN open'[j].node = open'[j - 1].node
               ELSE /\ open'[j].node \in 2..Len(parsed')
                    /\ parsed'[open'[j].node].parent = open'[j - 1].node
    <3>1. CASE j = Len(open) + 1
      <4>1. open'[j] = call /\ open'[j - 1] = Block
        BY <1>3, <1>7, <3>1
      <4>2. New \in 2..New
        BY <1>1, <1>7
      <4>. QED BY <1>1, <1>2, <4>1, <4>2
    <3>2. CASE j # Len(open) + 1
      <4>1. j \in 2..Len(open) /\ open'[j] = open[j] /\ open'[j - 1] = open[j - 1]
        BY <1>3, <3>2
      <4>2. open[j].node \in 2..Len(parsed) =>
              open[j].node \in 2..Len(parsed') /\ parsed'[open[j].node] = parsed[open[j].node]
        BY <1>1
      <4>. QED BY <4>1, <4>2 DEF OpenOK
    <3>. QED BY <3>1, <3>2
  <2>2. open'[1].node = 1 /\ open'[1].end = "EOF"
    BY <1>3 DEF OpenOK
  <2>. QED BY <1>3, <2>1, <2>2 DEF OpenOK
<1>9. ASSUME NEW n \in 1..New
      PROVE  tree'.parent[n] = parsed'[n].parent /\ HeadOK(n)' /\ NextOK(n)'
  <2>1. CASE n = New
    <3>1. Kids(n)' = {} /\ n \in OpenNodes'
      BY <1>1, <1>3, <1>4, <2>1
    <3>. QED BY <1>1, <1>5, <2>1, <3>1 DEF HeadOK, NextOK
  <2>2. CASE n # New
    <3>1. n \in 1..Len(parsed) /\ n \in DOMAIN parsed
      BY <1>1, <2>2
    <3>2. tree.parent[n] = parsed[n].parent /\ HeadOK(n) /\ NextOK(n)
      BY <3>1 DEF LinksOK
    <3>3. /\ Kids(n)' = Kids(n) /\ tree'.list[n] = tree.list[n] /\ tree'.next[n] = tree.next[n]
          /\ tree'.parent[n] = tree.parent[n] /\ (n \in OpenNodes' <=> n \in OpenNodes)
      BY <1>3, <1>4, <1>5, <2>2, <3>1
    <3>4. HeadOK(n)'
      BY <3>2, <3>3 DEF HeadOK
    <3>5. NextOK(n)'
      <4>1. SUFFICES ASSUME n \notin OpenNodes PROVE NextOK(n)'
        BY <3>3 DEF NextOK
      <4>2. n # 1
        BY <4>1, <1>3 DEF OpenOK, OpenNodes
      <4>3. PICK d \in 1..Len(parsed) : d = parsed[n].parent /\ d = parsed'[n].parent
        BY <1>1, <3>1, <4>2, ParentIs
      <4>4. Kids(d)' = Kids(d)
        BY <1>1, <1>4
      <4>5. Later(n)' = Later(n)
        BY <4>3, <4>4, LaterIs
      <4>6. parsed'[n].parent \in OpenNodes' <=> parsed[n].parent \in OpenNodes
        BY <1>1, <1>3, <4>3
      <4>. QED BY <3>2, <3>3, <4>5, <4>6 DEF NextOK
    <3>. QED BY <1>1, <3>1, <3>2, <3>3, <3>4, <3>5
  <2>. QED BY <2>1, <2>2
<1>10. ASSUME NEW j \in 1..(Len(open) + 1), Tip(j)' PROVE PrevOK(j)'
  <2>1. CASE j = Len(open) + 1
    <3>1. open'[j].node = New /\ open'[j].prev = New
      BY <1>2, <1>3, <2>1
    <3>2. PICK d \in Nat : d = New
      BY <1>1
    <3>3. (Kids(open[j].node) = {})'
      BY <3>1, <3>2, <1>4 DEF Kids, ChildrenOf
    <3>. QED BY <3>1, <3>3 DEF PrevOK
  <2>2. CASE j # Len(open) + 1
    <3>1. j \in 1..Len(open) /\ j \in DOMAIN open /\ open'[j] = open[j]
      BY <1>3, <2>2
    <3>2. Tip(j)
      <4>1. CASE j = Len(open)
        BY <4>1, <1>7
      <4>2. CASE j # Len(open)
        <5>1. j + 1 \in 1..Len(open) /\ j # Len(open)'
          BY <1>3, <3>1, <4>2
        <5>. QED BY <1>3, <1>10, <3>1, <5>1 DEF Tip
      <4>. QED BY <4>1, <4>2
    <3>3. PrevOK(j)
      BY <3>1, <3>2 DEF LinksOK
    <3>4. PICK d \in 1..Len(parsed) : d = open[j].node /\ d = open'[j].node
      BY <3>1, OpenGrows
    <3>5. Kids(d)' = Kids(d)
      BY <1>1, <1>4
    <3>6. Kids(open[j].node)' = Kids(d)
      BY <3>4, <3>5 DEF Kids, ChildrenOf
    <3>. QED BY <3>1, <3>3, <3>4, <3>6 DEF PrevOK
  <2>. QED BY <2>1, <2>2
<1>11. ASSUME NEW j \in 2..(Len(open) + 1), open'[j].end # "EOF", NEW m \in Kids(open[j - 1].node)'
       PROVE  m < open'[j].node
  <2>1. j - 1 \in 1..Len(open) /\ open'[j - 1] = open[j - 1]
    BY <1>3
  <2>2. PICK d \in 1..Len(parsed) : d = open[j - 1].node /\ d = open'[j - 1].node
    BY <2>1, <1>3, OpenGrows
  <2>3. m \in Kids(d)'
    BY <2>2, <1>11 DEF Kids, ChildrenOf
  <2>4. m \in Kids(d) /\ m \in 1..Len(parsed)
    BY <2>2, <2>3, <1>1, <1>4
  <2>5. CASE j = Len(open) + 1
    <3>1. open'[j].node = New
      BY <2>5, <1>2, <1>3
    <3>. QED BY <2>4, <3>1, <1>1
  <2>6. CASE j # Len(open) + 1
    <3>1. j \in 2..Len(open) /\ open'[j] = open[j]
      BY <1>3, <2>6
    <3>2. open[j].end # "EOF" /\ m \in Kids(open[j - 1].node)
      BY <1>11, <2>2, <2>4, <3>1
    <3>. QED BY <3>1, <3>2 DEF LinksOK
  <2>. QED BY <2>5, <2>6
<1>12. LinksOK'
  BY <1>1, <1>3, <1>9, <1>10, <1>11 DEF LinksOK
<1>13. BlocksAreLeft'
  BY <1>1, <1>3, NewBlocksLeft
<1>. QED BY <1>1, <1>6, <1>8, <1>12, <1>13

LEMMA StatementKeeps ==
  ASSUME ParsingInv, NEW st \in Statements, Statement(st)
  PROVE  ParsingInv'
<1>1. MakeNode(st)
  BY DEF Statement
<1>2. ParsedOK'
  BY <1>1, NewNode DEF ParsingInv
<1>3. BlocksAreLeft'
  BY <1>1, StatementOpen, NewBlocksLeft
<1>. QED BY <1>2, <1>3, StatementOpen, StatementTree, StatementLinks DEF ParsingInv

\* Nothing is said of the pointers but which blocks are open.
LEMMA SameKids ==
  ASSUME UNCHANGED parsed, OpenNodes' = OpenNodes
  PROVE  /\ \A n : Kids(n)' = Kids(n)
         /\ \A n : Later(n)' = Later(n)
         /\ BlocksAreLeft => BlocksAreLeft'
         /\ ParsedOK => ParsedOK'
BY DEF Kids, ChildrenOf, Later, BlocksAreLeft, ParsedOK

LEMMA SourceKeeps ==
  ASSUME ParsingInv, NEW f \in Files, Source(f), status' = "parsing"
  PROVE  ParsingInv'
<1>. USE DEF ParsingInv
<1>1. UNCHANGED <<parsed, tree>> /\ open' = Append(open, [Block EXCEPT !.end = "EOF", !.file = f])
  BY DEF Source, Raise
<1>2. /\ Block = open[Len(open)] /\ Block \in BlockCalls /\ Len(open) \in DOMAIN open
      /\ Block.node \in OpenNodes
  BY TipFacts
<1>3. PICK call \in BlockCalls : /\ call.end = "EOF" /\ call.node = Block.node
                                 /\ call.prev = Block.prev /\ open' = Append(open, call)
  <2> DEFINE added == [Block EXCEPT !.end = "EOF", !.file = f]
  <2>1. added \in BlockCalls /\ added.end = "EOF" /\ added.node = Block.node /\ added.prev = Block.prev
    BY <1>2 DEF BlockCalls
  <2>. QED BY <1>1, <2>1
<1>4. /\ open' \in Seq(BlockCalls) /\ Len(open)' = Len(open) + 1
      /\ Len(open) \in Nat \ {0} /\ DOMAIN open = 1..Len(open)
      /\ DOMAIN open' = 1..(Len(open) + 1)
      /\ \A j \in 1..Len(open) : open'[j] = open[j]
      /\ open'[Len(open) + 1] = call
      /\ OpenNodes' = OpenNodes
  <2>1. OpenNodes' = OpenNodes \cup {call.node}
    BY <1>3, CallAdded
  <2>2. OpenNodes' = OpenNodes
    BY <1>2, <1>3, <2>1
  <2>. QED BY <1>3, <2>2, CallAdded
<1>5. /\ \A n : Kids(n)' = Kids(n)
      /\ \A n : Later(n)' = Later(n)
      /\ BlocksAreLeft' /\ ParsedOK'
  BY <1>1, <1>4, SameKids
<1>6. TreeOK'
  BY <1>1 DEF TreeOK
<1>7. OpenOK'
  <2>1. ASSUME NEW j \in 2..(Len(open) + 1)
        PROVE  IF open'[j].end = "EOF" THEN open'[j].node = open'[j - 1].node
               ELSE /\ open'[j].node \in 2..Len(parsed')
                    /\ parsed'[open'[j].node].parent = open'[j - 1].node
    <3>1. CASE j = Len(open) + 1
      <4>1. open'[j] = call /\ open'[j - 1] = Block
        BY <1>2, <1>4, <3>1
      <4>. QED BY <1>3, <4>1
    <3>2. CASE j # Len(open) + 1
      <4>1. j \in 2..Len(open) /\ open'[j] = open[j] /\ open'[j - 1] = open[j - 1]
        BY <1>4, <3>2
      <4>. QED BY <1>1, <4>1 DEF OpenOK
    <3>. QED BY <3>1, <3>2
  <2>2. open'[1].node = 1 /\ open'[1].end = "EOF"
    BY <1>4 DEF OpenOK
  <2>. QED BY <1>4, <2>1, <2>2 DEF OpenOK
<1>8. ASSUME NEW n \in DOMAIN parsed
      PROVE  tree.parent[n] = parsed[n].parent /\ HeadOK(n)' /\ NextOK(n)'
  <2>1. tree.parent[n] = parsed[n].parent /\ HeadOK(n) /\ NextOK(n)
    BY DEF LinksOK
  <2>2. HeadOK(n)'
    BY <2>1, <1>1, <1>4, <1>5 DEF HeadOK
  <2>3. NextOK(n)'
    BY <2>1, <1>1, <1>4, <1>5 DEF NextOK
  <2>. QED BY <2>1, <2>2, <2>3
<1>9. ASSUME NEW j \in 1..(Len(open) + 1), Tip(j)' PROVE PrevOK(j)'
  <2>1. CASE j = Len(open) + 1
    <3>1. open'[j].node = Block.node /\ open'[j].prev = Block.prev
      BY <1>3, <1>4, <2>1
    <3>2. PrevOK(Len(open))
      BY TipFacts
    <3>3. Kids(open[j].node)' = Kids(Block.node)
      BY <3>1, <1>1, <1>4 DEF Kids, ChildrenOf
    <3>. QED BY <3>1, <3>2, <3>3, <1>2 DEF PrevOK
  <2>2. CASE j # Len(open) + 1
    <3>1. j \in 1..Len(open) /\ j \in DOMAIN open /\ open'[j] = open[j]
      BY <1>4, <2>2
    <3>2. j # Len(open)
      <4>1. SUFFICES ASSUME j = Len(open) PROVE FALSE
        OBVIOUS
      <4>2. open'[j + 1].node = open'[j].node /\ j # Len(open')
        BY <4>1, <1>2, <1>3, <1>4
      <4>. QED BY <4>2, <1>9 DEF Tip
    <3>3. Tip(j)
      <4>1. j + 1 \in 1..Len(open) /\ j # Len(open')
        BY <1>4, <3>1, <3>2
      <4>. QED BY <1>4, <1>9, <3>1, <4>1 DEF Tip
    <3>4. PrevOK(j)
      BY <3>1, <3>3 DEF LinksOK
    <3>5. Kids(open[j].node)' = Kids(open[j].node)
      BY <3>1, <1>1, <1>4 DEF Kids, ChildrenOf
    <3>. QED BY <3>1, <3>4, <3>5 DEF PrevOK
  <2>. QED BY <2>1, <2>2
<1>10. ASSUME NEW j \in 2..(Len(open) + 1), open'[j].end # "EOF", NEW m \in Kids(open[j - 1].node)'
       PROVE  m < open'[j].node
  <2>1. j # Len(open) + 1
    BY <1>3, <1>4, <1>10
  <2>2. j \in 2..Len(open) /\ open'[j] = open[j] /\ open'[j - 1] = open[j - 1]
    BY <1>4, <2>1
  <2>3. m \in Kids(open[j - 1].node)
    BY <2>2, <1>1, <1>4, <1>10 DEF Kids, ChildrenOf
  <2>. QED BY <1>10, <2>2, <2>3 DEF LinksOK
<1>11. LinksOK'
  BY <1>1, <1>4, <1>8, <1>9, <1>10 DEF LinksOK
<1>. QED BY <1>5, <1>6, <1>7, <1>11

\* The innermost call returns; the one below it goes on after node q.
LEMMA CallReturns ==
  ASSUME ParsingInv, Len(open) > 1, NEW q \in Nat, open' = Left(q)
  PROVE  /\ open' \in Seq(BlockCalls) /\ Len(open)' = Len(open) - 1
         /\ Len(open) \in Nat /\ DOMAIN open = 1..Len(open) /\ DOMAIN open' = 1..(Len(open) - 1)
         /\ \A j \in 1..(Len(open) - 1) :
              /\ open'[j].node = open[j].node /\ open'[j].end = open[j].end
              /\ open'[j].prev = IF j = Len(open) - 1 THEN q ELSE open[j].prev
<1>1. /\ open \in Seq(BlockCalls) /\ Len(open) \in Nat /\ DOMAIN open = 1..Len(open)
      /\ \A j \in 1..Len(open) : open[j] \in BlockCalls
  BY DEF ParsingInv, OpenOK
<1> DEFINE changed == [open[Len(open) - 1] EXCEPT !.prev = q]
<1>2. /\ changed \in BlockCalls /\ changed.prev = q
      /\ changed.node = open[Len(open) - 1].node /\ changed.end = open[Len(open) - 1].end
  <2>1. open[Len(open) - 1] \in BlockCalls
    BY <1>1
  <2>. QED BY <2>1, CallChanged
<1>3. open' = [k \in 1..(Len(open) - 1) |-> IF k = Len(open) - 1 THEN changed ELSE open[k]]
  BY DEF Left
<1>. HIDE DEF changed
<1>4. /\ \A j \in 1..(Len(open) - 1) : open'[j] = IF j = Len(open) - 1 THEN changed ELSE open[j]
      /\ open' \in Seq(BlockCalls) /\ Len(open') = Len(open) - 1
      /\ DOMAIN open' = 1..(Len(open) - 1)
  <2>1. Len(open) - 1 \in Nat
    BY <1>1
  <2>2. ASSUME NEW k \in 1..(Len(open) - 1)
        PROVE  (IF k = Len(open) - 1 THEN changed ELSE open[k]) \in BlockCalls
    <3>1. k \in 1..Len(open)
      BY <1>1
    <3>. QED BY <1>1, <1>2, <3>1
  <2>3. open' \in [1..(Len(open) - 1) -> BlockCalls]
    BY <1>3, <2>2
  <2>. QED BY <1>3, <2>1, <2>3, IsSequence
<1>. QED BY <1>1, <1>2, <1>4

LEMMA EndOfFileKeeps ==
  ASSUME ParsingInv, EndOfFile, status' = "parsing"
  PROVE  ParsingInv'
<1>. USE DEF ParsingInv
<1>1. /\ UNCHANGED parsed /\ Len(open) > 1 /\ Block.end = "EOF"
      /\ tree' = [tree EXCEPT !.next[Block.prev] = 0] /\ open' = Left(Block.prev)
  BY DEF EndOfFile, Raise
<1>2. /\ Block = open[Len(open)] /\ Block \in BlockCalls /\ Len(open) \in DOMAIN open
      /\ Block.node \in OpenNodes /\ Block.prev \in DOMAIN parsed /\ Block.prev \in Nat
      /\ PrevOK(Len(open))
  BY TipFacts DEF BlockCalls
<1>3. /\ open' \in Seq(BlockCalls) /\ Len(open)' = Len(open) - 1
      /\ Len(open) \in Nat /\ DOMAIN open = 1..Len(open) /\ DOMAIN open' = 1..(Len(open) - 1)
      /\ \A j \in 1..(Len(open) - 1) :
           /\ open'[j].node = open[j].node /\ open'[j].end = open[j].end
           /\ open'[j].prev = IF j = Len(open) - 1 THEN Block.prev ELSE open[j].prev
  BY <1>1, <1>2, CallReturns
<1>4. /\ open[Len(open) - 1].node = Block.node /\ open'[Len(open) - 1].node = Block.node
      /\ Len(open) - 1 \in 1..(Len(open) - 1)
  <2>1. Len(open) \in 2..Len(open) /\ Len(open) - 1 \in 1..(Len(open) - 1)
    BY <1>1, <1>3
  <2>2. open[Len(open) - 1].node = Block.node
    BY <1>1, <1>2, <2>1 DEF OpenOK
  <2>. QED BY <1>3, <2>1, <2>2
<1>5. OpenNodes' = OpenNodes
  <2>1. \A j \in 1..Len(open) : j = Len(open) \/ j \in 1..(Len(open) - 1)
    BY <1>3
  <2>2. OpenNodes \subseteq OpenNodes'
    BY <1>2, <1>3, <1>4, <2>1 DEF OpenNodes
  <2>3. \A j \in 1..(Len(open) - 1) : j \in 1..Len(open)
    BY <1>3
  <2>4. OpenNodes' \subseteq OpenNodes
    BY <1>3, <2>3 DEF OpenNodes
  <2>. QED BY <2>2, <2>4
<1>6. /\ \A n : Kids(n)' = Kids(n)
      /\ \A n : Later(n)' = Later(n)
      /\ BlocksAreLeft' /\ ParsedOK'
  BY <1>1, <1>5, SameKids
<1>7. Len(parsed) \in Nat /\ DOMAIN parsed = 1..Len(parsed)
  BY ParentIs
<1>8. /\ TreeOK' /\ tree'.list = tree.list /\ tree'.parent = tree.parent
      /\ \A n \in DOMAIN parsed : tree'.next[n] = IF n = Block.prev THEN 0 ELSE tree.next[n]
  <2>1. /\ tree' = [list |-> tree'.list, next |-> tree'.next, parent |-> tree'.parent]
        /\ tree'.list = tree.list /\ tree'.parent = tree.parent
        /\ tree'.next = [tree.next EXCEPT ![Block.prev] = 0]
    BY <1>1 DEF TreeOK
  <2>2. tree.next \in Seq(Nat) /\ Len(tree.next) = Len(parsed) /\ Block.prev \in 1..Len(tree.next)
    BY <1>2, <1>7 DEF TreeOK
  <2>3. /\ tree'.next \in Seq(Nat) /\ Len(tree'.next) = Len(parsed)
        /\ \A n \in 1..Len(parsed) : tree'.next[n] = IF n = Block.prev THEN 0 ELSE tree.next[n]
    BY <2>1, <2>2, OneChanged
  <2>. QED BY <1>1, <1>7, <2>1, <2>3 DEF TreeOK
<1>9. OpenOK'
  <2>1. ASSUME NEW j \in 2..(Len(open) - 1)
        PROVE  IF open'[j].end = "EOF" THEN open'[j].node = open'[j - 1].node
               ELSE /\ open'[j].node \in 2..Len(parsed')
                    /\ parsed'[open'[j].node].parent = open'[j - 1].node
    <3>1. j \in 1..(Len(open) - 1) /\ j - 1 \in 1..(Len(open) - 1) /\ j \in 2..Len(open)
      BY <1>3
    <3>. QED BY <1>1, <1>3, <3>1 DEF OpenOK
  <2>2. open'[1].node = 1 /\ open'[1].end = "EOF"
    BY <1>1, <1>3 DEF OpenOK
  <2>. QED BY <1>1, <1>3, <2>1, <2>2 DEF OpenOK
<1>10. ASSUME NEW n \in DOMAIN parsed
       PROVE  tree'.parent[n] = parsed[n].parent /\ HeadOK(n)' /\ NextOK(n)'
  <2>1. tree.parent[n] = parsed[n].parent /\ HeadOK(n) /\ NextOK(n)
    BY DEF LinksOK
  <2>2. HeadOK(n)'
    <3>1. SUFFICES ASSUME n \in OpenNodes, Kids(n) # {} PROVE tree'.next[n] = tree.next[n]
      BY <2>1, <1>5, <1>6, <1>8 DEF HeadOK
    <3>2. n # Block.prev
      BY <3>1, <1>2 DEF PrevOK, Kids
    <3>. QED BY <3>2, <1>8
  <2>3. NextOK(n)'
    <3>1. SUFFICES ASSUME n \notin OpenNodes, n = Block.prev PROVE NextOK(n)'
      BY <2>1, <1>1, <1>5, <1>6, <1>8 DEF NextOK
    <3>2. n \in Kids(Block.node) /\ \A m \in Kids(Block.node) : m <= n
      BY <3>1, <1>2 DEF PrevOK
    <3>3. parsed[n].parent = Block.node
      BY <3>2 DEF Kids, ChildrenOf
    <3>4. Later(n) = {}
      <4>1. Later(n) = {m \in Kids(Block.node) : m > n}
        BY <3>3, LaterIs
      <4>2. Kids(Block.node) \subseteq 1..Len(parsed)
        BY <1>7 DEF Kids, ChildrenOf
      <4>. QED BY <4>1, <4>2, <3>2, <1>7
    <3>. QED BY <3>3, <3>4, <1>1, <1>2, <1>5, <1>6 DEF NextOK
  <2>. QED BY <2>1, <2>2, <2>3, <1>8
<1>11. ASSUME NEW j \in 1..(Len(open) - 1), Tip(j)' PROVE PrevOK(j)'
  <2>1. j \in 1..Len(open) /\ open'[j].node = open[j].node
    BY <1>3
  <2>2. Kids(open[j].node)' = Kids(open[j].node)
    BY <2>1, <1>1, <1>5 DEF Kids, ChildrenOf
  <2>3. CASE j = Len(open) - 1
    <3>1. open[j].node = Block.node /\ open'[j].prev = Block.prev
      BY <1>3, <1>4, <2>3
    <3>2. Kids(open[j].node)' = Kids(Block.node)
      BY <2>2, <3>1
    <3>. QED BY <2>1, <3>1, <3>2, <1>2 DEF PrevOK
  <2>4. CASE j # Len(open) - 1
    <3>1. j + 1 \in 1..(Len(open) - 1) /\ j # Len(open')
      BY <1>3, <2>4
    <3>2. Tip(j)
      BY <1>3, <1>11, <2>1, <3>1 DEF Tip
    <3>3. PrevOK(j)
      BY <1>3, <2>1, <3>2 DEF LinksOK
    <3>. QED BY <1>3, <2>1, <2>2, <2>4, <3>3 DEF PrevOK
  <2>. QED BY <2>3, <2>4
<1>12. ASSUME NEW j \in 2..(Len(open) - 1), open'[j].end # "EOF", NEW m \in Kids(open[j - 1].node)'
       PROVE  m < open'[j].node
  <2>1. j \in 2..Len(open) /\ j \in 1..(Len(open) - 1) /\ j - 1 \in 1..(Len(open) - 1)
    BY <1>3
  <2>2. m \in Kids(open[j - 1].node)
    BY <2>1, <1>1, <1>3, <1>5, <1>12 DEF Kids, ChildrenOf
  <2>. QED BY <1>3, <1>12, <2>1, <2>2 DEF LinksOK
<1>13. LinksOK'
  BY <1>1, <1>3, <1>10, <1>11, <1>12 DEF LinksOK
<1>. QED BY <1>6, <1>8, <1>9, <1>13

LEMMA CloseBlockKeeps ==
  ASSUME ParsingInv, NEW end, end # "EOF", CloseBlock(end), status' = "parsing"
  PROVE  ParsingInv'
<1>. USE DEF ParsingInv
<1> DEFINE c == Block.node
           p == Block.prev
<1>1. end # "EOF"
  OBVIOUS
<1>2. PICK next : /\ next = [tree.next EXCEPT ![p] = 0]
                  /\ tree' = [tree EXCEPT !.list[c] = next[c], !.next = [next EXCEPT ![open[Len(open) - 1].prev] = c]]
                  /\ open' = Left(c)
                  /\ UNCHANGED parsed /\ Block.end = end
  BY DEF CloseBlock, Raise
<1>3. /\ Block = open[Len(open)] /\ Block \in BlockCalls /\ Len(open) \in DOMAIN open
      /\ c \in OpenNodes /\ p \in DOMAIN parsed /\ c \in Nat /\ c \in DOMAIN parsed
      /\ PrevOK(Len(open))
      /\ \A d \in OpenNodes : d \in DOMAIN parsed
  BY TipFacts DEF BlockCalls
<1>4. Len(open) \in Nat \ {0} /\ Len(open) # 1
  BY <1>1, <1>2, <1>3, OpenGrows DEF OpenOK
<1>5. PICK l \in Nat : Len(open) = l + 1 /\ l > 0
  <2>1. Len(open) - 1 \in Nat /\ Len(open) = (Len(open) - 1) + 1 /\ Len(open) - 1 > 0
    BY <1>4
  <2>. QED BY <2>1
<1>6. /\ DOMAIN open = 1..(l + 1) /\ Len(open) > 1 /\ Len(open) - 1 = l
      /\ l \in 1..(l + 1) /\ l + 1 \in 2..(l + 1) /\ (l + 1) - 1 = l /\ l + 1 \in 1..(l + 1)
  BY <1>5, OpenGrows
<1> DEFINE b == open[l].node
           q == open[l].prev
<1>a. open' \in Seq(BlockCalls) /\ Len(open)' = l /\ DOMAIN open' = 1..l
  BY <1>2, <1>3, <1>6, CallReturns
<1>b. \A j \in 1..l :
        /\ open'[j].node = open[j].node /\ open'[j].end = open[j].end
        /\ open'[j].prev = IF j = l THEN c ELSE open[j].prev
  BY <1>2, <1>3, <1>6, CallReturns
<1>c. /\ \A j \in 1..(l + 1) : open[j].node \in 1..Len(parsed) /\ open[j].node \in Nat
      /\ \A i, j \in 1..(l + 1) : i <= j => open[i].node <= open[j].node
      /\ \A j \in 2..(l + 1) : open[j].end # "EOF" => open[j - 1].node < open[j].node
  BY <1>5, OpenGrows
<1>d. \A j \in 2..(l + 1) :
        IF open[j].end = "EOF" THEN open[j].node = open[j - 1].node
        ELSE /\ open[j].node \in 2..Len(parsed)
             /\ parsed[open[j].node].parent = open[j - 1].node
  BY <1>5 DEF OpenOK
<1>e. \A j \in 2..(l + 1) : open[j].end # "EOF" =>
        \A m \in Kids(open[j - 1].node) : m < open[j].node
  BY <1>5 DEF LinksOK
<1>7. parsed[c].parent = b /\ b < c /\ b \in OpenNodes /\ b \in DOMAIN parsed
  <2>1. parsed[c].parent = b
    BY <1>1, <1>2, <1>3, <1>6 DEF OpenOK
  <2>2. b < c
    BY <1>1, <1>2, <1>3, <1>6, <1>c
  <2>3. b \in OpenNodes
    BY <1>6 DEF OpenNodes
  <2>. QED BY <2>1, <2>2, <2>3, <1>3
<1>8. Len(parsed) \in Nat /\ DOMAIN parsed = 1..Len(parsed)
  BY ParentIs
<1>9. PrevOK(l)
  <2>1. Tip(l)
    BY <1>3, <1>6, <1>7, <1>8 DEF Tip
  <2>. QED BY <2>1, <1>6 DEF LinksOK
<1>10. /\ IF Kids(c) = {} THEN p = c ELSE p \in Kids(c) /\ \A m \in Kids(c) : m <= p
       /\ IF Kids(b) = {} THEN q = b ELSE q \in Kids(b) /\ \A m \in Kids(b) : m <= q
  BY <1>3, <1>9 DEF PrevOK
<1>11. \A m \in Kids(b) : m < c
  BY <1>1, <1>2, <1>3, <1>6 DEF LinksOK
<1>12. /\ \A n : Kids(n) \subseteq DOMAIN parsed /\ Kids(n) \cap OpenNodes = {}
       /\ \A n : \A m \in Kids(n) : parsed[m].parent = n
       /\ \A m \in DOMAIN parsed : m \notin OpenNodes => m \in Kids(parsed[m].parent)
  BY DEF Kids, ChildrenOf
<1>13. p # q /\ q # c /\ p # b /\ q \in DOMAIN parsed
  <2>1. q = b \/ q \in Kids(b)
    BY <1>10
  <2>2. p = c \/ p \in Kids(c)
    BY <1>10
  <2>3. b # c
    BY <1>7, <1>3, <1>8
  <2>4. Kids(b) \cap Kids(c) = {}
    BY <1>12, <2>3
  <2>5. c \notin Kids(b) /\ b \notin Kids(c) /\ c \notin Kids(c) /\ b \notin Kids(b)
    BY <1>3, <1>7, <1>12
  <2>. QED BY <2>1, <2>2, <2>3, <2>4, <2>5, <1>7, <1>12
<1>14. OpenNodes' = OpenNodes \ {c}
  <2>1. ASSUME NEW j \in 1..l PROVE open[j].node # c
    <3>1. j \in 1..(l + 1) /\ l \in 1..(l + 1) /\ j <= l
      BY <1>5, <1>6
    <3>2. open[j].node <= b /\ open[j].node \in 1..Len(parsed)
      BY <1>5, <1>6, <3>1, <1>c
    <3>. QED BY <3>2, <1>3, <1>7, <1>8
  <2>2. \A j \in 1..(l + 1) : j = l + 1 \/ j \in 1..l
    BY <1>5, <1>6
  <2>3. OpenNodes \ {c} \subseteq OpenNodes'
    BY <1>3, <1>5, <1>6, <1>a, <1>b, <2>2 DEF OpenNodes
  <2>4. \A j \in 1..l : j \in DOMAIN open
    BY <1>5, <1>6
  <2>5. OpenNodes' \subseteq OpenNodes \ {c}
    BY <1>a, <1>b, <2>1, <2>4 DEF OpenNodes
  <2>. QED BY <2>3, <2>5
<1>15. \A n : Kids(n)' = IF n = b THEN Kids(n) \cup {c} ELSE Kids(n)
  <2>1. \A n : ChildrenOf(n)' = ChildrenOf(n)
    BY <1>2 DEF ChildrenOf
  <2>2. \A n : c \in ChildrenOf(n) <=> n = b
    BY <1>3, <1>7 DEF ChildrenOf
  <2>. QED BY <1>3, <1>14, <2>1, <2>2 DEF Kids
<1>16. /\ TreeOK' /\ tree'.parent = tree.parent
       /\ \A n \in DOMAIN parsed :
            /\ tree'.list[n] = IF n = c THEN IF c = p THEN 0 ELSE tree.next[c] ELSE tree.list[n]
            /\ tree'.next[n] = IF n = q THEN c ELSE IF n = p THEN 0 ELSE tree.next[n]
  <2>1. /\ tree' = [list |-> tree'.list, next |-> tree'.next, parent |-> tree'.parent]
        /\ tree'.list = [tree.list EXCEPT ![c] = next[c]] /\ tree'.parent = tree.parent
        /\ tree'.next = [next EXCEPT ![q] = c]
    BY <1>2, <1>6 DEF TreeOK
  <2>2. tree.next \in Seq(Nat) /\ Len(tree.next) = Len(parsed) /\ p \in 1..Len(tree.next)
    BY <1>3, <1>8 DEF TreeOK
  <2>3. /\ next \in Seq(Nat) /\ Len(next) = Len(parsed)
        /\ \A n \in 1..Len(parsed) : next[n] = IF n = p THEN 0 ELSE tree.next[n]
    BY <1>2, <2>2, OneChanged
  <2>4. q \in 1..Len(next) /\ c \in 1..Len(parsed)
    BY <1>3, <1>8, <1>13, <2>3
  <2>5. /\ tree'.next \in Seq(Nat) /\ Len(tree'.next) = Len(parsed)
        /\ \A n \in 1..Len(parsed) : tree'.next[n] = IF n = q THEN c ELSE next[n]
    BY <1>3, <2>1, <2>3, <2>4, OneChanged
  <2>6. next[c] \in Nat /\ next[c] = IF c = p THEN 0 ELSE tree.next[c]
    BY <2>2, <2>3, <2>4
  <2>7. tree.list \in Seq(Nat) /\ Len(tree.list) = Len(parsed) /\ c \in 1..Len(tree.list)
    BY <2>4 DEF TreeOK
  <2>8. /\ tree'.list \in Seq(Nat) /\ Len(tree'.list) = Len(parsed)
        /\ \A n \in 1..Len(parsed) : tree'.list[n] = IF n = c THEN next[c] ELSE tree.list[n]
    BY <2>1, <2>6, <2>7, OneChanged
  <2>9. TreeOK'
    BY <1>2, <2>1, <2>5, <2>8 DEF TreeOK
  <2>. QED BY <1>8, <2>1, <2>3, <2>5, <2>6, <2>8, <2>9
<1>17. OpenOK'
  <2>1. ASSUME NEW j \in 2..l
        PROVE  IF open'[j].end = "EOF" THEN open'[j].node = open'[j - 1].node
               ELSE /\ open'[j].node \in 2..Len(parsed')
                    /\ parsed'[open'[j].node].parent = open'[j - 1].node
    <3>1. j \in 1..l /\ j - 1 \in 1..l /\ j \in 2..(l + 1)
      BY <1>5, <1>6
    <3>. QED BY <1>2, <1>b, <1>d, <3>1
  <2>2. open'[1].node = 1 /\ open'[1].end = "EOF"
    BY <1>5, <1>6, <1>a, <1>b DEF OpenOK
  <2>. QED BY <1>5, <1>6, <1>a, <1>b, <2>1, <2>2 DEF OpenOK
<1>. HIDE DEF c, b, p, q
<1>18. ASSUME NEW n \in DOMAIN parsed PROVE HeadOK(n)'
  <2>1. HeadOK(n)
    BY DEF LinksOK
  <2>2. CASE n = c
    <3>1. n \notin OpenNodes' /\ Kids(n)' = Kids(n)
      BY <1>3, <1>7, <1>8, <1>14, <1>15, <2>2
    <3>2. CASE Kids(c) = {}
      <4>1. tree'.list[n] = 0
        BY <1>3, <1>10, <1>16, <2>2, <3>2
      <4>. QED BY <2>2, <3>1, <3>2, <4>1 DEF HeadOK, IsFirst
    <3>3. CASE Kids(c) # {}
      <4>1. p # c
        BY <1>3, <1>10, <1>12, <3>3
      <4>2. tree'.list[n] = tree.next[n]
        BY <1>3, <1>16, <2>2, <4>1
      <4>3. IsFirst(tree.next[n], Kids(n))
        BY <1>3, <2>1, <2>2, <3>3 DEF HeadOK
      <4>. QED BY <3>1, <4>2, <4>3 DEF HeadOK, IsFirst
    <3>. QED BY <3>2, <3>3
  <2>3. CASE n # c /\ n \notin OpenNodes
    <3>1. n \notin OpenNodes' /\ Kids(n)' = Kids(n) /\ tree'.list[n] = tree.list[n]
      BY <1>7, <1>14, <1>15, <1>16, <2>3
    <3>. QED BY <2>1, <2>3, <3>1 DEF HeadOK
  <2>4. CASE n # c /\ n \in OpenNodes /\ n # b
    <3>1. n # p /\ n # q
      BY <1>10, <1>12, <2>4
    <3>2. n \in OpenNodes' /\ Kids(n)' = Kids(n) /\ tree'.next[n] = tree.next[n]
      BY <1>14, <1>15, <1>16, <2>4, <3>1
    <3>. QED BY <2>1, <2>4, <3>2 DEF HeadOK
  <2>5. CASE n = b
    <3>1. n \in OpenNodes' /\ n \in OpenNodes /\ Kids(n)' = Kids(n) \cup {c}
      BY <1>3, <1>7, <1>8, <1>14, <1>15, <2>5
    <3>2. CASE Kids(b) = {}
      <4>1. tree'.next[n] = c
        BY <1>10, <1>16, <2>5, <3>2
      <4>2. Kids(n)' = {c}
        BY <2>5, <3>1, <3>2
      <4>. QED BY <1>3, <3>1, <4>1, <4>2 DEF HeadOK, IsFirst
    <3>3. CASE Kids(b) # {}
      <4>1. n # q /\ n # p
        BY <1>7, <1>10, <1>12, <1>13, <2>5, <3>3
      <4>2. tree'.next[n] = tree.next[n]
        BY <1>16, <4>1
      <4>3. tree.next[n] \in Kids(n) /\ \A k \in Kids(n) : tree.next[n] <= k
        BY <2>1, <2>5, <3>1, <3>3 DEF HeadOK, IsFirst
      <4>4. tree.next[n] <= c
        <5>1. tree.next[n] < c /\ tree.next[n] \in DOMAIN parsed
          BY <1>11, <1>12, <2>5, <4>3
        <5>. QED BY <5>1, <1>3, <1>8
      <4>. QED BY <3>1, <4>2, <4>3, <4>4 DEF HeadOK, IsFirst
    <3>. QED BY <3>2, <3>3
  <2>. QED BY <2>2, <2>3, <2>4, <2>5
<1>19. ASSUME NEW n \in DOMAIN parsed PROVE NextOK(n)'
  <2>1. SUFFICES ASSUME n \notin OpenNodes',
                        (Later(n) # {})' \/ (parsed[n].parent \notin OpenNodes)'
                 PROVE  IsFirst(tree.next[n], Later(n))'
    BY DEF NextOK
  <2>2. PICK d : d = parsed[n].parent /\ d = parsed'[n].parent
    BY <1>2
  <2>3. Later(n) = {m \in Kids(d) : m > n} /\ Later(n)' = {m \in Kids(d)' : m > n}
    BY <2>2, LaterIs
  <2>4. CASE n = c
    <3>1. d = b
      BY <1>7, <2>2, <2>4
    <3>2. Later(n)' = {}
      <4>1. \A m \in Kids(b) : ~(m > n)
        <5>1. \A m \in Kids(b) : m < c /\ m \in DOMAIN parsed
          BY <1>11, <1>12
        <5>. QED BY <5>1, <2>4, <1>3, <1>8
      <4>2. ~(c > n)
        BY <2>4, <1>3
      <4>. QED BY <2>3, <3>1, <4>1, <4>2, <1>15
    <3>3. d \in OpenNodes'
      BY <1>3, <1>7, <1>8, <1>14, <3>1
    <3>. QED BY <2>1, <2>2, <3>2, <3>3
  <2>5. CASE n # c
    <3>1. n \notin OpenNodes /\ n \in Kids(d) /\ NextOK(n)
      BY <1>12, <1>14, <2>1, <2>2, <2>5 DEF LinksOK
    <3>2. CASE d = b
      <4>1. d \in OpenNodes'
        BY <1>3, <1>7, <1>8, <1>14, <3>2
      <4>2. Kids(b) # {} /\ q \in Kids(b) /\ \A m \in Kids(b) : m <= q
        BY <1>10, <3>1, <3>2
      <4>3. n # p
        BY <1>10, <1>12, <3>1, <3>2, <1>7, <1>3, <1>8
      <4>4. Later(n)' = Later(n) \cup {c}
        <5>1. n < c /\ c > n
          <6>1. n < c
            BY <1>11, <3>1, <3>2
          <6>. QED BY <6>1, <1>3, <1>8
        <5>. QED BY <2>3, <3>2, <5>1, <1>15
      <4>5. CASE n = q
        <5>1. Later(n) = {}
          <6>1. \A m \in Kids(b) : m <= n /\ m \in DOMAIN parsed
            BY <1>12, <4>2, <4>5
          <6>. QED BY <2>3, <3>2, <6>1, <1>8
        <5>2. tree'.next[n] = c
          BY <1>16, <4>5
        <5>. QED BY <4>4, <5>1, <5>2, <1>3 DEF IsFirst
      <4>6. CASE n # q
        <5>1. q \in Later(n)
          <6>1. n <= q /\ q \in DOMAIN parsed
            BY <1>12, <3>1, <3>2, <4>2
          <6>. QED BY <2>3, <3>2, <4>2, <4>6, <6>1, <1>8
        <5>2. tree.next[n] \in Later(n) /\ \A k \in Later(n) : tree.next[n] <= k
          BY <3>1, <5>1 DEF NextOK, IsFirst
        <5>3. tree'.next[n] = tree.next[n]
          BY <1>16, <4>3, <4>6
        <5>4. tree.next[n] <= c
          <6>1. tree.next[n] \in Kids(b)
            BY <2>3, <3>2, <5>2
          <6>2. tree.next[n] < c /\ tree.next[n] \in DOMAIN parsed
            BY <6>1, <1>11, <1>12
          <6>. QED BY <6>2, <1>3, <1>8
        <5>. QED BY <4>4, <5>2, <5>3, <5>4 DEF IsFirst
      <4>. QED BY <4>5, <4>6
    <3>3. CASE d # b
      <4>1. Later(n)' = Later(n)
        BY <1>15, <2>3, <3>3
      <4>2. n # q
        BY <1>7, <1>10, <1>12, <3>1, <3>3
      <4>3. CASE n = p
        <5>1. d = c /\ \A m \in Kids(c) : m <= n
          BY <1>3, <1>10, <1>12, <2>2, <3>1, <4>3
        <5>2. Later(n) = {}
          <6>1. \A m \in Kids(c) : m <= n /\ m \in DOMAIN parsed
            BY <1>12, <5>1
          <6>. QED BY <2>3, <5>1, <6>1, <1>8
        <5>3. tree'.next[n] = 0
          BY <1>16, <4>2, <4>3
        <5>. QED BY <4>1, <5>2, <5>3 DEF IsFirst
      <4>4. CASE n # p /\ d # c
        <5>1. tree'.next[n] = tree.next[n]
          BY <1>16, <4>2, <4>4
        <5>2. Later(n) # {} \/ parsed[n].parent \notin OpenNodes
          BY <1>14, <2>1, <2>2, <4>1, <4>4
        <5>3. IsFirst(tree.next[n], Later(n))
          BY <3>1, <5>2 DEF NextOK
        <5>. QED BY <4>1, <5>1, <5>3 DEF IsFirst
      <4>5. CASE n # p /\ d = c
        <5>1. p \in Kids(c) /\ \A m \in Kids(c) : m <= p
          BY <1>10, <3>1, <4>5
        <5>2. p \in Later(n)
          <6>1. n <= p /\ p \in DOMAIN parsed
            BY <1>3, <3>1, <4>5, <5>1
          <6>. QED BY <2>3, <4>5, <5>1, <6>1, <1>8
        <5>3. IsFirst(tree.next[n], Later(n))
          BY <3>1, <5>2 DEF NextOK
        <5>4. tree'.next[n] = tree.next[n]
          BY <1>16, <4>2, <4>5
        <5>. QED BY <4>1, <5>3, <5>4 DEF IsFirst
      <4>. QED BY <4>3, <4>4, <4>5
    <3>. QED BY <3>2, <3>3
  <2>. QED BY <2>4, <2>5
<1>20. ASSUME NEW j \in 1..l, Tip(j)' PROVE PrevOK(j)'
  <2>1. j \in 1..(l + 1) /\ j \in DOMAIN open /\ open'[j].node = open[j].node
    BY <1>5, <1>6, <1>a, <1>b
  <2>2. PICK d : d = open[j].node /\ d = open'[j].node
    BY <2>1
  <2>3. Kids(open[j].node)' = Kids(d)'
    BY <2>2 DEF Kids, ChildrenOf
  <2>4. CASE j = l
    <3>1. d = b /\ open'[j].prev = c
      BY <1>a, <1>b, <2>2, <2>4 DEF b
    <3>2. Kids(d)' = Kids(d) \cup {c}
      BY <1>15, <3>1
    <3>3. \A m \in Kids(d) \cup {c} : m <= c
      <4>1. \A m \in Kids(d) : m < c /\ m \in DOMAIN parsed
        BY <1>11, <1>12, <3>1
      <4>. QED BY <4>1, <1>3, <1>8
    <3>. QED BY <2>3, <3>1, <3>2, <3>3 DEF PrevOK
  <2>5. CASE j # l
    <3>1. j + 1 \in 1..l /\ j # Len(open')
      BY <1>5, <1>6, <1>a, <1>b, <2>5
    <3>2. Tip(j) /\ open[j].node # open[j + 1].node
      BY <1>a, <1>b, <1>20, <2>1, <3>1 DEF Tip
    <3>3. PrevOK(j)
      BY <2>1, <3>2 DEF LinksOK
    <3>4. d # b
      <4>1. /\ j + 1 \in 1..(l + 1) /\ l \in 1..(l + 1)
            /\ j <= j + 1 /\ j + 1 <= l
        BY <1>5, <1>6, <2>1, <3>1
      <4>2. open[j].node <= open[j + 1].node /\ open[j + 1].node <= b
        BY <2>1, <4>1, <1>c DEF b
      <4>3. open[j].node \in Nat /\ open[j + 1].node \in Nat /\ b \in Nat
        BY <1>5, <1>6, <1>7, <1>8, <2>1, <4>1, <1>c
      <4>. QED BY <2>2, <3>2, <4>2, <4>3
    <3>5. Kids(d)' = Kids(d) /\ open'[j].prev = open[j].prev
      BY <1>a, <1>b, <1>15, <2>5, <3>4
    <3>. QED BY <2>2, <2>3, <3>3, <3>5 DEF PrevOK
  <2>. QED BY <2>4, <2>5
<1>21. ASSUME NEW j \in 2..l, open'[j].end # "EOF", NEW m \in Kids(open[j - 1].node)'
       PROVE  m < open'[j].node
  <2>1. j \in 2..(l + 1) /\ j \in 1..l /\ j - 1 \in 1..l
    BY <1>5, <1>6
  <2>2. PICK d : d = open[j - 1].node /\ d = open'[j - 1].node
    BY <1>a, <1>b, <2>1
  <2>3. m \in Kids(d)'
    BY <2>2, <1>21 DEF Kids, ChildrenOf
  <2>4. open[j].end # "EOF" /\ open'[j].node = open[j].node
    BY <1>a, <1>b, <1>21, <2>1
  <2>5. d # b
    <3>1. open[j - 1].node < open[j].node
      BY <2>1, <2>4, <1>c
    <3>2. l \in 1..(l + 1) /\ j \in 1..(l + 1) /\ j <= l
      BY <1>5, <1>6, <2>1
    <3>3. open[j].node <= b
      BY <3>2, <1>c DEF b
    <3>4. open[j - 1].node \in Nat /\ open[j].node \in Nat /\ b \in Nat
      BY <1>5, <1>6, <1>7, <1>8, <2>1, <3>2, <1>c
    <3>. QED BY <2>2, <3>1, <3>3, <3>4
  <2>6. m \in Kids(open[j - 1].node)
    BY <1>15, <2>2, <2>3, <2>5
  <2>. QED BY <1>e, <2>1, <2>4, <2>6
<1>22. LinksOK'
  BY <1>2, <1>a, <1>b, <1>16, <1>18, <1>19, <1>20, <1>21 DEF LinksOK
<1>23. BlocksAreLeft'
  BY <1>2, <1>14 DEF BlocksAreLeft
<1>24. ParsedOK'
  BY <1>2 DEF ParsedOK
<1>. QED BY <1>16, <1>17, <1>22, <1>23, <1>24

\* PropagateDeps is the function that its definition describes.
LEMMA PropagateDepsIs ==
  ASSUME ParsedOK
  PROVE  \A n \in DOMAIN parsed :
           PropagateDeps[n] = IF n = 1 THEN <<parsed[1]>>
                              ELSE Append(PropagateDeps[n - 1],
                                          Propagated(parsed[n], PropagateDeps[n - 1][parsed[n].parent]))
<1>1. Len(parsed) \in Nat /\ DOMAIN parsed = 1..Len(parsed)
  BY ParentIs
<1> DEFINE Step(n, done) == Append(done, Propagated(parsed[n], done[parsed[n].parent]))
           Is(m, f) == f = [n \in 1..m |-> IF n = 1 THEN <<parsed[1]>> ELSE Step(n, f[n - 1])]
           found == {m \in Nat : \E f : Is(m, f)}
<1>2. 0 \in found
  <2> DEFINE g == [n \in 1..0 |-> 0]
  <2>1. g = [n \in 1..0 |-> IF n = 1 THEN <<parsed[1]>> ELSE Step(n, g[n - 1])]
    <3>. HIDE DEF Step
    <3>. QED OBVIOUS
  <2>. QED BY <2>1
<1>. HIDE DEF Step
<1>3. ASSUME NEW m \in Nat, m \in found PROVE m + 1 \in found
  <2>1. PICK f : f = [n \in 1..m |-> IF n = 1 THEN <<parsed[1]>> ELSE Step(n, f[n - 1])]
    BY <1>3
  <2> DEFINE g == [n \in 1..(m + 1) |-> IF n = 1 THEN <<parsed[1]>> ELSE Step(n, f[n - 1])]
  <2>2. \A n \in 1..m : g[n] = f[n]
    BY <2>1
  <2>3. \A n \in 1..(m + 1) : n # 1 => g[n - 1] = f[n - 1]
    <3>1. \A n \in 1..(m + 1) : n # 1 => n - 1 \in 1..m
      OBVIOUS
    <3>. QED BY <2>2, <3>1
  <2>4. g = [n \in 1..(m + 1) |-> IF n = 1 THEN <<parsed[1]>> ELSE Step(n, g[n - 1])]
    BY <2>3
  <2>. HIDE DEF g
  <2>5. Is(m + 1, g)
    BY <2>4
  <2>. QED BY <2>5
<1>4. \E f : Is(Len(parsed), f)
  <2>1. Nat \subseteq found
    <3>. HIDE DEF found
    <3>. QED BY <1>2, <1>3, SetInduction
  <2>. QED BY <1>1, <2>1
<1>5. PropagateDeps = CHOOSE f : Is(Len(parsed), f)
  BY <1>1 DEF PropagateDeps, Step
<1>6. Is(Len(parsed), PropagateDeps)
  <2>. HIDE DEF Is
  <2>. QED BY <1>4, <1>5
<1>7. \A n \in 1..Len(parsed) :
        PropagateDeps[n] = IF n = 1 THEN <<parsed[1]>> ELSE Step(n, PropagateDeps[n - 1])
  BY <1>6
<1>. QED BY <1>1, <1>7 DEF Step

LEMMA Appended ==
  ASSUME NEW S, NEW s \in Seq(S), NEW x
  PROVE  /\ Append(s, x) \in Seq(S \cup {x}) /\ Len(Append(s, x)) = Len(s) + 1
         /\ \A k \in 1..Len(s) : Append(s, x)[k] = s[k]
         /\ Append(s, x)[Len(s) + 1] = x
<1>1. s \in Seq(S \cup {x}) /\ x \in S \cup {x}
  OBVIOUS
<1>. QED BY <1>1

LEMMA AllPropagated ==
  ASSUME ParsedOK, nodes' = PropagateDeps[Len(parsed)], UNCHANGED parsed
  PROVE  NodesOK'
<1>1. /\ Len(parsed) \in Nat \ {0} /\ DOMAIN parsed = 1..Len(parsed)
      /\ \A n \in 2..Len(parsed) : parsed[n].parent \in 1..(n - 1)
  BY ParentIs
<1> DEFINE f == PropagateDeps
           Holds(n) == /\ \E S : f[n] \in Seq(S)
                       /\ Len(f[n]) = n /\ f[n][1] = parsed[1]
                       /\ \A k \in 2..n : f[n][k] = Propagated(parsed[k], f[n][parsed[k].parent])
           held == {n \in Nat : n \in 1..Len(parsed) => Holds(n)}
<1>2. \A n \in 1..Len(parsed) :
        f[n] = IF n = 1 THEN <<parsed[1]>>
               ELSE Append(f[n - 1], Propagated(parsed[n], f[n - 1][parsed[n].parent]))
  BY <1>1, PropagateDepsIs
<1>. HIDE DEF f
<1>3. ASSUME NEW n \in Nat, n \in held PROVE n + 1 \in held
  <2>1. SUFFICES ASSUME n + 1 \in 1..Len(parsed) PROVE Holds(n + 1)
    OBVIOUS
  <2>2. CASE n = 0
    <3>1. f[1] = <<parsed[1]>>
      BY <1>1, <1>2
    <3>2. f[1] \in Seq({parsed[1]}) /\ Len(f[1]) = 1 /\ f[1][1] = parsed[1]
      BY <3>1
    <3>. QED BY <2>2, <3>2
  <2>3. CASE n # 0
    <3>1. n \in 1..Len(parsed) /\ (n + 1) - 1 = n /\ n + 1 # 1
      BY <2>1, <2>3, <1>1
    <3>2. Holds(n)
      BY <1>3, <3>1
    <3>3. PICK S : f[n] \in Seq(S)
      BY <3>2
    <3> DEFINE x == Propagated(parsed[n + 1], f[n][parsed[n + 1].parent])
    <3>4. f[n + 1] = Append(f[n], x)
      BY <1>2, <2>1, <3>1
    <3>. HIDE DEF x
    <3>5. /\ f[n + 1] \in Seq(S \cup {x}) /\ Len(f[n + 1]) = n + 1
          /\ \A k \in 1..n : f[n + 1][k] = f[n][k]
          /\ f[n + 1][n + 1] = x
      BY <3>2, <3>3, <3>4, Appended
    <3>6. \A k \in 2..(n + 1) : parsed[k].parent \in 1..n
      BY <1>1, <2>1
    <3>7. ASSUME NEW k \in 2..(n + 1)
          PROVE  f[n + 1][k] = Propagated(parsed[k], f[n + 1][parsed[k].parent])
      <4>1. f[n + 1][parsed[k].parent] = f[n][parsed[k].parent]
        BY <3>5, <3>6
      <4>2. CASE k = n + 1
        BY <3>5, <4>1, <4>2 DEF x
      <4>3. CASE k # n + 1
        <5>1. k \in 2..n /\ k \in 1..n
          BY <4>3
        <5>. QED BY <3>2, <3>5, <4>1, <5>1
      <4>. QED BY <4>2, <4>3
    <3>8. f[n + 1][1] = parsed[1]
      BY <3>1, <3>2, <3>5
    <3>. QED BY <3>5, <3>7, <3>8
  <2>. QED BY <2>2, <2>3
<1>4. Nat \subseteq held
  <2>1. 0 \in held
    OBVIOUS
  <2>. HIDE DEF held
  <2>. QED BY <1>3, <2>1, SetInduction
<1>5. Holds(Len(parsed))
  BY <1>1, <1>4
<1>6. nodes' = f[Len(parsed)]
  BY DEF f
<1>7. DOMAIN nodes' = 1..Len(parsed)
  BY <1>1, <1>5, <1>6
<1>. QED BY <1>1, <1>5, <1>6, <1>7 DEF NodesOK
-----------------------------------------------------------------------------
(***************************************************************************)
(* Parsing keeps the invariant.                                            *)
(***************************************************************************)
LEMMA ParseStarts == Init => ParseInv
<1>. SUFFICES ASSUME Init PROVE ParsingInv /\ status = "parsing"
  BY DEF ParseInv
<1>1. /\ parsed = <<Top>> /\ Len(parsed) = 1 /\ DOMAIN parsed = {1} /\ parsed[1] = Top
      /\ tree = [list |-> <<0>>, next |-> <<0>>, parent |-> <<0>>]
      /\ open = <<[end |-> "EOF", node |-> 1, prev |-> 1, file |-> MainFile]>>
      /\ Len(open) = 1 /\ DOMAIN open = {1} /\ open[1].node = 1 /\ open[1].prev = 1 /\ open[1].end = "EOF"
  BY DEF Init
<1>2. Top \in ParsedNodes /\ Top.parent = 0
  BY DEF ParsedNodes, Top
<1>3. ParsedOK
  BY <1>1, <1>2 DEF ParsedOK
<1>4. OpenOK
  <2>1. [end |-> "EOF", node |-> 1, prev |-> 1, file |-> MainFile] \in BlockCalls
    BY DEF BlockCalls
  <2>. QED BY <1>1, <2>1 DEF OpenOK
<1>5. TreeOK
  BY <1>1 DEF TreeOK
<1>6. OpenNodes = {1}
  BY <1>1 DEF OpenNodes
<1>7. \A n : n # 0 => Kids(n) = {}
  BY <1>1, <1>2 DEF Kids, ChildrenOf
<1>8. LinksOK
  <2>1. HeadOK(1) /\ NextOK(1) /\ tree.parent[1] = parsed[1].parent
    BY <1>1, <1>2, <1>6, <1>7 DEF HeadOK, NextOK
  <2>2. PrevOK(1)
    BY <1>1, <1>7 DEF PrevOK
  <2>. QED BY <1>1, <2>1, <2>2 DEF LinksOK
<1>9. BlocksAreLeft
  BY <1>1 DEF BlocksAreLeft
<1>. QED BY <1>3, <1>4, <1>5, <1>8, <1>9 DEF ParsingInv, Init

LEMMA ParseKeeps == ParseInv /\ [ParseStatement \/ EndOfMainFile]_parsing => ParseInv'
<1>. SUFFICES ASSUME ParseInv, [ParseStatement \/ EndOfMainFile]_parsing PROVE ParseInv'
  OBVIOUS
<1>1. ASSUME NEW st \in Statements, Statement(st) \/ OpenBlock(st) PROVE ParseInv'
  <2>1. status = "parsing" /\ status' = "parsing"
    BY <1>1 DEF Statement, OpenBlock, MakeNode
  <2>. QED BY <1>1, <2>1, StatementKeeps, OpenBlockKeeps DEF ParseInv
<1>2. ASSUME NEW end \in {EndOf[kw] : kw \in DOMAIN EndOf}, CloseBlock(end) PROVE ParseInv'
  <2>1. status = "parsing" /\ status' \in {"parsing", "error"}
    BY <1>2 DEF CloseBlock, Raise
  <2>2. end # "EOF"
    BY DEF EndOf
  <2>. QED BY <1>2, <2>1, <2>2, CloseBlockKeeps DEF ParseInv
<1>3. ASSUME NEW f \in Files, Source(f) PROVE ParseInv'
  <2>1. status = "parsing" /\ status' \in {"parsing", "error"}
    BY <1>3 DEF Source, Raise
  <2>. QED BY <1>3, <2>1, SourceKeeps DEF ParseInv
<1>4. CASE EndOfFile
  <2>1. status = "parsing" /\ status' \in {"parsing", "error"}
    BY <1>4 DEF EndOfFile, Raise
  <2>. QED BY <1>4, <2>1, EndOfFileKeeps DEF ParseInv
<1>5. CASE EndOfMainFile
  <2>1. /\ status = "parsing" /\ status' = "built" /\ UNCHANGED parsed
        /\ nodes' = PropagateDeps[Len(parsed)]
    BY <1>5 DEF EndOfMainFile
  <2>2. ParsedOK
    BY <2>1 DEF ParseInv, ParsingInv
  <2>3. ParsedOK'
    BY <2>1, <2>2 DEF ParsedOK
  <2>. QED BY <2>1, <2>2, <2>3, AllPropagated DEF ParseInv
<1>6. CASE UNCHANGED parsing
  <2>1. parsed' = parsed /\ tree' = tree /\ open' = open /\ nodes' = nodes /\ status' = status
    BY <1>6 DEF parsing
  <2>2. ParsedOK => ParsedOK'
    BY <2>1 DEF ParsedOK
  <2>3. NodesOK => NodesOK'
    BY <2>1 DEF NodesOK
  <2>4. OpenOK => OpenOK'
    BY <2>1 DEF OpenOK
  <2>5. TreeOK => TreeOK'
    BY <2>1 DEF TreeOK
  <2>6. OpenNodes' = OpenNodes /\ \A n : Kids(n)' = Kids(n)
    BY <2>1 DEF OpenNodes, Kids, ChildrenOf
  <2>7. BlocksAreLeft => BlocksAreLeft'
    BY <2>1, <2>6 DEF BlocksAreLeft
  <2>8. ASSUME LinksOK PROVE LinksOK'
    <3>1. \A n : HeadOK(n) => HeadOK(n)'
      BY <2>1, <2>6 DEF HeadOK
    <3>2. \A n : NextOK(n) => NextOK(n)'
      BY <2>1, <2>6 DEF NextOK, Later
    <3>3. \A j : (Tip(j)' => Tip(j)) /\ (PrevOK(j) => PrevOK(j)')
      BY <2>1, <2>6 DEF PrevOK, Tip
    <3>. QED BY <2>1, <2>6, <2>8, <3>1, <3>2, <3>3 DEF LinksOK
  <2>. QED BY <2>1, <2>2, <2>3, <2>4, <2>5, <2>7, <2>8 DEF ParseInv, ParsingInv
<1>. QED BY <1>1, <1>2, <1>3, <1>4, <1>5, <1>6 DEF ParseStatement

\* The pointers are well linked in all states of parsing.
THEOREM ParseInvariant == ParseSpec => []ParseInv
BY ParseStarts, ParseKeeps, PTL DEF ParseSpec

\* The tree given to _finalize_tree() is in the order of the files: no node of a
\* block is lost, however blocks are nested and divided into sourced files.
THEOREM FilesAreInOrder == ParseSpec => []FilesInOrder
<1>1. ParseInv => FilesInOrder
  <2>. SUFFICES ASSUME ParsingInv, Len(open) = 1 PROVE FilesInOrder!2
    BY DEF ParseInv, FilesInOrder
  <2>1. /\ Len(parsed) \in Nat \ {0} /\ DOMAIN parsed = 1..Len(parsed) /\ parsed[1].parent = 0
        /\ \A n \in 2..Len(parsed) : parsed[n].parent \in 1..(n - 1)
    BY DEF ParsingInv, ParsedOK, Top
  <2>2. Block = open[1] /\ Block.node = 1 /\ OpenNodes = {1} /\ PrevOK(1)
    BY TipFacts DEF ParsingInv, OpenOK, OpenNodes
  <2>3. \A n \in DOMAIN parsed : Kids(n) = ChildrenOf(n) /\ Kids(n) \subseteq 2..Len(parsed)
    BY <2>1, <2>2 DEF Kids, ChildrenOf
  <2> DEFINE prev == Block.prev
             next == [tree.next EXCEPT ![prev] = 0]
             t == FileTree
  <2>4. /\ prev \in DOMAIN parsed
        /\ prev = 1 <=> Kids(1) = {}
        /\ prev # 1 => prev \in Kids(1) /\ \A m \in Kids(1) : m <= prev
    BY <2>1, <2>2, <2>3, TipFacts DEF PrevOK
  <2>5. /\ t.parent = tree.parent
        /\ \A n \in DOMAIN parsed : /\ t.list[n] = IF n = 1 THEN next[1] ELSE tree.list[n]
                                    /\ t.next[n] = IF n = 1 THEN 0 ELSE next[n]
                                    /\ next[n] = IF n = prev THEN 0 ELSE tree.next[n]
    <3>1. /\ tree.list \in Seq(Nat) /\ tree.next \in Seq(Nat)
          /\ Len(tree.list) = Len(parsed) /\ Len(tree.next) = Len(parsed)
          /\ tree = [list |-> tree.list, next |-> tree.next, parent |-> tree.parent]
      BY DEF ParsingInv, TreeOK
    <3>2. DOMAIN tree.list = DOMAIN parsed /\ DOMAIN tree.next = DOMAIN parsed /\ DOMAIN next = DOMAIN parsed
      BY <3>1, <2>1
    <3>3. /\ t.parent = tree.parent
          /\ t.list = [tree.list EXCEPT ![1] = next[1]] /\ t.next = [next EXCEPT ![1] = 0]
      BY <3>1 DEF FileTree
    <3>. QED BY <3>2, <3>3
  <2>. HIDE DEF prev, next, t
  <2>6. \A n \in DOMAIN parsed : tree.parent[n] = parsed[n].parent /\ HeadOK(n) /\ NextOK(n)
    BY DEF ParsingInv, LinksOK
  <2>7. ASSUME NEW n \in DOMAIN parsed PROVE IsFirst(t.list[n], ChildrenOf(n))
    <3>1. CASE n = 1
      <4>1. CASE Kids(1) = {}
        BY <2>1, <2>3, <2>4, <2>5, <3>1, <4>1 DEF IsFirst
      <4>2. CASE Kids(1) # {}
        BY <2>1, <2>2, <2>3, <2>4, <2>5, <2>6, <3>1, <4>2 DEF HeadOK
      <4>. QED BY <4>1, <4>2
    <3>2. CASE n # 1
      BY <2>2, <2>3, <2>5, <2>6, <3>2 DEF HeadOK
    <3>. QED BY <3>1, <3>2
  <2>8. ASSUME NEW n \in DOMAIN parsed
        PROVE  IsFirst(t.next[n], {m \in ChildrenOf(parsed[n].parent) : m > n})
    <3>1. CASE n = 1
      <4>1. {m \in ChildrenOf(parsed[1].parent) : m > 1} = {}
        BY <2>1 DEF ChildrenOf
      <4>. QED BY <2>5, <3>1, <4>1 DEF IsFirst
    <3>2. CASE n # 1
      <4>1. /\ n \in 2..Len(parsed) /\ parsed[n].parent \in DOMAIN parsed /\ n \in Kids(parsed[n].parent)
            /\ {m \in ChildrenOf(parsed[n].parent) : m > n} = Later(n)
        BY <2>1, <2>2, <2>3, <3>2 DEF Later, ChildrenOf
      <4>2. CASE n = prev
        <5>1. n \in Kids(1) /\ parsed[n].parent = 1
          BY <2>4, <3>2, <4>2 DEF Kids, ChildrenOf
        <5>2. Later(n) = {}
          BY <2>1, <2>3, <2>4, <3>2, <4>2, <5>1 DEF Later
        <5>. QED BY <2>5, <3>2, <4>1, <4>2, <5>2 DEF IsFirst
      <4>3. CASE n # prev
        <5>1. CASE Later(n) # {} \/ parsed[n].parent # 1
          BY <2>2, <2>5, <2>6, <3>2, <4>1, <4>3, <5>1 DEF NextOK
        <5>2. CASE Later(n) = {} /\ parsed[n].parent = 1
          <6>1. n \in Kids(1) /\ prev \in Kids(1) /\ n <= prev
            BY <2>4, <4>1, <5>2
          <6>2. n \in Int /\ prev \in Int /\ prev # n
            BY <2>1, <2>4, <4>3
          <6>3. prev > n
            BY <6>1, <6>2
          <6>. QED BY <5>2, <6>1, <6>3 DEF Later
        <5>. QED BY <5>1, <5>2
      <4>. QED BY <4>2, <4>3
    <3>. QED BY <3>1, <3>2
  <2>9. ASSUME NEW n \in DOMAIN parsed, NEW k \in (n + 1)..Len(parsed), parsed[k].parent < n
        PROVE  \A m \in k..Len(parsed) : parsed[m].parent < n \/ parsed[m].parent >= k
    BY <2>9 DEF ParsingInv, BlocksAreLeft
  <2>. QED BY <2>5, <2>6, <2>7, <2>8, <2>9 DEF t
<1>. QED BY <1>1, ParseInvariant, PTL
-----------------------------------------------------------------------------
(***************************************************************************)
(* What the files require is what is propagated.                           *)
(***************************************************************************)

\* The expressions of the files are in a set, with those that are made of them.
Expressions(exprs) ==
  /\ {N, Y} \cup {It(c) : c \in Choices} \subseteq exprs
  /\ \A e, f \in exprs : And(e, f) \in exprs
  /\ \A st \in Statements :
       /\ {st.dep, st.visible} \subseteq exprs
       /\ \A k \in DOMAIN st.prompt : st.prompt[k] \in exprs

\* Expression e is worth what the least one of a set is.
AllowedBy(e, exprs, v) == IsLeast(Meaning(e, v), {Meaning(x, v) : x \in exprs})

AtOrAround(n) == Enclosing[n] \cup {n}

\* The nodes of a set from the last choice on, and what they ask of nodes in them
FromChoice(S) == {k \in S : \A c \in S : parsed[c].item \in Choices => c <= k}

Asks(m) == IF parsed[m].item \in Choices THEN It(parsed[m].item) ELSE parsed[m].dep

LEMMA EnclosingIs ==
  ASSUME ParsedOK
  PROVE  \A n \in DOMAIN parsed :
           Enclosing[n] = IF n = 1 THEN {} ELSE {parsed[n].parent} \cup Enclosing[parsed[n].parent]
<1>1. /\ Len(parsed) \in Nat /\ DOMAIN parsed = 1..Len(parsed)
      /\ \A n \in 2..Len(parsed) : parsed[n].parent \in 1..(n - 1)
  BY ParentIs
<1> DEFINE Up(n) == parsed[n].parent
           Step(n, f) == IF n = 1 THEN {} ELSE {Up(n)} \cup f[Up(n)]
           Is(m, f) == f = [n \in 1..m |-> Step(n, f)]
           found == {m \in Nat : m <= Len(parsed) => \E f : Is(m, f)}
<1>2. 0 \in found
  <2> DEFINE g == [n \in 1..0 |-> 0]
  <2>1. g = [n \in 1..0 |-> Step(n, g)]
    <3>. HIDE DEF Step
    <3>. QED OBVIOUS
  <2>. QED BY <2>1
<1>3. ASSUME NEW m \in Nat, m \in found PROVE m + 1 \in found
  <2>. SUFFICES ASSUME m + 1 <= Len(parsed) PROVE \E f : Is(m + 1, f)
    OBVIOUS
  <2>0. m <= Len(parsed)
    BY <1>1
  <2>1. PICK f : f = [n \in 1..m |-> Step(n, f)]
    BY <1>3, <2>0
  <2> DEFINE g == [n \in 1..(m + 1) |-> Step(n, f)]
  <2>2. \A n \in 1..m : g[n] = f[n]
    <3>. HIDE DEF Step
    <3>. QED BY <2>1
  <2>3. ASSUME NEW n \in 1..(m + 1) PROVE Step(n, g) = Step(n, f)
    <3>1. CASE n = 1
      BY <3>1
    <3>2. CASE n # 1
      <4>1. n \in 2..Len(parsed)
        BY <1>1, <3>2
      <4>2. Up(n) \in 1..m
        BY <1>1, <4>1
      <4>3. g[Up(n)] = f[Up(n)]
        BY <2>2, <4>2
      <4>. HIDE DEF g
      <4>. QED BY <4>3
    <3>. QED BY <3>1, <3>2
  <2>4. g = [n \in 1..(m + 1) |-> Step(n, g)]
    <3>. HIDE DEF Step
    <3>. QED BY <2>3
  <2>. HIDE DEF g
  <2>5. Is(m + 1, g)
    BY <2>4
  <2>. QED BY <2>5
<1>4. \E f : Is(Len(parsed), f)
  <2>1. Nat \subseteq found
    <3>. HIDE DEF found
    <3>. QED BY <1>2, <1>3, SetInduction
  <2>2. Len(parsed) <= Len(parsed)
    BY <1>1
  <2>3. Len(parsed) \in found
    <3>. HIDE DEF found
    <3>. QED BY <1>1, <2>1
  <2>. HIDE DEF Is
  <2>. QED BY <2>2, <2>3
<1>5. Enclosing = CHOOSE f : Is(Len(parsed), f)
  BY <1>1 DEF Enclosing
<1>6. Is(Len(parsed), Enclosing)
  <2>. HIDE DEF Is
  <2>. QED BY <1>4, <1>5
<1>7. \A n \in 1..Len(parsed) : Enclosing[n] = Step(n, Enclosing)
  <2>. HIDE DEF Step
  <2>. QED BY <1>6
<1>. QED BY <1>1, <1>7

\* What is around a node was parsed before it.
LEMMA EnclosingIsBefore ==
  ASSUME ParsedOK
  PROVE  /\ Enclosing[1] = {}
         /\ \A n \in 1..Len(parsed) : Enclosing[n] \subseteq 1..(n - 1)
         /\ \A n \in 2..Len(parsed) : Enclosing[n] = AtOrAround(parsed[n].parent)
<1>1. /\ Len(parsed) \in Nat \ {0} /\ DOMAIN parsed = 1..Len(parsed)
      /\ \A n \in 2..Len(parsed) : parsed[n].parent \in 1..(n - 1)
  BY ParentIs
<1>2. /\ Enclosing[1] = {}
      /\ \A n \in 2..Len(parsed) : Enclosing[n] = {parsed[n].parent} \cup Enclosing[parsed[n].parent]
  <2>1. 1 \in DOMAIN parsed /\ \A n \in 2..Len(parsed) : n \in DOMAIN parsed /\ n # 1
    BY <1>1
  <2>. QED BY <2>1, EnclosingIs
<1> DEFINE before == {m \in Nat : \A n \in 1..m : n <= Len(parsed) => Enclosing[n] \subseteq 1..(n - 1)}
<1>3. ASSUME NEW m \in Nat, m \in before PROVE m + 1 \in before
  <2>. SUFFICES ASSUME m + 1 <= Len(parsed) PROVE Enclosing[m + 1] \subseteq 1..m
    BY <1>3
  <2>1. CASE m = 0
    BY <1>2, <2>1
  <2>2. CASE m # 0
    <3>1. m + 1 \in 2..Len(parsed) /\ (m + 1) - 1 = m
      BY <1>1, <2>2
    <3>2. PICK p \in 1..m : p = parsed[m + 1].parent
      BY <1>1, <3>1
    <3>3. Enclosing[p] \subseteq 1..(p - 1)
      BY <1>1, <1>3, <3>2
    <3>4. Enclosing[m + 1] = {p} \cup Enclosing[p]
      BY <1>2, <3>1, <3>2
    <3>. QED BY <3>2, <3>3, <3>4
  <2>. QED BY <2>1, <2>2
<1>4. Nat \subseteq before
  <2>1. 0 \in before
    OBVIOUS
  <2>. HIDE DEF before
  <2>. QED BY <1>3, <2>1, SetInduction
<1>5. Len(parsed) \in before
  BY <1>1, <1>4
<1>. QED BY <1>1, <1>2, <1>5 DEF AtOrAround

LEMMA BothAllow ==
  ASSUME NEW exprs, Expressions(exprs), MeansConjunction(exprs), NEW v \in Valuations,
         NEW e \in exprs, NEW f \in exprs, NEW S \in SUBSET exprs, NEW T \in SUBSET exprs,
         AllowedBy(e, S, v), AllowedBy(f, T, v)
  PROVE  MakeAnd(e, f) \in exprs /\ AllowedBy(MakeAnd(e, f), S \cup T, v)
<1> DEFINE V(x) == Meaning(x, v)
<1>1. /\ \A x \in exprs : V(x) \in 0..2
      /\ V(N) = 0 /\ V(Y) = 2
      /\ V(And(e, f)) = IF V(e) < V(f) THEN V(e) ELSE V(f)
  BY DEF MeansConjunction
<1>2. MakeAnd(e, f) \in exprs
  BY DEF MakeAnd, Expressions
<1>3. V(MakeAnd(e, f)) = IF V(e) < V(f) THEN V(e) ELSE V(f)
  <2>1. V(e) \in 0..2 /\ V(f) \in 0..2
    BY <1>1
  <2>. HIDE DEF V
  <2>. QED BY <1>1, <2>1 DEF MakeAnd
<1>4. /\ \E x \in S : V(e) = V(x)
      /\ \A x \in S : V(e) <= V(x)
      /\ \E x \in T : V(f) = V(x)
      /\ \A x \in T : V(f) <= V(x)
  BY DEF AllowedBy, IsLeast
<1>5. /\ \E x \in S \cup T : V(MakeAnd(e, f)) = V(x)
      /\ \A x \in S \cup T : V(MakeAnd(e, f)) <= V(x)
  <2>1. V(e) \in 0..2 /\ V(f) \in 0..2 /\ \A x \in S \cup T : V(x) \in 0..2
    BY <1>1
  <2>. HIDE DEF V
  <2>. QED BY <1>3, <1>4, <2>1
<1>. QED BY <1>2, <1>5 DEF AllowedBy, IsLeast

LEMMA OneAllows ==
  ASSUME NEW exprs, Expressions(exprs), MeansConjunction(exprs), NEW v \in Valuations,
         NEW e \in exprs
  PROVE  AllowedBy(e, {e}, v)
<1>1. Meaning(e, v) \in 0..2
  BY DEF MeansConjunction
<1>. QED BY <1>1 DEF AllowedBy, IsLeast

\* The properties of parsed nodes are expressions of the files.
LEMMA NodeIs ==
  ASSUME ParsedOK, NEW exprs, Expressions(exprs), NEW n \in 2..Len(parsed)
  PROVE  /\ parsed[n].dep \in exprs /\ parsed[n].visible \in exprs
         /\ parsed[n].prompt # <<>> => DOMAIN parsed[n].prompt = {1} /\ parsed[n].prompt[1] \in exprs
         /\ parsed[n].item # "MENU" => parsed[n].visible = Y
         /\ DOMAIN parsed[n] = DOMAIN Top
<1>1. parsed[n] \in ParsedNodes /\ parsed[n].parent # 0
  BY ParentIs DEF ParsedOK
<1>2. Top.parent = 0
  BY DEF Top
<1>3. PICK st \in Statements, p \in Nat : parsed[n] = [st EXCEPT !.parent = p]
  BY <1>1, <1>2 DEF ParsedNodes
<1>4. /\ parsed[n].item = st.item /\ parsed[n].dep = st.dep
      /\ parsed[n].prompt = st.prompt /\ parsed[n].visible = st.visible
      /\ parsed[n] = [x \in DOMAIN Top |-> parsed[n][x]]
  BY <1>3, NodeFields
<1>. QED BY <1>4, StatementsAssumption DEF Expressions

LEMMA PropagatedFields ==
  ASSUME NEW nd, NEW up, NEW st, st = Propagated(nd, up), DOMAIN nd = DOMAIN Top
  PROVE  /\ st.item = nd.item
         /\ st.dep = MakeAnd(nd.dep, BaseDependency(up))
         /\ st.visible = IF nd.item = "MENU" THEN MakeAnd(up.visible, nd.visible) ELSE up.visible
         /\ DOMAIN st.prompt = DOMAIN nd.prompt
         /\ nd.item \in Items => \A k \in DOMAIN nd.prompt :
              st.prompt[k] = MakeAnd(nd.prompt[k], MakeAnd(up.visible, st.dep))
<1>1. {"item", "dep", "visible", "prompt", "defaults", "ranges", "selects", "implies"} \subseteq DOMAIN nd
  BY DEF Top
<1>. QED BY <1>1 DEF Propagated

\* A node depends on what is around it, and its visibility is that of the menus.
LEMMA DependenciesArePropagated ==
  ASSUME ParsedOK, NodesOK, NEW exprs, Expressions(exprs), MeansConjunction(exprs),
         NEW v \in Valuations
  PROVE  \A n \in 1..Len(parsed) :
           LET asked == {parsed[n].dep} \cup {Asks(m) : m \in FromChoice(Enclosing[n])}
               seen == {parsed[m].visible : m \in AtOrAround(n)}
           IN  /\ nodes[n].item = parsed[n].item
               /\ nodes[n].dep \in exprs /\ asked \subseteq exprs /\ AllowedBy(nodes[n].dep, asked, v)
               /\ nodes[n].visible \in exprs /\ seen \subseteq exprs /\ AllowedBy(nodes[n].visible, seen, v)
<1> DEFINE asked(n) == {parsed[n].dep} \cup {Asks(m) : m \in FromChoice(Enclosing[n])}
           seen(n) == {parsed[m].visible : m \in AtOrAround(n)}
           Holds(n) == /\ nodes[n].item = parsed[n].item
                       /\ nodes[n].dep \in exprs /\ asked(n) \subseteq exprs
                       /\ AllowedBy(nodes[n].dep, asked(n), v)
                       /\ nodes[n].visible \in exprs /\ seen(n) \subseteq exprs
                       /\ AllowedBy(nodes[n].visible, seen(n), v)
           held == {k \in Nat : \A n \in 1..k : n <= Len(parsed) => Holds(n)}
<1>1. /\ Len(parsed) \in Nat \ {0} /\ DOMAIN parsed = 1..Len(parsed)
      /\ \A n \in 2..Len(parsed) : parsed[n].parent \in 1..(n - 1)
  BY ParentIs
<1>2. Holds(1)
  <2>1. nodes[1] = Top /\ parsed[1] = Top
    BY DEF NodesOK, ParsedOK
  <2>2. Enclosing[1] = {}
    BY EnclosingIsBefore
  <2>3. Top.dep = Y /\ Top.visible = Y
    BY DEF Top
  <2>4. asked(1) = {Y} /\ seen(1) = {Y}
    BY <2>1, <2>2, <2>3 DEF FromChoice, AtOrAround
  <2>5. Y \in exprs
    BY DEF Expressions
  <2>6. AllowedBy(Y, {Y}, v)
    BY <2>5, OneAllows
  <2>. HIDE DEF asked, seen
  <2>. QED BY <2>1, <2>3, <2>4, <2>5, <2>6
<1>3. ASSUME NEW n \in 2..Len(parsed), Holds(parsed[n].parent) PROVE Holds(n)
  <2> DEFINE up == parsed[n].parent
             nd == parsed[n]
  <2>1. up \in 1..(n - 1) /\ up \in 1..Len(parsed)
    BY <1>1
  <2>2. /\ nd.dep \in exprs /\ nd.visible \in exprs
        /\ nd.item # "MENU" => nd.visible = Y
        /\ DOMAIN nd = DOMAIN Top
    BY NodeIs
  <2>3. nodes[n] = Propagated(nd, nodes[up])
    BY DEF NodesOK
  <2>4. Enclosing[n] = AtOrAround(up) /\ Enclosing[up] \subseteq 1..(up - 1)
    BY <2>1, EnclosingIsBefore
  <2>. HIDE DEF nd
  <2>5. /\ nodes[n].item = nd.item
        /\ nodes[n].dep = MakeAnd(nd.dep, BaseDependency(nodes[up]))
        /\ nodes[n].visible = IF nd.item = "MENU" THEN MakeAnd(nodes[up].visible, nd.visible)
                                                  ELSE nodes[up].visible
    BY <2>2, <2>3, PropagatedFields
  <2> DEFINE base == BaseDependency(nodes[up])
             terms == {Asks(m) : m \in FromChoice(Enclosing[n])}
  <2>6. base \in exprs /\ terms \subseteq exprs /\ AllowedBy(base, terms, v)
    <3>1. CASE parsed[up].item \in Choices
      <4>1. FromChoice(Enclosing[n]) = {up}
        BY <2>1, <2>4, <3>1 DEF FromChoice, AtOrAround
      <4>2. terms = {It(parsed[up].item)} /\ base = It(parsed[up].item)
        BY <1>3, <3>1, <4>1 DEF Asks, BaseDependency
      <4>3. It(parsed[up].item) \in exprs
        BY <3>1 DEF Expressions
      <4>. HIDE DEF base, terms
      <4>. QED BY <4>2, <4>3, OneAllows
    <3>2. CASE parsed[up].item \notin Choices
      <4>1. FromChoice(Enclosing[n]) = FromChoice(Enclosing[up]) \cup {up}
        BY <2>1, <2>4, <3>2 DEF FromChoice, AtOrAround
      <4>2. terms = asked(up) /\ base = nodes[up].dep
        BY <1>3, <3>2, <4>1 DEF Asks, BaseDependency
      <4>. HIDE DEF base, terms, asked
      <4>. QED BY <1>3, <4>2
    <3>. QED BY <3>1, <3>2
  <2>7. nodes[n].dep \in exprs /\ asked(n) \subseteq exprs /\ AllowedBy(nodes[n].dep, asked(n), v)
    <3>1. asked(n) = {nd.dep} \cup terms
      BY DEF nd
    <3>2. AllowedBy(nd.dep, {nd.dep}, v)
      BY <2>2, OneAllows
    <3>3. {nd.dep} \in SUBSET exprs /\ terms \in SUBSET exprs
      BY <2>2, <2>6
    <3>. HIDE DEF base, terms, asked
    <3>4. MakeAnd(nd.dep, base) \in exprs /\ AllowedBy(MakeAnd(nd.dep, base), {nd.dep} \cup terms, v)
      BY <2>2, <2>6, <3>2, <3>3, BothAllow
    <3>. QED BY <2>5, <3>1, <3>3, <3>4 DEF base
  <2>8. nodes[n].visible \in exprs /\ seen(n) \subseteq exprs /\ AllowedBy(nodes[n].visible, seen(n), v)
    <3>1. seen(n) = seen(up) \cup {nd.visible}
      BY <2>4 DEF nd, AtOrAround
    <3>2. AllowedBy(nd.visible, {nd.visible}, v)
      BY <2>2, OneAllows
    <3>3. {nd.visible} \in SUBSET exprs /\ seen(up) \in SUBSET exprs
      BY <1>3, <2>2
    <3>. HIDE DEF seen, asked
    <3>4. CASE nd.item = "MENU"
      <4>1. nodes[n].visible = MakeAnd(nodes[up].visible, nd.visible)
        BY <2>5, <3>4
      <4>2. nodes[up].visible \in exprs /\ AllowedBy(nodes[up].visible, seen(up), v)
        BY <1>3
      <4>. HIDE DEF up, Holds
      <4>3. /\ MakeAnd(nodes[up].visible, nd.visible) \in exprs
            /\ AllowedBy(MakeAnd(nodes[up].visible, nd.visible), seen(up) \cup {nd.visible}, v)
        BY <2>2, <3>2, <3>3, <4>2, BothAllow
      <4>. QED BY <3>1, <3>3, <4>1, <4>3
    <3>5. CASE nd.item # "MENU"
      <4>1. nodes[n].visible = nodes[up].visible /\ nd.visible = Y
        BY <2>2, <2>5, <3>5
      <4>2. MakeAnd(nodes[up].visible, Y) = nodes[up].visible
        BY DEF MakeAnd
      <4>. QED BY <1>3, <2>2, <3>1, <3>2, <3>3, <4>1, <4>2, BothAllow
    <3>. QED BY <3>4, <3>5
  <2>. QED BY <2>5, <2>7, <2>8 DEF nd
<1>4. Nat \subseteq held
  <2>1. 0 \in held
    OBVIOUS
  <2>2. ASSUME NEW k \in Nat, k \in held PROVE k + 1 \in held
    <3>. HIDE DEF Holds
    <3>. SUFFICES ASSUME k + 1 <= Len(parsed) PROVE Holds(k + 1)
      BY <2>2
    <3>1. CASE k = 0
      BY <1>2, <3>1
    <3>2. CASE k # 0
      <4>1. k + 1 \in 2..Len(parsed) /\ (k + 1) - 1 = k
        BY <1>1, <3>2
      <4>2. parsed[k + 1].parent \in 1..k
        BY <1>1, <4>1
      <4>3. Holds(parsed[k + 1].parent)
        BY <1>1, <2>2, <4>2
      <4>. QED BY <1>3, <4>1, <4>3
    <3>. QED BY <3>1, <3>2
  <2>. HIDE DEF held
  <2>. QED BY <2>1, <2>2, SetInduction
<1>5. Len(parsed) \in held
  BY <1>1, <1>4
<1>. HIDE DEF Holds
<1>6. \A n \in 1..Len(parsed) : Holds(n)
  BY <1>1, <1>5
<1>. QED BY <1>6 DEF Holds

\* A prompt of a symbol or choice is visible exactly as far as what is around it in
\* the files allows, whatever the files and the expressions in them.
THEOREM PromptsMeetTheFiles ==
  ASSUME NEW CONSTANT exprs, Expressions(exprs), MeansConjunction(exprs)
  PROVE  ParseSpec => []PromptsMeetRequirements
<1>1. ParseInv => PromptsMeetRequirements
  <2>. SUFFICES ASSUME ParsedOK, NodesOK, NEW n \in DOMAIN nodes,
                       nodes[n].item \in Items, nodes[n].prompt # <<>>, NEW v \in Valuations
                PROVE  AllowedBy(nodes[n].prompt[1], Required(n), v)
    BY DEF ParseInv, Built, PromptsMeetRequirements, AllowedBy
  <2>1. /\ Len(parsed) \in Nat \ {0} /\ DOMAIN nodes = 1..Len(parsed)
        /\ \A k \in 2..Len(parsed) : parsed[k].parent \in 1..(k - 1)
    BY ParentIs DEF NodesOK
  <2> DEFINE asked == {parsed[n].dep} \cup {Asks(m) : m \in FromChoice(Enclosing[n])}
             seen == {parsed[m].visible : m \in Enclosing[n]}
  <2>2. /\ nodes[n].item = parsed[n].item
        /\ nodes[n].dep \in exprs /\ asked \subseteq exprs /\ AllowedBy(nodes[n].dep, asked, v)
    BY <2>1, DependenciesArePropagated
  <2>3. Required(n) = ({parsed[n].prompt[1]} \cup asked) \cup seen
    BY DEF Required, Asks, FromChoice
  <2>4. CASE n = 1
    <3>1. nodes[1] = Top /\ parsed[1] = Top /\ Enclosing[1] = {}
      BY EnclosingIsBefore DEF NodesOK, ParsedOK
    <3>2. Top.prompt[1] = Y /\ Top.dep = Y
      BY DEF Top
    <3>3. Required(n) = {Y} /\ nodes[n].prompt[1] = Y
      BY <2>3, <2>4, <3>1, <3>2 DEF FromChoice
    <3>4. Y \in exprs
      BY DEF Expressions
    <3>. HIDE DEF asked, seen
    <3>. QED BY <3>3, <3>4, OneAllows
  <2>5. CASE n # 1
    <3> DEFINE nd == parsed[n]
               up == nodes[parsed[n].parent]
    <3>1. n \in 2..Len(parsed) /\ parsed[n].parent \in 1..Len(parsed)
      BY <2>1, <2>5
    <3>2. /\ nd.prompt # <<>> => DOMAIN nd.prompt = {1} /\ nd.prompt[1] \in exprs
          /\ DOMAIN nd = DOMAIN Top
      BY <3>1, NodeIs
    <3>3. nodes[n] = Propagated(nd, up)
      BY <3>1 DEF NodesOK
    <3>4. Enclosing[n] = AtOrAround(parsed[n].parent)
      BY <3>1, EnclosingIsBefore
    <3>5. up.visible \in exprs /\ seen \subseteq exprs /\ AllowedBy(up.visible, seen, v)
      BY <3>1, <3>4, DependenciesArePropagated
    <3>. HIDE DEF nd, up, asked, seen
    <3> DEFINE cond == MakeAnd(up.visible, nodes[n].dep)
    <3>6. /\ nodes[n].item = nd.item /\ DOMAIN nodes[n].prompt = DOMAIN nd.prompt
          /\ \A k \in DOMAIN nd.prompt : nodes[n].prompt[k] = MakeAnd(nd.prompt[k], cond)
      BY <2>2, <3>2, <3>3, PropagatedFields DEF nd
    <3>7. cond \in exprs /\ AllowedBy(cond, seen \cup asked, v)
      BY <2>2, <3>5, BothAllow
    <3>. HIDE DEF cond
    <3>8. nd.prompt # <<>>
      BY <3>6
    <3>9. nd.prompt[1] \in exprs /\ nodes[n].prompt[1] = MakeAnd(nd.prompt[1], cond)
      BY <3>2, <3>6, <3>8
    <3>10. AllowedBy(nd.prompt[1], {nd.prompt[1]}, v) /\ {nd.prompt[1]} \in SUBSET exprs
      BY <3>9, OneAllows
    <3>11. seen \cup asked \in SUBSET exprs
      BY <2>2, <3>5
    <3>12. AllowedBy(nodes[n].prompt[1], {nd.prompt[1]} \cup (seen \cup asked), v)
      BY <3>7, <3>9, <3>10, <3>11, BothAllow
    <3>13. Required(n) = {nd.prompt[1]} \cup (seen \cup asked)
      BY <2>3 DEF nd
    <3>. QED BY <3>12, <3>13
  <2>. QED BY <2>4, <2>5
<1>. QED BY <1>1, ParseInvariant, PTL
-----------------------------------------------------------------------------
(***************************************************************************)
(* Part 2: the search for loops.                                           *)
(***************************************************************************)
(***************************************************************************)
(* The inductive invariant: what is on the stack, what is done, and what   *)
(* is left to do.                                                          *)
(***************************************************************************)
DoneItems(vis) == {i \in Items : vis[i] = 2}

\* What a search from an item visits, whatever it was entered by.
Followers(i) == IF i \in Choices THEN SymsIn(i) ELSE dependents[i]

ChoiceOf(s) == {def[s].choice} \cap Choices

CallOK(call) ==
  IF call.item \in Choices
    THEN call.deps = {} /\ call.then \subseteq SymsIn(call.item)
    ELSE call.deps \subseteq dependents[call.item] /\ call.then \subseteq ChoiceOf(call.item)

\* The choice of a symbol is gone to before the call returns, if it is not visited.
ChoiceIsLeft(vis, call) ==
  call.item \in Symbols => \A d \in ChoiceOf(call.item) : d \in call.then \/ vis[d] # 0

\* A call that has gone on to item i.
LinkedTo(call, i) ==
  IF call.item \in Choices THEN i \in SymsIn(call.item) /\ i \notin call.then
  ELSE i \in dependents[call.item] \cup ChoiceOf(call.item)

\* The items in the middle of their searches are the ones on the stack.
StackOK(vis, cs) ==
  /\ \A k \in DOMAIN cs :
       vis[cs[k].item] = 1 /\ CallOK(cs[k]) /\ ChoiceIsLeft(vis, cs[k])
  /\ \A i \in Items : vis[i] = 1 => \E k \in DOMAIN cs : cs[k].item = i
  /\ \A j, k \in DOMAIN cs : cs[j].item = cs[k].item => j = k
  /\ \A k \in DOMAIN cs : k + 1 \in DOMAIN cs => LinkedTo(cs[k], cs[k + 1].item)

SymbolsCovered(vis, ord) ==
  \A i \in Items : \A s \in Symbols \cap dependents[i] :
    vis[s] # 0 \/ \E k \in DOMAIN ord : ord[k] = s

\* Everything that leads on from a set is in the set.
ClosedSet(R) == \A i \in R : Followers(i) \subseteq R

\* No circle in a set: each part of it has an item that leads to none of the part.
Acyclic(set) == \A T \in SUBSET set : T # {} => \E i \in T : Followers(i) \cap T = {}

\* What depends on a symbol is done, and so is all that it leads to.
Separate(vis, s) ==
  s \in Symbols /\ \E R \in SUBSET DoneItems(vis) : ClosedSet(R) /\ dependents[s] \subseteq R

\* j is the symbol by which the next call, of its choice, was entered.
EnteredBy(vis, call, j) ==
  call.deps = {} /\ call.then = {} /\ j = call.item /\ Separate(vis, j)

\* What is done leads to what is done; only a choice does not, to the symbol
\* by which it was entered, which is not done yet.
DoneClosed(vis, cs) ==
  \A i \in DoneItems(vis) : \A j \in Followers(i) :
    j \in DoneItems(vis) \/ (i \in Choices /\ cs # <<>> /\ EnteredBy(vis, cs[Len(cs)], j))

Pending(call) == IF call.item \in Choices THEN call.then ELSE call.deps

\* Where an item on the stack leads to is done, or will be gone to.
CallsCover(vis, cs) ==
  \A k \in DOMAIN cs : \A j \in Followers(cs[k].item) :
    \/ j \in DoneItems(vis) \cup Pending(cs[k])
    \/ k + 1 \in DOMAIN cs /\ j = cs[k + 1].item
    \/ k - 1 \in DOMAIN cs /\ cs[k].item \in Choices /\ EnteredBy(vis, cs[k - 1], j)

\* A set without c that its items do not lead out of, but to c: simple choices
\* are in it with their symbols.
Around(c, R) ==
  \A i \in R : /\ Followers(i) \ {c} \subseteq R
               /\ \A d \in Choices : i \in SymsIn(d) /\ Simple(d) /\ d # c => d \in R

\* Symbol s of choice c leads to no other symbol of the choice, but through c.
Apart(c, s) == \E R \in SUBSET (Items \ {c}) : R \cap SymsIn(c) = {s} /\ Around(c, R)

SimpleDone(vis, cs) ==
  \A c \in Choices : Simple(c) =>
    /\ \A s \in SymsIn(c) : vis[s] = 2 =>
         vis[c] = 2 \/ (vis[c] = 1 /\ cs # <<>> /\ cs[Len(cs)].item = c /\ cs[Len(cs)].then = {})
    /\ vis[c] = 2 => \A s \in SymsIn(c) : Apart(c, s)
    /\ \A k \in DOMAIN cs : cs[k].item = c =>
         /\ k - 1 \in DOMAIN cs
         /\ cs[k - 1].item \in SymsIn(c) \ cs[k].then
         /\ Apart(c, cs[k - 1].item)

\* What the three actions that go on to an item have in common.
Follow(stack, call) ==
  /\ stack \in Seq(Call) /\ Len(stack) = Len(calls)
  /\ \A k \in DOMAIN calls : k # Len(calls) => stack[k] = calls[k]
  /\ call \in Call /\ CallOK(call) /\ ChoiceIsLeft(visited, call)
  /\ calls # <<>> => /\ stack[Len(calls)].item = Called.item
                     /\ CallOK(stack[Len(calls)])
                     /\ LinkedTo(stack[Len(calls)], call.item)
                     /\ Called.item \in Symbols =>
                          Called.then \subseteq stack[Len(calls)].then \cup {call.item}

\* What the new call and the one that made it leave to be done.
Leaves(stack, call) ==
  /\ call.item \in Symbols => Followers(call.item) = Pending(call)
  /\ calls # <<>> =>
       /\ Called.deps # {} \/ Called.then # {}
       /\ Pending(Called) \subseteq Pending(stack[Len(calls)]) \cup {call.item}
       /\ stack[Len(calls)].then \subseteq Called.then
  /\ call.item \in Choices =>
       /\ calls # <<>> /\ Called.item \in Symbols
       /\ \/ call.item \in dependents[Called.item] /\ call.then = SymsIn(call.item)
          \/ /\ Called.deps = {} /\ stack[Len(calls)].deps = {} /\ stack[Len(calls)].then = {}
             /\ Called.item \in SymsIn(call.item) /\ call.then = SymsIn(call.item) \ {Called.item}

\* The search goes back from a symbol to the choice it was reached from, or the
\* other way round, only if the choice depends on the symbol.
NoWayBack(cs) ==
  \A k \in DOMAIN cs : k + 1 \in DOMAIN cs =>
    /\ cs[k].item \in Choices => cs[k + 1].then = {}
    /\ cs[k + 1].item \in Choices =>
         cs[k + 1].item \in dependents[cs[k].item] \/ cs[k].item \notin cs[k + 1].then

GoesThrough(call) ==
  calls # <<>> =>
    /\ Called.item \in Choices => call.item \in Called.then /\ call.then = {}
    /\ call.item \in Choices =>
         \/ call.item \in dependents[Called.item]
         \/ call.item \in Called.then /\ Called.item \notin call.then

\* Only the symbol that is gone to is taken off the list.
OrderGoesOn(call) ==
  /\ order' \in Seq(Symbols)
  /\ \A k \in DOMAIN order : order[k] = call.item \/ \E j \in DOMAIN order' : order'[j] = order[k]

SameGraph == def' = def /\ dependents' = dependents

GoingOn(stack, call) ==
  /\ Follow(stack, call) /\ Leaves(stack, call) /\ GoesThrough(call) /\ OrderGoesOn(call)
  /\ GoOn(stack, call) /\ SameGraph
-----------------------------------------------------------------------------
LEMMA Replaced ==
  ASSUME NEW S, NEW s \in Seq(S), s # <<>>, NEW x \in S
  PROVE  LET t == [s EXCEPT ![Len(s)] = x]
         IN  /\ t \in Seq(S) /\ Len(t) = Len(s) /\ t[Len(s)] = x
             /\ \A k \in DOMAIN s : k # Len(s) => t[k] = s[k]
OBVIOUS

LEMMA CalledType ==
  ASSUME SearchTypeOK, calls # <<>>
  PROVE  /\ Len(calls) \in DOMAIN calls /\ Called \in Call
         /\ Called.item \in Items /\ Called.deps \subseteq Items /\ Called.then \subseteq Items
<1>1. calls \in Seq(Call) /\ Len(calls) \in DOMAIN calls
  BY DEF SearchTypeOK
<1>2. Called \in Call
  BY <1>1 DEF Called
<1>. QED BY <1>1, <1>2 DEF Call

LEMMA SymbolCallIs ==
  ASSUME SearchTypeOK, NEW s \in Symbols, NEW ign \in BOOLEAN,
         ign => \A d \in ChoiceOf(s) : visited[d] # 0
  PROVE  LET call == SymbolCall(s, ign)
         IN  /\ call \in Call /\ call.item = s /\ call.deps = dependents[s]
             /\ ign => call.then = {}
             /\ CallOK(call) /\ ChoiceIsLeft(visited, call)
BY DEF SymbolCall, Call, SearchTypeOK, GraphOK, Items, CallOK, ChoiceOf, ChoiceIsLeft

LEMMA ChoiceCallIs ==
  ASSUME SearchTypeOK, NEW c \in Choices, NEW skip
  PROVE  LET call == ChoiceCall(c, skip)
         IN  /\ call \in Call /\ call.item = c /\ call.deps = {} /\ call.then = SymsIn(c) \ {skip}
             /\ CallOK(call) /\ ChoiceIsLeft(visited, call)
BY DEF ChoiceCall, Call, SearchTypeOK, GraphOK, Items, CallOK, ChoiceIsLeft

LEMMA CheckNextFollows ==
  ASSUME SearchTypeOK, CheckNext
  PROVE  Follow(<<>>, SymbolCall(Head(order), FALSE))
<1>1. Head(order) \in Symbols
  BY DEF SearchTypeOK, CheckNext
<1> DEFINE call == SymbolCall(Head(order), FALSE)
<1>2. call \in Call /\ CallOK(call) /\ ChoiceIsLeft(visited, call)
  <2>1. FALSE \in BOOLEAN
    OBVIOUS
  <2>. QED BY <1>1, <2>1, SymbolCallIs
<1>3. calls = <<>> /\ Len(calls) = 0 /\ DOMAIN calls = {} /\ <<>> \in Seq(Call) /\ Len(<<>>) = 0
  BY DEF CheckNext
<1> HIDE DEF call
<1>. QED BY <1>2, <1>3 DEF Follow, call

\* The stack after the call that is on top went on to a dependent.
DependentTaken(i) == [calls EXCEPT ![Len(calls)].deps = @ \ {i}]

DependentCall(i) == IF i \in Choices THEN ChoiceCall(i, NoSym) ELSE SymbolCall(i, FALSE)

LEMMA DependentFollows ==
  ASSUME SearchTypeOK, StackOK(visited, calls), calls # <<>>, NEW i \in Called.deps
  PROVE  /\ Follow(DependentTaken(i), DependentCall(i))
         /\ DependentCall(i).item = i /\ i \in Items /\ Called.item \in Symbols
         /\ i \in dependents[Called.item]
         /\ DependentTaken(i)[Len(calls)].deps = Called.deps \ {i}
         /\ DependentTaken(i)[Len(calls)].then = Called.then
         /\ i \in Choices => DependentCall(i).then = SymsIn(i)
         /\ i \in Symbols => DependentCall(i).deps = dependents[i]
<1>1. /\ Len(calls) \in DOMAIN calls /\ Called \in Call /\ Called.item \in Items
      /\ Called.deps \subseteq Items /\ Called.then \subseteq Items
  BY CalledType
<1>2. CallOK(Called) /\ Called = calls[Len(calls)] /\ calls \in Seq(Call)
  BY <1>1 DEF StackOK, Called, SearchTypeOK
<1>3. Called.item \notin Choices /\ i \in dependents[Called.item] /\ i \in Items
  BY <1>1, <1>2 DEF CallOK
<1>4. Called.item \in Symbols
  BY <1>1, <1>3 DEF Items
<1> DEFINE x == [Called EXCEPT !.deps = @ \ {i}]
           stack == DependentTaken(i)
           call == DependentCall(i)
<1>5. x \in Call /\ x.item = Called.item /\ x.deps = Called.deps \ {i} /\ x.then = Called.then
  BY <1>1 DEF Call
<1>6. stack = [calls EXCEPT ![Len(calls)] = x]
  BY <1>1, <1>2 DEF DependentTaken
<1>7. /\ stack \in Seq(Call) /\ Len(stack) = Len(calls) /\ stack[Len(calls)] = x
      /\ \A k \in DOMAIN calls : k # Len(calls) => stack[k] = calls[k]
  <2> HIDE DEF x, stack
  <2>. QED BY <1>2, <1>5, <1>6, Replaced
<1>8. CallOK(x) /\ LinkedTo(x, i)
  BY <1>2, <1>3, <1>5 DEF CallOK, LinkedTo
<1>9. /\ call \in Call /\ call.item = i /\ CallOK(call) /\ ChoiceIsLeft(visited, call)
      /\ i \in Choices => call.then = SymsIn(i)
      /\ i \in Symbols => call.deps = dependents[i]
  <2>1. Symbols \cap Choices = {} /\ NoSym \notin Symbols
    BY DEF SearchTypeOK, GraphOK
  <2>2. CASE i \in Choices
    <3>1. call = ChoiceCall(i, NoSym)
      BY <2>2 DEF DependentCall
    <3>2. SymsIn(i) \ {NoSym} = SymsIn(i) /\ i \notin Symbols
      BY <2>1, <2>2 DEF SearchTypeOK, GraphOK
    <3>3. /\ call \in Call /\ call.item = i /\ call.then = SymsIn(i) \ {NoSym}
          /\ CallOK(call) /\ ChoiceIsLeft(visited, call)
      <4> HIDE DEF call
      <4>. QED BY <2>2, <3>1, ChoiceCallIs
    <3> HIDE DEF call
    <3>. QED BY <3>2, <3>3
  <2>3. CASE i \in Symbols
    <3>1. call = SymbolCall(i, FALSE) /\ FALSE \in BOOLEAN /\ i \notin Choices
      BY <2>1, <2>3 DEF DependentCall
    <3>2. /\ call \in Call /\ call.item = i /\ call.deps = dependents[i]
          /\ CallOK(call) /\ ChoiceIsLeft(visited, call)
      <4> HIDE DEF call
      <4>. QED BY <2>3, <3>1, SymbolCallIs
    <3> HIDE DEF call
    <3>. QED BY <3>1, <3>2
  <2>. QED BY <1>3, <2>2, <2>3 DEF Items
<1> HIDE DEF x, stack, call
<1>10. Follow(stack, call)
  BY <1>5, <1>7, <1>8, <1>9 DEF Follow
<1>. QED BY <1>3, <1>4, <1>5, <1>7, <1>9, <1>10 DEF stack, call

\* The same, when it went on to a choice, or to a symbol of the choice.
ThenTaken(i) == [calls EXCEPT ![Len(calls)].then = @ \ {i}]

ThenCall(i) == IF i \in Choices THEN ChoiceCall(i, Called.item) ELSE SymbolCall(i, TRUE)

LEMMA ThenFollows ==
  ASSUME SearchTypeOK, StackOK(visited, calls), calls # <<>>, NEW i \in Called.then, Called.deps = {}
  PROVE  /\ Follow(ThenTaken(i), ThenCall(i))
         /\ ThenCall(i).item = i /\ i \in Items
         /\ ThenTaken(i)[Len(calls)].deps = {}
         /\ ThenTaken(i)[Len(calls)].then = Called.then \ {i}
         /\ i \in Choices => /\ Called.item \in SymsIn(i) /\ Called.then = {i}
                             /\ ThenCall(i).then = SymsIn(i) \ {Called.item}
         /\ i \in Symbols => /\ ThenCall(i).deps = dependents[i] /\ ThenCall(i).then = {}
                             /\ Called.item \in Choices
<1>1. /\ Len(calls) \in DOMAIN calls /\ Called \in Call /\ Called.item \in Items
      /\ Called.deps \subseteq Items /\ Called.then \subseteq Items
  BY CalledType
<1>2. CallOK(Called) /\ Called = calls[Len(calls)] /\ calls \in Seq(Call) /\ visited[Called.item] = 1
  BY <1>1 DEF StackOK, Called, SearchTypeOK
<1>3. i \in Items /\ Symbols \cap Choices = {} /\ (Called.item \in Symbols \/ Called.item \in Choices)
  BY <1>1 DEF SearchTypeOK, GraphOK, Items
<1>4. Called.item \in Choices => i \in SymsIn(Called.item) /\ i \in Symbols /\ Called.item \in ChoiceOf(i)
  BY <1>2 DEF CallOK, SearchTypeOK, GraphOK, ChoiceOf
<1>5. Called.item \in Symbols =>
        i \in Choices /\ i \in ChoiceOf(Called.item) /\ Called.then = {i} /\ Called.item \in SymsIn(i)
  BY <1>2, <1>3 DEF CallOK, SearchTypeOK, GraphOK, ChoiceOf
<1> DEFINE x == [Called EXCEPT !.then = @ \ {i}]
           stack == ThenTaken(i)
           call == ThenCall(i)
<1>6. x \in Call /\ x.item = Called.item /\ x.deps = Called.deps /\ x.then = Called.then \ {i}
  BY <1>1 DEF Call
<1>7. stack = [calls EXCEPT ![Len(calls)] = x]
  BY <1>1, <1>2 DEF ThenTaken
<1>8. /\ stack \in Seq(Call) /\ Len(stack) = Len(calls) /\ stack[Len(calls)] = x
      /\ \A k \in DOMAIN calls : k # Len(calls) => stack[k] = calls[k]
  <2> HIDE DEF x, stack
  <2>. QED BY <1>2, <1>6, <1>7, Replaced
<1>9. CallOK(x) /\ LinkedTo(x, i)
  BY <1>2, <1>3, <1>4, <1>5, <1>6 DEF CallOK, LinkedTo
<1>10. /\ call \in Call /\ call.item = i /\ CallOK(call) /\ ChoiceIsLeft(visited, call)
       /\ i \in Choices => call.then = SymsIn(i) \ {Called.item}
       /\ i \in Symbols => call.deps = dependents[i] /\ call.then = {}
  <2>1. CASE i \in Choices
    <3>1. call = ChoiceCall(i, Called.item)
      BY <2>1 DEF ThenCall
    <3> HIDE DEF call
    <3>. QED BY <1>3, <2>1, <3>1, ChoiceCallIs
  <2>2. CASE i \in Symbols
    <3>1. call = SymbolCall(i, TRUE) /\ TRUE \in BOOLEAN
      BY <1>3, <2>2 DEF ThenCall
    <3>2. \A d \in ChoiceOf(i) : visited[d] # 0
      BY <1>2, <1>3, <1>4, <1>5, <2>2 DEF ChoiceOf
    <3> HIDE DEF call
    <3>. QED BY <1>3, <2>2, <3>1, <3>2, SymbolCallIs
  <2>. QED BY <1>3, <2>1, <2>2 DEF Items
<1> HIDE DEF x, stack, call
<1>11. Follow(stack, call)
  BY <1>3, <1>6, <1>8, <1>9, <1>10 DEF Follow
<1>. QED BY <1>3, <1>4, <1>5, <1>6, <1>8, <1>10, <1>11 DEF stack, call
-----------------------------------------------------------------------------
(***************************************************************************)
(* Going on to an item: a call is pushed, nothing more is to be done, or a *)
(* loop is found.                                                          *)
(***************************************************************************)
Pushed(stack, call) ==
  /\ visited[call.item] = 0
  /\ calls' = Append(stack, call)
  /\ visited' = [visited EXCEPT ![call.item] = 1]
  /\ UNCHANGED <<status, loop>>

Skipped(stack, call) ==
  /\ visited[call.item] = 2
  /\ calls' = stack
  /\ UNCHANGED <<visited, status, loop>>

Looped(stack, call) ==
  /\ visited[call.item] = 1
  /\ calls' = stack
  /\ status' = "loop" /\ FoundDepLoop(call.item)
  /\ UNCHANGED visited

LEMMA GoOnIs ==
  ASSUME SearchTypeOK, NEW stack, NEW call, Follow(stack, call), GoOn(stack, call)
  PROVE  Pushed(stack, call) \/ Skipped(stack, call) \/ Looped(stack, call)
<1>1. call.item \in Items
  BY DEF Follow, Call
<1>2. visited[call.item] \in 0..2
  BY <1>1 DEF SearchTypeOK
<1>3. visited[call.item] \in {0, 1, 2}
  BY <1>2
<1>. QED BY <1>3 DEF GoOn, Pushed, Skipped, Looped

\* The calls of the stack while another item is followed.
LEMMA FollowedStack ==
  ASSUME SearchTypeOK, StackOK(visited, calls), NEW stack, NEW call, Follow(stack, call)
  PROVE  /\ stack \in Seq(Call) /\ Len(stack) = Len(calls) /\ Len(calls) \in Nat
         /\ \A k \in 1..Len(calls) :
              /\ stack[k].item = calls[k].item /\ stack[k].item \in Items
              /\ CallOK(stack[k]) /\ visited[stack[k].item] = 1
              /\ stack[k].item \in Symbols => \A d \in ChoiceOf(stack[k].item) :
                   d \in stack[k].then \/ d = call.item \/ visited[d] # 0
         /\ \A k \in 1..Len(calls) : k + 1 \in 1..Len(calls) => LinkedTo(stack[k], stack[k + 1].item)
         /\ Len(calls) > 0 => LinkedTo(stack[Len(calls)], call.item)
<1>1. calls \in Seq(Call) /\ Len(calls) \in Nat /\ DOMAIN calls = 1..Len(calls)
  BY DEF SearchTypeOK
<1>2. stack \in Seq(Call) /\ Len(stack) = Len(calls)
  BY DEF Follow
<1>3. Len(calls) > 0 => calls # <<>> /\ Called = calls[Len(calls)]
  BY <1>1 DEF Called
<1>4. ASSUME NEW k \in 1..Len(calls)
      PROVE  /\ stack[k].item = calls[k].item /\ stack[k].item \in Items
             /\ CallOK(stack[k]) /\ visited[stack[k].item] = 1
             /\ stack[k].item \in Symbols => \A d \in ChoiceOf(stack[k].item) :
                  d \in stack[k].then \/ d = call.item \/ visited[d] # 0
  <2>1. calls[k] \in Call /\ stack[k] \in Call /\ Len(calls) > 0
    BY <1>1, <1>2
  <2>2. CallOK(calls[k]) /\ ChoiceIsLeft(visited, calls[k]) /\ visited[calls[k].item] = 1
    BY <1>1 DEF StackOK
  <2>3. calls[k].item \in Items
    BY <2>1 DEF Call
  <2>4. CASE k # Len(calls)
    <3>1. stack[k] = calls[k]
      BY <1>1, <2>4 DEF Follow
    <3>. QED BY <2>2, <2>3, <3>1 DEF ChoiceIsLeft
  <2>5. CASE k = Len(calls)
    <3>1. /\ stack[k].item = calls[k].item /\ CallOK(stack[k])
          /\ calls[k].item \in Symbols => calls[k].then \subseteq stack[k].then \cup {call.item}
      BY <1>3, <2>1, <2>5 DEF Follow
    <3>. QED BY <2>2, <2>3, <3>1 DEF ChoiceIsLeft
  <2>. QED BY <2>4, <2>5
<1>5. ASSUME NEW k \in 1..Len(calls), k + 1 \in 1..Len(calls)
      PROVE  LinkedTo(stack[k], stack[k + 1].item)
  <2>1. stack[k] = calls[k]
    BY <1>1, <1>5 DEF Follow
  <2>2. LinkedTo(calls[k], calls[k + 1].item)
    BY <1>1, <1>5 DEF StackOK
  <2>. QED BY <1>4, <1>5, <2>1, <2>2
<1>6. Len(calls) > 0 => LinkedTo(stack[Len(calls)], call.item)
  BY <1>3 DEF Follow
<1>. QED BY <1>1, <1>2, <1>4, <1>5, <1>6

-----------------------------------------------------------------------------
LEMMA CheckNextGoesOn ==
  ASSUME SearchTypeOK, CheckNext
  PROVE  \E stack, call : GoingOn(stack, call)
<1> DEFINE call == SymbolCall(Head(order), FALSE)
<1>1. calls = <<>> /\ order # <<>> /\ order' = Tail(order) /\ SameGraph /\ GoOn(<<>>, call)
  BY DEF CheckNext, Searching, SameGraph
<1>2. order \in Seq(Symbols) /\ Head(order) \in Symbols /\ Symbols \cap Choices = {}
  BY <1>1 DEF SearchTypeOK, GraphOK
<1>3. Follow(<<>>, call)
  BY CheckNextFollows
<1>4. call.item = Head(order) /\ call.deps = dependents[Head(order)]
  BY DEF SymbolCall
<1> HIDE DEF call
<1>5. Leaves(<<>>, call)
  BY <1>1, <1>2, <1>4 DEF Leaves, Followers, Pending
<1>6. OrderGoesOn(call)
  <2>1. order' \in Seq(Symbols) /\ DOMAIN order' = 1..(Len(order) - 1) /\ Len(order) \in Nat
    BY <1>1, <1>2
  <2>2. ASSUME NEW k \in DOMAIN order
        PROVE  order[k] = call.item \/ \E j \in DOMAIN order' : order'[j] = order[k]
    <3>1. CASE k = 1
      BY <1>2, <1>4, <3>1
    <3>2. CASE k # 1
      <4>1. k - 1 \in DOMAIN order' /\ order'[k - 1] = order[k]
        BY <1>1, <1>2, <2>1, <3>2
      <4>. QED BY <4>1
    <3>. QED BY <3>1, <3>2
  <2>. QED BY <2>1, <2>2 DEF OrderGoesOn
<1>. QED BY <1>1, <1>3, <1>5, <1>6 DEF GoingOn, GoesThrough

LEMMA SameOrderGoesOn ==
  ASSUME SearchTypeOK, UNCHANGED order, NEW call
  PROVE  OrderGoesOn(call)
BY DEF OrderGoesOn, SearchTypeOK

LEMMA FollowDependentGoesOn ==
  ASSUME SearchTypeOK, StackOK(visited, calls), FollowDependent
  PROVE  \E stack, call : GoingOn(stack, call)
<1>1. calls # <<>> /\ SameGraph /\ UNCHANGED order /\ Symbols \cap Choices = {}
  BY DEF FollowDependent, Searching, SameGraph, SearchTypeOK, GraphOK
<1>2. PICK i \in Called.deps : GoOn(DependentTaken(i), DependentCall(i))
  BY DEF FollowDependent, DependentTaken, DependentCall
<1> DEFINE stack == DependentTaken(i)
           call == DependentCall(i)
<1>3. /\ Follow(stack, call) /\ call.item = i /\ i \in Items
      /\ Called.item \in Symbols /\ i \in dependents[Called.item]
      /\ stack[Len(calls)].deps = Called.deps \ {i} /\ stack[Len(calls)].then = Called.then
      /\ i \in Choices => call.then = SymsIn(i)
      /\ i \in Symbols => call.deps = dependents[i]
  BY <1>1, DependentFollows
<1>4. stack[Len(calls)].item = Called.item
  BY <1>1, <1>3 DEF Follow
<1> HIDE DEF stack, call
<1>5. Leaves(stack, call)
  BY <1>1, <1>2, <1>3, <1>4 DEF Leaves, Followers, Pending
<1>6. GoesThrough(call)
  BY <1>1, <1>3 DEF GoesThrough
<1>. QED BY <1>1, <1>2, <1>3, <1>5, <1>6, SameOrderGoesOn DEF GoingOn, stack, call

LEMMA FollowChoiceGoesOn ==
  ASSUME SearchTypeOK, StackOK(visited, calls), FollowChoice
  PROVE  \E stack, call : GoingOn(stack, call)
<1>1. /\ calls # <<>> /\ SameGraph /\ UNCHANGED order /\ Symbols \cap Choices = {}
      /\ Called.deps = {}
  BY DEF FollowChoice, Searching, SameGraph, SearchTypeOK, GraphOK
<1>2. PICK i \in Called.then : GoOn(ThenTaken(i), ThenCall(i))
  BY DEF FollowChoice, ThenTaken, ThenCall
<1> DEFINE stack == ThenTaken(i)
           call == ThenCall(i)
<1>3. /\ Follow(stack, call) /\ call.item = i /\ i \in Items
      /\ stack[Len(calls)].deps = {} /\ stack[Len(calls)].then = Called.then \ {i}
      /\ i \in Choices => /\ Called.item \in SymsIn(i) /\ Called.then = {i}
                          /\ call.then = SymsIn(i) \ {Called.item}
      /\ i \in Symbols => /\ call.deps = dependents[i] /\ call.then = {}
                          /\ Called.item \in Choices
  BY <1>1, ThenFollows
<1>4. stack[Len(calls)].item = Called.item
  BY <1>1, <1>3 DEF Follow
<1>5. i \in Choices => SymsIn(i) \subseteq Symbols
  BY DEF SearchTypeOK, GraphOK
<1> HIDE DEF stack, call
<1>6. Leaves(stack, call)
  BY <1>1, <1>2, <1>3, <1>4, <1>5 DEF Leaves, Followers, Pending
<1>7. GoesThrough(call)
  <2>1. i \in Choices => Called.item \notin Choices
    BY <1>1, <1>3, <1>5
  <2>2. i \in Symbols \/ i \in Choices
    BY <1>3 DEF Items
  <2>. QED BY <1>3, <2>1, <2>2 DEF GoesThrough
<1>. QED BY <1>1, <1>2, <1>3, <1>6, <1>7, SameOrderGoesOn DEF GoingOn, stack, call
-----------------------------------------------------------------------------
LEMMA SameGraphOK ==
  ASSUME GraphOK, SameGraph
  PROVE  GraphOK'
BY DEF GraphOK, SameGraph, SymsIn

(***************************************************************************)
(* The loop that is reported: from the item that was reached again, back   *)
(* through the calls, each of which went on to the next.                   *)
(***************************************************************************)
\* x depends on y in the way the search went from y to x.
StepOf(x, y) ==
  \/ y \in Symbols /\ x \in dependents[y]
  \/ y \in Choices /\ x \in SymsIn(y)
  \/ x \in Choices /\ y \in SymsIn(x)

NextIn(s, k) == IF k = Len(s) THEN 1 ELSE k + 1

\* A circle that does not go back and forth between a choice and its symbol.
Circle(s) ==
  \A k \in DOMAIN s :
    /\ StepOf(s[k], s[NextIn(s, k)])
    /\ s[k] \in Choices =>
         s[k] \in dependents[s[NextIn(s, k)]] \/ s[k] # s[NextIn(s, NextIn(s, k))]

LEMMA LinkedSteps ==
  ASSUME GraphOK, NEW call, call.item \in Items, NEW i, LinkedTo(call, i)
  PROVE  StepOf(i, call.item)
BY DEF GraphOK, LinkedTo, StepOf, ChoiceOf, Items

LEMMA StepDepends ==
  ASSUME GraphOK, NEW x, NEW y, StepOf(x, y)
  PROVE  DependsOn(x, y)
BY DEF GraphOK, StepOf, DependsOn

LEMMA FoundLoop ==
  ASSUME SearchTypeOK, StackOK(visited, calls), NoWayBack(calls), NEW stack, NEW call,
         Follow(stack, call), GoesThrough(call), FoundDepLoop(call.item)
  PROVE  loop' \in Seq(Items) /\ loop' # <<>> /\ Circle(loop')
<1> DEFINE n == Len(calls)
           i == call.item
<1>1. PICK m \in DOMAIN calls :
        /\ calls[m].item = i
        /\ loop' = <<i>> \o [j \in 1..(n - m) |-> calls[n + 1 - j].item]
  BY DEF FoundDepLoop
<1>2. /\ calls \in Seq(Call) /\ n \in Nat /\ DOMAIN calls = 1..n /\ m \in 1..n /\ GraphOK
      /\ i \in Items
  BY <1>1 DEF SearchTypeOK, Follow, Call
<1>3. \A k \in 1..n : calls[k] \in Call /\ calls[k].item \in Items
  <2>1. \A k \in 1..n : calls[k] \in Call
    BY <1>2
  <2>. QED BY <2>1 DEF Call
<1>4. \A k \in 1..n : k + 1 \in 1..n => StepOf(calls[k + 1].item, calls[k].item)
  <2> SUFFICES ASSUME NEW k \in 1..n, k + 1 \in 1..n
               PROVE  StepOf(calls[k + 1].item, calls[k].item)
    OBVIOUS
  <2>1. LinkedTo(calls[k], calls[k + 1].item)
    BY <1>2 DEF StackOK
  <2>. QED BY <1>2, <1>3, <2>1, LinkedSteps
<1>5. StepOf(i, calls[n].item)
  <2>1. /\ stack[n].item = calls[n].item /\ LinkedTo(stack[n], i)
    BY <1>2 DEF Follow, Called
  <2>. QED BY <1>2, <1>3, <2>1, LinkedSteps
<1> DEFINE rest == [j \in 1..(n - m) |-> calls[n + 1 - j].item]
<1>6. rest \in Seq(Items) /\ Len(rest) = n - m
  <2>1. \A j \in 1..(n - m) : n + 1 - j \in 1..n
    BY <1>2
  <2>. QED BY <1>2, <1>3, <2>1
<1>7. \A j \in 1..(n - m) : rest[j] = calls[n + 1 - j].item
  OBVIOUS
<1> HIDE DEF rest
<1>8. /\ loop' \in Seq(Items) /\ Len(loop') = n - m + 1 /\ DOMAIN loop' = 1..(n - m + 1)
      /\ loop'[1] = i
      /\ \A j \in 1..(n - m) : loop'[j + 1] = rest[j]
  <2>1. <<i>> \in Seq(Items) /\ Len(<<i>>) = 1 /\ loop' = <<i>> \o rest
    BY <1>1, <1>2 DEF rest
  <2> HIDE DEF i, n
  <2>. QED BY <1>2, <1>6, <2>1
<1> HIDE DEF i, n
<1>9. \A k \in 2..(n - m + 1) : loop'[k] = calls[n + 2 - k].item
  <2> SUFFICES ASSUME NEW k \in 2..(n - m + 1) PROVE loop'[k] = calls[n + 2 - k].item
    OBVIOUS
  <2>1. k - 1 \in 1..(n - m) /\ (k - 1) + 1 = k /\ n + 1 - (k - 1) = n + 2 - k
    BY <1>2
  <2>2. loop'[(k - 1) + 1] = rest[k - 1] /\ rest[k - 1] = calls[n + 1 - (k - 1)].item
    BY <1>7, <1>8, <2>1
  <2>. QED BY <2>1, <2>2
<1>10. ASSUME NEW k \in DOMAIN loop'
       PROVE  StepOf(loop'[k], loop'[NextIn(loop', k)])
  <2>1. k \in 1..(n - m + 1)
    BY <1>8
  <2>2. CASE k = 1 /\ n = m
    <3>1. k = Len(loop') /\ loop'[k] = i /\ loop'[1] = i /\ calls[n].item = i
      BY <1>1, <1>2, <1>8, <2>2 DEF i
    <3>. QED BY <1>5, <3>1 DEF NextIn
  <2>3. CASE k = 1 /\ n # m
    <3>1. k # Len(loop') /\ k + 1 \in 2..(n - m + 1) /\ n + 2 - (k + 1) = n
      BY <1>2, <1>8, <2>3
    <3>2. loop'[k] = i /\ loop'[k + 1] = calls[n].item
      BY <1>8, <1>9, <2>3, <3>1
    <3>. QED BY <1>5, <3>1, <3>2 DEF NextIn
  <2>4. CASE k # 1 /\ k # n - m + 1
    <3>1. /\ k # Len(loop') /\ k \in 2..(n - m + 1) /\ k + 1 \in 2..(n - m + 1)
          /\ n + 2 - k = (n + 2 - (k + 1)) + 1
          /\ n + 2 - (k + 1) \in 1..n /\ (n + 2 - (k + 1)) + 1 \in 1..n
      BY <1>2, <1>8, <2>1, <2>4
    <3>2. loop'[k] = calls[n + 2 - k].item /\ loop'[k + 1] = calls[n + 2 - (k + 1)].item
      BY <1>9, <3>1
    <3>. QED BY <1>4, <3>1, <3>2 DEF NextIn
  <2>5. CASE k # 1 /\ k = n - m + 1
    <3>1. /\ k = Len(loop') /\ k \in 2..(n - m + 1) /\ n + 2 - k = m + 1
          /\ m + 1 \in 1..n
      BY <1>2, <1>8, <2>1, <2>5
    <3>2. loop'[k] = calls[m + 1].item /\ loop'[1] = calls[m].item
      BY <1>1, <1>8, <1>9, <3>1 DEF i
    <3>. QED BY <1>2, <1>4, <3>1, <3>2 DEF NextIn
  <2>. QED BY <2>2, <2>3, <2>4, <2>5
<1>11. loop' # <<>>
  BY <1>2, <1>8
<1>12. \A j, k \in 1..(n - m + 1) : loop'[j] = loop'[k] => j = k
  <2>1. \A j, k \in 1..n : calls[j].item = calls[k].item => j = k
    BY <1>2 DEF StackOK
  <2>2. loop'[1] = calls[m].item
    BY <1>1, <1>8 DEF i
  <2>3. \A k \in 2..(n - m + 1) : n + 2 - k \in 1..n /\ n + 2 - k # m
    BY <1>2
  <2>4. \A k \in 2..(n - m + 1) : loop'[k] # loop'[1]
    BY <1>2, <1>9, <2>1, <2>2, <2>3
  <2>5. \A j, k \in 2..(n - m + 1) : loop'[j] = loop'[k] => j = k
    <3> SUFFICES ASSUME NEW j \in 2..(n - m + 1), NEW k \in 2..(n - m + 1), loop'[j] = loop'[k]
                 PROVE  j = k
      OBVIOUS
    <3>1. n + 2 - j = n + 2 - k
      BY <1>9, <2>1, <2>3
    <3>. QED BY <1>2, <3>1
  <2>6. \A k \in 1..(n - m + 1) : k = 1 \/ k \in 2..(n - m + 1)
    BY <1>2
  <2>. QED BY <2>4, <2>5, <2>6
<1>13. /\ \A j \in 1..n : j + 1 \in 1..n =>
            /\ calls[j].item \in Choices => calls[j + 1].then = {}
            /\ calls[j + 1].item \in Choices =>
                 calls[j + 1].item \in dependents[calls[j].item] \/ calls[j].item \notin calls[j + 1].then
       /\ calls # <<>> /\ Called = calls[n]
  BY <1>2 DEF NoWayBack, Called, n
<1>14. ASSUME NEW k \in DOMAIN loop', loop'[k] \in Choices,
              loop'[k] \notin dependents[loop'[NextIn(loop', k)]],
              loop'[k] = loop'[NextIn(loop', NextIn(loop', k))]
       PROVE  FALSE
  <2>1. k \in 1..(n - m + 1) /\ Len(loop') = n - m + 1
    BY <1>8
  <2>2. /\ NextIn(loop', k) \in 1..(n - m + 1)
        /\ NextIn(loop', NextIn(loop', k)) \in 1..(n - m + 1)
    BY <1>2, <2>1 DEF NextIn
  <2>3. NextIn(loop', NextIn(loop', k)) = k
    BY <1>12, <1>14, <2>1, <2>2
  <2>4. n = m \/ n = m + 1
    BY <1>2, <2>1, <2>3 DEF NextIn
  <2>5. CASE n = m
    <3>1. NextIn(loop', k) = k
      BY <1>2, <2>1, <2>5 DEF NextIn
    <3>2. StepOf(loop'[k], loop'[k])
      BY <1>10, <3>1
    <3>. QED BY <1>2, <1>14, <3>2 DEF StepOf, GraphOK
  <2>6. CASE n = m + 1 /\ k = 1
    <3>1. NextIn(loop', k) = 2 /\ 2 \in 2..(n - m + 1) /\ n + 2 - 2 = n
      BY <1>2, <2>1, <2>6 DEF NextIn
    <3>2. loop'[k] = i /\ loop'[2] = calls[n].item
      BY <1>8, <1>9, <2>6, <3>1
    <3>3. i \in Called.then
      BY <1>13, <1>14, <3>1, <3>2 DEF GoesThrough, i
    <3>4. calls[m + 1].then = {}
      <4>1. m \in 1..n /\ m + 1 \in 1..n /\ calls[m].item = i /\ i \in Choices
        <5>1. m \in 1..n /\ m + 1 \in 1..n
          BY <1>2, <2>6
        <5>2. calls[m].item = i
          BY <1>1 DEF i
        <5>3. i \in Choices
          BY <1>14, <3>2
        <5>. QED BY <5>1, <5>2, <5>3
      <4>. QED BY <1>13, <4>1
    <3>. QED BY <1>13, <2>6, <3>3, <3>4
  <2>7. CASE n = m + 1 /\ k # 1
    <3>1. k = 2 /\ NextIn(loop', k) = 1 /\ 2 \in 2..(n - m + 1) /\ n + 2 - 2 = n
      BY <1>2, <2>1, <2>7 DEF NextIn
    <3>2. loop'[k] = calls[n].item /\ loop'[1] = i /\ calls[m].item = i
      BY <1>1, <1>8, <1>9, <3>1 DEF i
    <3>3. i \in Called.then
      BY <1>13, <1>14, <3>2 DEF GoesThrough, i
    <3>4. /\ m \in 1..n /\ m + 1 \in 1..n /\ calls[m + 1].item = loop'[k]
          /\ loop'[NextIn(loop', k)] = calls[m].item
      BY <1>2, <2>7, <3>1, <3>2
    <3>5. calls[m].item \notin calls[m + 1].then
      BY <1>13, <1>14, <3>4
    <3>. QED BY <1>13, <2>7, <3>2, <3>3, <3>5
  <2>. QED BY <2>4, <2>5, <2>6, <2>7
<1>15. Circle(loop')
  BY <1>10, <1>14 DEF Circle
<1>. QED BY <1>8, <1>11, <1>15
-----------------------------------------------------------------------------
(***************************************************************************)
(* Evaluation goes round in a circle: in the values of all items, and in   *)
(* the visibility of those that depend on the symbol that comes next.      *)
(***************************************************************************)
GoesRound(s) ==
  {<<s[k], "val">> : k \in DOMAIN s}
  \cup {<<s[k], "vis">> : k \in {j \in DOMAIN s : /\ s[NextIn(s, j)] \in Symbols
                                                 /\ s[j] \in dependents[s[NextIn(s, j)]]}}

LEMMA CircleGoesRound ==
  ASSUME GraphOK, NEW s \in Seq(Items), s # <<>>, Circle(s)
  PROVE  /\ GoesRound(s) \in SUBSET {a \in Attributes : \E k \in DOMAIN s : a[1] = s[k]}
         /\ Endless(GoesRound(s))
<1> DEFINE T == GoesRound(s)
<1>1. /\ Len(s) \in Nat \ {0} /\ DOMAIN s = 1..Len(s)
      /\ \A k \in DOMAIN s : s[k] \in Items /\ NextIn(s, k) \in DOMAIN s
  BY DEF NextIn
<1>2. Symbols \cap Choices = {}
  BY DEF GraphOK
<1>3. \A k \in DOMAIN s : <<s[k], "val">> \in T /\ <<s[k], "val">> \in Attributes
  BY <1>1 DEF GoesRound, Attributes
<1>4. \A k \in DOMAIN s :
        s[NextIn(s, k)] \in Symbols /\ s[k] \in dependents[s[NextIn(s, k)]]
        => <<s[k], "vis">> \in T /\ <<s[k], "vis">> \in Attributes
  BY <1>1 DEF GoesRound, Attributes
<1>5. T \in SUBSET {a \in Attributes : \E k \in DOMAIN s : a[1] = s[k]}
  BY <1>1 DEF GoesRound, Attributes
<1>6. T # {}
  <2>1. 1 \in DOMAIN s
    BY <1>1
  <2> HIDE DEF T
  <2>. QED BY <1>3, <2>1
<1>7. ASSUME NEW k \in DOMAIN s
      PROVE  \E b \in T : b \in Attributes /\ LooksAt(<<s[k], "val">>, b)
  <2> DEFINE x == s[k]
             y == s[NextIn(s, k)]
  <2>1. /\ StepOf(x, y) /\ <<y, "val">> \in T /\ <<y, "val">> \in Attributes
        /\ x \in Choices => x \in dependents[y] \/ x # s[NextIn(s, NextIn(s, k))]
    BY <1>1, <1>3 DEF Circle
  <2> HIDE DEF T
  <2>2. CASE y \in Symbols /\ x \in dependents[y]
    <3>1. LooksAt(<<x, "val">>, <<y, "val">>)
      BY <1>2, <2>2 DEF LooksAt, Referred
    <3>. QED BY <2>1, <3>1
  <2>3. CASE y \in Choices /\ x \in SymsIn(y)
    <3>1. LooksAt(<<x, "val">>, <<y, "val">>)
      BY <2>3 DEF LooksAt
    <3>. QED BY <2>1, <3>1
  <2>4. CASE x \in Choices /\ y \in SymsIn(x) /\ x \notin dependents[y]
    <3> DEFINE z == s[NextIn(s, NextIn(s, k))]
    <3>1. StepOf(y, z) /\ x # z /\ y \in Symbols /\ y \notin Choices
      BY <1>1, <1>2, <2>1, <2>4 DEF Circle, GraphOK
    <3>2. ~(z \in Choices /\ y \in SymsIn(z))
      BY <2>4, <3>1 DEF GraphOK
    <3>3. z \in Symbols /\ y \in dependents[z]
      BY <3>1, <3>2 DEF StepOf
    <3>4. <<y, "vis">> \in T /\ <<y, "vis">> \in Attributes
      BY <1>1, <1>4, <3>3
    <3>5. LooksAt(<<x, "val">>, <<y, "vis">>)
      BY <2>4 DEF LooksAt
    <3>. QED BY <3>4, <3>5
  <2>5. CASE x \in Choices /\ y \in SymsIn(x) /\ x \in dependents[y]
    <3>1. y \in Symbols
      BY <2>5 DEF GraphOK
    <3>. QED BY <2>2, <2>5, <3>1
  <2>. QED BY <2>1, <2>2, <2>3, <2>4, <2>5 DEF StepOf
<1>8. ASSUME NEW k \in DOMAIN s, s[NextIn(s, k)] \in Symbols, s[k] \in dependents[s[NextIn(s, k)]]
      PROVE  \E b \in T : b \in Attributes /\ LooksAt(<<s[k], "vis">>, b)
  <2> DEFINE y == s[NextIn(s, k)]
  <2>1. <<y, "val">> \in T /\ <<y, "val">> \in Attributes
    BY <1>1, <1>3
  <2>2. LooksAt(<<s[k], "vis">>, <<y, "val">>)
    BY <1>2, <1>8 DEF LooksAt, Referred
  <2> HIDE DEF T
  <2>. QED BY <2>1, <2>2
<1>9. \A a \in T : \E b \in T : b \in Attributes /\ LooksAt(a, b)
  <2> SUFFICES ASSUME NEW a \in T PROVE \E b \in T : b \in Attributes /\ LooksAt(a, b)
    OBVIOUS
  <2>1. \/ \E k \in DOMAIN s : a = <<s[k], "val">>
        \/ \E k \in DOMAIN s : /\ s[NextIn(s, k)] \in Symbols /\ s[k] \in dependents[s[NextIn(s, k)]]
                               /\ a = <<s[k], "vis">>
    BY DEF GoesRound
  <2> HIDE DEF T
  <2>. QED BY <1>7, <1>8, <2>1
<1> HIDE DEF T
<1>10. Endless(T)
  BY <1>6, <1>9 DEF Endless, Reads
<1>. QED BY <1>5, <1>10 DEF T
-----------------------------------------------------------------------------
LEMMA GoingOnTyped ==
  ASSUME SearchTypeOK, StackOK(visited, calls), NoWayBack(calls), NEW stack, NEW call, GoingOn(stack, call)
  PROVE  SearchTypeOK'
<1>1. GraphOK' /\ order' \in Seq(Symbols)
  BY SameGraphOK DEF SearchTypeOK, GoingOn, OrderGoesOn
<1>2. stack \in Seq(Call) /\ call \in Call /\ call.item \in Items
  BY DEF GoingOn, Follow, Call
<1>3. Follow(stack, call) /\ GoOn(stack, call) /\ GoesThrough(call)
  BY DEF GoingOn
<1>4. CASE Pushed(stack, call)
  <2>1. calls' \in Seq(Call) /\ visited' \in [Items -> 0..2]
    BY <1>2, <1>4 DEF Pushed, SearchTypeOK
  <2>. QED BY <1>1, <1>4, <2>1 DEF Pushed, SearchTypeOK, Call
<1>5. CASE Skipped(stack, call)
  BY <1>1, <1>2, <1>5 DEF Skipped, SearchTypeOK, Call
<1>6. CASE Looped(stack, call)
  <2>1. loop' \in Seq(Items)
    BY <1>3, <1>6, FoundLoop DEF Looped
  <2>. QED BY <1>1, <1>2, <1>6, <2>1 DEF Looped, SearchTypeOK, Call
<1>. QED BY <1>3, <1>4, <1>5, <1>6, GoOnIs

LEMMA SameEndless ==
  ASSUME SameGraph, NEW T
  PROVE  Endless(T)' <=> Endless(T)
BY DEF SameGraph, Endless, Reads, LooksAt, SymsIn

LEMMA GoingOnReports ==
  ASSUME SearchTypeOK, StackOK(visited, calls), NoWayBack(calls), NEW stack, NEW call,
         GoingOn(stack, call), status = "searching"
  PROVE  ReportedLoopIsOne'
<1>1. Follow(stack, call) /\ GoOn(stack, call) /\ GoesThrough(call) /\ SameGraph /\ GraphOK
  BY DEF GoingOn, SearchTypeOK
<1>2. CASE status' = "loop"
  <2>1. FoundDepLoop(call.item)
    BY <1>1, <1>2 DEF GoOn
  <2>2. loop' \in Seq(Items) /\ loop' # <<>> /\ Circle(loop')
    BY <1>1, <2>1, FoundLoop
  <2>3. \A k \in DOMAIN loop' : DependsOn(loop'[k], loop'[IF k = Len(loop') THEN 1 ELSE k + 1])
    BY <1>1, <2>2, StepDepends DEF Circle, NextIn
  <2>4. (\A k \in DOMAIN loop : DependsOn(loop[k], loop[IF k = Len(loop) THEN 1 ELSE k + 1]))'
    BY <1>1, <2>3 DEF DependsOn, SymsIn, SameGraph
  <2>5. \E T \in SUBSET {a \in Attributes : \E k \in DOMAIN loop' : a[1] = loop'[k]} : Endless(T)
    BY <1>1, <2>2, CircleGoesRound
  <2>6. (\E T \in SUBSET {a \in Attributes : \E k \in DOMAIN loop : a[1] = loop[k]} : Endless(T))'
    BY <1>1, <2>5, SameEndless
  <2>. QED BY <2>2, <2>4, <2>6 DEF ReportedLoopIsOne
<1>. QED BY <1>2 DEF ReportedLoopIsOne
-----------------------------------------------------------------------------
(***************************************************************************)
(* The stack while the search goes on, and when a call returns.            *)
(***************************************************************************)
LEMMA PushedStack ==
  ASSUME SearchTypeOK, StackOK(visited, calls), NEW stack, NEW call,
         Follow(stack, call), Pushed(stack, call)
  PROVE  StackOK(visited', calls')
<1> DEFINE n == Len(calls)
<1>1. /\ stack \in Seq(Call) /\ Len(stack) = n /\ n \in Nat
      /\ \A k \in 1..n :
           /\ stack[k].item = calls[k].item /\ stack[k].item \in Items
           /\ CallOK(stack[k]) /\ visited[stack[k].item] = 1
           /\ stack[k].item \in Symbols => \A d \in ChoiceOf(stack[k].item) :
                d \in stack[k].then \/ d = call.item \/ visited[d] # 0
      /\ \A k \in 1..n : k + 1 \in 1..n => LinkedTo(stack[k], stack[k + 1].item)
      /\ n > 0 => LinkedTo(stack[n], call.item)
  BY FollowedStack
<1>2. /\ call \in Call /\ CallOK(call) /\ ChoiceIsLeft(visited, call) /\ call.item \in Items
  BY DEF Follow, Call
<1>3. /\ \A i \in Items : visited[i] = 1 => \E k \in 1..n : calls[k].item = i
      /\ \A j, k \in 1..n : calls[j].item = calls[k].item => j = k
  <2>1. DOMAIN calls = 1..n
    BY DEF SearchTypeOK
  <2>. QED BY <2>1 DEF StackOK
<1>4. /\ visited[call.item] = 0 /\ visited \in [Items -> 0..2]
      /\ visited' = [visited EXCEPT ![call.item] = 1]
  BY DEF Pushed, SearchTypeOK
<1>5. /\ DOMAIN calls' = 1..(n + 1) /\ calls'[n + 1] = call
      /\ \A k \in 1..n : calls'[k] = stack[k]
  BY <1>1, <1>2 DEF Pushed
<1>6. /\ visited'[call.item] = 1
      /\ \A i \in Items : i # call.item => visited'[i] = visited[i]
  BY <1>2, <1>4
<1> HIDE DEF n
<1>7. ASSUME NEW k \in DOMAIN calls'
      PROVE  visited'[calls'[k].item] = 1 /\ CallOK(calls'[k]) /\ ChoiceIsLeft(visited', calls'[k])
  <2>1. ChoiceOf(calls'[k].item) \subseteq Items
    BY DEF ChoiceOf, Items
  <2>2. CASE k = n + 1
    BY <1>2, <1>4, <1>5, <1>6, <2>1, <2>2 DEF ChoiceIsLeft
  <2>3. CASE k \in 1..n
    <3>1. calls'[k] = stack[k]
      BY <1>5, <2>3
    <3>. QED BY <1>1, <1>2, <1>4, <1>6, <2>1, <2>3, <3>1 DEF ChoiceIsLeft
  <2>. QED BY <1>1, <1>5, <2>2, <2>3
<1>8. ASSUME NEW i \in Items, visited'[i] = 1
      PROVE  \E k \in DOMAIN calls' : calls'[k].item = i
  <2>1. CASE i = call.item
    BY <1>1, <1>5, <2>1
  <2>2. CASE i # call.item
    <3>1. PICK k \in 1..n : calls[k].item = i
      BY <1>3, <1>6, <1>8, <2>2
    <3>2. k \in DOMAIN calls' /\ calls'[k].item = i
      BY <1>1, <1>5, <3>1
    <3>. QED BY <3>2
  <2>. QED BY <2>1, <2>2
<1>9. ASSUME NEW j \in DOMAIN calls', NEW k \in DOMAIN calls', calls'[j].item = calls'[k].item
      PROVE  j = k
  <2>1. \A m \in 1..n : calls'[m].item = calls[m].item /\ calls'[m].item # call.item
    BY <1>1, <1>4, <1>5
  <2>. QED BY <1>1, <1>3, <1>5, <1>9, <2>1
<1>10. ASSUME NEW k \in DOMAIN calls', k + 1 \in DOMAIN calls'
       PROVE  LinkedTo(calls'[k], calls'[k + 1].item)
  <2>1. CASE k = n
    BY <1>1, <1>5, <1>10, <2>1
  <2>2. CASE k # n
    <3>1. k \in 1..n /\ k + 1 \in 1..n
      BY <1>1, <1>5, <1>10, <2>2
    <3>. QED BY <1>1, <1>5, <3>1
  <2>. QED BY <2>1, <2>2
<1>. QED BY <1>7, <1>8, <1>9, <1>10 DEF StackOK

LEMMA SkippedStack ==
  ASSUME SearchTypeOK, StackOK(visited, calls), NEW stack, NEW call,
         Follow(stack, call), Skipped(stack, call)
  PROVE  StackOK(visited', calls')
<1> DEFINE n == Len(calls)
<1>1. /\ stack \in Seq(Call) /\ Len(stack) = n /\ n \in Nat
      /\ \A k \in 1..n :
           /\ stack[k].item = calls[k].item /\ stack[k].item \in Items
           /\ CallOK(stack[k]) /\ visited[stack[k].item] = 1
           /\ stack[k].item \in Symbols => \A d \in ChoiceOf(stack[k].item) :
                d \in stack[k].then \/ d = call.item \/ visited[d] # 0
      /\ \A k \in 1..n : k + 1 \in 1..n => LinkedTo(stack[k], stack[k + 1].item)
  BY FollowedStack
<1>2. calls' = stack /\ visited' = visited /\ DOMAIN stack = 1..n /\ visited[call.item] = 2
  BY <1>1 DEF Skipped
<1>3. /\ \A i \in Items : visited[i] = 1 => \E k \in 1..n : calls[k].item = i
      /\ \A j, k \in 1..n : calls[j].item = calls[k].item => j = k
  <2>1. DOMAIN calls = 1..n
    BY DEF SearchTypeOK
  <2>. QED BY <2>1 DEF StackOK
<1> HIDE DEF n
<1>4. ASSUME NEW k \in 1..n
      PROVE  visited[stack[k].item] = 1 /\ CallOK(stack[k]) /\ ChoiceIsLeft(visited, stack[k])
  BY <1>1, <1>2 DEF ChoiceIsLeft
<1>5. /\ \A i \in Items : visited[i] = 1 => \E k \in 1..n : stack[k].item = i
      /\ \A j, k \in 1..n : stack[j].item = stack[k].item => j = k
  BY <1>1, <1>3
<1>6. StackOK(visited, stack)
  BY <1>1, <1>2, <1>4, <1>5 DEF StackOK
<1>. QED BY <1>2, <1>6

LEMMA ReturnIs ==
  ASSUME SearchTypeOK, StackOK(visited, calls), Return
  PROVE  /\ Len(calls) \in Nat \ {0} /\ DOMAIN calls = 1..Len(calls) /\ calls # <<>>
         /\ Called = calls[Len(calls)] /\ Called.deps = {} /\ Called.then = {}
         /\ Called.item \in Items /\ visited[Called.item] = 1
         /\ visited' = [visited EXCEPT ![Called.item] = 2]
         /\ DoneItems(visited') = DoneItems(visited) \cup {Called.item}
         /\ Called.item \notin DoneItems(visited)
         /\ calls' \in Seq(Call) /\ Len(calls') = Len(calls) - 1
         /\ DOMAIN calls' = 1..(Len(calls) - 1)
         /\ \A k \in 1..(Len(calls) - 1) : calls'[k] = calls[k]
         /\ SameGraph /\ UNCHANGED <<order, loop, status>>
<1>1. /\ calls # <<>> /\ Called.deps = {} /\ Called.then = {}
      /\ visited' = [visited EXCEPT ![Called.item] = 2]
      /\ calls' = SubSeq(calls, 1, Len(calls) - 1)
      /\ SameGraph /\ UNCHANGED <<order, loop, status>>
  BY DEF Return, Searching, SameGraph
<1>2. /\ calls \in Seq(Call) /\ Len(calls) \in Nat \ {0} /\ DOMAIN calls = 1..Len(calls)
      /\ visited \in [Items -> 0..2]
  BY <1>1 DEF SearchTypeOK
<1>3. Called = calls[Len(calls)] /\ Called.item \in Items /\ visited[Called.item] = 1
  BY <1>1, <1>2, CalledType DEF StackOK, Called
<1>4. /\ calls' \in Seq(Call) /\ Len(calls') = Len(calls) - 1
      /\ DOMAIN calls' = 1..(Len(calls) - 1)
      /\ \A k \in 1..(Len(calls) - 1) : calls'[k] = calls[k]
  BY <1>1, <1>2
<1>5. /\ DoneItems(visited') = DoneItems(visited) \cup {Called.item}
      /\ Called.item \notin DoneItems(visited)
  BY <1>1, <1>2, <1>3 DEF DoneItems
<1>. QED BY <1>1, <1>2, <1>3, <1>4, <1>5

LEMMA ReturnTyped ==
  ASSUME SearchTypeOK, StackOK(visited, calls), Return
  PROVE  SearchTypeOK'
<1>1. GraphOK'
  BY ReturnIs, SameGraphOK DEF SearchTypeOK
<1>2. /\ calls' \in Seq(Call) /\ visited' = [visited EXCEPT ![Called.item] = 2]
      /\ Called.item \in Items /\ UNCHANGED <<order, loop, status>>
  BY ReturnIs
<1>3. visited' \in [Items -> 0..2]
  <2>1. visited \in [Items -> 0..2]
    BY DEF SearchTypeOK
  <2>. QED BY <1>2, <2>1
<1>. QED BY <1>1, <1>2, <1>3 DEF SearchTypeOK, Call

LEMMA ReturnStack ==
  ASSUME SearchTypeOK, StackOK(visited, calls), Return
  PROVE  StackOK(visited', calls')
<1> DEFINE n == Len(calls)
           x == Called.item
<1>1. /\ n \in Nat \ {0} /\ DOMAIN calls = 1..n /\ DOMAIN calls' = 1..(n - 1)
      /\ \A k \in 1..(n - 1) : calls'[k] = calls[k]
      /\ visited' = [visited EXCEPT ![x] = 2] /\ x \in Items /\ x = calls[n].item
  BY ReturnIs
<1>2. visited \in [Items -> 0..2]
  BY DEF SearchTypeOK
<1>3. \A k \in 1..n : calls[k].item \in Items
  <2>1. \A k \in 1..n : calls[k] \in Call
    BY <1>1 DEF SearchTypeOK
  <2>. QED BY <2>1 DEF Call
<1>4. /\ \A k \in 1..n : visited[calls[k].item] = 1 /\ CallOK(calls[k]) /\ ChoiceIsLeft(visited, calls[k])
      /\ \A i \in Items : visited[i] = 1 => \E k \in 1..n : calls[k].item = i
      /\ \A j, k \in 1..n : calls[j].item = calls[k].item => j = k
      /\ \A k \in 1..n : k + 1 \in 1..n => LinkedTo(calls[k], calls[k + 1].item)
  BY <1>1 DEF StackOK
<1> HIDE DEF n, x
<1>5. \A k \in 1..(n - 1) : k \in 1..n /\ calls[k].item # x
  BY <1>1, <1>4
<1>6. ASSUME NEW k \in 1..(n - 1)
      PROVE  visited'[calls[k].item] = 1 /\ CallOK(calls[k]) /\ ChoiceIsLeft(visited', calls[k])
  <2>1. ChoiceOf(calls[k].item) \subseteq Items
    BY DEF ChoiceOf, Items
  <2>2. \A d \in Items : visited[d] # 0 => visited'[d] # 0
    BY <1>1, <1>2
  <2>. QED BY <1>1, <1>2, <1>3, <1>4, <1>5, <2>1, <2>2 DEF ChoiceIsLeft
<1>7. \A i \in Items : visited'[i] = 1 => \E k \in 1..(n - 1) : calls[k].item = i
  <2> SUFFICES ASSUME NEW i \in Items, visited'[i] = 1
               PROVE  \E k \in 1..(n - 1) : calls[k].item = i
    OBVIOUS
  <2>1. i # x /\ visited[i] = 1
    BY <1>1, <1>2
  <2>2. PICK k \in 1..n : calls[k].item = i
    BY <1>4, <2>1
  <2>3. k # n
    BY <1>1, <2>1, <2>2
  <2>. QED BY <1>1, <2>2, <2>3
<1>8. \A j, k \in 1..(n - 1) : calls[j].item = calls[k].item => j = k
  BY <1>4, <1>5
<1>9. \A k \in 1..(n - 1) : k + 1 \in 1..(n - 1) => LinkedTo(calls[k], calls[k + 1].item)
  BY <1>4, <1>5
<1>10. \A k \in DOMAIN calls' :
         visited'[calls'[k].item] = 1 /\ CallOK(calls'[k]) /\ ChoiceIsLeft(visited', calls'[k])
  BY <1>1, <1>6
<1>11. \A i \in Items : visited'[i] = 1 => \E k \in DOMAIN calls' : calls'[k].item = i
  BY <1>1, <1>7
<1>12. \A j, k \in DOMAIN calls' : calls'[j].item = calls'[k].item => j = k
  BY <1>1, <1>8
<1>13. \A k \in DOMAIN calls' : k + 1 \in DOMAIN calls' => LinkedTo(calls'[k], calls'[k + 1].item)
  BY <1>1, <1>9
<1>. QED BY <1>10, <1>11, <1>12, <1>13 DEF StackOK
-----------------------------------------------------------------------------
(***************************************************************************)
(* What is done is closed and has no circle, and what is on the stack will *)
(* lead nowhere else.                                                      *)
(***************************************************************************)
SearchedOK(vis, cs) == DoneClosed(vis, cs) /\ Acyclic(DoneItems(vis)) /\ CallsCover(vis, cs)

\* While a call has something left to do, all that is done leads to what is done.
LEMMA DoneIsClosed ==
  ASSUME SearchTypeOK, StackOK(visited, calls), DoneClosed(visited, calls),
         calls # <<>> => Called.deps # {} \/ Called.then # {}
  PROVE  ClosedSet(DoneItems(visited))
BY DEF DoneClosed, ClosedSet, EnteredBy, Called

\* All that depends on a symbol is done when the search goes to its choice.
LEMMA DependentsAreDone ==
  ASSUME SearchTypeOK, StackOK(visited, calls), CallsCover(visited, calls),
         calls # <<>>, Called.item \in Symbols, Called.deps = {}
  PROVE  dependents[Called.item] \subseteq DoneItems(visited)
<1>1. Len(calls) \in DOMAIN calls /\ Called.item \notin Choices
  BY CalledType DEF SearchTypeOK, GraphOK
<1>2. Len(calls) + 1 \notin DOMAIN calls
  BY DEF SearchTypeOK
<1>. QED BY <1>1, <1>2 DEF CallsCover, Followers, Pending, Called

LEMMA SeparateGrows ==
  ASSUME NEW vis, NEW vis2, DoneItems(vis) \subseteq DoneItems(vis2), NEW s, Separate(vis, s)
  PROVE  Separate(vis2, s)
BY DEF Separate

LEMMA EnteredGrows ==
  ASSUME NEW vis, NEW vis2, DoneItems(vis) \subseteq DoneItems(vis2),
         NEW call, NEW j, EnteredBy(vis, call, j)
  PROVE  EnteredBy(vis2, call, j)
BY SeparateGrows DEF EnteredBy

\* The calls after the search went on to an item.
LEMMA NewCalls ==
  ASSUME SearchTypeOK, StackOK(visited, calls), NEW stack, NEW call, Follow(stack, call),
         Pushed(stack, call) \/ Skipped(stack, call)
  PROVE  /\ Len(calls) \in Nat /\ DOMAIN calls = 1..Len(calls)
         /\ call \in Call /\ call.item \in Items
         /\ Len(calls) > 0 => calls # <<>> /\ Called = calls[Len(calls)]
         /\ calls # <<>> => Len(calls) > 0
         /\ DoneItems(visited') = DoneItems(visited)
         /\ \A k \in 1..Len(calls) :
              /\ calls'[k] = stack[k] /\ stack[k].item = calls[k].item
              /\ k # Len(calls) => stack[k] = calls[k]
         /\ \/ /\ DOMAIN calls' = 1..(Len(calls) + 1) /\ calls'[Len(calls) + 1] = call
               /\ Len(calls') = Len(calls) + 1 /\ visited[call.item] = 0
            \/ DOMAIN calls' = 1..Len(calls) /\ Len(calls') = Len(calls) /\ visited[call.item] = 2
<1>1. /\ Len(calls) \in Nat /\ DOMAIN calls = 1..Len(calls) /\ visited \in [Items -> 0..2]
      /\ call \in Call /\ call.item \in Items
  BY DEF SearchTypeOK, Follow, Call
<1>2. /\ stack \in Seq(Call) /\ Len(stack) = Len(calls) /\ DOMAIN stack = 1..Len(calls)
  BY <1>1 DEF Follow
<1>3. \A k \in 1..Len(calls) : stack[k].item = calls[k].item /\ (k # Len(calls) => stack[k] = calls[k])
  <2>1. \A k \in 1..Len(calls) : k # Len(calls) => stack[k] = calls[k]
    BY <1>1 DEF Follow
  <2>2. \A k \in 1..Len(calls) : stack[k].item = calls[k].item
    BY FollowedStack
  <2>. QED BY <2>1, <2>2
<1>4. /\ Len(calls) > 0 => calls # <<>> /\ Called = calls[Len(calls)]
      /\ calls # <<>> => Len(calls) > 0
  BY DEF Called, SearchTypeOK
<1>5. CASE Pushed(stack, call)
  <2>1. /\ calls' = Append(stack, call) /\ visited' = [visited EXCEPT ![call.item] = 1]
        /\ visited[call.item] = 0
    BY <1>5 DEF Pushed
  <2>2. /\ DOMAIN calls' = 1..(Len(calls) + 1) /\ calls'[Len(calls) + 1] = call
        /\ Len(calls') = Len(calls) + 1 /\ visited[call.item] = 0
        /\ \A k \in 1..Len(calls) : calls'[k] = stack[k]
    BY <1>1, <1>2, <2>1
  <2>3. DoneItems(visited') = DoneItems(visited)
    BY <1>1, <2>1 DEF DoneItems
  <2>. QED BY <1>1, <1>3, <1>4, <2>2, <2>3
<1>6. CASE Skipped(stack, call)
  <2>1. calls' = stack /\ visited' = visited /\ visited[call.item] = 2
    BY <1>6 DEF Skipped
  <2>2. DoneItems(visited') = DoneItems(visited)
    BY <2>1
  <2>. QED BY <1>1, <1>2, <1>3, <1>4, <2>1, <2>2
<1>. QED BY <1>5, <1>6

LEMMA GoingOnSearched ==
  ASSUME SearchTypeOK, StackOK(visited, calls), SearchedOK(visited, calls),
         NEW stack, NEW call, GoingOn(stack, call),
         Pushed(stack, call) \/ Skipped(stack, call)
  PROVE  SearchedOK(visited', calls')
<1> DEFINE n == Len(calls)
           done == DoneItems(visited)
<1>1. /\ n \in Nat /\ DOMAIN calls = 1..n /\ call \in Call /\ call.item \in Items
      /\ n > 0 => calls # <<>> /\ Called = calls[n]
      /\ calls # <<>> => n > 0
      /\ \A k \in 1..n : /\ calls'[k] = stack[k] /\ stack[k].item = calls[k].item
                         /\ k # n => stack[k] = calls[k]
      /\ \/ DOMAIN calls' = 1..(n + 1) /\ calls'[n + 1] = call /\ Len(calls') = n + 1
         \/ DOMAIN calls' = 1..n /\ Len(calls') = n /\ visited[call.item] = 2
  BY NewCalls DEF GoingOn
<1>2. Leaves(stack, call) /\ Symbols \cap Choices = {}
  BY DEF GoingOn, SearchTypeOK, GraphOK
<1>3. DoneItems(visited') = done
  BY NewCalls DEF GoingOn
<1>4. visited[call.item] = 2 => call.item \in done
  BY <1>1 DEF DoneItems
<1>7. ClosedSet(done)
  BY DoneIsClosed, <1>2 DEF Leaves, SearchedOK
<1>8. DoneClosed(visited', calls')
  BY <1>3, <1>7 DEF DoneClosed, ClosedSet
<1>9. Acyclic(DoneItems(visited'))
  BY <1>3 DEF SearchedOK
<1>10. ASSUME NEW c2, NEW j, EnteredBy(visited, c2, j)
       PROVE  EnteredBy(visited', c2, j)
  BY <1>3, <1>10 DEF EnteredBy, Separate
<1> HIDE DEF n, done
<1>11. ASSUME NEW k \in 1..n, NEW j \in Followers(calls'[k].item)
       PROVE  \/ j \in done \cup Pending(calls'[k])
              \/ k + 1 \in DOMAIN calls' /\ j = calls'[k + 1].item
              \/ k - 1 \in DOMAIN calls' /\ calls'[k].item \in Choices /\ EnteredBy(visited', calls'[k - 1], j)
  <2>1. calls'[k] = stack[k] /\ calls'[k].item = calls[k].item
    BY <1>1
  <2>2. \/ j \in done \cup Pending(calls[k])
        \/ k + 1 \in 1..n /\ j = calls[k + 1].item
        \/ k - 1 \in 1..n /\ calls[k].item \in Choices /\ EnteredBy(visited, calls[k - 1], j)
    BY <1>1, <1>11, <2>1 DEF SearchedOK, CallsCover, done
  <2>3. CASE j \in done \cup Pending(calls[k])
    <3>1. CASE k # n
      BY <1>1, <2>1, <2>3, <3>1
    <3>2. CASE k = n
      <4>1. Pending(calls[k]) \subseteq Pending(calls'[k]) \cup {call.item}
        <5>1. Called = calls[n] /\ calls # <<>>
          BY <1>1, <3>2
        <5>2. Pending(Called) \subseteq Pending(stack[n]) \cup {call.item}
          BY <1>2, <5>1 DEF Leaves, n
        <5>. QED BY <2>1, <3>2, <5>1, <5>2
      <4>. QED BY <1>1, <1>4, <2>3, <3>2, <4>1
    <3>. QED BY <3>1, <3>2
  <2>4. CASE k + 1 \in 1..n /\ j = calls[k + 1].item
    BY <1>1, <2>4
  <2>5. CASE k - 1 \in 1..n /\ calls[k].item \in Choices /\ EnteredBy(visited, calls[k - 1], j)
    <3>1. k - 1 # n /\ k - 1 \in DOMAIN calls'
      BY <1>1, <2>5
    <3>2. calls'[k - 1] = calls[k - 1]
      BY <1>1, <2>5, <3>1
    <3>. QED BY <1>10, <2>1, <2>5, <3>1, <3>2
  <2>. QED BY <2>2, <2>3, <2>4, <2>5
<1>12. ASSUME Len(calls') = n + 1, calls'[n + 1] = call, NEW j \in Followers(call.item)
       PROVE  \/ j \in Pending(call)
              \/ n \in DOMAIN calls' /\ call.item \in Choices /\ EnteredBy(visited', calls'[n], j)
  <2>1. CASE call.item \in Symbols
    BY <1>2, <1>12, <2>1 DEF Leaves
  <2>2. CASE call.item \in Choices
    <3>1. calls # <<>> /\ Called.item \in Symbols
      BY <1>2, <2>2 DEF Leaves
    <3>2. Pending(call) = call.then /\ Followers(call.item) = SymsIn(call.item)
      BY <2>2 DEF Pending, Followers
    <3>3. CASE call.then = SymsIn(call.item)
      BY <1>12, <3>2, <3>3
    <3>4. CASE /\ Called.deps = {} /\ stack[n].deps = {} /\ stack[n].then = {}
               /\ Called.item \in SymsIn(call.item) /\ call.then = SymsIn(call.item) \ {Called.item}
      <4>1. n \in 1..n /\ n \in DOMAIN calls' /\ calls'[n] = stack[n] /\ stack[n].item = Called.item
        <5>1. n > 0 /\ calls # <<>>
          BY <1>1, <3>1
        <5>2. n \in 1..n /\ n \in DOMAIN calls'
          BY <1>1, <5>1
        <5>. QED BY <1>1, <5>1, <5>2
      <4>2. dependents[Called.item] \subseteq done
        BY <3>1, <3>4, DependentsAreDone DEF SearchedOK, done
      <4>3. Separate(visited', Called.item)
        BY <1>3, <1>7, <3>1, <4>2 DEF Separate
      <4>4. CASE j = Called.item
        BY <2>2, <3>4, <4>1, <4>3, <4>4 DEF EnteredBy
      <4>5. CASE j # Called.item
        BY <1>12, <3>2, <3>4, <4>5
      <4>. QED BY <4>4, <4>5
    <3>. QED BY <1>2, <2>2, <3>3, <3>4 DEF Leaves, n
  <2>. QED BY <1>1, <2>1, <2>2 DEF Items
<1>13. CallsCover(visited', calls')
  <2> SUFFICES ASSUME NEW k \in DOMAIN calls', NEW j \in Followers(calls'[k].item)
               PROVE  \/ j \in done \cup Pending(calls'[k])
                      \/ k + 1 \in DOMAIN calls' /\ j = calls'[k + 1].item
                      \/ /\ k - 1 \in DOMAIN calls' /\ calls'[k].item \in Choices
                         /\ EnteredBy(visited', calls'[k - 1], j)
    BY <1>3 DEF CallsCover, done
  <2>1. CASE k \in 1..n
    BY <1>11, <2>1
  <2>2. CASE k \notin 1..n
    <3>1. k = n + 1 /\ Len(calls') = n + 1 /\ calls'[n + 1] = call /\ k - 1 = n
      BY <1>1, <2>2
    <3>. QED BY <1>12, <3>1
  <2>. QED BY <2>1, <2>2
<1>. QED BY <1>8, <1>9, <1>13 DEF SearchedOK

(***************************************************************************)
(* When a call returns, its item does not close a circle: if it is a symbol*)
(* by which a choice was entered, nothing that depends on it leads to the  *)
(* choice.                                                                 *)
(***************************************************************************)
LEMMA AcyclicReturn ==
  ASSUME NEW done, NEW x, Acyclic(done), NEW R \in SUBSET done, ClosedSet(R),
         Followers(x) \cap (done \cup {x}) \subseteq R,
         (\A i \in done : x \notin Followers(i)) \/ Followers(x) \subseteq R
  PROVE  Acyclic(done \cup {x})
<1> SUFFICES ASSUME NEW T \in SUBSET (done \cup {x}), T # {}, \A i \in T : Followers(i) \cap T # {}
             PROVE  FALSE
  BY DEF Acyclic
<1>1. CASE T \cap R # {}
  <2>1. \A i \in T \cap R : Followers(i) \cap (T \cap R) # {}
    BY DEF ClosedSet
  <2>. QED BY <1>1, <2>1 DEF Acyclic
<1>2. CASE T \cap R = {}
  <2>1. x \notin T
    BY <1>2
  <2>. QED BY <2>1 DEF Acyclic
<1>. QED BY <1>1, <1>2

LEMMA ReturnSearched ==
  ASSUME SearchTypeOK, StackOK(visited, calls), SearchedOK(visited, calls), Return
  PROVE  SearchedOK(visited', calls')
<1> DEFINE n == Len(calls)
           done == DoneItems(visited)
           x == Called.item
<1>1. /\ n \in Nat \ {0} /\ DOMAIN calls = 1..n /\ calls # <<>>
      /\ Called = calls[n] /\ Called.deps = {} /\ Called.then = {}
      /\ x \in Items /\ visited[x] = 1
      /\ DoneItems(visited') = done \cup {x} /\ x \notin done
      /\ Len(calls') = n - 1 /\ DOMAIN calls' = 1..(n - 1)
      /\ \A k \in 1..(n - 1) : calls'[k] = calls[k]
  BY ReturnIs
<1>2. /\ DoneClosed(visited, calls) /\ Acyclic(done) /\ CallsCover(visited, calls)
      /\ Symbols \cap Choices = {}
  BY DEF SearchedOK, SearchTypeOK, GraphOK
<1>3. \A k \in 1..n : calls[k].item \notin done
  BY <1>1 DEF StackOK, DoneItems
<1>4. \A k \in 1..n : calls[k].item = x => k = n
  <2>1. \A j, k \in 1..n : calls[j].item = calls[k].item => j = k
    BY <1>1 DEF StackOK
  <2>2. n \in 1..n /\ x = calls[n].item
    BY <1>1
  <2>. QED BY <2>1, <2>2
<1>5. ASSUME NEW c2, NEW j, EnteredBy(visited, c2, j)
      PROVE  EnteredBy(visited', c2, j)
  <2>1. done \subseteq DoneItems(visited')
    BY <1>1
  <2>. QED BY <1>5, <2>1, EnteredGrows
<1> HIDE DEF n, x, done
<1>6. \A j \in Followers(x) :
        \/ j \in done
        \/ n - 1 \in 1..n /\ x \in Choices /\ EnteredBy(visited, calls[n - 1], j)
  <2>1. n \in 1..n /\ n + 1 \notin 1..n /\ Pending(calls[n]) = {}
    BY <1>1 DEF Pending
  <2>2. x = calls[n].item
    BY <1>1 DEF x
  <2>. QED BY <1>1, <1>2, <2>1, <2>2 DEF CallsCover, done
<1>7. \A j \in Followers(x) : j \in done \/ j \notin done \cup {x}
  <2>1. \A j : n - 1 \in 1..n /\ EnteredBy(visited, calls[n - 1], j) => j \notin done \cup {x}
    BY <1>1, <1>3, <1>4 DEF EnteredBy
  <2>. QED BY <1>6, <2>1
<1>8. \A i \in done : \A j \in Followers(i) :
        j \in done \/ (i \in Choices /\ j = x /\ Separate(visited, x))
  BY <1>1, <1>2 DEF DoneClosed, EnteredBy, done, x, n
<1>9. Acyclic(done \cup {x})
  <2>1. CASE \A i \in done : x \notin Followers(i)
    <3>1. ClosedSet(done)
      BY <1>8, <2>1 DEF ClosedSet
    <3>2. Followers(x) \cap (done \cup {x}) \subseteq done
      BY <1>7
    <3>. QED BY <1>2, <2>1, <3>1, <3>2, AcyclicReturn
  <2>2. CASE \E i \in done : x \in Followers(i)
    <3>1. Separate(visited, x)
      BY <1>1, <1>8, <2>2
    <3>2. PICK R \in SUBSET done : ClosedSet(R) /\ dependents[x] \subseteq R
      BY <3>1 DEF Separate, done
    <3>3. Followers(x) \subseteq R
      BY <1>2, <3>1, <3>2 DEF Followers, Separate
    <3>. QED BY <1>2, <3>2, <3>3, AcyclicReturn
  <2>. QED BY <2>1, <2>2
<1>10. DoneClosed(visited', calls')
  <2> SUFFICES ASSUME NEW i \in done \cup {x}, NEW j \in Followers(i), j \notin done \cup {x}
               PROVE  i \in Choices /\ calls' # <<>> /\ EnteredBy(visited', calls'[Len(calls')], j)
    BY <1>1 DEF DoneClosed
  <2>1. i = x
    BY <1>8
  <2>2. n - 1 \in 1..n /\ x \in Choices /\ EnteredBy(visited, calls[n - 1], j)
    BY <1>6, <2>1
  <2>3. Len(calls') = n - 1 /\ calls'[n - 1] = calls[n - 1] /\ calls' # <<>>
    <3>1. n - 1 \in 1..(n - 1) /\ n - 1 # 0
      BY <1>1, <2>2
    <3>. QED BY <1>1, <3>1
  <2>. QED BY <1>5, <2>1, <2>2, <2>3
<1>11. CallsCover(visited', calls')
  <2> SUFFICES ASSUME NEW k \in 1..(n - 1), NEW j \in Followers(calls'[k].item)
               PROVE  \/ j \in done \cup {x} \cup Pending(calls'[k])
                      \/ k + 1 \in 1..(n - 1) /\ j = calls'[k + 1].item
                      \/ /\ k - 1 \in 1..(n - 1) /\ calls'[k].item \in Choices
                         /\ EnteredBy(visited', calls'[k - 1], j)
    BY <1>1 DEF CallsCover
  <2>1. calls'[k] = calls[k] /\ k \in 1..n
    BY <1>1
  <2>2. \/ j \in done \cup Pending(calls[k])
        \/ k + 1 \in 1..n /\ j = calls[k + 1].item
        \/ k - 1 \in 1..n /\ calls[k].item \in Choices /\ EnteredBy(visited, calls[k - 1], j)
    BY <1>1, <1>2, <2>1 DEF CallsCover, done
  <2>3. CASE j \in done \cup Pending(calls[k])
    BY <2>1, <2>3
  <2>4. CASE k + 1 \in 1..n /\ j = calls[k + 1].item
    <3>1. CASE k + 1 = n
      BY <1>1, <2>4, <3>1 DEF x
    <3>2. CASE k + 1 # n
      <4>1. k + 1 \in 1..(n - 1)
        BY <1>1, <2>4, <3>2
      <4>. QED BY <1>1, <2>4, <4>1
    <3>. QED BY <3>1, <3>2
  <2>5. CASE k - 1 \in 1..n /\ calls[k].item \in Choices /\ EnteredBy(visited, calls[k - 1], j)
    <3>1. k - 1 \in 1..(n - 1)
      BY <1>1, <2>5
    <3>. QED BY <1>1, <1>5, <2>1, <2>5, <3>1
  <2>. QED BY <2>2, <2>3, <2>4, <2>5
<1>. QED BY <1>1, <1>9, <1>10, <1>11 DEF SearchedOK

-----------------------------------------------------------------------------
(***************************************************************************)
(* Simple choices: once one is done, neither of its symbols leads to the   *)
(* other.                                                                  *)
(***************************************************************************)
LEMMA SimpleIsDone ==
  ASSUME SearchTypeOK, SimpleDone(visited, calls), NEW c \in Choices, Simple(c),
         NEW s \in SymsIn(c), s \in DoneItems(visited),
         calls # <<>> => Called.item # c \/ Called.then # {}
  PROVE  c \in DoneItems(visited)
<1>1. visited[s] = 2
  BY DEF DoneItems
<1>2. visited[c] = 2 \/ (visited[c] = 1 /\ calls # <<>> /\ Called.item = c /\ Called.then = {})
  BY <1>1 DEF SimpleDone, Called
<1>. QED BY <1>2 DEF DoneItems, Items

LEMMA EnteredApart ==
  ASSUME SearchTypeOK, StackOK(visited, calls), SearchedOK(visited, calls),
         SimpleDone(visited, calls), NEW c \in Choices, Simple(c), visited[c] = 0,
         calls # <<>>, Called.item \in SymsIn(c), Called.deps = {}, Called.then # {}
  PROVE  Apart(c, Called.item)
<1> DEFINE s == Called.item
           done == DoneItems(visited)
           R == done \cup {s}
<1>1. /\ s \in Symbols /\ c \notin Symbols /\ s \in Items /\ c # s /\ Symbols \cap Choices = {}
      /\ \A d \in Choices : s \in SymsIn(d) => d = c
  BY DEF SearchTypeOK, GraphOK, Items
<1>2. c \notin done
  BY DEF DoneItems
<1>3. done \cap SymsIn(c) = {}
  BY <1>2, SimpleIsDone
<1>4. ClosedSet(done) /\ Followers(s) \subseteq done
  <2>1. Followers(s) = dependents[s]
    BY <1>1 DEF Followers
  <2>. QED BY <1>1, <2>1, DoneIsClosed, DependentsAreDone DEF SearchedOK
<1>5. \A i \in done : \A d \in Choices : i \in SymsIn(d) /\ Simple(d) => d \in done
  BY SimpleIsDone
<1>6. done \subseteq Items
  BY DEF DoneItems
<1> HIDE DEF s, done
<1>7. R \in SUBSET (Items \ {c}) /\ R \cap SymsIn(c) = {s}
  BY <1>1, <1>2, <1>3, <1>6 DEF s
<1>8. Around(c, R)
  BY <1>1, <1>4, <1>5 DEF Around, ClosedSet
<1>. QED BY <1>7, <1>8 DEF Apart, s

LEMMA GoingOnSimple ==
  ASSUME SearchTypeOK, StackOK(visited, calls), SearchedOK(visited, calls),
         SimpleDone(visited, calls), NEW stack, NEW call, GoingOn(stack, call),
         Pushed(stack, call) \/ Skipped(stack, call)
  PROVE  SimpleDone(visited', calls')
<1> DEFINE n == Len(calls)
           done == DoneItems(visited)
<1>1. /\ n \in Nat /\ DOMAIN calls = 1..n /\ call \in Call /\ call.item \in Items
      /\ n > 0 => calls # <<>> /\ Called = calls[n]
      /\ calls # <<>> => n > 0
      /\ \A k \in 1..n : /\ calls'[k] = stack[k] /\ stack[k].item = calls[k].item
                         /\ k # n => stack[k] = calls[k]
      /\ \/ DOMAIN calls' = 1..(n + 1) /\ calls'[n + 1] = call /\ visited[call.item] = 0
         \/ DOMAIN calls' = 1..n
  BY NewCalls DEF GoingOn
<1>2. Leaves(stack, call) /\ Symbols \cap Choices = {}
  BY DEF GoingOn, SearchTypeOK, GraphOK
<1>3. DoneItems(visited') = done
  BY NewCalls DEF GoingOn
<1>4. \A i \in Items : visited'[i] = 2 <=> i \in done
  BY <1>3 DEF DoneItems
<1>5. \A i \in Items : visited[i] = 2 <=> i \in done
  BY DEF DoneItems
<1> SUFFICES ASSUME NEW c \in Choices, Simple(c)
             PROVE  /\ \A s \in SymsIn(c) : visited'[s] = 2 => visited'[c] = 2
                    /\ visited'[c] = 2 => \A s \in SymsIn(c) : Apart(c, s)
                    /\ \A k \in DOMAIN calls' : calls'[k].item = c =>
                         /\ k - 1 \in DOMAIN calls'
                         /\ calls'[k - 1].item \in SymsIn(c) \ calls'[k].then
                         /\ Apart(c, calls'[k - 1].item)
  BY DEF SimpleDone
<1>6. c \in Items /\ SymsIn(c) \subseteq Symbols /\ SymsIn(c) \subseteq Items
  BY DEF SearchTypeOK, GraphOK, Items
<1>7. calls # <<>> => Called.item # c \/ Called.then # {}
  <2>1. calls # <<>> /\ Called.item = c => Called.deps = {}
    BY CalledType DEF StackOK, CallOK, Called
  <2>. QED BY <1>2, <2>1 DEF Leaves
<1>8. \A s \in SymsIn(c) : s \in done => c \in done
  BY <1>7, SimpleIsDone
<1>9. c \in done => \A s \in SymsIn(c) : Apart(c, s)
  BY <1>5, <1>6 DEF SimpleDone
<1> HIDE DEF n, done
<1>10. ASSUME NEW k \in 1..n, calls'[k].item = c
       PROVE  /\ k - 1 \in DOMAIN calls'
              /\ calls'[k - 1].item \in SymsIn(c) \ calls'[k].then
              /\ Apart(c, calls'[k - 1].item)
  <2>1. calls[k].item = c
    BY <1>1, <1>10
  <2>2. /\ k - 1 \in 1..n /\ calls[k - 1].item \in SymsIn(c) \ calls[k].then
        /\ Apart(c, calls[k - 1].item)
    BY <1>1, <2>1 DEF SimpleDone
  <2>3. k - 1 \in DOMAIN calls' /\ calls'[k - 1].item = calls[k - 1].item
    BY <1>1, <2>2
  <2>4. calls'[k].then \subseteq calls[k].then
    <3>1. CASE k # n
      BY <1>1, <3>1
    <3>2. CASE k = n
      <4>1. Called = calls[n] /\ calls # <<>> /\ calls'[k] = stack[n]
        BY <1>1, <3>2
      <4>. QED BY <1>2, <3>2, <4>1 DEF Leaves, n
    <3>. QED BY <3>1, <3>2
  <2>. QED BY <2>2, <2>3, <2>4
<1>11. ASSUME calls'[n + 1] = call, visited[call.item] = 0, call.item = c, DOMAIN calls' = 1..(n + 1)
       PROVE  /\ n \in DOMAIN calls'
              /\ calls'[n].item \in SymsIn(c) \ call.then
              /\ Apart(c, calls'[n].item)
  <2>1. calls # <<>> /\ Called.item \in Symbols
    BY <1>2, <1>11 DEF Leaves
  <2>2. c \notin dependents[Called.item]
    BY <2>1 DEF Simple
  <2>3. /\ Called.deps = {} /\ stack[n].then = {}
        /\ Called.item \in SymsIn(c) /\ call.then = SymsIn(c) \ {Called.item}
    BY <1>2, <1>11, <2>2 DEF Leaves, n
  <2>4. Called.then # {}
    BY <1>2, <2>1, <2>3 DEF Leaves
  <2>5. Apart(c, Called.item)
    BY <1>11, <2>1, <2>3, <2>4, EnteredApart
  <2>6. n \in 1..n /\ n \in DOMAIN calls' /\ calls'[n].item = Called.item
    <3>1. n > 0
      BY <1>1, <2>1
    <3>2. n \in 1..n /\ n \in DOMAIN calls'
      BY <1>1, <1>11, <3>1
    <3>. QED BY <1>1, <3>1, <3>2
  <2>. QED BY <2>3, <2>5, <2>6
<1>12. ASSUME NEW k \in DOMAIN calls', calls'[k].item = c
       PROVE  /\ k - 1 \in DOMAIN calls'
              /\ calls'[k - 1].item \in SymsIn(c) \ calls'[k].then
              /\ Apart(c, calls'[k - 1].item)
  <2>1. CASE k \in 1..n
    BY <1>10, <1>12, <2>1
  <2>2. CASE k \notin 1..n
    <3>1. /\ k = n + 1 /\ k - 1 = n /\ DOMAIN calls' = 1..(n + 1) /\ calls'[n + 1] = call
          /\ visited[call.item] = 0
      BY <1>1, <2>2
    <3>2. call.item = c
      BY <1>12, <3>1
    <3>. QED BY <1>11, <3>1, <3>2
  <2>. QED BY <2>1, <2>2
<1>. QED BY <1>4, <1>6, <1>8, <1>9, <1>12

(***************************************************************************)
(* A symbol of a simple choice returns when the choice is on the stack: it *)
(* is the second symbol, right above the choice, as the first one is below *)
(* the choice.  So it is the last thing the choice had to go to.           *)
(***************************************************************************)
LEMMA SecondReturns ==
  ASSUME SearchTypeOK, StackOK(visited, calls), SimpleDone(visited, calls), Return,
         NEW c \in Choices, Simple(c), visited[c] = 1, Called.item \in SymsIn(c)
  PROVE  calls' # <<>> /\ calls'[Len(calls')].item = c /\ calls'[Len(calls')].then = {}
<1> DEFINE n == Len(calls)
           x == Called.item
<1>1. /\ n \in Nat \ {0} /\ DOMAIN calls = 1..n /\ x = calls[n].item /\ x \in Items
      /\ Len(calls') = n - 1 /\ DOMAIN calls' = 1..(n - 1)
      /\ \A k \in 1..(n - 1) : calls'[k] = calls[k]
  BY ReturnIs
<1>2. x # c /\ c \in Items
  BY DEF SearchTypeOK, GraphOK, Items
<1> HIDE DEF n, x
<1>3. PICK k \in 1..n : calls[k].item = c
  BY <1>1, <1>2 DEF StackOK
<1>4. k - 1 \in 1..n /\ calls[k - 1].item \in SymsIn(c) \ calls[k].then
  BY <1>1, <1>3 DEF SimpleDone
<1>5. k # n /\ k + 1 \in 1..n /\ k - 1 # n /\ k - 1 # k + 1
  BY <1>1, <1>2, <1>3
<1>6. LinkedTo(calls[k], calls[k + 1].item) /\ CallOK(calls[k])
  BY <1>1, <1>3, <1>5 DEF StackOK
<1>7. calls[k + 1].item \in SymsIn(c) \ calls[k].then /\ calls[k].then \subseteq SymsIn(c)
  BY <1>3, <1>6 DEF LinkedTo, CallOK
<1>8. \A i, j \in 1..n : calls[i].item = calls[j].item => i = j
  BY <1>1 DEF StackOK
<1>9. calls[k - 1].item # calls[k + 1].item /\ calls[k - 1].item # x
  BY <1>1, <1>4, <1>5, <1>8
<1>10. \A s \in SymsIn(c) : s = calls[k - 1].item \/ s = calls[k + 1].item
  BY <1>4, <1>7, <1>9 DEF Simple
<1>11. calls[k].then = {}
  BY <1>4, <1>7, <1>10
<1>12. calls[k + 1].item = calls[n].item
  BY <1>1, <1>9, <1>10 DEF x
<1>13. k + 1 = n
  BY <1>1, <1>5, <1>8, <1>12
<1>14. k = n - 1 /\ k \in 1..(n - 1) /\ n - 1 # 0
  BY <1>1, <1>3, <1>13
<1>. QED BY <1>1, <1>3, <1>11, <1>14

LEMMA ReturnSimple ==
  ASSUME SearchTypeOK, StackOK(visited, calls), SearchedOK(visited, calls),
         SimpleDone(visited, calls), Return
  PROVE  SimpleDone(visited', calls')
<1> DEFINE n == Len(calls)
           done == DoneItems(visited)
           x == Called.item
<1>1. /\ n \in Nat \ {0} /\ DOMAIN calls = 1..n /\ calls # <<>>
      /\ Called = calls[n] /\ Called.deps = {} /\ Called.then = {}
      /\ x \in Items /\ visited[x] = 1
      /\ visited' = [visited EXCEPT ![x] = 2]
      /\ DoneItems(visited') = done \cup {x} /\ x \notin done
      /\ DOMAIN calls' = 1..(n - 1)
      /\ \A k \in 1..(n - 1) : calls'[k] = calls[k]
  BY ReturnIs
<1>2. visited \in [Items -> 0..2] /\ Symbols \cap Choices = {}
  BY DEF SearchTypeOK, GraphOK
<1> SUFFICES ASSUME NEW c \in Choices, Simple(c)
             PROVE  /\ \A s \in SymsIn(c) : visited'[s] = 2 =>
                         \/ visited'[c] = 2
                         \/ /\ visited'[c] = 1 /\ calls' # <<>>
                            /\ calls'[Len(calls')].item = c /\ calls'[Len(calls')].then = {}
                    /\ visited'[c] = 2 => \A s \in SymsIn(c) : Apart(c, s)
                    /\ \A k \in DOMAIN calls' : calls'[k].item = c =>
                         /\ k - 1 \in DOMAIN calls'
                         /\ calls'[k - 1].item \in SymsIn(c) \ calls'[k].then
                         /\ Apart(c, calls'[k - 1].item)
  BY DEF SimpleDone
<1>3. /\ c \in Items /\ SymsIn(c) \subseteq Symbols /\ SymsIn(c) \subseteq Items
      /\ \A s \in SymsIn(c) : def[s].choice = c
  BY DEF SearchTypeOK, GraphOK, Items
<1>4. /\ \A s \in SymsIn(c) : visited[s] = 2 => visited[c] = 2 \/ (visited[c] = 1 /\ x = c)
      /\ visited[c] = 2 => \A s \in SymsIn(c) : Apart(c, s)
      /\ \A k \in 1..n : calls[k].item = c =>
           /\ k - 1 \in 1..n /\ calls[k - 1].item \in SymsIn(c) \ calls[k].then
           /\ Apart(c, calls[k - 1].item)
  BY <1>1 DEF SimpleDone
<1>5. /\ visited'[x] = 2
      /\ \A i \in Items : i # x => visited'[i] = visited[i]
  BY <1>1, <1>2
<1>6. ASSUME NEW k \in DOMAIN calls', calls'[k].item = c
      PROVE  /\ k - 1 \in DOMAIN calls'
             /\ calls'[k - 1].item \in SymsIn(c) \ calls'[k].then
             /\ Apart(c, calls'[k - 1].item)
  <2>1. k \in 1..n /\ calls'[k] = calls[k]
    BY <1>1
  <2>2. /\ k - 1 \in 1..n /\ calls[k - 1].item \in SymsIn(c) \ calls[k].then
        /\ Apart(c, calls[k - 1].item)
    BY <1>4, <1>6, <2>1
  <2>3. k - 1 \in 1..(n - 1)
    BY <1>1, <2>2
  <2>. QED BY <1>1, <2>1, <2>2, <2>3
<1>7. ASSUME NEW s \in SymsIn(c), visited'[s] = 2
      PROVE  \/ visited'[c] = 2
             \/ /\ visited'[c] = 1 /\ calls' # <<>>
                /\ calls'[Len(calls')].item = c /\ calls'[Len(calls')].then = {}
  <2>1. CASE c = x
    BY <1>5, <2>1
  <2>2. CASE c # x /\ s # x
    <3>1. visited[s] = 2
      BY <1>3, <1>5, <1>7, <2>2
    <3>. QED BY <1>3, <1>4, <1>5, <2>2, <3>1
  <2>3. CASE c # x /\ s = x
    <3>1. visited[c] # 0
      <4>1. ChoiceIsLeft(visited, Called)
        BY <1>1 DEF StackOK
      <4>2. c \in ChoiceOf(x) /\ x \in Symbols
        BY <1>3, <2>3 DEF ChoiceOf
      <4>. QED BY <1>1, <4>1, <4>2 DEF ChoiceIsLeft
    <3>2. CASE visited[c] = 1
      BY <1>3, <1>5, <2>3, <3>2, SecondReturns
    <3>3. CASE visited[c] = 2
      BY <1>3, <1>5, <2>3, <3>3
    <3>4. visited[c] \in {1, 2}
      <4>1. visited[c] \in 0..2
        BY <1>2, <1>3
      <4>. QED BY <3>1, <4>1
    <3>. QED BY <3>2, <3>3, <3>4
  <2>. QED BY <2>1, <2>2, <2>3
<1>8. ASSUME visited'[c] = 2, NEW s \in SymsIn(c)
      PROVE  Apart(c, s)
  <2>1. CASE c # x
    BY <1>3, <1>4, <1>5, <1>8, <2>1
  <2>2. CASE c = x
    <3>1. /\ n - 1 \in 1..n /\ calls[n - 1].item \in SymsIn(c) /\ Apart(c, calls[n - 1].item)
      <4>1. n \in 1..n /\ calls[n].item = c
        BY <1>1, <2>2
      <4>. QED BY <1>4, <4>1
    <3>2. CASE s = calls[n - 1].item
      BY <3>1, <3>2
    <3>3. CASE s # calls[n - 1].item
      <4> DEFINE t == calls[n - 1].item
      <4>1. t \notin done /\ s # t /\ t \in SymsIn(c)
        BY <1>1, <3>1, <3>3 DEF StackOK, DoneItems
      <4>2. s \in done
        <5>1. s \in Followers(calls[n].item) /\ calls[n].item \in Choices /\ Pending(calls[n]) = {}
          BY <1>1, <2>2 DEF Followers, Pending
        <5>2. n \in 1..n /\ n + 1 \notin 1..n
          BY <1>1
        <5>3. s \in done \/ EnteredBy(visited, calls[n - 1], s)
          BY <1>1, <5>1, <5>2 DEF SearchedOK, CallsCover
        <5>. QED BY <3>3, <5>3 DEF EnteredBy
      <4>3. done \cap SymsIn(c) = {s}
        BY <4>1, <4>2 DEF Simple
      <4>4. done \in SUBSET (Items \ {c})
        BY <1>1, <2>2 DEF DoneItems
      <4>5. Around(c, done)
        <5>1. \A i \in done : Followers(i) \ {c} \subseteq done
          BY <1>1, <2>2 DEF SearchedOK, DoneClosed, EnteredBy
        <5>2. \A i \in done : \A d \in Choices : i \in SymsIn(d) /\ Simple(d) /\ d # c => d \in done
          BY <1>1, <2>2, SimpleIsDone
        <5>. QED BY <5>1, <5>2 DEF Around
      <4> HIDE DEF done
      <4>. QED BY <4>3, <4>4, <4>5 DEF Apart
    <3>. QED BY <3>2, <3>3
  <2>. QED BY <2>1, <2>2
<1>. QED BY <1>6, <1>7, <1>8
-----------------------------------------------------------------------------
LEMMA GoingOnCovers ==
  ASSUME SearchTypeOK, SymbolsCovered(visited, order), NEW stack, NEW call, GoingOn(stack, call),
         Pushed(stack, call) \/ Skipped(stack, call)
  PROVE  SymbolsCovered(visited', order')
<1>1. call.item \in Items /\ visited \in [Items -> 0..2] /\ OrderGoesOn(call)
  BY DEF GoingOn, Follow, Call, SearchTypeOK
<1>2. /\ visited'[call.item] # 0
      /\ \A i \in Items : visited[i] # 0 => visited'[i] # 0
  BY <1>1 DEF Pushed, Skipped
<1>3. Symbols \subseteq Items
  BY DEF Items
<1>. QED BY <1>1, <1>2, <1>3 DEF SymbolsCovered, OrderGoesOn

LEMMA ReturnCovers ==
  ASSUME SearchTypeOK, StackOK(visited, calls), SymbolsCovered(visited, order), Return
  PROVE  SymbolsCovered(visited', order')
<1>1. /\ visited' = [visited EXCEPT ![Called.item] = 2] /\ UNCHANGED order /\ Called.item \in Items
      /\ visited \in [Items -> 0..2] /\ Symbols \subseteq Items
  BY ReturnIs DEF SearchTypeOK, Items
<1>2. \A i \in Items : visited[i] # 0 => visited'[i] # 0
  BY <1>1
<1>. QED BY <1>1, <1>2 DEF SymbolsCovered
-----------------------------------------------------------------------------
LEMMA GoingOnNoWayBack ==
  ASSUME SearchTypeOK, StackOK(visited, calls), NoWayBack(calls), NEW stack, NEW call,
         GoingOn(stack, call), Pushed(stack, call) \/ Skipped(stack, call)
  PROVE  NoWayBack(calls')
<1> DEFINE n == Len(calls)
<1>1. /\ n \in Nat /\ DOMAIN calls = 1..n /\ call \in Call
      /\ n > 0 => calls # <<>> /\ Called = calls[n]
      /\ \A k \in 1..n : /\ calls'[k] = stack[k] /\ stack[k].item = calls[k].item
                         /\ k # n => stack[k] = calls[k]
      /\ \/ DOMAIN calls' = 1..(n + 1) /\ calls'[n + 1] = call
         \/ DOMAIN calls' = 1..n
  BY NewCalls DEF GoingOn
<1>2. Leaves(stack, call) /\ GoesThrough(call)
  BY DEF GoingOn
<1>3. n > 0 => stack[n].then \subseteq calls[n].then
  BY <1>1, <1>2 DEF Leaves, n
<1>4. \A k \in 1..n : k + 1 \in 1..n =>
        /\ calls[k].item \in Choices => calls[k + 1].then = {}
        /\ calls[k + 1].item \in Choices =>
             calls[k + 1].item \in dependents[calls[k].item] \/ calls[k].item \notin calls[k + 1].then
  BY <1>1 DEF NoWayBack
<1> HIDE DEF n
<1>5. \A k \in 1..n : calls'[k].item = calls[k].item /\ calls'[k].then \subseteq calls[k].then
  BY <1>1, <1>3
<1> SUFFICES ASSUME NEW k \in DOMAIN calls', k + 1 \in DOMAIN calls'
             PROVE  /\ calls'[k].item \in Choices => calls'[k + 1].then = {}
                    /\ calls'[k + 1].item \in Choices =>
                         \/ calls'[k + 1].item \in dependents[calls'[k].item]
                         \/ calls'[k].item \notin calls'[k + 1].then
  BY DEF NoWayBack
<1>6. CASE k + 1 \in 1..n
  <2>1. k \in 1..n
    BY <1>1, <1>6
  <2>2. /\ calls[k].item \in Choices => calls[k + 1].then = {}
        /\ calls[k + 1].item \in Choices =>
             calls[k + 1].item \in dependents[calls[k].item] \/ calls[k].item \notin calls[k + 1].then
    BY <1>4, <1>6, <2>1
  <2>3. /\ calls'[k].item = calls[k].item /\ calls'[k + 1].item = calls[k + 1].item
        /\ calls'[k + 1].then \subseteq calls[k + 1].then
    BY <1>5, <1>6, <2>1
  <2>. QED BY <2>2, <2>3
<1>7. CASE k + 1 \notin 1..n
  <2>1. k = n /\ n > 0 /\ n \in 1..n /\ calls'[k + 1] = call
    BY <1>1, <1>7
  <2>2. calls # <<>> /\ Called = calls[n] /\ calls'[k].item = Called.item
    BY <1>1, <1>5, <2>1
  <2>. QED BY <1>2, <2>1, <2>2 DEF GoesThrough
<1>. QED BY <1>6, <1>7

LEMMA ReturnNoWayBack ==
  ASSUME SearchTypeOK, StackOK(visited, calls), NoWayBack(calls), Return
  PROVE  NoWayBack(calls')
<1>1. /\ Len(calls) \in Nat \ {0} /\ DOMAIN calls = 1..Len(calls)
      /\ DOMAIN calls' = 1..(Len(calls) - 1)
      /\ \A k \in 1..(Len(calls) - 1) : calls'[k] = calls[k]
  BY ReturnIs
<1>. QED BY <1>1 DEF NoWayBack
-----------------------------------------------------------------------------
SearchOK(vis, cs, ord) ==
  StackOK(vis, cs) /\ NoWayBack(cs) /\ SearchedOK(vis, cs) /\ SimpleDone(vis, cs) /\ SymbolsCovered(vis, ord)

SearchInv ==
  /\ SearchTypeOK
  /\ ReportedLoopIsOne
  /\ status # "loop" => SearchOK(visited, calls, order)
  /\ status = "accepted" => calls = <<>> /\ order = <<>>

\* The invariant says the same of a state and of the next, as the graph stays.
LEMMA SameStackOK ==
  ASSUME SameGraph, StackOK(visited', calls')
  PROVE  StackOK(visited, calls)'
BY DEF SameGraph, StackOK, CallOK, ChoiceIsLeft, LinkedTo, ChoiceOf, SymsIn

LEMMA SameFollowers ==
  ASSUME SameGraph
  PROVE  /\ \A i : Followers(i)' = Followers(i)
         /\ \A i : SymsIn(i)' = SymsIn(i)
BY DEF SameGraph, Followers, SymsIn

LEMMA SameSearchedOK ==
  ASSUME SameGraph, SearchedOK(visited', calls')
  PROVE  SearchedOK(visited, calls)'
<1>1. \A i : Followers(i)' = Followers(i)
  BY SameFollowers
<1>2. DoneItems(visited)' = DoneItems(visited')
  BY DEF DoneItems
<1>3. Acyclic(DoneItems(visited))'
  BY <1>1, <1>2 DEF SearchedOK, Acyclic
<1>4. \A s : Separate(visited, s)' <=> Separate(visited', s)
  BY <1>1, <1>2 DEF SameGraph, Separate, ClosedSet
<1>5. DoneClosed(visited, calls)'
  BY <1>1, <1>2, <1>4 DEF SearchedOK, DoneClosed, EnteredBy
<1>6. CallsCover(visited, calls)'
  BY <1>1, <1>2, <1>4 DEF SearchedOK, CallsCover, EnteredBy, Pending
<1>. QED BY <1>3, <1>5, <1>6 DEF SearchedOK

LEMMA SameSimpleDone ==
  ASSUME SameGraph, SimpleDone(visited', calls')
  PROVE  SimpleDone(visited, calls)'
<1>1. /\ \A i : Followers(i)' = Followers(i)
      /\ \A i : SymsIn(i)' = SymsIn(i)
  BY SameFollowers
<1>2. \A c : Simple(c)' <=> Simple(c)
  BY <1>1 DEF SameGraph, Simple
<1>3. \A c, R : Around(c, R)' <=> Around(c, R)
  BY <1>1, <1>2 DEF Around
<1>4. \A c, s : Apart(c, s)' <=> Apart(c, s)
  BY <1>1, <1>3 DEF Apart
<1>. QED BY <1>1, <1>2, <1>4 DEF SimpleDone

LEMMA SameSymbolsCovered ==
  ASSUME SameGraph, SymbolsCovered(visited', order')
  PROVE  SymbolsCovered(visited, order)'
BY DEF SameGraph, SymbolsCovered

LEMMA SameSearchOK ==
  ASSUME SameGraph, SearchOK(visited', calls', order')
  PROVE  SearchOK(visited, calls, order)'
<1>1. StackOK(visited, calls)'
  BY SameStackOK DEF SearchOK
<1>2. SearchedOK(visited, calls)'
  BY SameSearchedOK DEF SearchOK
<1>3. SimpleDone(visited, calls)'
  BY SameSimpleDone DEF SearchOK
<1>4. SymbolsCovered(visited, order)'
  BY SameSymbolsCovered DEF SearchOK
<1>5. NoWayBack(calls)'
  BY DEF SearchOK, NoWayBack, SameGraph
<1>. QED BY <1>1, <1>2, <1>3, <1>4, <1>5 DEF SearchOK
-----------------------------------------------------------------------------
LEMMA InitSearched ==
  SearchInit => SearchInv
<1> SUFFICES ASSUME SearchInit PROVE SearchInv
  OBVIOUS
<1>1. /\ GraphOK /\ order \in Seq(Symbols) /\ status = "searching"
      /\ \A i \in Items : \A s \in Symbols \cap dependents[i] : \E k \in DOMAIN order : order[k] = s
      /\ visited = [i \in Items |-> 0] /\ calls = <<>> /\ loop = <<>>
  BY DEF SearchInit, Starts
<1>2. DOMAIN calls = {} /\ calls \in Seq(Call) /\ loop \in Seq(Items) /\ visited \in [Items -> 0..2]
  BY <1>1
<1>3. SearchTypeOK
  BY <1>1, <1>2 DEF SearchTypeOK
<1>4. DoneItems(visited) = {} /\ \A i \in Items : visited[i] = 0
  BY <1>1 DEF DoneItems
<1>5. StackOK(visited, calls)
  BY <1>2, <1>4 DEF StackOK
<1>6. SearchedOK(visited, calls)
  BY <1>2, <1>4 DEF SearchedOK, DoneClosed, Acyclic, CallsCover
<1>7. SimpleDone(visited, calls)
  <2>1. \A c \in Choices : c \in Items /\ SymsIn(c) \subseteq Items
    BY <1>1 DEF GraphOK, Items
  <2>. QED BY <1>2, <1>4, <2>1 DEF SimpleDone
<1>8. SymbolsCovered(visited, order)
  BY <1>1 DEF SymbolsCovered
<1>9. NoWayBack(calls)
  BY <1>2 DEF NoWayBack
<1>. QED BY <1>1, <1>3, <1>5, <1>6, <1>7, <1>8, <1>9 DEF SearchInv, SearchOK, ReportedLoopIsOne

LEMMA GoingOnSearch ==
  ASSUME SearchInv, status = "searching", NEW stack, NEW call, GoingOn(stack, call)
  PROVE  SearchInv'
<1>1. /\ SearchTypeOK /\ StackOK(visited, calls) /\ NoWayBack(calls) /\ SearchedOK(visited, calls)
      /\ SimpleDone(visited, calls) /\ SymbolsCovered(visited, order)
  BY DEF SearchInv, SearchOK
<1>2. SearchTypeOK' /\ ReportedLoopIsOne'
  BY <1>1, GoingOnTyped, GoingOnReports
<1>3. SameGraph /\ (Pushed(stack, call) \/ Skipped(stack, call) \/ Looped(stack, call))
  BY <1>1, GoOnIs DEF GoingOn
<1>4. CASE Pushed(stack, call) \/ Skipped(stack, call)
  <2>1. status' = "searching"
    BY <1>4 DEF Pushed, Skipped
  <2>2. StackOK(visited', calls')
    BY <1>1, <1>4, PushedStack, SkippedStack DEF GoingOn
  <2>3. SearchedOK(visited', calls') /\ SimpleDone(visited', calls') /\ SymbolsCovered(visited', order')
    BY <1>1, <1>4, GoingOnSearched, GoingOnSimple, GoingOnCovers
  <2>4. NoWayBack(calls')
    BY <1>1, <1>4, GoingOnNoWayBack
  <2>5. SearchOK(visited, calls, order)'
    BY <1>3, <2>2, <2>3, <2>4, SameSearchOK DEF SearchOK
  <2>. QED BY <1>2, <2>1, <2>5 DEF SearchInv
<1>5. CASE Looped(stack, call)
  BY <1>2, <1>5 DEF SearchInv, Looped
<1>. QED BY <1>3, <1>4, <1>5

LEMMA ReturnSearch ==
  ASSUME SearchInv, status = "searching", Return
  PROVE  SearchInv'
<1>1. /\ SearchTypeOK /\ StackOK(visited, calls) /\ NoWayBack(calls) /\ SearchedOK(visited, calls)
      /\ SimpleDone(visited, calls) /\ SymbolsCovered(visited, order)
  BY DEF SearchInv, SearchOK
<1>2. SearchTypeOK' /\ SameGraph /\ status' = "searching"
  BY <1>1, ReturnTyped, ReturnIs
<1>3. SearchOK(visited', calls', order')
  BY <1>1, ReturnStack, ReturnNoWayBack, ReturnSearched, ReturnSimple, ReturnCovers DEF SearchOK
<1>4. SearchOK(visited, calls, order)'
  BY <1>2, <1>3, SameSearchOK
<1>. QED BY <1>2, <1>4 DEF SearchInv, ReportedLoopIsOne

LEMMA NextSearched ==
  SearchInv /\ [SearchNext]_searchVars => SearchInv'
<1> SUFFICES ASSUME SearchInv, [SearchNext]_searchVars PROVE SearchInv'
  OBVIOUS
<1>1. status = "searching" => SearchTypeOK /\ StackOK(visited, calls)
  BY DEF SearchInv, SearchOK
<1>2. CASE CheckNext
  <2>1. status = "searching"
    BY <1>2 DEF CheckNext, Searching
  <2>2. PICK stack, call : GoingOn(stack, call)
    BY <1>1, <1>2, <2>1, CheckNextGoesOn
  <2>. QED BY <2>1, <2>2, GoingOnSearch
<1>3. CASE FollowDependent
  <2>1. status = "searching"
    BY <1>3 DEF FollowDependent, Searching
  <2>2. PICK stack, call : GoingOn(stack, call)
    BY <1>1, <1>3, <2>1, FollowDependentGoesOn
  <2>. QED BY <2>1, <2>2, GoingOnSearch
<1>4. CASE FollowChoice
  <2>1. status = "searching"
    BY <1>4 DEF FollowChoice, Searching
  <2>2. PICK stack, call : GoingOn(stack, call)
    BY <1>1, <1>4, <2>1, FollowChoiceGoesOn
  <2>. QED BY <2>1, <2>2, GoingOnSearch
<1>5. CASE Return
  BY <1>5, ReturnSearch DEF Return, Searching
<1>6. CASE Accept
  <2>1. /\ calls = <<>> /\ order = <<>> /\ status' = "accepted" /\ SameGraph
        /\ UNCHANGED <<order, visited, calls, loop>> /\ status = "searching"
    BY <1>6 DEF Accept, Searching, SameGraph
  <2>2. SearchTypeOK'
    BY <1>1, <2>1, SameGraphOK DEF SearchTypeOK, Call
  <2>3. SearchOK(visited', calls', order')
    BY <2>1 DEF SearchInv
  <2>4. SearchOK(visited, calls, order)'
    BY <2>1, <2>3, SameSearchOK
  <2>. QED BY <2>1, <2>2, <2>4 DEF SearchInv, ReportedLoopIsOne
<1>7. CASE UNCHANGED searchVars
  <2>1. UNCHANGED <<def, dependents, order, visited, calls, loop, status>> /\ SameGraph
    BY <1>7 DEF searchVars, SameGraph
  <2>2. SearchTypeOK'
    BY <2>1, SameGraphOK DEF SearchInv, SearchTypeOK, Call
  <2>3. ReportedLoopIsOne'
    BY <2>1, SameEndless DEF SearchInv, ReportedLoopIsOne, DependsOn, SymsIn
  <2>4. status' # "loop" => SearchOK(visited, calls, order)'
    <3>1. status # "loop" => SearchOK(visited', calls', order')
      BY <2>1 DEF SearchInv
    <3>. QED BY <2>1, <3>1, SameSearchOK
  <2>. QED BY <2>1, <2>2, <2>3, <2>4 DEF SearchInv
<1>. QED BY <1>2, <1>3, <1>4, <1>5, <1>6, <1>7 DEF SearchNext

THEOREM SearchInvariant ==
  SearchSpec => []SearchInv
<1>. QED BY InitSearched, NextSearched, PTL DEF SearchSpec

(***************************************************************************)
(* Type correctness of the search: it stays with the symbols and choices   *)
(* it was given.                                                           *)
(***************************************************************************)
THEOREM SearchTypeCorrect ==
  SearchSpec => []SearchTypeOK
<1>1. SearchInv => SearchTypeOK
  BY DEF SearchInv
<1>. QED BY <1>1, SearchInvariant, PTL

(***************************************************************************)
(* The loop that FoundDepLoop reports is one, and evaluation can go round  *)
(* in it, whatever the graph.                                              *)
(***************************************************************************)
THEOREM ReportedLoopsAreLoops ==
  SearchSpec => []ReportedLoopIsOne
<1>1. SearchInv => ReportedLoopIsOne
  BY DEF SearchInv
<1>. QED BY <1>1, SearchInvariant, PTL
-----------------------------------------------------------------------------
(***************************************************************************)
(* What is accepted has no circle.                                         *)
(***************************************************************************)
LEMMA AllIsDone ==
  ASSUME SearchInv, Accepted
  PROVE  /\ \A i \in Items : \A s \in Symbols \cap dependents[i] : s \in DoneItems(visited)
         /\ ClosedSet(DoneItems(visited))
<1>1. /\ calls = <<>> /\ order = <<>> /\ SearchTypeOK /\ StackOK(visited, calls)
      /\ DoneClosed(visited, calls) /\ SymbolsCovered(visited, order)
  BY DEF SearchInv, Accepted, SearchOK, SearchedOK
<1>2. DOMAIN calls = {} /\ DOMAIN order = {}
  BY <1>1
<1>3. \A i \in Items : visited[i] \in 0..2 /\ visited[i] # 1
  BY <1>1, <1>2 DEF StackOK, SearchTypeOK
<1>4. \A i \in Items : visited[i] # 0 => i \in DoneItems(visited)
  BY <1>3 DEF DoneItems
<1>5. \A i \in Items : \A s \in Symbols \cap dependents[i] : s \in DoneItems(visited)
  BY <1>1, <1>2, <1>4 DEF SymbolsCovered, Items
<1>6. ClosedSet(DoneItems(visited))
  BY <1>1, DoneIsClosed
<1>. QED BY <1>5, <1>6

LEMMA AcceptedIsAcyclic ==
  ASSUME SearchInv, Accepted
  PROVE  Acyclic(Items)
<1> DEFINE done == DoneItems(visited)
<1>1. /\ \A i \in Items : \A s \in Symbols \cap dependents[i] : s \in done
      /\ ClosedSet(done)
  BY AllIsDone
<1>2. Acyclic(done)
  BY DEF SearchInv, Accepted, SearchOK, SearchedOK
<1>3. \A c \in Choices : SymsIn(c) \subseteq Symbols \cap dependents[c]
  BY DEF SearchInv, SearchTypeOK, GraphOK
<1> HIDE DEF done
<1> SUFFICES ASSUME NEW T \in SUBSET Items, T # {}, \A i \in T : Followers(i) \cap T # {}
             PROVE  FALSE
  BY DEF Acyclic
<1>4. \A i \in T : Followers(i) \cap T \cap Symbols # {} => T \cap done # {}
  BY <1>1, <1>3 DEF Followers, Items
<1>5. \A c \in T \cap Choices : Followers(c) \cap T \cap Symbols # {}
  BY <1>3 DEF Followers
<1>6. PICK i \in T : TRUE
  OBVIOUS
<1>7. PICK j \in T : j \in Followers(i)
  OBVIOUS
<1>8. T \cap done # {}
  BY <1>4, <1>5, <1>6, <1>7 DEF Items
<1>9. \A k \in T \cap done : Followers(k) \cap (T \cap done) # {}
  BY <1>1 DEF ClosedSet
<1>. QED BY <1>2, <1>8, <1>9 DEF Acyclic

LEMMA AcceptedApart ==
  ASSUME SearchInv, Accepted, NEW c \in Choices, Simple(c), NEW s \in SymsIn(c)
  PROVE  Apart(c, s)
<1>1. SearchTypeOK /\ SimpleDone(visited, calls) /\ calls = <<>>
  BY DEF SearchInv, Accepted, SearchOK
<1>2. s \in Symbols \cap dependents[c] /\ c \in Items
  BY <1>1 DEF SearchTypeOK, GraphOK, Items
<1>3. visited[s] = 2
  BY <1>2, AllIsDone DEF DoneItems
<1>. QED BY <1>1, <1>3 DEF SimpleDone
-----------------------------------------------------------------------------
(***************************************************************************)
(* In a finite set, a family of parts has one that contains no other.      *)
(***************************************************************************)
LEMMA SmallestPart ==
  ASSUME NEW S, IsFiniteSet(S), NEW F \in SUBSET SUBSET S, F # {}
  PROVE  \E M \in F : \A W \in F : W \subseteq M => W = M
<1> DEFINE sizes == {Cardinality(T) : T \in F}
<1>1. \A T \in F : IsFiniteSet(T) /\ Cardinality(T) \in Nat
  BY FS_Subset, FS_CardinalityType
<1>2. IsWellFoundedOn(OpToRel(<, Nat), Nat) /\ sizes \subseteq Nat /\ sizes # {}
  BY <1>1, NatLessThanWellFounded
<1> HIDE DEF sizes
<1>3. PICK m \in sizes : \A k \in sizes : <<k, m>> \notin OpToRel(<, Nat)
  BY <1>2, WFMin, Zenon
<1>4. \A k \in sizes : ~(k < m)
  <2> SUFFICES ASSUME NEW k \in sizes PROVE ~(k < m)
    OBVIOUS
  <2>1. <<k, m>> \in Nat \X Nat
    BY <1>2, Zenon
  <2>. QED BY <1>3, <2>1 DEF OpToRel
<1>5. PICK M \in F : Cardinality(M) = m
  BY <1>3 DEF sizes
<1>6. ASSUME NEW W \in F, W \subseteq M
      PROVE  W = M
  <2>1. Cardinality(W) <= Cardinality(M) /\ (Cardinality(M) = Cardinality(W) => M = W)
    BY <1>1, <1>6, FS_Subset
  <2>2. Cardinality(W) \in Nat /\ Cardinality(M) \in Nat /\ ~(Cardinality(W) < Cardinality(M))
    BY <1>1, <1>4, <1>5 DEF sizes
  <2>. QED BY <2>1, <2>2
<1>. QED BY <1>6

(***************************************************************************)
(* If all sets of items have one that leads to none of the set, then all   *)
(* have one that none of the set leads to.                                 *)
(***************************************************************************)
LEMMA HasSource ==
  ASSUME IsFiniteSet(Items), Acyclic(Items), NEW U \in SUBSET Items,
         \A u \in U : \E j \in U : u \in Followers(j)
  PROVE  U = {}
<1> SUFFICES ASSUME U # {} PROVE FALSE
  OBVIOUS
<1> DEFINE F == {W \in SUBSET Items : W # {} /\ \A u \in W : \E j \in W : u \in Followers(j)}
<1>1. F \in SUBSET SUBSET Items /\ F # {}
  <2>1. U \in F
    OBVIOUS
  <2>. QED BY <2>1
<1>2. PICK M \in F : \A W \in F : W \subseteq M => W = M
  <2> HIDE DEF F
  <2>. QED BY <1>1, SmallestPart
<1>3. ASSUME NEW j \in M
      PROVE  Followers(j) \cap M # {}
  <2> SUFFICES ASSUME Followers(j) \cap M = {} PROVE FALSE
    OBVIOUS
  <2>1. \A u \in M : \E k \in M \ {j} : u \in Followers(k)
    OBVIOUS
  <2>2. M \ {j} \in F
    BY <2>1
  <2>. QED BY <1>2, <2>2
<1>4. M \in SUBSET Items /\ M # {}
  OBVIOUS
<1>. QED BY <1>3, <1>4 DEF Acyclic

\* What depends on a plain choice is a symbol of it or depends on a symbol that does.
LEMMA PlainDependents ==
  ASSUME GraphOK, PlainChoices, NEW c \in Choices, NEW i \in dependents[c], i \notin SymsIn(c)
  PROVE  \E s \in Symbols \cap dependents[c] : i \in Followers(s) /\ i \in dependents[s]
BY DEF GraphOK, PlainChoices, Inner, Followers

LEMMA PlainHasSource ==
  ASSUME GraphOK, PlainChoices, Acyclic(Items), NEW P \in SUBSET Items,
         \A p \in P : \E q \in P : p \in dependents[q]
  PROVE  P = {}
<1> DEFINE U == P \cup {s \in Symbols : \E c \in P \cap Choices : s \in dependents[c]}
<1>1. ASSUME NEW c \in P \cap Choices, NEW i \in dependents[c]
      PROVE  \E j \in U : i \in Followers(j)
  <2>1. CASE i \in SymsIn(c)
    BY <2>1 DEF Followers
  <2>2. CASE i \notin SymsIn(c)
    BY <2>2, PlainDependents
  <2>. QED BY <2>1, <2>2
<1>2. \A u \in U : \E j \in U : u \in Followers(j)
  <2> SUFFICES ASSUME NEW u \in U PROVE \E j \in U : u \in Followers(j)
    OBVIOUS
  <2>1. CASE u \in P
    <3>1. PICK q \in P : u \in dependents[q]
      BY <2>1
    <3>2. CASE q \in Choices
      BY <1>1, <3>1, <3>2
    <3>3. CASE q \notin Choices
      BY <3>1, <3>3 DEF Followers
    <3>. QED BY <3>2, <3>3
  <2>2. CASE u \notin P
    <3>1. PICK c \in P \cap Choices : u \in dependents[c]
      BY <2>2
    <3> HIDE DEF U
    <3>. QED BY <1>1, <3>1
  <2>. QED BY <2>1, <2>2
<1>3. U \in SUBSET Items /\ IsFiniteSet(Items)
  BY DEF Items, GraphOK
<1>4. P \subseteq U
  OBVIOUS
<1> HIDE DEF U
<1>. QED BY <1>2, <1>3, <1>4, HasSource

\* What depends on another choice of such a set is in the set.
LEMMA AroundIsClosed ==
  ASSUME GraphOK, PlainChoices, Acyclic(Items), NEW c \in Choices, Simple(c),
         NEW R \in SUBSET (Items \ {c}), Around(c, R), NEW d \in R \cap Choices
  PROVE  dependents[d] \subseteq R
<1>1. /\ c \notin Symbols /\ \A s \in Symbols : c \notin dependents[s]
      /\ \A i \in R : Followers(i) \ {c} \subseteq R
      /\ Symbols \subseteq Items /\ IsFiniteSet(Items) /\ SymsIn(d) \subseteq Symbols
  BY DEF GraphOK, Simple, Around, Items
<1> DEFINE Q == {q \in Symbols \cap dependents[d] : q \notin R}
<1>2. SymsIn(d) \subseteq R
  <2>1. Followers(d) = SymsIn(d)
    BY DEF Followers
  <2>. QED BY <1>1, <2>1
<1>3. \A i \in dependents[d] : i \notin R =>
        \E s \in Symbols \cap dependents[d] : s \notin R /\ i \in Followers(s)
  BY <1>1, <1>2, PlainDependents
<1>4. Q = {}
  <2>1. \A q \in Q : \E s \in Q : q \in Followers(s)
    BY <1>3
  <2>2. Q \in SUBSET Items
    BY <1>1
  <2> HIDE DEF Q
  <2>. QED BY <1>1, <2>1, <2>2, HasSource
<1>. QED BY <1>3, <1>4
-----------------------------------------------------------------------------
(***************************************************************************)
(* Evaluation that goes round without end: a smallest set of attributes.   *)
(***************************************************************************)
SmallestEndless(T) ==
  T \in SUBSET Attributes /\ Endless(T) /\ \A W \in SUBSET T : Endless(W) => W = T

LEMMA HasSmallestEndless ==
  ASSUME IsFiniteSet(Items), NEW T0 \in SUBSET Attributes, Endless(T0)
  PROVE  \E T \in SUBSET T0 : SmallestEndless(T)
<1>1. IsFiniteSet(Attributes)
  <2>1. IsFiniteSet({"vis"}) /\ IsFiniteSet({"val"})
    BY FS_Singleton
  <2>2. IsFiniteSet({"vis"} \cup {"val"})
    BY <2>1, FS_Union
  <2>3. {"vis"} \cup {"val"} = {"vis", "val"}
    OBVIOUS
  <2>4. IsFiniteSet({"vis", "val"})
    BY <2>2, <2>3
  <2>. QED BY <2>4, FS_Product DEF Attributes
<1> DEFINE F == {W \in SUBSET T0 : Endless(W)}
<1>2. F \in SUBSET SUBSET Attributes /\ F # {}
  <2>1. T0 \in F
    OBVIOUS
  <2>. QED BY <2>1
<1>3. PICK T \in F : \A W \in F : W \subseteq T => W = T
  <2> HIDE DEF F
  <2>. QED BY <1>1, <1>2, SmallestPart
<1>. QED BY <1>3 DEF SmallestEndless

\* Each of its attributes is the only one of the set that some other looks at.
LEMMA OnlyRead ==
  ASSUME NEW T, SmallestEndless(T), NEW b \in T
  PROVE  \E a \in T : Reads(a) \cap T = {b}
<1> SUFFICES ASSUME \A a \in T : Reads(a) \cap T # {b} PROVE FALSE
  OBVIOUS
<1>1. \A a \in T : Reads(a) \cap (T \ {b}) # {}
  BY DEF SmallestEndless, Endless
<1>2. Endless(T \ {b})
  BY <1>1 DEF Endless
<1>. QED BY <1>2 DEF SmallestEndless

\* What does not look into a part of it only would be smaller.
LEMMA NoSmaller ==
  ASSUME NEW T, SmallestEndless(T), NEW R,
         \A a \in T : a[1] \notin R => \E b \in T : b \in Reads(a) /\ b[1] \notin R,
         NEW x \in T, x[1] \notin R, NEW y \in T, y[1] \in R
  PROVE  FALSE
<1> DEFINE W == {a \in T : a[1] \notin R}
<1>1. Endless(W)
  BY DEF Endless
<1>2. W \in SUBSET T /\ W # T
  OBVIOUS
<1>. QED BY <1>1, <1>2 DEF SmallestEndless

\* The selection of a choice is looked at by a symbol of it, and by no other; in
\* a smallest set that symbol looks at nothing else, its visibility included.
LEMMA SelectedSymbol ==
  ASSUME GraphOK, NEW T, SmallestEndless(T), NEW c \in Choices, <<c, "val">> \in T
  PROVE  /\ <<c, "vis">> \notin T
         /\ \E s \in SymsIn(c) : <<s, "val">> \in T /\ <<s, "vis">> \notin T
<1>1. PICK a \in T : Reads(a) \cap T = {<<c, "val">>}
  BY OnlyRead
<1>2. a \in Attributes /\ LooksAt(a, <<c, "val">>)
  BY <1>1 DEF SmallestEndless, Reads
<1>3. a[1] \in SymsIn(c) /\ a[2] = "val"
  BY <1>2 DEF LooksAt, Referred
<1>4. a = <<a[1], "val">> /\ a[1] \in Items /\ a[1] \in Symbols /\ a[1] \in dependents[c]
  BY <1>2, <1>3 DEF Attributes, GraphOK
<1>5. <<a[1], "vis">> \in Reads(a)
  BY <1>3, <1>4 DEF Reads, LooksAt, Attributes
<1>6. <<c, "vis">> \in Reads(a)
  <2>1. <<c, "vis">> \in Attributes
    BY DEF Attributes, Items
  <2>. QED BY <1>4, <2>1 DEF Reads, LooksAt, Referred
<1>7. <<c, "vis">> # <<c, "val">> /\ <<a[1], "vis">> # <<c, "val">>
  OBVIOUS
<1>. QED BY <1>1, <1>3, <1>4, <1>5, <1>6, <1>7

\* A selection that looks at the visibility of one of its symbols
LooksInto(T, c, t) == <<c, "val">> \in T /\ t \in SymsIn(c) /\ <<t, "vis">> \in T

LEMMA LooksIntoReads ==
  ASSUME GraphOK, NEW T \in SUBSET Attributes, NEW c \in Choices, NEW t, LooksInto(T, c, t)
  PROVE  <<t, "vis">> \in Reads(<<c, "val">>)
BY DEF LooksInto, Reads, LooksAt

LEMMA SelectionIs ==
  ASSUME NEW T \in SUBSET Attributes, NEW c, <<c, "vis">> \notin T, NEW a \in T, a[1] = c
  PROVE  a = <<c, "val">>
BY DEF Attributes

LEMMA LooksAtAffected ==
  ASSUME GraphOK, NEW a \in Attributes, NEW b \in Reads(a)
  PROVE  a[1] = b[1] \/ a[1] \in Affects(b[1])
<1>1. a[1] \in Items /\ b[1] \in Items /\ LooksAt(a, b)
  BY DEF Reads, Attributes
<1>2. CASE a[1] \in dependents[b[1]] /\ b = Referred(b[1])
  BY <1>2 DEF Affects
<1>3. CASE a[2] = "val" /\ b = <<a[1], "vis">>
  BY <1>3
<1>4. CASE a[2] = "val" /\ b[2] = "val" /\ b[1] \in Choices /\ a[1] \in SymsIn(b[1])
  BY <1>4 DEF Affects
<1>5. CASE a[2] = "val" /\ b[2] = "vis" /\ a[1] \in Choices /\ b[1] \in SymsIn(a[1])
  <2>1. b[1] \in Symbols /\ b[1] \notin Choices /\ def[b[1]].choice = a[1]
    BY <1>5 DEF GraphOK
  <2>. QED BY <1>5, <2>1 DEF Affects
<1>. QED BY <1>1, <1>2, <1>3, <1>4, <1>5 DEF LooksAt

(***************************************************************************)
(* Then the symbols of the choice depend on each other past the choice.    *)
(***************************************************************************)
LEMMA LooksIntoEntangled ==
  ASSUME GraphOK, NEW T, SmallestEndless(T), NEW c \in Choices, NEW t, LooksInto(T, c, t)
  PROVE  Entangled(c)
<1>1. PICK s \in SymsIn(c) : <<s, "val">> \in T /\ <<s, "vis">> \notin T /\ <<c, "vis">> \notin T
  BY SelectedSymbol DEF LooksInto
<1>2. s # t /\ t \in SymsIn(c) /\ <<t, "vis">> \in T /\ T \in SUBSET Attributes /\ <<c, "val">> \in T
  BY <1>1 DEF LooksInto, SmallestEndless
<1>3. SUFFICES ASSUME ~Reaches(s, t, c) PROVE FALSE
  BY <1>1, <1>2 DEF Entangled
<1>4. PICK R \in SUBSET (Items \ {c}) :
        s \in R /\ (\A i \in R : Affects(i) \ {c} \subseteq R) /\ t \notin R
  BY <1>3 DEF Reaches
<1>5. ASSUME NEW a \in T, a[1] \notin R
      PROVE  \E b \in T : b \in Reads(a) /\ b[1] \notin R
  <2>1. CASE a[1] = c
    <3>1. a = <<c, "val">>
      BY <1>1, <1>2, <2>1, SelectionIs
    <3>2. <<t, "vis">> \in Reads(a) /\ <<t, "vis">>[1] = t
      BY <1>2, <3>1, LooksIntoReads
    <3>. QED BY <1>2, <1>4, <3>2
  <2>2. CASE a[1] # c
    <3>1. PICK b \in T : b \in Reads(a)
      BY DEF SmallestEndless, Endless
    <3>2. a[1] = b[1] \/ a[1] \in Affects(b[1])
      BY <1>2, <3>1, LooksAtAffected
    <3>. QED BY <1>4, <1>5, <2>2, <3>1, <3>2
  <2>. QED BY <2>1, <2>2
<1> DEFINE x == <<t, "vis">>
           y == <<s, "val">>
<1>6. x \in T /\ x[1] \notin R /\ y \in T /\ y[1] \in R
  BY <1>1, <1>2, <1>4
<1> HIDE DEF x, y
<1>. QED BY <1>5, <1>6, NoSmaller

(***************************************************************************)
(* It cannot be so if all such choices are simple: by then each of the two *)
(* symbols is known to lead nowhere near the other.                        *)
(***************************************************************************)
LEMMA NotAllSimple ==
  ASSUME SearchInv, Accepted, PlainChoices, NEW T, SmallestEndless(T),
         NEW c \in Choices, NEW t, LooksInto(T, c, t),
         \A d \in Choices : (\E u : LooksInto(T, d, u)) => Simple(d)
  PROVE  FALSE
<1>1. GraphOK /\ Acyclic(Items) /\ T \in SUBSET Attributes /\ Simple(c)
  BY AcceptedIsAcyclic DEF SearchInv, SearchTypeOK, SmallestEndless
<1>2. PICK s \in SymsIn(c) : <<s, "val">> \in T /\ <<s, "vis">> \notin T /\ <<c, "vis">> \notin T
  BY <1>1, SelectedSymbol DEF LooksInto
<1>3. s # t /\ t \in SymsIn(c) /\ <<t, "vis">> \in T /\ <<c, "val">> \in T
  BY <1>2 DEF LooksInto
<1>4. PICK R \in SUBSET (Items \ {c}) : R \cap SymsIn(c) = {s} /\ Around(c, R)
  BY <1>1, AcceptedApart DEF Apart
<1>5. \A i \in R : Followers(i) \ {c} \subseteq R
  BY <1>4 DEF Around
<1>6. ASSUME NEW a \in T, a[1] # c, NEW b \in T, b \in Reads(a), b[1] \in R
      PROVE  a[1] \in R
  <2>1. a \in Attributes /\ b \in Attributes /\ LooksAt(a, b) /\ b[1] \in Items
    BY <1>1, <1>6 DEF Reads, Attributes
  <2>2. CASE a[1] \in dependents[b[1]] /\ b[1] \in Choices
    BY <1>1, <1>4, <1>6, <2>2, AroundIsClosed
  <2>3. CASE a[1] \in dependents[b[1]] /\ b[1] \notin Choices
    BY <1>5, <1>6, <2>3 DEF Followers
  <2>4. CASE a[2] = "val" /\ b = <<a[1], "vis">>
    BY <1>6, <2>4
  <2>5. CASE a[2] = "val" /\ b[2] = "val" /\ b[1] \in Choices /\ a[1] \in SymsIn(b[1])
    BY <1>5, <1>6, <2>5 DEF Followers
  <2>6. CASE a[2] = "val" /\ b[2] = "vis" /\ a[1] \in Choices /\ b[1] \in SymsIn(a[1])
    <3>1. a = <<a[1], "val">> /\ b = <<b[1], "vis">>
      BY <2>1, <2>6 DEF Attributes
    <3>2. LooksInto(T, a[1], b[1])
      BY <1>6, <2>6, <3>1 DEF LooksInto
    <3>3. Simple(a[1])
      BY <2>6, <3>2
    <3>. QED BY <1>4, <1>6, <2>6, <3>3 DEF Around
  <2>. QED BY <2>1, <2>2, <2>3, <2>4, <2>5, <2>6 DEF LooksAt
<1>7. ASSUME NEW a \in T, a[1] \notin R
      PROVE  \E b \in T : b \in Reads(a) /\ b[1] \notin R
  <2>1. CASE a[1] = c
    <3>1. a = <<c, "val">>
      BY <1>1, <1>2, <2>1, SelectionIs
    <3>2. <<t, "vis">> \in Reads(a) /\ <<t, "vis">>[1] = t
      BY <1>1, <3>1, LooksIntoReads
    <3>. QED BY <1>3, <1>4, <3>2
  <2>2. CASE a[1] # c
    <3>1. PICK b \in T : b \in Reads(a)
      BY DEF SmallestEndless, Endless
    <3>. QED BY <1>6, <1>7, <2>2, <3>1
  <2>. QED BY <2>1, <2>2
<1> DEFINE x == <<t, "vis">>
           y == <<s, "val">>
<1>8. x \in T /\ x[1] \notin R /\ y \in T /\ y[1] \in R
  BY <1>2, <1>3, <1>4
<1> HIDE DEF x, y
<1>. QED BY <1>7, <1>8, NoSmaller

(***************************************************************************)
(* And without such choices the circle is one of items that depend on each *)
(* other, which the search would have found.                               *)
(***************************************************************************)
LEMMA LooksIntoSome ==
  ASSUME GraphOK, PlainChoices, Acyclic(Items), NEW T, SmallestEndless(T)
  PROVE  \E c \in Choices : \E t : LooksInto(T, c, t)
<1> SUFFICES ASSUME \A c \in Choices : \A t : ~LooksInto(T, c, t) PROVE FALSE
  OBVIOUS
<1> DEFINE P == {a[1] : a \in T}
<1>1. /\ T \in SUBSET Attributes /\ T # {} /\ \A a \in T : \E b \in T : b \in Reads(a)
      /\ \A a \in T : a = <<a[1], a[2]>> /\ a[1] \in Items
  BY DEF SmallestEndless, Endless, Attributes
<1>2. ASSUME NEW a \in T, a[2] # "val"
      PROVE  \E q \in P : a[1] \in dependents[q]
  <2>1. PICK b \in T : b \in Reads(a)
    BY <1>1
  <2>2. a[1] \in dependents[b[1]]
    BY <1>2, <2>1 DEF Reads, LooksAt
  <2>. QED BY <2>2
<1>3. ASSUME NEW a \in T, a[2] = "val"
      PROVE  \E q \in P : a[1] \in dependents[q]
  <2>1. PICK b \in T : b \in Reads(a)
    BY <1>1
  <2>2. LooksAt(a, b)
    BY <2>1 DEF Reads
  <2>3. CASE a[1] \in dependents[b[1]]
    BY <2>3
  <2>4. CASE b = <<a[1], "vis">>
    <3>1. b[2] # "val" /\ b[1] = a[1]
      BY <2>4
    <3> HIDE DEF P
    <3>. QED BY <1>2, <3>1
  <2>5. CASE b[1] \in Choices /\ a[1] \in SymsIn(b[1])
    BY <2>5 DEF GraphOK
  <2>6. CASE b[2] = "vis" /\ a[1] \in Choices /\ b[1] \in SymsIn(a[1])
    <3>1. <<a[1], "val">> \in T /\ <<b[1], "vis">> \in T
      BY <1>1, <1>3, <2>6
    <3>. QED BY <2>6, <3>1 DEF LooksInto
  <2>. QED BY <2>2, <2>3, <2>4, <2>5, <2>6 DEF LooksAt
<1>4. P \in SUBSET Items /\ P # {}
  BY <1>1
<1>5. \A p \in P : \E q \in P : p \in dependents[q]
  BY <1>2, <1>3
<1> HIDE DEF P
<1>. QED BY <1>4, <1>5, PlainHasSource

LEMMA AcceptedFindsLoops ==
  ASSUME SearchInv
  PROVE  LoopsAreFound
<1> SUFFICES ASSUME Accepted, PlainChoices, NEW T0 \in SUBSET Attributes, Endless(T0),
                    \A c \in Choices : <<c, "val">> \in T0 /\ Entangled(c) => Simple(c)
             PROVE  FALSE
  BY DEF LoopsAreFound
<1>1. GraphOK /\ IsFiniteSet(Items) /\ Acyclic(Items)
  BY AcceptedIsAcyclic DEF SearchInv, SearchTypeOK, GraphOK
<1>2. PICK T \in SUBSET T0 : SmallestEndless(T)
  BY <1>1, HasSmallestEndless
<1>3. PICK c \in Choices : \E t : LooksInto(T, c, t)
  BY <1>1, <1>2, LooksIntoSome
<1>4. ASSUME NEW d \in Choices, NEW u, LooksInto(T, d, u)
      PROVE  Simple(d)
  <2>1. Entangled(d)
    BY <1>1, <1>2, <1>4, LooksIntoEntangled
  <2>. QED BY <1>2, <1>4, <2>1 DEF LooksInto
<1>. QED BY <1>2, <1>3, <1>4, NotAllSimple

(***************************************************************************)
(* What Kconfig.__init__() accepts can be evaluated: tri_value and         *)
(* visibility do not recurse without end, but for the choices that         *)
(* LoopsAreFound excepts.                                                  *)
(***************************************************************************)
THEOREM AcceptedCanBeEvaluated ==
  SearchSpec => []LoopsAreFound
<1>1. SearchInv => LoopsAreFound
  BY AcceptedFindsLoops
<1>. QED BY <1>1, SearchInvariant, PTL
=============================================================================
