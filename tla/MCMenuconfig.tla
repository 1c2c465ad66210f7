----------------------------- MODULE MCMenuconfig -----------------------------
(***************************************************************************)
(* Menuconfig on a menu (in the implicit menu of A), a menuconfig symbol   *)
(* that may be hidden while its entry is not, and a choice:                *)
(*                                                                         *)
(*   config A         bool "A"                                             *)
(*   menu "M"         depends on A                                         *)
(*     menuconfig H     bool "H" if X        default y                     *)
(*       config I         int "I"    depends on H                          *)
(*                        default 1     range 1 2 if X                     *)
(*   choice CH        bool "CH"                                            *)
(*     config X         bool "X"                                           *)
(*     config Z         bool "Z"             depends on A                  *)
(***************************************************************************)
EXTENDS Menuconfig, KconfigSemantics, ConfigTrees

CONSTANTS A, H, I, CH, X, Z, nTop, nA, nM, nH, nI, nCH, nX, nZ

Member(c, dep) ==
  [Plain("BOOL") EXCEPT !.prompts = <<And(dep, It(c))>>, !.direct = And(dep, It(c)),
                        !.choice = c]

TheTree ==
  [i \in {A, H, I, CH, X, Z} |->
     CASE i = A -> Visible("BOOL")
       [] i = H -> [Plain("BOOL") EXCEPT
                      !.prompts = <<And(It(X), It(A))>>, !.direct = It(A),
                      !.defaults = <<Default(Y, It(A))>>]
       [] i = I -> [Plain("INT") EXCEPT
                      !.prompts = <<And(It(H), It(A))>>, !.direct = And(It(H), It(A)),
                      !.defaults = <<Default(Lit(1), And(It(H), It(A)))>>,
                      !.ranges = <<Between(Lit(1), Lit(2), And(It(X), And(It(H), It(A))))>>]
       [] i = X -> Member(CH, Y)
       [] i = Z -> Member(CH, It(A))
       [] i = CH -> [type |-> "BOOL", prompts |-> <<Y>>, optional |-> FALSE,
                     defaults |-> <<>>, syms |-> <<X, Z>>]]

TheSymbols == {A, H, I, X, Z}
TheChoices == {CH}
TheOrder == <<A, H, I, X, Z>>
TheUserVals == [i \in TheSymbols \cup TheChoices |->
                  IF i = CH THEN ModeVals({NoUser, 2}, {X, Z}) ELSE IF i = I THEN {NoUser, 1, 2, 3} ELSE BoolVals]

TheNodes == <<nTop, nA, nM, nH, nI, nCH, nX, nZ>>

\* The entries of the menus: node, item, parent.
Entries == {<<nTop, "MENU", nTop>>, <<nA, A, nTop>>, <<nM, "MENU", nA>>, <<nH, H, nM>>,
            <<nI, I, nH>>, <<nCH, CH, nTop>>, <<nX, X, nCH>>, <<nZ, Z, nCH>>}

TheNode ==
  [n \in {e[1] : e \in Entries} |->
     LET e == CHOOSE f \in Entries : f[1] = n
     IN  [item |-> e[2], parent |-> e[3], menuconfig |-> n \in {nTop, nM, nH, nCH},
          cond |-> CASE n = nTop -> Y
                     [] n = nM -> It(A)
                     [] OTHER -> TheTree[e[2]].prompts[1]]]

TheTyped == [s \in {I} |-> 1..3]

On(s, x) == [sym |-> s, val |-> x]
TheFiles == {<<On(A, 2), On(H, 2), On(I, 3), On(Z, 2)>>, <<On(A, 0), On(X, 2)>>}

\* CursorIsOnShownNode and MenuCanBeLeft are proved for trees like this one.
ASSUME TreeIsPlain == PlainTree

\* ... and QuitLosesNothing for trees in which every mode is in the file.
ASSUME FilesAreComplete == FilesTellAll
=============================================================================
