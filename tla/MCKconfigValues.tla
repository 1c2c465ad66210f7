--------------------------- MODULE MCKconfigValues ---------------------------
(***************************************************************************)
(* KconfigSession on a tree of selects, implies, defaults and ranges:      *)
(*                                                                         *)
(*   config MODULES   bool "M"            default y                        *)
(*   config T         tristate "T"        select S                         *)
(*   config W         bool "W"            imply S                          *)
(*   config C         tristate "C"                                         *)
(*   config S         tristate "S" if C   default y if W                   *)
(*   config L         int "L"             default 2                        *)
(*   config R         int "R"             range L 8 if T     default 9 if W*)
(***************************************************************************)
EXTENDS KconfigSession, KconfigSemantics, ConfigTrees

CONSTANTS MODULES, T, W, C, S, L, R

TheTree ==
  [i \in {MODULES, T, W, C, S, L, R} |->
     CASE i = MODULES -> [Visible("BOOL") EXCEPT !.defaults = <<Default(Y, Y)>>]
       [] i = T -> Visible("TRISTATE")
       [] i = W -> Visible("BOOL")
       [] i = C -> Visible("TRISTATE")
       [] i = S -> [Plain("TRISTATE") EXCEPT
                      !.prompts = <<It(C)>>, !.defaults = <<Default(Y, Y)>>,
                      !.rev = It(T), !.weak = It(W)]
       [] i = L -> [Visible("INT") EXCEPT !.defaults = <<Default(Lit(2), Y)>>]
       [] i = R -> [Visible("INT") EXCEPT
                      !.ranges = <<Between(It(L), Lit(8), It(T))>>,
                      !.defaults = <<Default(Lit(9), It(W))>>]]

TheSymbols == {MODULES, T, W, C, S, L, R}
TheChoices == {}
TheOrder == <<MODULES, T, W, C, S, L, R>>
TheUserVals == [i \in TheSymbols |-> CASE i \in {MODULES, W} -> BoolVals
                                       [] i \in {T, C, S} -> TriVals
                                       [] i = L -> {NoUser, 2, 4, 7}
                                       [] i = R -> {NoUser, 2, 3, 4, 7, 8, 9}]
TheEdits == [i \in TheSymbols |-> CASE i = MODULES -> {0}
                                    [] i = W -> {2}
                                    [] i = L -> {4}
                                    [] i = R -> {3}
                                    [] i \in {T, C} -> {1, 2}
                                    [] i = S -> {1}]
TheUnsets == {MODULES, T, S, R}
On(s, x) == [sym |-> s, val |-> x]
TheFiles == {<<On(T, 1), On(S, 2)>>, <<On(L, 7), On(MODULES, 0), On(C, 1)>>}

\* ReloadKeepsValues and MinReloadKeepsValues are proved for trees like this one.
ASSUME LosesNoMode == ModesAreSaved
ASSUME LosesNoMinimum == MinimalTellsAll(U!Users)
=============================================================================
