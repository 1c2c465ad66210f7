--------------------------- MODULE MCKconfigChoice ---------------------------
(***************************************************************************)
(* KconfigSession on a tristate choice and an optional bool choice:        *)
(*                                                                         *)
(*   config MODULES   bool "M"            default y                        *)
(*   config E         bool "E"                                             *)
(*   choice CH        tristate "CH"       default Z                        *)
(*     config X         tristate "X"                                       *)
(*     config Z         tristate "Z" if E                                  *)
(*   choice OP        bool "OP"           optional                         *)
(*     config P         bool "P" if X                                      *)
(***************************************************************************)
EXTENDS KconfigSession, KconfigSemantics, ConfigTrees

CONSTANTS MODULES, E, CH, X, Z, OP, P

Member(type, c, dep) ==
  [Plain(type) EXCEPT !.prompts = <<And(dep, It(c))>>, !.direct = And(dep, It(c)),
                      !.choice = c]

TheTree ==
  [i \in {MODULES, E, CH, X, Z, OP, P} |->
     CASE i = MODULES -> [Visible("BOOL") EXCEPT !.defaults = <<Default(Y, Y)>>]
       [] i = E -> Visible("BOOL")
       [] i = X -> Member("TRISTATE", CH, Y)
       [] i = Z -> Member("TRISTATE", CH, It(E))
       [] i = P -> Member("BOOL", OP, It(X))
       [] i = CH -> [type |-> "TRISTATE", prompts |-> <<Y>>, optional |-> FALSE,
                     defaults |-> <<Selects(Z, Y)>>, syms |-> <<X, Z>>]
       [] i = OP -> [type |-> "BOOL", prompts |-> <<Y>>, optional |-> TRUE,
                     defaults |-> <<>>, syms |-> <<P>>]]

TheSymbols == {MODULES, E, X, Z, P}
TheChoices == {CH, OP}
TheOrder == <<MODULES, E, X, Z, P>>
TheUserVals == [i \in TheSymbols \cup TheChoices |->
                  CASE i = CH -> ModeVals({NoUser, 1, 2}, {X, Z})
                    [] i = OP -> ModeVals(BoolVals, {P})
                    [] i \in {X, Z} -> TriVals
                    [] OTHER -> BoolVals]
TheEdits == [i \in TheSymbols \cup TheChoices |->
               CASE i = MODULES -> {0}
                 [] i = X -> {1, 2}
                 [] i = OP -> {2}
                 [] OTHER -> {2}]
TheUnsets == {MODULES, X, Z, P}
On(s, x) == [sym |-> s, val |-> x]
TheFiles == {<<On(MODULES, 2), On(E, 2), On(X, 1), On(Z, 0)>>, <<On(MODULES, 0), On(X, 2)>>,
             <<On(MODULES, 0), On(E, 2), On(X, 1)>>}

\* ReloadKeepsValues is proved for trees like this one.
ASSUME LosesNoMode == ModesAreSaved
=============================================================================
