---------------------------- MODULE MCConfigCache ----------------------------
(***************************************************************************)
(* ConfigCache and the walk on MODULES, a tristate choice with a symbol    *)
(* that depends on MODULES, and a promptless tristate that looks at the    *)
(* symbols of the choice:                                                  *)
(*                                                                         *)
(*   config MODULES   bool "M"                                             *)
(*   choice CH        tristate "CH"    default Z                           *)
(*     config X         tristate "X"     select B if Z                     *)
(*     config Z         bool "Z" if MODULES           imply B              *)
(*   config B         tristate         default X                           *)
(***************************************************************************)
EXTENDS ConfigWalk, KconfigSemantics, ConfigTrees

CONSTANTS MODULES, CH, X, Z, B

Member(type, dep) ==
  [Plain(type) EXCEPT !.prompts = <<And(dep, It(CH))>>, !.direct = It(CH), !.choice = CH]

TheTree ==
  [i \in {MODULES, CH, X, Z, B} |->
     CASE i = MODULES -> Visible("BOOL")
       [] i = X -> Member("TRISTATE", Y)
       [] i = Z -> Member("BOOL", It(MODULES))
       [] i = B -> [Plain("TRISTATE") EXCEPT !.defaults = <<Default(It(X), Y)>>,
                                             !.rev = And(It(X), It(Z)), !.weak = It(Z)]
       [] i = CH -> [type |-> "TRISTATE", prompts |-> <<Y>>, optional |-> FALSE,
                     defaults |-> <<Selects(Z, Y)>>, syms |-> <<X, Z>>]]

TheSymbols == {MODULES, X, Z, B}
TheChoices == {CH}

TheChoiceOf == SymChoice
TheUserVals == [i \in TheSymbols \cup TheChoices |->
                  CASE i = CH -> ModeVals({NoUser, 2}, {X, Z})
                    [] i = Z -> {NoUser}
                    [] OTHER -> {NoUser, 2}]
TheCells == (TheSymbols \X {"vis", "tri"}) \cup {<<CH, "vis">>, <<CH, "sel">>}
TruthTable == [u \in Users |-> FromScratch(u)]
TheTruth(c, u) == TruthTable[u][c]
TheGlobals == {MODULES}
TheValues == [c \in TheCells |-> IF c[2] = "sel" THEN {NoSym, X, Z} ELSE 0..2]
ThePlaceholder == [c \in TheCells |-> IF c[2] = "sel" THEN NoSym ELSE 0]
TheUses(c) == AttrUses(c)
TheMayRead(c) == AttrMayRead(c)
TheEval(c, u, v) == AttrValue(c, u, v)
TheReads(c, u, v) == AttrReads(c, u, v)
TheDependents == DependentSets
ThePrompted == PromptedSyms
=============================================================================
