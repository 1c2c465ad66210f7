---------------------------- MODULE MCKconfigLoops ----------------------------
(***************************************************************************)
(* KconfigLoops on all files of a few statements: symbols that may depend  *)
(* on each other, select or have no prompt, an if, a menu, a choice that   *)
(* may depend on a symbol, and a comment.                                  *)
(***************************************************************************)
EXTENDS KconfigLoops

CONSTANTS A, B, D, P, C, Other

St(kw, item) == [Top EXCEPT !.kw = kw, !.item = item, !.menuconfig = kw # "comment", !.prompt = <<>>]

Sym(s) == [St("config", s) EXCEPT !.type = "BOOL", !.menuconfig = FALSE, !.prompt = <<Y>>]

TheStatements ==
  {Sym(A), [Sym(B) EXCEPT !.dep = And(It(D), It(A))], [Sym(B) EXCEPT !.prompt = <<Rel(It(A), "!=", Y)>>],
   [Sym(D) EXCEPT !.selects = <<Selects(A, Y)>>], [Sym(D) EXCEPT !.dep = Or(It(A), It(B))],
   [Sym(P) EXCEPT !.prompt = <<>>, !.dep = It(A), !.defaults = <<Default(Y, It(B))>>],
   [St("if", "IF") EXCEPT !.dep = It(A)],
   [St("menu", "MENU") EXCEPT !.prompt = <<Y>>, !.visible = It(D)],
   [St("choice", C) EXCEPT !.prompt = <<Y>>], [St("choice", C) EXCEPT !.prompt = <<It(D)>>],
   [St("choice", C) EXCEPT !.prompt = <<Y>>, !.dep = It(P), !.defaults = <<[sym |-> A, cond |-> It(B)]>>],
   [St("comment", "COMMENT") EXCEPT !.prompt = <<Y>>, !.dep = It(P)]}

TheMaxDefs == [i \in {A, B, D, P, C} |-> 1]
TheConditions == UNION {{st.dep, st.visible} \cup {st.prompt[k] : k \in DOMAIN st.prompt} :
                          st \in TheStatements}

\* Expressions are those of bool symbols and choices that are not optional.
Bools == [i \in {A, B, D, P, C} |-> [type |-> "BOOL", optional |-> FALSE]]
Free == INSTANCE KconfigExpressions WITH Modules <- NoSym, Empty <- NoSym, Def <- Bools
TheMeaning(e, v) == Free!Evaluated(e, NoModes, v)

ASSUME MeaningAssumption ==
  MeansConjunction(TheConditions \cup {And(e, f) : e, f \in TheConditions})

TheSymbols == {A, B, D, P}
TheChoices == {C}
=============================================================================
