----------------------------- MODULE ConfigTrees -----------------------------
(***************************************************************************)
(* Shorthands for writing Kconfig trees as the record Def of               *)
(* KconfigSemantics, in the form they have after Kconfig._finalize_tree(): *)
(* dependencies propagated to prompts, defaults and ranges, the choice     *)
(* propagated to the prompts of its symbols.                               *)
(***************************************************************************)
EXTENDS ConfigNames, Integers, Sequences

Const(n) == [op |-> "const", v |-> n]
N == Const(0)
Y == Const(2)
Lit(x) == [op |-> "lit", v |-> x]
It(i) == [op |-> "item", i |-> i]
Not(e) == [op |-> "not", a |-> e]
And(e, f) == [op |-> "and", a |-> e, b |-> f]
Or(e, f) == [op |-> "or", a |-> e, b |-> f]
Rel(e, r, f) == [op |-> "rel", rel |-> r, a |-> e, b |-> f]

Default(e, cond) == [val |-> e, cond |-> cond]
Selects(s, cond) == [sym |-> s, cond |-> cond]
Between(l, h, cond) == [low |-> l, high |-> h, cond |-> cond]

\* A symbol without prompt, defaults or dependencies.
Plain(type) ==
  [type |-> type, prompts |-> <<>>, defaults |-> <<>>, ranges |-> <<>>,
   rev |-> N, weak |-> N, direct |-> Y, choice |-> NoChoice]

\* One with a prompt.
Visible(type) == [Plain(type) EXCEPT !.prompts = <<Y>>]

TriVals == {NoUser, 0, 1, 2}
BoolVals == {NoUser, 0, 2}
ModeVals(modes, syms) == [mode : modes, sel : syms \cup {NoSym}]
=============================================================================
