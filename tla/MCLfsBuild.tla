----------------------------- MODULE MCLfsBuild -----------------------------
(***************************************************************************)
(* LfsBuild with five scripts, the second and last of which unpack a       *)
(* source: all with a group, and with one early or late without.           *)
(***************************************************************************)
EXTENDS LfsBuild

CONSTANTS U, V

TheNeeds == <<{}, {U}, {}, {}, {U, V}>>

Groupings == {<<1, 2, 2, 3, 4>>, <<1, 0, 2, 3, 4>>, <<1, 2, 3, 4, 0>>}

TheInputs ==
  {[group |-> g, here |-> [u \in Sources |-> IF u = U THEN h ELSE "none"],
    sources |-> {}, getpkg |-> TRUE, config |-> TRUE, patient |-> p] :
     g \in Groupings, h \in {"none", "right"}, p \in BOOLEAN}
  \cup
  {[group |-> <<1, 2, 2, 3, 4>>, here |-> [u \in Sources |-> "wrong"],
    sources |-> Sources, getpkg |-> FALSE, config |-> c, patient |-> TRUE] : c \in BOOLEAN}
=============================================================================
