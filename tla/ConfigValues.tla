---------------------------- MODULE ConfigValues ----------------------------
(***************************************************************************)
(* What the Kconfig engine of libs/menu/kconfiglib.py promises, with no    *)
(* cache in sight: an attribute of a symbol or choice (visibility, value,  *)
(* assignable values, selection) is a function of the user values alone,   *)
(* whatever was read or set before and in whatever order.  ConfigCache     *)
(* implements this with lazily filled, lazily invalidated caches.          *)
(***************************************************************************)
EXTENDS ConfigItems

CONSTANTS
  Cells,       \* the attributes, as pairs <<item, attribute>>
  NoRead,      \* nothing was read by the latest operation
  Truth(_, _)  \* Truth(c, u): attribute c computed from scratch under u

VARIABLES
  user,        \* the user values
  out          \* the attribute read by the latest operation, and its value

valueVars == <<user, out>>

Init == user = Untouched /\ out = NoRead

Change == /\ user' \in Users
          /\ out' = NoRead

Read(c) == /\ out' = [cell |-> c, val |-> Truth(c, user)]
           /\ UNCHANGED user

Next == Change \/ \E c \in Cells : Read(c)

Spec == Init /\ [][Next]_valueVars
=============================================================================
