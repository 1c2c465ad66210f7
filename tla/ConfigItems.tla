----------------------------- MODULE ConfigItems -----------------------------
(***************************************************************************)
(* The items of a Kconfig tree (symbols and choices) as the classes Symbol *)
(* and Choice of libs/menu/kconfiglib.py keep them, and the four ways      *)
(* their user values change.                                               *)
(***************************************************************************)
EXTENDS ConfigNames, Integers

CONSTANTS
  ChoiceOf,   \* ChoiceOf[s]: the choice symbol s is in, or NoChoice
  UserVals    \* UserVals[i]: the user values well formed for item i

(***************************************************************************)
(* u[s] is Symbol.user_value; u[c] holds Choice.user_value (mode) and      *)
(* Choice.user_selection (sel).                                            *)
(***************************************************************************)
SymbolUsers == {f \in [Symbols -> UNION {UserVals[s] : s \in Symbols}] :
                  \A s \in Symbols : f[s] \in UserVals[s]}

ChoiceUsers == {g \in [Choices -> UNION {UserVals[c] : c \in Choices}] :
                  \A c \in Choices : g[c] \in UserVals[c]}

Users == {[i \in Items |-> IF i \in Symbols THEN f[i] ELSE g[i]] :
            f \in SymbolUsers, g \in ChoiceUsers}

UntouchedChoice == [mode |-> NoUser, sel |-> NoSym]

Untouched == [i \in Items |-> IF i \in Symbols THEN NoUser ELSE UntouchedChoice]

\* Setting a choice symbol to y makes it the user selection of its choice.
SelectsChoice(s, x) == ChoiceOf[s] # NoChoice /\ x = 2

WithValue(u, s, x) ==
  IF SelectsChoice(s, x)
    THEN [u EXCEPT ![s] = x,
                   ![ChoiceOf[s]] = [mode |-> u[ChoiceOf[s]].mode, sel |-> s]]
    ELSE [u EXCEPT ![s] = x]

\* Mutant: unsetting a symbol sets it to n.
WithoutValueAtN(u, s) == [u EXCEPT ![s] = 0]

WithoutValue(u, s) == [u EXCEPT ![s] = NoUser]

WithMode(u, c, m) == [u EXCEPT ![c] = [mode |-> m, sel |-> u[c].sel]]

WithoutMode(u, c) == [u EXCEPT ![c] = UntouchedChoice]
=============================================================================
