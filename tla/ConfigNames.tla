----------------------------- MODULE ConfigNames -----------------------------
(* The items of a Kconfig tree, and the None of their attributes. *)
CONSTANTS
  Symbols,   \* the defined symbols
  Choices,   \* the choices
  NoChoice,  \* Symbol.choice is None
  NoUser,    \* user_value is None
  NoSym      \* user_selection or selection is None

Items == Symbols \cup Choices
=============================================================================
