----------------------------- MODULE KconfigState -----------------------------
(* What parsing makes and the search for loops goes through. *)
VARIABLES
  def,     \* the symbols and choices
  status   \* how far Kconfig.__init__() has come: "parsing", "built", "searching",
           \* "accepted", "ready", or it has ended with an "error" or a "loop"
=============================================================================
