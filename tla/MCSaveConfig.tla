----------------------------- MODULE MCSaveConfig -----------------------------
(* SaveConfig with three configurations. *)
EXTENDS SaveConfig

CONSTANTS c1, c2, c3

TheContents == {c1, c2, c3}
=============================================================================
