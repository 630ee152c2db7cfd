------------------------------ MODULE MCInbound -----------------------------
(* Model checking of Inbound: small sets of dialogs and of kinds of       *)
(* message.                                                               *)
EXTENDS Inbound, TLC

CONSTANTS d1, d2

TwoDialogs == {d1, d2}
OneDialog == {d1}
Addressed == {"addressed", "ignored"}
=============================================================================
