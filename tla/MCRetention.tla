----------------------------- MODULE MCRetention ----------------------------
(* Model checking of Retention on one dialog.                              *)
EXTENDS Retention, TLC

CONSTANTS d1

OneDialog == {d1}
None == {}
Addressed == {"addressed"}
ReplyOrOff == {"text", "off"}
=============================================================================
