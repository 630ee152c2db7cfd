------------------------------ MODULE MCBridge ------------------------------
(* Model checking of the whole bridge on one dialog.                       *)
EXTENDS Bridge, TLC

CONSTANTS d1

OneDialog == {d1}
None == {}
Addressed == {"addressed", "refused"}
ReplyOrOff == {"text", "off"}
AddressedOnly == {"addressed"}
Ordinary == {"text", "off", "on"}
=============================================================================
