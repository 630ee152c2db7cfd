------------------------------ MODULE MCRunLoop -----------------------------
(* Model checking of RunLoop: intervals shorter than the cycles.           *)
EXTENDS RunLoop, TLC

ShortAndLong == {1, 5}
=============================================================================
