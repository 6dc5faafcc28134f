------------------------------ MODULE MCWaterfall -----------------------------
(***************************************************************************)
(* Samples for TLC: short and long ones, of which one takes a whole number *)
(* of rows, one that starts deeper, and one so deep that it does not fit   *)
(* when it is alone in view.                                               *)
(***************************************************************************)
EXTENDS Waterfall

MCSamples == {[initPoint |-> 0, length |-> 4001], [initPoint |-> 0, length |-> 39957],
              [initPoint |-> 2019, length |-> 6305],
              [initPoint |-> 90001, length |-> 9999]}
=============================================================================
