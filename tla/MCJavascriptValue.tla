-------------------------- MODULE MCJavascriptValue --------------------------
(***************************************************************************)
(* JavascriptValue with ints and doubles of three bits each: the long      *)
(* 9 lies between two doubles and beyond the ints.  Two addresses are an   *)
(* array and the element taken from it, or a value and what was copied.    *)
(***************************************************************************)
EXTENDS JavascriptValue, TLC

MCInts == {3}
MCLongs == {9}
MCDoubles == {-7}

MCSymmetry == Permutations(Objects)
=============================================================================
