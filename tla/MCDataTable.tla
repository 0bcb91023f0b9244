----------------------------- MODULE MCDataTable -----------------------------
(* An instance of DataTable for TLC.  No value is special, and arrays
   hold none or two elements. *)
EXTENDS PhpTable

TwoColumns == <<"array", "string">>

NoneOrTwo == {[v \in Value |-> IF v = w THEN <<>> ELSE <<"x", "y">>] : w \in Value}

ValueSymmetry == Permutations(Value)
=============================================================================
