---------------------------- MODULE MCFunctionMap ----------------------------
(* Instances of FunctionMap for TLC: two tenants with a function of the same *)
(* name, one of which is moved between two workers; the other shares its key *)
(* with a function of a third tenant.                                        *)
EXTENDS FunctionMap

MCFunctions == { <<"t", "nf">>, <<"tn", "f">>, <<"u", "nf">> }
MCConcat == [f \in MCFunctions |-> IF f[1] = "u" THEN "unf" ELSE "tnf"]
MCPlacement == [f \in MCFunctions |-> IF f[1] = "u" THEN {"w1", "w2"} ELSE {"w3"}]
==============================================================================
