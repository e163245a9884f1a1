------------------------------ MODULE MCToolCalls ------------------------------
(***************************************************************************)
(* Instances of ToolCalls for TLC: tasks are interchangeable.*)
(***************************************************************************)
EXTENDS ToolCalls, TLC

CONSTANTS t1, t2, s1, s2

\* One tenant with two servers, one with a server of the same name.
MCConfigured == {<<t1, s1>>, <<t1, s2>>, <<t2, s1>>}

\* t2 does not allow what t1 allows on the server of the same name.
MCFirstLists == {[k \in MCConfigured |-> IF k = <<t2, s1>> THEN {} ELSE Tools]}

CallerSymmetry == Permutations(Requests)
================================================================================
