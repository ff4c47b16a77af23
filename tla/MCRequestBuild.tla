--------------------------- MODULE MCRequestBuild ---------------------------
(* RequestBuild with three change sets of two items: the second depends on   *)
(* the first, and the line of the third mentions the first item.             *)
EXTENDS RequestBuild, TLC

CONSTANTS i1, i2, c1, c2, c3

MCItems == {i1, i2}
MCChangeSets == {c1, c2, c3}
MCItemOf == (c1 :> i1) @@ (c2 :> i2) @@ (c3 :> i2)
MCNeeds == (c1 :> {}) @@ (c2 :> {c1}) @@ (c3 :> {})
MCMentions == {<<i1, c3>>}
MCInStaging == {c1}
MCInTarget == {}
=============================================================================
