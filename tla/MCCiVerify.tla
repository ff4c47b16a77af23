----------------------------- MODULE MCCiVerify -----------------------------
(***************************************************************************)
(* Four work items. 301 and 302 need change sets of each other, 303 needs    *)
(* one of 302, which needs the first of 301. The number of 30 begins the     *)
(* others; nothing depends on it, and its comment mentions 302.             *)
(***************************************************************************)
EXTENDS CiVerify, TLC

MCItems == {"30", "301", "302", "303"}
MCItemOf == "a1" :> "301" @@ "a2" :> "301" @@ "b1" :> "302" @@ "c1" :> "303" @@
            "d1" :> "30"
MCChangeSets == DOMAIN MCItemOf
MCNeeds == "a1" :> {} @@ "b1" :> {"a1"} @@ "a2" :> {"a1", "b1"} @@
           "c1" :> {"a1", "b1"} @@ "d1" :> {}
MCBegins == {<<i, i>> : i \in MCItems} \union ({"30"} \X MCItems)
MCMentions == {<<"302", "d1">>}
=============================================================================
