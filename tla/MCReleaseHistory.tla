-------------------------- MODULE MCReleaseHistory --------------------------
(***************************************************************************)
(* November is in production. Project a is up to date; b stayed behind in    *)
(* October, with a version that waits since, and gets a hotfix beside its    *)
(* next version; c is in no environment, but has a hotfix that may go to     *)
(* production first. The tables do not undo a failed statement.             *)
(***************************************************************************)
EXTENDS ReleaseTrack, TLC

MCProjects == {"a", "b", "c"}
MCVersions == {"v0", "v1", "v2", "fix"}
MCInstalled ==
  [row \in ({"a", "b"} \X {Ref, Prod}) \union {<<"b", 13>>} |->
     IF row[2] = 13 THEN "EMPTY" ELSE "v0"]
MCPopulated ==
  [k \in {"a"} \X {Ref, Prod} \X {"v0"} |-> 1811] @@
  [k \in {"b"} \X {Ref, Prod} \X {"v0"} |-> 1810] @@
  (<<"b", Ref, "v1">> :> 1811) @@ (<<"c", 13, "fix">> :> 1811)
MCDeployments ==
  ({"b"} \X ({Ref} \union HotFixes) \X {"fix"}) \union
  ({"b"} \X {Ref, Prod} \X {"v2"}) \union
  ({"c"} \X {Ref, Prod} \X {"v1"}) \union
  {<<"c", Prod, "fix">>, <<"b", 13, "EMPTY">>}
=============================================================================
