---------------------------- MODULE MCReleaseFix ----------------------------
(***************************************************************************)
(* Project b, behind by a month, gets a hotfix while its next version is on  *)
(* the way. The tables do not undo a failed statement.                      *)
(***************************************************************************)
EXTENDS ReleaseTrack, TLC

MCProjects == {"a", "b"}
MCVersions == {"v0", "v1", "v2", "fix"}
MCInstalled ==
  [row \in ({"a", "b"} \X {Ref, Prod}) \union ({"b"} \X {13}) |->
     IF row[2] = 13 THEN "EMPTY" ELSE "v0"]
MCPopulated ==
  [k \in {"a"} \X {Ref, Prod} \X {"v0"} |-> 1812] @@
  [k \in {"b"} \X {Ref, Prod} \X {"v0"} |-> 1811]
MCDeployments ==
  ({"b"} \X {Ref, Prod} \X {"v1"}) \union
  ({"b"} \X ({Ref, Prod} \union HotFixes) \X {"fix"}) \union
  {<<"b", Ref, "v2">>}

\* For the run that shows a hotfix, then a version, of a project up to date.
UpToDate == [k \in {"a", "b"} \X {Ref, Prod} \X {"v0"} |-> 1812]
=============================================================================
