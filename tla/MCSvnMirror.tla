----------------------------- MODULE MCSvnMirror -----------------------------
(***************************************************************************)
(* A project within another, and one with the same last name.                *)
(***************************************************************************)
EXTENDS SvnMirror

Outer == <<"foa">>
Inner == <<"foa", "web">>
Web == <<"web">>

MCProjects == {Outer, Inner, Web}
MCFiles == {<<Inner, Outer, Inner>>, <<Inner, Web>>}
MCSimilar == {<<Web, Inner>>, <<Outer, Inner>>}
MCHasGitignore == {Outer}

\* For the run that shows a synchronisation: Inner is pushed as it was in SVN.
InnerHasGitignore == {Inner}
=============================================================================
