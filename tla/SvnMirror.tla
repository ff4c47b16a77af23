------------------------------ MODULE SvnMirror ------------------------------
(***************************************************************************)
(* The migration of SVN projects to Git: convertsvn2git.sh clones the        *)
(* projects of a CSV file and pushes each to a repository at Bitbucket,      *)
(* syncsvn2git.sh fetches what was committed to SVN since, and               *)
(* cloneStatus.sh reports which projects are cloned.                         *)
(*                                                                           *)
(* A project is its path below trunk, a sequence of names. It is cloned to   *)
(* the directory of that path, and pushed to a repository with the last name *)
(* of it. One script runs at a time. Branches and tags are left out; no two  *)
(* SVN repositories have projects of the same path.                          *)
(***************************************************************************)
EXTENDS Naturals, SequencesExt

CONSTANTS
  Projects,      \* paths: nonempty sequences of names
  Files,         \* the CSV files: sequences of projects
  Similar,       \* <<p, q>>: the text of path p is a part of the text of path q
  HasGitignore,  \* projects with a .gitignore in SVN, and no property svn:ignore
  None,
  MaxRevisions,  \* bound: revisions of a project
  MaxMade,       \* bound: commits that the scripts make
  MaxJobs        \* bound: scripts that are started

ASSUME ProjectsAssumption == None \notin Projects /\ \A p \in Projects : Len(p) > 0
ASSUME FilesAssumption == Files \subseteq Seq(Projects)
ASSUME BoundsAssumption == MaxRevisions \in Nat /\ MaxMade \in Nat /\ MaxJobs \in Nat

Names == {Last(p) : p \in Projects}
WithinOrAt(p, q) == IsPrefix(q, p)
Within(p, q) == IsStrictPrefix(q, p)

\* A commit of SVN, the same in every clone, or one that a script has made.
Commits == [project : Projects, revision : Nat, made : Nat]
FromSvn(p, r) == [project |-> p, revision |-> r, made |-> 0]
Made(p, n) == [project |-> p, revision |-> 0, made |-> n]
History(p, k) == [r \in 1..k |-> FromSvn(p, r)]

\* A clone: what was fetched of trunk, the branch master (empty until a fetch is
\* complete), and the folders that were deleted from its working tree.
Clones == [there : BOOLEAN, trunk : Nat, master : Seq(Commits), deleted : SUBSET Projects]
NoClone == [there |-> FALSE, trunk |-> 0, master |-> <<>>, deleted |-> {}]

VARIABLES
  svn,     \* svn[p]: the number of revisions of p
  clone,   \* clone[p]: the directory of p
  remote,  \* remote[n]: branch master of repository n at Bitbucket
  made,    \* commits that the scripts have made
  jobs,    \* scripts that were started
  job      \* the script that runs

vars == <<svn, clone, remote, made, jobs, job>>

Scripts == {"none", "convert", "sync", "status"}
Steps == {"project", "authors", "fetch", "commit", "rebase", "push"}

\* A script has its CSV file, the lines that are left, and for the current line
\* the step and the repository git finds. cloneStatus.sh has a directory, the
\* variable clonedStatus, and what it has reported.
Job == [script : Scripts, file : Seq(Projects), todo : Seq(Projects), step : Steps,
        at : Projects \union {None}, failed : BOOLEAN, cwd : Projects \union {None},
        clonedStatus : {"", "OK", "NO"}, report : [Projects -> {"", "OK", "NO"}]]
NewJob(script, file) ==
  [script |-> script, file |-> file, todo |-> file, step |-> "project", at |-> None,
   failed |-> FALSE, cwd |-> None, clonedStatus |-> "",
   report |-> [p \in Projects |-> ""]]
NoJob == NewJob("none", <<>>)

TypeOK ==
  /\ svn \in [Projects -> Nat]
  /\ clone \in [Projects -> Clones]
  /\ remote \in [Names -> Seq(Commits)]
  /\ made \in Nat
  /\ jobs \in Nat
  /\ job \in Job
  /\ job.step # "project" => job.todo # <<>>
  /\ job.script = "sync" /\ job.step # "project" => job.at \in Projects

Init ==
  /\ svn = [p \in Projects |-> 1]
  /\ clone = [p \in Projects |-> NoClone]
  /\ remote = [n \in Names |-> <<>>]
  /\ made = 0
  /\ jobs = 0
  /\ job = NoJob

(***************************************************************************)
(* Directories.                                                             *)
(***************************************************************************)
CheckedOut(q) == clone[q].there /\ clone[q].master # <<>>

\* The directory of p: its clone, a folder of the clone of an outer project, or
\* the parent of the clone of an inner one.
IsDirectory(p) ==
  \/ \E q \in Projects : clone[q].there /\ WithinOrAt(q, p)
  \/ \E q \in Projects : CheckedOut(q) /\ Within(p, q)
                         /\ ~\E d \in clone[q].deleted : WithinOrAt(p, d)

\* q is the repository that git finds in directory d: the innermost around it.
IsRepositoryAt(q, d) ==
  /\ d # None /\ clone[q].there /\ WithinOrAt(d, q)
  /\ \A r \in Projects : (clone[r].there /\ WithinOrAt(d, r)) => WithinOrAt(q, r)

\* Mutant of Found: one level deep.
FoundAtTop(p) == \E q \in Projects : /\ IsDirectory(q)
                                     /\ Len(q) <= 1
                                     /\ q = p \/ <<p, q>> \in Similar

\* find lists directories two levels deep, grep looks for p anywhere in their paths.
Found(p) == \E q \in Projects : /\ IsDirectory(q)
                                /\ Len(q) <= 2
                                /\ q = p \/ <<p, q>> \in Similar

\* checkProject: cd fails where there is no such directory, and the variable keeps
\* its value when the branch trunk is not found.
CdTo(p, cwd) == IF Found(p) /\ IsDirectory(p) THEN p ELSE cwd
StatusOf(p, cwd, clonedStatus) ==
  CASE ~Found(p) -> "NO"
    [] Found(p) /\ \E q \in Projects : /\ IsRepositoryAt(q, CdTo(p, cwd))
                                      /\ clone[q].trunk > 0 -> "OK"
    [] OTHER -> clonedStatus

-----------------------------------------------------------------------------
Project == Head(job.todo)
Running(script, step) == job.script = script /\ job.step = step /\ job.todo # <<>>

Start(script, file) ==
  /\ job.script = "none"
  /\ jobs < MaxJobs
  /\ jobs' = jobs + 1
  /\ job' = NewJob(script, file)
  /\ UNCHANGED <<svn, clone, remote, made>>

\* The subshell of this line goes on with step, or ends.
GoTo(step) == job' = [job EXCEPT !.step = step]
NextLineGoesOn(failed) ==  \* mutant of NextLine: the step is not reset
  job' = [job EXCEPT !.todo = Tail(@), !.at = None, !.failed = @ \/ failed]
NextLine(failed) ==
  job' = [job EXCEPT !.todo = Tail(@), !.step = "project", !.at = None,
                     !.failed = @ \/ failed]

End ==
  /\ job.script # "none"
  /\ job.todo = <<>>
  /\ job' = NoJob
  /\ UNCHANGED <<svn, clone, remote, made, jobs>>

\* The administrator stops the script, or the machine does.
Kill ==
  /\ job.script # "none"
  /\ job' = NoJob
  /\ UNCHANGED <<svn, clone, remote, made, jobs>>

\* A developer commits to SVN.
CommitToSvn(p) ==
  /\ svn[p] < MaxRevisions
  /\ svn' = [svn EXCEPT ![p] = @ + 1]
  /\ UNCHANGED <<clone, remote, made, jobs, job>>

\* getAuthors: exit 1 leaves the subshell only.
GetAuthors(script) ==
  /\ Running(script, "authors")
  /\ GoTo("fetch") \/ NextLine(TRUE)
  /\ UNCHANGED <<svn, clone, remote, made, jobs>>

(***************************************************************************)
(* convertsvn2git.sh                                                        *)
(***************************************************************************)

\* Mutant of Removed: of the folder at the top.
RemovedFromTop(p) == [q \in Projects |-> IF q[1] = p[1] THEN NoClone ELSE clone[q]]

\* rm -rf, of the clone and of all within it; a folder of an outer clone is gone
\* from its working tree.
Removed(p) ==
  [q \in Projects |->
     IF WithinOrAt(q, p) THEN NoClone
     ELSE IF CheckedOut(q) /\ Within(p, q)
       THEN [clone[q] EXCEPT !.deleted = @ \union {p}]
     ELSE clone[q]]
RemoveOld ==
  /\ Running("convert", "project")
  /\ clone' = Removed(Project)
  /\ GoTo("authors")
  /\ UNCHANGED <<svn, remote, made, jobs>>

\* git svn clone, and git svn fetch when it fails: a part of the revisions, or all
\* of them and master checked out.
Fetched(p, k, complete) ==
  [NoClone EXCEPT !.there = TRUE, !.trunk = k,
                  !.master = IF complete THEN History(p, k) ELSE <<>>]
CloneFromSvn ==
  /\ Running("convert", "fetch")
  /\ \E k \in 0..svn[Project], complete \in BOOLEAN :
       /\ complete => k = svn[Project]
       /\ clone' = [clone EXCEPT ![Project] = Fetched(Project, k, complete)]
       /\ job' = [job EXCEPT !.step = "commit", !.failed = @ \/ ~complete]
  /\ UNCHANGED <<svn, remote, made, jobs>>

\* show-ignore >> .gitignore, git add, git commit, and once more git add --all and
\* git commit: there is something to commit unless the file was there already
\* and nothing is added to it. The script goes on when both commits fail.
NothingToCommit(p) == p \in HasGitignore /\ clone[p].master # <<>>
CommitGitignore ==
  /\ Running("convert", "commit")
  /\ \/ /\ NothingToCommit(Project)
        /\ UNCHANGED <<clone, made>>
        /\ GoTo("push")
     \/ /\ ~NothingToCommit(Project) /\ made < MaxMade
        /\ clone' = [clone EXCEPT ![Project].master = Append(@, Made(Project, made + 1))]
        /\ made' = made + 1
        /\ GoTo("push")
     \/ /\ ~NothingToCommit(Project)
        /\ UNCHANGED <<clone, made>>
        /\ job' = [job EXCEPT !.step = "push", !.failed = TRUE]
  /\ UNCHANGED <<svn, remote, jobs>>

\* Mutants of Push: forced; after a merge of unrelated histories.
PushForced ==
  /\ Running("convert", "push")
  /\ remote' = [remote EXCEPT ![Last(Project)] = clone[Project].master]
  /\ NextLine(FALSE)
  /\ UNCHANGED <<svn, clone, made, jobs>>
PushMerged ==
  LET n == Last(Project)
      master == clone[Project].master
  IN /\ Running("convert", "push")
     /\ remote' = [remote EXCEPT ![n] = IF IsPrefix(@, master) THEN master ELSE @ \o master]
     /\ NextLine(FALSE)
     /\ UNCHANGED <<svn, clone, made, jobs>>

\* git push, not forced: refused unless it extends what is there. curl has made
\* the repository if there was none of that name.
Push ==
  LET n == Last(Project)
      master == clone[Project].master
  IN /\ Running("convert", "push")
     /\ \/ /\ IsPrefix(remote[n], master)
           /\ remote' = [remote EXCEPT ![n] = master]
           /\ NextLine(FALSE)
        \/ UNCHANGED remote /\ NextLine(TRUE)
     /\ UNCHANGED <<svn, clone, made, jobs>>

(***************************************************************************)
(* syncsvn2git.sh                                                           *)
(***************************************************************************)

\* checkProject, in a subshell of its own, and cd.
CheckProject ==
  /\ Running("sync", "project")
  /\ IF StatusOf(Project, None, "") = "OK"
       THEN \E q \in Projects : /\ IsRepositoryAt(q, Project)
                                /\ job' = [job EXCEPT !.step = "authors", !.at = q]
       ELSE NextLine(FALSE)
  /\ UNCHANGED <<svn, clone, remote, made, jobs>>

\* git svn fetch, which also makes master when there is none; after a failure
\* the rebase is left out.
FetchFromSvn ==
  LET q == job.at IN
  /\ Running("sync", "fetch")
  /\ \/ /\ clone' = [clone EXCEPT
                       ![q].trunk = svn[q],
                       ![q].master = IF @ = <<>> THEN History(q, svn[q]) ELSE @]
        /\ GoTo("rebase")
     \/ /\ \E k \in clone[q].trunk..svn[q] : clone' = [clone EXCEPT ![q].trunk = k]
        /\ job' = [job EXCEPT !.step = "push", !.failed = TRUE]
  /\ UNCHANGED <<svn, remote, made, jobs>>

\* sync-rebase: the commits that were made here are made again after those of SVN.
\* git refuses it while tracked files are deleted.
MadeHere(s) == Cardinality({i \in DOMAIN s : s[i].made # 0})
MadeAgain(q, m, n) == [i \in 1..m |-> Made(q, n + i)]
Rebased(q) ==
  History(q, clone[q].trunk) \o MadeAgain(q, MadeHere(clone[q].master), made)
UpToDate(q) == IsPrefix(History(q, clone[q].trunk), clone[q].master)
SyncRebase ==
  LET q == job.at IN
  /\ Running("sync", "rebase")
  /\ \/ /\ UpToDate(q)
        /\ UNCHANGED <<clone, made>>
        /\ GoTo("push")
     \/ /\ ~UpToDate(q) /\ clone[q].deleted = {}
        /\ made + MadeHere(clone[q].master) <= MaxMade
        /\ clone' = [clone EXCEPT ![q].master = Rebased(q)]
        /\ made' = made + MadeHere(clone[q].master)
        /\ GoTo("push")
     \/ /\ UNCHANGED <<clone, made>>
        /\ job' = [job EXCEPT !.step = "push", !.failed = TRUE]
  /\ UNCHANGED <<svn, remote, jobs>>

\* checkChanges: git status says "to be committed", never "to be commited", so
\* that there are "no changes in the repo" and nothing is pushed.
SkipPush ==
  /\ Running("sync", "push")
  /\ NextLine(FALSE)
  /\ UNCHANGED <<svn, clone, remote, made, jobs>>

(***************************************************************************)
(* cloneStatus.sh: one shell for all lines.                                 *)
(***************************************************************************)
ReportLine ==
  /\ Running("status", "project")
  /\ LET status == StatusOf(Project, job.cwd, job.clonedStatus)
     IN job' = [job EXCEPT !.todo = Tail(@), !.cwd = CdTo(Project, @),
                           !.clonedStatus = status, !.report[Project] = status]
  /\ UNCHANGED <<svn, clone, remote, made, jobs>>

-----------------------------------------------------------------------------
Convert == RemoveOld \/ GetAuthors("convert") \/ CloneFromSvn \/ CommitGitignore \/ Push
Sync == CheckProject \/ GetAuthors("sync") \/ FetchFromSvn \/ SyncRebase \/ SkipPush

Next ==
  \/ \E script \in {"convert", "sync", "status"}, file \in Files : Start(script, file)
  \/ Convert
  \/ Sync
  \/ ReportLine
  \/ End
  \/ Kill
  \/ \E p \in Projects : CommitToSvn(p)

Spec == Init /\ [][Next]_vars

-----------------------------------------------------------------------------
(***************************************************************************)
(* Properties.                                                              *)
(***************************************************************************)

\* The first k revisions of p, in order, and then what the scripts have made of it.
IsHistory(s, p, k) ==
  /\ k <= Len(s)
  /\ \A i \in 1..Len(s) : IF i <= k THEN s[i] = FromSvn(p, i)
                          ELSE s[i].project = p /\ s[i].made # 0

\* Whatever is pushed to Bitbucket is the history of one project, from its first
\* revision and without a gap, also when projects share a name, and after clones
\* that broke off.
RemoteIsHistory ==
  \A n \in Names : \E p \in Projects :
    Last(p) = n /\ \E k \in 0..svn[p] : IsHistory(remote[n], p, k)

\* Once a repository at Bitbucket has a commit that a script made, no conversion
\* changes it, be it of the same project or of another of that name: each makes a
\* commit of its own, or none, so that its push is no fast-forward and is refused.
OwnCommit(s) == \E i \in 1..Len(s) : s[i].made # 0
ConversionKeepsRemote ==
  [][\A n \in Names :
       (job.script = "convert" /\ OwnCommit(remote[n])) => remote'[n] = remote[n]]_vars

\* A conversion in which nothing fails has cloned the projects of the lines so
\* far, except those that a later line has removed with the project around it.
Done == Len(job.file) - Len(job.todo)
ConvertedStay ==
  (job.script = "convert" /\ ~job.failed) =>
    \A i \in 1..Done :
      \/ clone[job.file[i]].there /\ clone[job.file[i]].master # <<>>
      \/ \E j \in (i + 1)..Len(job.file) : WithinOrAt(job.file[i], job.file[j])

\* A project of at most two levels that is reported as not cloned has fetched
\* nothing, although a line may show the status of the line before.
ReportedNotCloned ==
  \A p \in Projects :
    (job.report[p] = "NO" /\ Len(p) <= 2) => clone[p].trunk = 0

-----------------------------------------------------------------------------
(* A promise of the documentation that the code does not keep *)

\* When a synchronisation has gone through its lines and nothing failed, what it
\* fetched into a clone is at Bitbucket, wherever a push could bring it there
\* (syncsvn2git.sh:5). Violated: nothing is ever pushed.
SyncedIsPushed ==
  (job.script = "sync" /\ job.todo = <<>> /\ ~job.failed) =>
    \A i \in DOMAIN job.file :
      LET p == job.file[i]
          n == Last(p)
      IN (remote[n] # <<>> /\ IsPrefix(remote[n], clone[p].master)) =>
           remote[n] = clone[p].master
=============================================================================
