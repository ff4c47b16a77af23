--------------------------- MODULE SvnMirror_proofs ---------------------------
(***************************************************************************)
(* For any projects, files and numbers of revisions: what is at Bitbucket    *)
(* under a name is the history of one project without a gap, and it is       *)
(* written once; a conversion keeps what it has cloned, and what is reported *)
(* as not cloned is not.                                                     *)
(***************************************************************************)
EXTENDS SvnMirror, SequenceTheorems, FiniteSetTheorems, TLAPS

-----------------------------------------------------------------------------
(***************************************************************************)
(* Commits and histories.                                                   *)
(***************************************************************************)
LEMMA CommitTypes ==
  ASSUME NEW p \in Projects, NEW n \in Nat
  PROVE  FromSvn(p, n) \in Commits /\ Made(p, n) \in Commits
  BY DEF FromSvn, Made, Commits

LEMMA HistoryProperties ==
  ASSUME NEW p \in Projects, NEW k \in Nat
  PROVE  /\ History(p, k) \in Seq(Commits)
         /\ Len(History(p, k)) = k
         /\ \A i \in 1..k : History(p, k)[i] = FromSvn(p, i)
<1>1. \A i \in 1..k : FromSvn(p, i) \in Commits
  BY CommitTypes
<1>2. History(p, k) \in [1..k -> Commits]
  BY <1>1 DEF History
<1>3. QED
  BY <1>2, SeqDef, LenProperties DEF History

LEMMA HistoryIsHistory ==
  ASSUME NEW p \in Projects, NEW k \in Nat
  PROVE  IsHistory(History(p, k), p, k)
  BY HistoryProperties DEF IsHistory

LEMMA MadeHereNat ==
  ASSUME NEW s \in Seq(Commits)
  PROVE  MadeHere(s) \in Nat
<1>1. IsFiniteSet(1..Len(s))
  BY FS_Interval, LenProperties
<1>2. {i \in DOMAIN s : s[i].made # 0} \subseteq 1..Len(s)
  BY LenProperties
<1>3. QED
  BY <1>1, <1>2, FS_Subset, FS_CardinalityType DEF MadeHere

LEMMA MadeAgainProperties ==
  ASSUME NEW p \in Projects, NEW m \in Nat, NEW n \in Nat
  PROVE  /\ MadeAgain(p, m, n) \in Seq(Commits)
         /\ Len(MadeAgain(p, m, n)) = m
         /\ \A i \in 1..m : MadeAgain(p, m, n)[i] = Made(p, n + i)
<1>1. \A i \in 1..m : Made(p, n + i) \in Commits
  BY CommitTypes
<1>2. MadeAgain(p, m, n) \in [1..m -> Commits]
  BY <1>1 DEF MadeAgain
<1>3. QED
  BY <1>2, SeqDef, LenProperties DEF MadeAgain

\* What the scripts make comes after the revisions, in a rebase too.
LEMMA RebasedIsHistory ==
  ASSUME NEW p \in Projects, NEW k \in Nat, NEW m \in Nat, NEW n \in Nat
  PROVE  /\ History(p, k) \o MadeAgain(p, m, n) \in Seq(Commits)
         /\ IsHistory(History(p, k) \o MadeAgain(p, m, n), p, k)
<1> DEFINE h == History(p, k)
           t == MadeAgain(p, m, n)
<1>1. /\ h \in Seq(Commits) /\ Len(h) = k
      /\ \A i \in 1..k : h[i] = FromSvn(p, i)
  BY HistoryProperties
<1>2. t \in Seq(Commits) /\ Len(t) = m
  BY MadeAgainProperties
<1>3. \A i \in 1..m : t[i].project = p /\ t[i].made # 0
  <2>1. \A i \in 1..m : t[i] = Made(p, n + i)
    BY MadeAgainProperties
  <2>2. \A i \in 1..m : Made(p, n + i).project = p /\ Made(p, n + i).made = n + i
    BY DEF Made
  <2>3. \A i \in 1..m : n + i # 0
    OBVIOUS
  <2> HIDE DEF t
  <2>4. QED
    BY <2>1, <2>2, <2>3
<1> HIDE DEF h, t
<1>4. /\ h \o t \in Seq(Commits)
      /\ Len(h \o t) = k + m
      /\ \A i \in 1..(k + m) : (h \o t)[i] = IF i <= k THEN h[i] ELSE t[i - k]
  BY <1>1, <1>2, ConcatProperties
<1>5. IsHistory(h \o t, p, k)
  BY <1>1, <1>3, <1>4 DEF IsHistory
<1>6. QED
  BY <1>4, <1>5 DEF h, t

LEMMA AppendedIsHistory ==
  ASSUME NEW p \in Projects, NEW s \in Seq(Commits), NEW k \in Nat, NEW n \in Nat \ {0},
         IsHistory(s, p, k)
  PROVE  /\ Append(s, Made(p, n)) \in Seq(Commits)
         /\ IsHistory(Append(s, Made(p, n)), p, k)
<1>1. Made(p, n) \in Commits /\ Made(p, n).project = p /\ Made(p, n).made = n
  BY DEF Made, Commits
<1>2. QED
  BY <1>1, AppendProperties, LenProperties DEF IsHistory

LEMMA PrefixElements ==
  ASSUME NEW s \in Seq(Commits), NEW t \in Seq(Commits), IsPrefix(s, t)
  PROVE  Len(s) <= Len(t) /\ \A i \in 1..Len(s) : s[i] = t[i]
<1>1. Len(s) <= Len(t) /\ SubSeq(s, 1, Len(s)) = SubSeq(t, 1, Len(s))
  BY DEF IsPrefix
<1>2. Len(s) \in Nat /\ Len(t) \in Nat
  BY LenProperties
<1>3. \A i \in 1..Len(s) : s[i] \in Commits /\ t[i] \in Commits
  BY <1>1, <1>2, LenProperties
<1>4. \A i \in 1..Len(s) : SubSeq(s, 1, Len(s))[i] = s[i] /\ SubSeq(t, 1, Len(s))[i] = t[i]
  BY <1>2, <1>3, SubSeqProperties
<1>5. QED
  BY <1>1, <1>4

-----------------------------------------------------------------------------
(***************************************************************************)
(* Types.                                                                   *)
(***************************************************************************)
LEMMA NewJobType ==
  ASSUME NEW script \in Scripts, NEW file \in Seq(Projects)
  PROVE  /\ NewJob(script, file) \in Job
         /\ NewJob(script, file).step = "project"
         /\ NewJob(script, file).script = script
  BY DEF NewJob, Job, Steps

LEMMA NoJobType == NoJob \in Job /\ NoJob.step = "project" /\ NoJob.script = "none"
  BY NewJobType, EmptySeq DEF NoJob, Scripts

LEMMA StatusType ==
  ASSUME NEW p \in Projects, NEW cwd \in Projects \union {None},
         NEW status \in {"", "OK", "NO"}
  PROVE  /\ StatusOf(p, cwd, status) \in {"", "OK", "NO"}
         /\ CdTo(p, cwd) \in Projects \union {None}
<1>1. CdTo(p, cwd) \in Projects \union {None}
  BY DEF CdTo
<1> DEFINE trunk == \E q \in Projects : /\ IsRepositoryAt(q, CdTo(p, cwd))
                                        /\ clone[q].trunk > 0
<1>2. StatusOf(p, cwd, status) = CASE ~Found(p) -> "NO"
                                   [] Found(p) /\ trunk -> "OK"
                                   [] OTHER -> status
  BY DEF StatusOf
<1> HIDE DEF trunk
<1>3. StatusOf(p, cwd, status) \in {"", "OK", "NO"}
  BY <1>2
<1>4. QED
  BY <1>1, <1>3

LEMMA LineType ==
  ASSUME job \in Job, job.todo # <<>>
  PROVE  Project \in Projects /\ Tail(job.todo) \in Seq(Projects)
  BY HeadTailProperties DEF Project, Job

LEMMA NextLineType ==
  ASSUME job \in Job, job.todo # <<>>, NEW failed \in BOOLEAN, NextLine(failed)
  PROVE  job' \in Job /\ job'.step = "project" /\ job'.script = job.script
  BY LineType DEF NextLine, Job, Steps

LEMMA GoToType ==
  ASSUME job \in Job, NEW step \in Steps, GoTo(step)
  PROVE  /\ job' \in Job /\ job'.step = step
         /\ job'.script = job.script /\ job'.todo = job.todo /\ job'.at = job.at
  BY DEF GoTo, Job

LEMMA CloneTypes ==
  ASSUME clone \in [Projects -> Clones]
  PROVE  /\ NoClone \in Clones
         /\ \A p \in Projects : Removed(p) \in [Projects -> Clones]
         /\ \A p \in Projects, k \in Nat, complete \in BOOLEAN :
              Fetched(p, k, complete) \in Clones
         /\ \A p \in Projects, s \in Seq(Commits) :
              [clone EXCEPT ![p].master = s] \in [Projects -> Clones]
         /\ \A p \in Projects, k \in Nat :
              [clone EXCEPT ![p].trunk = k] \in [Projects -> Clones]
<1>1. NoClone \in Clones
  BY EmptySeq DEF NoClone, Clones
<1>2. ASSUME NEW p \in Projects PROVE Removed(p) \in [Projects -> Clones]
  BY <1>1 DEF Removed, Clones
<1>3. ASSUME NEW p \in Projects, NEW k \in Nat, NEW complete \in BOOLEAN
      PROVE  Fetched(p, k, complete) \in Clones
  BY <1>1, HistoryProperties, EmptySeq DEF Fetched, Clones
<1>4. ASSUME NEW p \in Projects, NEW s \in Seq(Commits)
      PROVE  [clone EXCEPT ![p].master = s] \in [Projects -> Clones]
  <2>1. [clone[p] EXCEPT !.master = s] \in Clones
    BY DEF Clones
  <2>2. QED
    BY <2>1
<1>5. ASSUME NEW p \in Projects, NEW k \in Nat
      PROVE  [clone EXCEPT ![p].trunk = k] \in [Projects -> Clones]
  <2>1. [clone[p] EXCEPT !.trunk = k] \in Clones
    BY DEF Clones
  <2>2. QED
    BY <2>1
<1>6. QED
  BY <1>1, <1>2, <1>3, <1>4, <1>5

LEMMA FetchedTypes ==
  ASSUME NEW c \in Clones, NEW k \in Nat, NEW s \in Seq(Commits)
  PROVE  [c EXCEPT !.trunk = k, !.master = s] \in Clones
  BY DEF Clones

\* Every step keeps the clones, the repositories and the running script well formed.
THEOREM TypeCorrect == Spec => []TypeOK
<1>1. Init => TypeOK
  <2> SUFFICES ASSUME Init PROVE TypeOK
    OBVIOUS
  <2>1. NoClone \in Clones
    BY EmptySeq DEF NoClone, Clones
  <2>2. QED
    BY <2>1, NoJobType, EmptySeq DEF Init, TypeOK
<1>2. TypeOK /\ [Next]_vars => TypeOK'
  <2> SUFFICES ASSUME TypeOK, [Next]_vars PROVE TypeOK'
    OBVIOUS
  <2> USE DEF TypeOK
  <2>1. ASSUME NEW script \in {"convert", "sync", "status"}, NEW file \in Files,
               Start(script, file)
        PROVE  TypeOK'
    <3>1. script \in Scripts /\ file \in Seq(Projects)
      BY FilesAssumption DEF Scripts
    <3>2. QED
      BY <2>1, <3>1, NewJobType DEF Start
  <2>2. CASE RemoveOld
    <3>1. job' \in Job /\ job'.step = "authors" /\ job'.script = "convert"
          /\ job'.todo = job.todo
      BY <2>2, GoToType DEF RemoveOld, Running, Steps
    <3>2. Project \in Projects
      BY <2>2, LineType DEF RemoveOld, Running
    <3>3. clone' \in [Projects -> Clones]
      BY <2>2, <3>2, CloneTypes DEF RemoveOld
    <3>4. QED
      BY <2>2, <3>1, <3>3 DEF RemoveOld, Running
  <2>3. ASSUME NEW script \in {"convert", "sync"}, GetAuthors(script) PROVE TypeOK'
    <3>1. job.todo # <<>> /\ job.step = "authors"
      BY <2>3 DEF GetAuthors, Running
    <3>2. CASE GoTo("fetch")
      BY <2>3, <3>1, <3>2, GoToType DEF GetAuthors, Steps
    <3>3. CASE NextLine(TRUE)
      BY <2>3, <3>1, <3>3, NextLineType DEF GetAuthors
    <3>4. QED
      BY <2>3, <3>2, <3>3 DEF GetAuthors
  <2>4. CASE CloneFromSvn
    <3>1. Project \in Projects
      BY <2>4, LineType DEF CloneFromSvn, Running
    <3>2. PICK k \in 0..svn[Project], complete \in BOOLEAN :
            /\ clone' = [clone EXCEPT ![Project] = Fetched(Project, k, complete)]
            /\ job' = [job EXCEPT !.step = "commit", !.failed = @ \/ ~complete]
      BY <2>4 DEF CloneFromSvn
    <3>3. Fetched(Project, k, complete) \in Clones
      BY <3>1, <3>2, CloneTypes
    <3>4. clone' \in [Projects -> Clones]
      BY <3>2, <3>3
    <3>5. job' \in Job /\ job'.script = "convert" /\ job'.todo # <<>>
      BY <2>4, <3>2 DEF CloneFromSvn, Running, Job, Steps
    <3>6. QED
      BY <2>4, <3>4, <3>5 DEF CloneFromSvn
  <2>5. CASE CommitGitignore
    <3>1. Project \in Projects
      BY <2>5, LineType DEF CommitGitignore, Running
    <3>2. Made(Project, made + 1) \in Commits
      BY <3>1, CommitTypes
    <3>3. Append(clone[Project].master, Made(Project, made + 1)) \in Seq(Commits)
      BY <3>1, <3>2 DEF Clones
    <3>4. clone' \in [Projects -> Clones] /\ made' \in Nat
      <4> DEFINE s == Append(clone[Project].master, Made(Project, made + 1))
      <4>1. [clone EXCEPT ![Project].master = s] \in [Projects -> Clones]
        BY <3>1, <3>3, CloneTypes
      <4>2. \/ clone' = clone /\ made' = made
            \/ clone' = [clone EXCEPT ![Project].master = s] /\ made' = made + 1
        BY <2>5 DEF CommitGitignore
      <4>3. CASE clone' = clone /\ made' = made
        BY <4>3
      <4>4. CASE clone' = [clone EXCEPT ![Project].master = s] /\ made' = made + 1
        BY <4>1, <4>4
      <4>5. QED
        BY <4>2, <4>3, <4>4
    <3>5. job' \in Job /\ job'.script = "convert" /\ job'.todo # <<>>
      BY <2>5, GoToType DEF CommitGitignore, Running, Steps, Job
    <3>6. QED
      BY <2>5, <3>4, <3>5 DEF CommitGitignore
  <2>6. CASE Push
    <3>1. Project \in Projects /\ clone[Project].master \in Seq(Commits)
      BY <2>6, LineType DEF Push, Running, Clones
    <3>2. remote' \in [Names -> Seq(Commits)]
      BY <2>6, <3>1 DEF Push
    <3>3. job' \in Job /\ job'.step = "project"
      BY <2>6, NextLineType DEF Push, Running
    <3>4. QED
      BY <2>6, <3>2, <3>3 DEF Push
  <2>7. CASE CheckProject
    <3>1. CASE NextLine(FALSE)
      BY <2>7, <3>1, NextLineType DEF CheckProject, Running
    <3>2. CASE ~NextLine(FALSE)
      <4>1. PICK q \in Projects : job' = [job EXCEPT !.step = "authors", !.at = q]
        BY <2>7, <3>2 DEF CheckProject
      <4>2. job' \in Job /\ job'.todo = job.todo /\ job'.at \in Projects
        BY <4>1 DEF Job, Steps
      <4>3. QED
        BY <2>7, <4>2 DEF CheckProject, Running
    <3>3. QED
      BY <3>1, <3>2
  <2>8. CASE FetchFromSvn
    <3>1. job.at \in Projects /\ job.todo # <<>>
      BY <2>8 DEF FetchFromSvn, Running
    <3>2. svn[job.at] \in Nat /\ clone[job.at].trunk \in Nat
          /\ clone[job.at].master \in Seq(Commits)
      BY <3>1 DEF Clones
    <3>3. clone' \in [Projects -> Clones]
      <4>1. History(job.at, svn[job.at]) \in Seq(Commits)
        BY <3>1, <3>2, HistoryProperties
      <4>2. CASE \E k \in clone[job.at].trunk..svn[job.at] :
                   clone' = [clone EXCEPT ![job.at].trunk = k]
        BY <3>1, <3>2, <4>2, CloneTypes
      <4>3. CASE clone' = [clone EXCEPT
                       ![job.at].trunk = svn[job.at],
                       ![job.at].master = IF @ = <<>> THEN History(job.at, svn[job.at])
                                          ELSE @]
        <5> DEFINE s == IF clone[job.at].master = <<>> THEN History(job.at, svn[job.at])
                        ELSE clone[job.at].master
        <5>1. s \in Seq(Commits)
          BY <3>2, <4>1
        <5> HIDE DEF s
        <5>2. [clone[job.at] EXCEPT !.trunk = svn[job.at], !.master = s] \in Clones
          BY <3>1, <3>2, <5>1, FetchedTypes
        <5>3. clone' = [clone EXCEPT ![job.at] =
                          [clone[job.at] EXCEPT !.trunk = svn[job.at], !.master = s]]
          BY <3>1, <4>3 DEF Clones, s
        <5>4. QED
          BY <3>1, <5>2, <5>3
      <4>4. QED
        BY <2>8, <4>2, <4>3 DEF FetchFromSvn
    <3>4. job' \in Job /\ job'.todo = job.todo /\ job'.at = job.at
      <4>1. CASE GoTo("rebase")
        BY <4>1, GoToType DEF Steps
      <4>2. CASE job' = [job EXCEPT !.step = "push", !.failed = TRUE]
        BY <4>2 DEF Job, Steps
      <4>3. QED
        BY <2>8, <4>1, <4>2 DEF FetchFromSvn
    <3>5. QED
      BY <2>8, <3>1, <3>3, <3>4 DEF FetchFromSvn
  <2>9. CASE SyncRebase
    <3>1. job.at \in Projects /\ job.todo # <<>>
      BY <2>9 DEF SyncRebase, Running
    <3>2. clone[job.at].trunk \in Nat /\ clone[job.at].master \in Seq(Commits)
      BY <3>1 DEF Clones
    <3>3. MadeHere(clone[job.at].master) \in Nat
      BY <3>2, MadeHereNat
    <3>4. Rebased(job.at) \in Seq(Commits)
      BY <3>1, <3>2, <3>3, RebasedIsHistory DEF Rebased
    <3>5. clone' \in [Projects -> Clones] /\ made' \in Nat
      <4>1. [clone EXCEPT ![job.at].master = Rebased(job.at)] \in [Projects -> Clones]
        BY <3>1, <3>4, CloneTypes
      <4>2. CASE UNCHANGED <<clone, made>>
        BY <4>2
      <4>3. CASE ~UNCHANGED <<clone, made>>
        BY <2>9, <3>3, <4>1, <4>3 DEF SyncRebase
      <4>4. QED
        BY <4>2, <4>3
    <3>6. job' \in Job /\ job'.todo = job.todo /\ job'.at = job.at
      <4>1. CASE GoTo("push")
        BY <4>1, GoToType DEF Steps
      <4>2. CASE job' = [job EXCEPT !.step = "push", !.failed = TRUE]
        BY <4>2 DEF Job, Steps
      <4>3. QED
        BY <2>9, <4>1, <4>2 DEF SyncRebase
    <3>7. QED
      BY <2>9, <3>1, <3>5, <3>6 DEF SyncRebase
  <2>10. CASE SkipPush
    BY <2>10, NextLineType DEF SkipPush, Running
  <2>11. CASE ReportLine
    <3>1. Project \in Projects /\ Tail(job.todo) \in Seq(Projects)
      BY <2>11, LineType DEF ReportLine, Running
    <3>2. job.cwd \in Projects \union {None} /\ job.clonedStatus \in {"", "OK", "NO"}
      BY DEF Job
    <3> DEFINE status == StatusOf(Project, job.cwd, job.clonedStatus)
               cwd == CdTo(Project, job.cwd)
    <3>3. status \in {"", "OK", "NO"} /\ cwd \in Projects \union {None}
      BY <3>1, <3>2, StatusType
    <3>4. job' = [job EXCEPT !.todo = Tail(@), !.cwd = cwd,
                             !.clonedStatus = status, !.report[Project] = status]
      BY <2>11 DEF ReportLine
    <3> HIDE DEF status, cwd
    <3>5. job' \in Job /\ job'.step = job.step
      BY <3>1, <3>3, <3>4 DEF Job
    <3>6. QED
      BY <2>11, <3>5 DEF ReportLine, Running
  <2>12. CASE End \/ Kill
    BY <2>12, NoJobType DEF End, Kill
  <2>13. ASSUME NEW p \in Projects, CommitToSvn(p) PROVE TypeOK'
    BY <2>13 DEF CommitToSvn
  <2>14. CASE UNCHANGED vars
    BY <2>14 DEF vars
  <2>15. QED
    BY <2>1, <2>2, <2>3, <2>4, <2>5, <2>6, <2>7, <2>8, <2>9, <2>10, <2>11, <2>12, <2>13,
       <2>14 DEF Next, Convert, Sync
<1>3. QED
  BY <1>1, <1>2, PTL DEF Spec

-----------------------------------------------------------------------------
(***************************************************************************)
(* Bitbucket has the history of one project under each name. What is pushed  *)
(* is the branch master of a clone, so that the invariant says the same of   *)
(* every clone, complete or not.                                            *)
(***************************************************************************)
IsCloneOf(c, p, n) == c.trunk <= n /\ \E k \in 0..n : IsHistory(c.master, p, k)
ClonesAreHistories == \A p \in Projects : IsCloneOf(clone[p], p, svn[p])
HistoryInv == TypeOK /\ ClonesAreHistories /\ RemoteIsHistory

LEMMA EmptyIsHistory ==
  ASSUME NEW p \in Projects
  PROVE  IsHistory(<<>>, p, 0)
  BY DEF IsHistory

LEMMA NoCloneIsClone ==
  ASSUME NEW p \in Projects, NEW n \in Nat
  PROVE  IsCloneOf(NoClone, p, n)
<1>1. 0 \in 0..n /\ NoClone.trunk <= n /\ NoClone.master = <<>>
  BY DEF NoClone
<1>2. QED
  BY <1>1, EmptyIsHistory DEF IsCloneOf

LEMMA OneCloneChanges ==
  ASSUME TypeOK, ClonesAreHistories, svn' = svn, NEW q \in Projects,
         clone' \in [Projects -> Clones],
         \A p \in Projects \ {q} : clone'[p] = clone[p],
         IsCloneOf(clone'[q], q, svn[q])
  PROVE  ClonesAreHistories'
<1>1. ASSUME NEW p \in Projects PROVE IsCloneOf(clone'[p], p, svn'[p])
  <2>1. CASE p = q
    BY <2>1
  <2>2. CASE p # q
    <3>1. clone'[p] = clone[p] /\ IsCloneOf(clone[p], p, svn[p])
      BY <2>2 DEF ClonesAreHistories
    <3>2. QED
      BY <3>1
  <2>3. QED
    BY <2>1, <2>2
<1>2. QED
  BY <1>1 DEF ClonesAreHistories

\* Whatever is pushed to Bitbucket is the history of one project, for any projects,
\* however many clones broke off and whichever projects share a name.
THEOREM BitbucketIsHistory == Spec => []RemoteIsHistory
<1>1. Init => HistoryInv
  <2> SUFFICES ASSUME Init PROVE HistoryInv
    OBVIOUS
  <2>1. TypeOK
    <3>1. NoClone \in Clones
      BY EmptySeq DEF NoClone, Clones
    <3>2. QED
      BY <3>1, NoJobType, EmptySeq DEF Init, TypeOK
  <2>2. ClonesAreHistories
    BY NoCloneIsClone DEF Init, ClonesAreHistories
  <2>3. ASSUME NEW n \in Names
        PROVE  \E p \in Projects : Last(p) = n /\ \E k \in 0..svn[p] :
                                                     IsHistory(remote[n], p, k)
    <3>1. PICK p \in Projects : Last(p) = n
      BY DEF Names
    <3>2. remote[n] = <<>> /\ 0 \in 0..svn[p]
      BY DEF Init
    <3>3. IsHistory(remote[n], p, 0)
      BY <3>2, EmptyIsHistory
    <3>4. QED
      BY <3>1, <3>2, <3>3
  <2>4. QED
    BY <2>1, <2>2, <2>3 DEF HistoryInv, RemoteIsHistory
<1>2. HistoryInv /\ TypeOK' /\ [Next]_vars => HistoryInv'
  <2> SUFFICES ASSUME HistoryInv, TypeOK', [Next]_vars PROVE HistoryInv'
    OBVIOUS
  <2>0. TypeOK /\ ClonesAreHistories /\ RemoteIsHistory
    BY DEF HistoryInv
  <2>0a. clone \in [Projects -> Clones] /\ clone' \in [Projects -> Clones]
         /\ svn \in [Projects -> Nat]
    BY <2>0 DEF TypeOK
  <2>1. CASE UNCHANGED <<svn, clone, remote>>
    BY <2>0, <2>1 DEF HistoryInv, ClonesAreHistories, RemoteIsHistory
  <2>2. CASE RemoveOld
    <3>1. clone' = Removed(Project) /\ svn' = svn /\ remote' = remote
      BY <2>2 DEF RemoveOld
    <3>2. ASSUME NEW p \in Projects PROVE IsCloneOf(clone'[p], p, svn'[p])
      <4>1. CASE clone'[p] = NoClone
        BY <2>0a, <3>1, <4>1, NoCloneIsClone
      <4>2. CASE clone'[p] # NoClone
        <5>1. clone'[p].trunk = clone[p].trunk /\ clone'[p].master = clone[p].master
          BY <2>0a, <3>1, <4>2 DEF Removed, Clones
        <5>2. IsCloneOf(clone[p], p, svn[p])
          BY <2>0 DEF ClonesAreHistories
        <5>3. QED
          BY <3>1, <5>1, <5>2 DEF IsCloneOf
      <4>3. QED
        BY <4>1, <4>2
    <3>3. QED
      BY <2>0, <3>1, <3>2 DEF HistoryInv, ClonesAreHistories, RemoteIsHistory
  <2>3. CASE CloneFromSvn
    <3>1. Project \in Projects
      BY <2>0, <2>3, LineType DEF CloneFromSvn, Running, TypeOK
    <3>2. PICK k \in 0..svn[Project], complete \in BOOLEAN :
            clone' = [clone EXCEPT ![Project] = Fetched(Project, k, complete)]
      BY <2>3 DEF CloneFromSvn
    <3>3. Fetched(Project, k, complete).trunk = k
          /\ Fetched(Project, k, complete).master \in {History(Project, k), <<>>}
      BY DEF Fetched, NoClone
    <3>4. k \in Nat /\ k <= svn[Project] /\ 0 \in 0..svn[Project]
      BY <2>0a, <3>1
    <3>5. \E j \in 0..svn[Project] :
            IsHistory(Fetched(Project, k, complete).master, Project, j)
      BY <3>1, <3>3, <3>4, HistoryIsHistory, EmptyIsHistory
    <3>6. IsCloneOf(Fetched(Project, k, complete), Project, svn[Project])
      BY <3>3, <3>4, <3>5 DEF IsCloneOf
    <3>7. ClonesAreHistories'
      BY <2>0, <2>0a, <2>3, <3>1, <3>2, <3>6, OneCloneChanges DEF CloneFromSvn
    <3>8. QED
      BY <2>0, <2>3, <3>7 DEF CloneFromSvn, HistoryInv, RemoteIsHistory
  <2>4. CASE CommitGitignore
    <3>1. CASE clone' = clone
      BY <2>1, <2>4, <3>1 DEF CommitGitignore
    <3>2. CASE clone' = [clone EXCEPT ![Project].master =
                                        Append(@, Made(Project, made + 1))]
      <4>1. Project \in Projects
        BY <2>0, <2>4, LineType DEF CommitGitignore, Running, TypeOK
      <4> DEFINE s == clone[Project].master
      <4>2. clone' = [clone EXCEPT ![Project].master = Append(s, Made(Project, made + 1))]
        BY <3>2
      <4>3. made + 1 \in Nat \ {0} /\ s \in Seq(Commits)
        BY <2>0, <4>1 DEF TypeOK, Clones
      <4>4. PICK k \in 0..svn[Project] : IsHistory(s, Project, k)
        BY <2>0, <4>1 DEF ClonesAreHistories, IsCloneOf
      <4>5. k \in Nat
        BY <4>4
      <4>6. IsHistory(Append(s, Made(Project, made + 1)), Project, k)
        BY <4>1, <4>3, <4>4, <4>5, AppendedIsHistory
      <4>7. clone'[Project].trunk = clone[Project].trunk
            /\ clone'[Project].master = Append(s, Made(Project, made + 1))
        BY <2>0a, <4>1, <4>2 DEF Clones
      <4>8. IsCloneOf(clone'[Project], Project, svn[Project])
        BY <2>0, <4>1, <4>4, <4>6, <4>7 DEF ClonesAreHistories, IsCloneOf
      <4>9. ClonesAreHistories'
        BY <2>0, <2>0a, <2>4, <4>1, <4>2, <4>8, OneCloneChanges DEF CommitGitignore
      <4>10. QED
        BY <2>0, <2>4, <4>9 DEF CommitGitignore, HistoryInv, RemoteIsHistory
    <3>3. QED
      BY <2>4, <3>1, <3>2 DEF CommitGitignore
  <2>5. CASE Push
    <3>1. Project \in Projects /\ Last(Project) \in Names
      BY <2>0, <2>5, LineType DEF Push, Running, TypeOK, Names
    <3>2. CASE UNCHANGED remote
      BY <2>1, <2>5, <3>2 DEF Push
    <3>3. CASE remote' = [remote EXCEPT ![Last(Project)] = clone[Project].master]
      <4>1. \E k \in 0..svn[Project] : IsHistory(clone[Project].master, Project, k)
        BY <2>0, <3>1 DEF ClonesAreHistories, IsCloneOf
      <4>2. svn' = svn /\ clone' = clone
        BY <2>5 DEF Push
      <4>3. ASSUME NEW n \in Names
            PROVE  \E p \in Projects : Last(p) = n /\ \E k \in 0..svn[p] :
                                                         IsHistory(remote'[n], p, k)
        <5>1. CASE n = Last(Project)
          <6>1. remote'[n] = clone[Project].master
            BY <2>0, <3>1, <3>3, <5>1 DEF TypeOK
          <6>2. QED
            BY <3>1, <4>1, <5>1, <6>1
        <5>2. CASE n # Last(Project)
          <6>1. remote'[n] = remote[n]
            BY <2>0, <3>3, <5>2 DEF TypeOK
          <6>2. QED
            BY <2>0, <6>1 DEF RemoteIsHistory
        <5>3. QED
          BY <5>1, <5>2
      <4>4. RemoteIsHistory'
        BY <4>2, <4>3 DEF RemoteIsHistory
      <4>5. QED
        BY <2>0, <4>2, <4>4 DEF HistoryInv, ClonesAreHistories
    <3>4. QED
      BY <2>5, <3>2, <3>3 DEF Push
  <2>6. CASE FetchFromSvn
    <3>1. job.at \in Projects /\ svn' = svn /\ remote' = remote
      BY <2>0, <2>6 DEF FetchFromSvn, Running, TypeOK
    <3> DEFINE q == job.at
               c == clone[q]
    <3>2. IsCloneOf(c, q, svn[q])
      BY <2>0, <3>1 DEF ClonesAreHistories
    <3>3. c \in Clones /\ svn[q] \in Nat
      BY <2>0a, <3>1
    <3>4. CASE \E k \in c.trunk..svn[q] : clone' = [clone EXCEPT ![q].trunk = k]
      <4>1. PICK k \in c.trunk..svn[q] : clone' = [clone EXCEPT ![q].trunk = k]
        BY <3>4
      <4>2. clone'[q].trunk = k /\ clone'[q].master = c.master /\ k <= svn[q]
        BY <2>0a, <3>1, <3>3, <4>1 DEF Clones
      <4>3. IsCloneOf(clone'[q], q, svn[q])
        BY <3>2, <4>2 DEF IsCloneOf
      <4>4. ClonesAreHistories'
        BY <2>0, <2>0a, <3>1, <4>1, <4>3, OneCloneChanges
      <4>5. QED
        BY <2>0, <3>1, <4>4 DEF HistoryInv, RemoteIsHistory
    <3>5. CASE clone' = [clone EXCEPT ![q].trunk = svn[q],
                           ![q].master = IF @ = <<>> THEN History(q, svn[q]) ELSE @]
      <4>1. clone'[q].trunk = svn[q]
            /\ clone'[q].master \in {History(q, svn[q]), c.master}
        BY <2>0a, <3>1, <3>3, <3>5 DEF Clones
      <4>2. IsHistory(History(q, svn[q]), q, svn[q]) /\ svn[q] \in 0..svn[q]
        BY <3>1, <3>3, HistoryIsHistory
      <4>3. IsCloneOf(clone'[q], q, svn[q])
        BY <3>2, <3>3, <4>1, <4>2 DEF IsCloneOf
      <4>4. ClonesAreHistories'
        BY <2>0, <2>0a, <3>1, <3>5, <4>3, OneCloneChanges
      <4>5. QED
        BY <2>0, <3>1, <4>4 DEF HistoryInv, RemoteIsHistory
    <3>6. QED
      BY <2>6, <3>4, <3>5 DEF FetchFromSvn
  <2>7. CASE SyncRebase
    <3>1. CASE UNCHANGED <<clone, made>>
      BY <2>1, <2>7, <3>1 DEF SyncRebase
    <3>2. CASE ~UNCHANGED <<clone, made>>
      <4>1. job.at \in Projects /\ svn' = svn /\ remote' = remote
        BY <2>0, <2>7 DEF SyncRebase, Running, TypeOK
      <4> DEFINE q == job.at
                 k == clone[q].trunk
      <4>2. clone' = [clone EXCEPT ![q].master = Rebased(q)]
        BY <2>7, <3>2 DEF SyncRebase
      <4>3. k \in 0..svn[q] /\ k \in Nat /\ made \in Nat
        BY <2>0, <4>1 DEF ClonesAreHistories, IsCloneOf, TypeOK, Clones
      <4>4. MadeHere(clone[q].master) \in Nat
        BY <2>0a, <4>1, MadeHereNat DEF Clones
      <4>5. IsHistory(Rebased(q), q, k)
        BY <4>1, <4>3, <4>4, RebasedIsHistory DEF Rebased
      <4>6. clone'[q].trunk = k /\ clone'[q].master = Rebased(q)
        BY <2>0a, <4>1, <4>2 DEF Clones
      <4>7. IsCloneOf(clone'[q], q, svn[q])
        BY <4>3, <4>5, <4>6 DEF IsCloneOf
      <4>8. ClonesAreHistories'
        BY <2>0, <2>0a, <4>1, <4>2, <4>7, OneCloneChanges
      <4>9. QED
        BY <2>0, <4>1, <4>8 DEF HistoryInv, RemoteIsHistory
    <3>3. QED
      BY <3>1, <3>2
  <2>8. ASSUME NEW r \in Projects, CommitToSvn(r) PROVE HistoryInv'
    <3>1. clone' = clone /\ remote' = remote
          /\ \A p \in Projects : svn'[p] \in Nat /\ svn[p] \in Nat /\ svn[p] <= svn'[p]
      BY <2>0a, <2>8 DEF CommitToSvn
    <3>2. \A p \in Projects : 0..svn[p] \subseteq 0..svn'[p]
      BY <3>1
    <3>3. ASSUME NEW p \in Projects PROVE IsCloneOf(clone'[p], p, svn'[p])
      <4>1. IsCloneOf(clone[p], p, svn[p]) /\ clone[p].trunk \in Nat
        BY <2>0, <2>0a DEF ClonesAreHistories, Clones
      <4>2. QED
        BY <3>1, <3>2, <4>1 DEF IsCloneOf
    <3>4. RemoteIsHistory'
      <4>1. ASSUME NEW n \in Names
            PROVE  \E p \in Projects : Last(p) = n /\ \E k \in 0..svn'[p] :
                                                         IsHistory(remote'[n], p, k)
        BY <2>0, <3>1, <3>2 DEF RemoteIsHistory
      <4>2. QED
        BY <4>1 DEF RemoteIsHistory
    <3>5. QED
      BY <3>3, <3>4 DEF HistoryInv, ClonesAreHistories
  <2>9. QED
    BY <2>1, <2>2, <2>3, <2>4, <2>5, <2>6, <2>7, <2>8
    DEF Next, Convert, Sync, Start, GetAuthors, End, Kill, CheckProject, SkipPush,
        ReportLine, vars
<1>3. QED
  BY <1>1, <1>2, TypeCorrect, PTL DEF Spec, HistoryInv

-----------------------------------------------------------------------------
(***************************************************************************)
(* A conversion pushes commits of SVN and at most one that was made after   *)
(* everything at Bitbucket, so that it extends no repository that has one of *)
(* the scripts' commits already.                                            *)
(***************************************************************************)
RemoteMadeBefore == \A n \in Names : \A i \in 1..Len(remote[n]) : remote[n][i].made <= made
NotYetMade ==
  Running("convert", "commit") =>
    \A i \in 1..Len(clone[Project].master) : clone[Project].master[i].made = 0
MadeForPush ==
  Running("convert", "push") =>
    LET s == clone[Project].master
    IN \A i \in 1..Len(s) :
         \/ s[i].made = 0
         \/ /\ s[i].made = made
            /\ \A n \in Names : \A j \in 1..Len(remote[n]) : remote[n][j].made < made
PushedInv == RemoteMadeBefore /\ NotYetMade /\ MadeForPush

\* No conversion changes what is at Bitbucket under a name once a commit that a
\* script made is in it, for any projects, whatever fails.
THEOREM ConversionsKeepRemote == Spec => ConversionKeepsRemote
<1> DEFINE Keeps == \A n \in Names :
       (job.script = "convert" /\ OwnCommit(remote[n])) => remote'[n] = remote[n]
<1>1. Init => PushedInv
  <2> SUFFICES ASSUME Init PROVE PushedInv
    OBVIOUS
  <2>1. \A n \in Names : remote[n] = <<>> /\ Len(remote[n]) = 0
    BY DEF Init
  <2>2. job.script = "none"
    BY NoJobType DEF Init
  <2>3. QED
    BY <2>1, <2>2 DEF PushedInv, RemoteMadeBefore, NotYetMade, MadeForPush,
                      Running
<1>2. TypeOK /\ TypeOK' /\ PushedInv /\ [Next]_vars => PushedInv' /\ Keeps
  <2> SUFFICES ASSUME TypeOK, TypeOK', PushedInv, [Next]_vars PROVE PushedInv' /\ Keeps
    OBVIOUS
  <2>0. RemoteMadeBefore /\ NotYetMade /\ MadeForPush
    BY DEF PushedInv
  <2>0a. /\ clone \in [Projects -> Clones] /\ remote \in [Names -> Seq(Commits)]
         /\ made \in Nat /\ made' \in Nat /\ svn \in [Projects -> Nat]
    BY DEF TypeOK
  <2>0b. \A n \in Names : \A i \in 1..Len(remote[n]) : remote[n][i].made \in Nat
    <3>1. ASSUME NEW n \in Names, NEW i \in 1..Len(remote[n])
          PROVE  remote[n][i] \in Commits
      BY <2>0a, ElementOfSeq
    <3>2. QED
      BY <3>1 DEF Commits
  <2>1. ASSUME UNCHANGED <<remote, clone, made, job>> PROVE PushedInv' /\ Keeps
    BY <2>0, <2>1 DEF PushedInv, RemoteMadeBefore, NotYetMade, MadeForPush,
                      Running, Project
  <2>2. ASSUME remote' = remote, made' = made, ~Running("convert", "commit")',
               ~Running("convert", "push")'
        PROVE  PushedInv' /\ Keeps
    BY <2>0, <2>2 DEF PushedInv, RemoteMadeBefore, NotYetMade, MadeForPush
  <2>3. CASE RemoveOld \/ GetAuthors("convert")
    <3>1. job'.step \in {"authors", "fetch", "project"}
      BY <2>3 , GoToType, NextLineType
      DEF RemoveOld, GetAuthors, Running, TypeOK, Steps
    <3>2. QED
      BY <2>2, <2>3, <3>1 DEF RemoveOld, GetAuthors, Running
  <2>4. CASE CloneFromSvn
    <3>1. Project \in Projects /\ job.todo # <<>>
      BY <2>4, LineType DEF CloneFromSvn, Running, TypeOK
    <3>2. PICK k \in 0..svn[Project], complete \in BOOLEAN :
            /\ clone' = [clone EXCEPT ![Project] = Fetched(Project, k, complete)]
            /\ job' = [job EXCEPT !.step = "commit", !.failed = @ \/ ~complete]
      BY <2>4 DEF CloneFromSvn
    <3>3. job'.step = "commit" /\ Project' = Project
      BY <3>2 DEF Project, TypeOK, Job
    <3>4. clone'[Project].master \in {History(Project, k), <<>>}
      BY <2>0a, <3>1, <3>2 DEF Fetched, NoClone
    <3>5. \A i \in 1..Len(clone'[Project].master) : clone'[Project].master[i].made = 0
      <4>1. k \in Nat
        BY <2>0a, <3>1
      <4>2. CASE clone'[Project].master = <<>>
        BY <4>2
      <4>3. CASE clone'[Project].master = History(Project, k)
        <5>1. Len(History(Project, k)) = k
              /\ \A i \in 1..k : History(Project, k)[i] = FromSvn(Project, i)
          BY <3>1, <4>1, HistoryProperties
        <5>2. \A i \in 1..k : FromSvn(Project, i).made = 0
          BY DEF FromSvn
        <5>3. QED
          BY <4>3, <5>1, <5>2
      <4>4. QED
        BY <3>4, <4>2, <4>3
    <3>6. NotYetMade' /\ MadeForPush'
      BY <3>3, <3>5 DEF NotYetMade, MadeForPush, Running
    <3>7. QED
      BY <2>0, <2>4, <3>6 DEF CloneFromSvn, PushedInv, RemoteMadeBefore
  <2>5. CASE CommitGitignore
    <3>1. Project \in Projects /\ job.todo # <<>> /\ Running("convert", "commit")
      BY <2>5, LineType DEF CommitGitignore, Running, TypeOK
    <3>2. job'.step = "push" /\ Project' = Project /\ remote' = remote
      BY <2>5, <3>1, GoToType DEF CommitGitignore, Project, TypeOK, Steps, Job
    <3> DEFINE s == clone[Project].master
    <3>3. s \in Seq(Commits) /\ \A i \in 1..Len(s) : s[i].made = 0
      BY <2>0, <2>0a, <3>1 DEF NotYetMade, Clones
    <3>4. CASE clone' = clone /\ made' = made
      <4>1. MadeForPush' /\ NotYetMade'
        BY <3>2, <3>3, <3>4 DEF MadeForPush, NotYetMade, Running
      <4>2. QED
        BY <2>0, <3>2, <3>4, <4>1 DEF PushedInv, RemoteMadeBefore
    <3>5. CASE /\ clone' = [clone EXCEPT ![Project].master =
                                        Append(@, Made(Project, made + 1))]
               /\ made' = made + 1
      <4> DEFINE t == Append(s, Made(Project, made + 1))
      <4>1. clone'[Project].master = t
        BY <2>0a, <3>1, <3>5 DEF Clones
      <4>2. Made(Project, made + 1).made = made + 1
        BY DEF Made
      <4>3. Len(t) = Len(s) + 1 /\ t[Len(s) + 1] = Made(Project, made + 1)
            /\ \A i \in 1..Len(s) : t[i] = s[i]
        BY <2>0a, <3>1, <3>3, CommitTypes, AppendProperties
      <4>4. Len(s) \in Nat
        BY <3>3, LenProperties
      <4> HIDE DEF s, t
      <4>5. \A i \in 1..Len(t) : t[i].made \in {0, made + 1}
        BY <3>3, <4>2, <4>3, <4>4
      <4>6. \A n \in Names : \A i \in 1..Len(remote[n]) : remote[n][i].made < made + 1
        BY <2>0, <2>0a, <2>0b DEF RemoteMadeBefore
      <4>7. MadeForPush'
        BY <3>1, <3>2, <3>5, <4>1, <4>5, <4>6 DEF MadeForPush
      <4>8. NotYetMade'
        BY <3>2 DEF NotYetMade, Running
      <4>9. RemoteMadeBefore'
        BY <2>0, <2>0a, <2>0b, <3>2, <3>5 DEF RemoteMadeBefore
      <4>10. QED
        BY <3>2, <4>7, <4>8, <4>9 DEF PushedInv
    <3>6. QED
      BY <2>5, <3>4, <3>5 DEF CommitGitignore
  <2>6. CASE Push
    <3>1. Project \in Projects /\ Running("convert", "push") /\ Last(Project) \in Names
      BY <2>6, LineType DEF Push, Running, TypeOK, Names
    <3>2. clone' = clone /\ made' = made
      BY <2>6 DEF Push
    <3>3. job'.step = "project"
      BY <2>6, NextLineType DEF Push, Running, TypeOK
    <3>4. NotYetMade' /\ MadeForPush'
      BY <3>3 DEF NotYetMade, MadeForPush, Running
    <3>5. CASE remote' = remote
      BY <2>0, <3>2, <3>4, <3>5 DEF PushedInv, RemoteMadeBefore
    <3>6. CASE remote' # remote
      <4> DEFINE N == Last(Project)
                 s == clone[Project].master
      <4>1. IsPrefix(remote[N], s) /\ remote' = [remote EXCEPT ![N] = s]
        BY <2>6, <3>6 DEF Push
      <4>2. s \in Seq(Commits) /\ remote[N] \in Seq(Commits)
        BY <2>0a, <3>1 DEF Clones
      <4>3. Len(remote[N]) <= Len(s) /\ \A i \in 1..Len(remote[N]) : remote[N][i] = s[i]
        BY <4>1, <4>2, PrefixElements
      <4>4. Len(remote[N]) \in Nat /\ Len(s) \in Nat
        BY <4>2, LenProperties
      <4>5. \A i \in 1..Len(s) :
              \/ s[i].made = 0
              \/ /\ s[i].made = made
                 /\ \A n \in Names : \A j \in 1..Len(remote[n]) : remote[n][j].made < made
        BY <2>0, <3>1 DEF MadeForPush
      <4>6. remote'[N] = s /\ \A n \in Names \ {N} : remote'[n] = remote[n]
        BY <2>0a, <3>1, <4>1
      <4> HIDE DEF N, s
      <4>7. ASSUME OwnCommit(remote[N]) PROVE FALSE
        <5>1. PICK i \in 1..Len(remote[N]) : remote[N][i].made # 0
          BY <4>7 DEF OwnCommit
        <5>2. i \in 1..Len(s) /\ s[i] = remote[N][i]
          BY <4>3, <4>4, <5>1
        <5>3. s[i].made = made /\ remote[N][i].made < made
          BY <3>1, <4>5, <5>1, <5>2 DEF N
        <5>4. QED
          BY <2>0a, <5>2, <5>3
      <4>8. Keeps
        BY <4>6, <4>7
      <4>9. RemoteMadeBefore'
        BY <2>0, <2>0a, <3>2, <4>5, <4>6 DEF RemoteMadeBefore
      <4>10. QED
        BY <3>4, <4>8, <4>9 DEF PushedInv
    <3>7. QED
      BY <3>5, <3>6
  <2>7. CASE CheckProject \/ GetAuthors("sync") \/ FetchFromSvn \/ SkipPush \/ ReportLine
    <3>1. job'.script = job.script /\ job.script # "convert"
      <4>1. CASE CheckProject \/ ReportLine
        BY <4>1 DEF CheckProject, ReportLine, Running, NextLine, TypeOK, Job
      <4>2. CASE GetAuthors("sync") \/ FetchFromSvn \/ SkipPush
        BY <4>2 DEF GetAuthors, FetchFromSvn, SkipPush, Running, NextLine, GoTo, TypeOK, Job
      <4>3. QED
        BY <2>7, <4>1, <4>2
    <3>2. remote' = remote /\ made' = made
      BY <2>7 DEF CheckProject, GetAuthors, FetchFromSvn, SkipPush, ReportLine
    <3>3. QED
      BY <2>2, <3>1, <3>2 DEF Running
  <2>8. CASE SyncRebase
    <3>1. job'.script = "sync" /\ remote' = remote
      BY <2>8 DEF SyncRebase, Running, GoTo, TypeOK, Job
    <3>2. made <= made'
      <4>1. job.at \in Projects
        BY <2>8 DEF SyncRebase, Running, TypeOK
      <4>2. MadeHere(clone[job.at].master) \in Nat
        BY <2>0a, <4>1, MadeHereNat DEF Clones
      <4>3. QED
        BY <2>0a, <2>8, <4>2 DEF SyncRebase
    <3>3. RemoteMadeBefore'
      BY <2>0, <2>0a, <2>0b, <3>1, <3>2 DEF RemoteMadeBefore
    <3>4. QED
      BY <2>0, <3>1, <3>3 DEF PushedInv, NotYetMade, MadeForPush, Running
  <2>9. ASSUME NEW script \in {"convert", "sync", "status"}, NEW file \in Files,
               Start(script, file)
        PROVE  PushedInv' /\ Keeps
    <3>1. job'.step = "project"
      BY <2>9 DEF Start, NewJob
    <3>2. QED
      BY <2>2, <2>9, <3>1 DEF Start, Running
  <2>10. CASE End \/ Kill
    <3>1. job'.step = "project"
      BY <2>10, NoJobType DEF End, Kill
    <3>2. QED
      BY <2>2, <2>10, <3>1 DEF End, Kill, Running
  <2>11. ASSUME NEW p \in Projects, CommitToSvn(p) PROVE PushedInv' /\ Keeps
    BY <2>1, <2>11 DEF CommitToSvn
  <2>12. CASE UNCHANGED vars
    BY <2>1, <2>12 DEF vars
  <2>13. QED
    BY <2>3, <2>4, <2>5, <2>6, <2>7, <2>8, <2>9, <2>10, <2>11, <2>12
    DEF Next, Convert, Sync
<1>3. Keeps => [Keeps]_vars
  OBVIOUS
<1>4. QED
  BY <1>1, <1>2, <1>3, TypeCorrect, PTL DEF Spec, ConversionKeepsRemote

-----------------------------------------------------------------------------
(***************************************************************************)
(* What cloneStatus.sh reports. No script changes a clone while it runs.     *)
(***************************************************************************)
LEMMA PathInItself ==
  ASSUME NEW p \in Projects
  PROVE  WithinOrAt(p, p)
  BY DEF WithinOrAt, IsPrefix

\* A directory that is no clone has fetched nothing, and only cloneStatus.sh reports.
NothingFetched == \A p \in Projects : ~clone[p].there => clone[p].trunk = 0
ReportsOwn == job.script # "status" => \A p \in Projects : job.report[p] = ""
\* What syncsvn2git.sh works on is a clone.
SyncsClone == job.script = "sync" /\ job.step # "project" => clone[job.at].there
ReportInv == NothingFetched /\ ReportsOwn /\ SyncsClone /\ ReportedNotCloned

LEMMA NothingReported ==
  ASSUME NEW script, NEW file
  PROVE  /\ NewJob(script, file).step = "project"
         /\ \A p \in Projects : NewJob(script, file).report[p] = ""
  BY DEF NewJob

\* The status that is kept from the line before does no harm either: a clone that
\* has fetched something is found, and is the repository that git finds in it.
LEMMA NotClonedStatus ==
  ASSUME NothingFetched, TypeOK, NEW p \in Projects, Len(p) <= 2, NEW cwd, NEW status,
         StatusOf(p, cwd, status) = "NO"
  PROVE  clone[p].trunk = 0
<1> SUFFICES ASSUME clone[p].there PROVE clone[p].trunk = 0
  BY DEF NothingFetched
<1>1. IsDirectory(p)
  BY PathInItself DEF IsDirectory
<1>2. Found(p) /\ CdTo(p, cwd) = p
  BY <1>1 DEF Found, CdTo
<1>3. p # None
  BY ProjectsAssumption
<1>4. IsRepositoryAt(p, p)
  BY <1>3, PathInItself DEF IsRepositoryAt
<1>5. ~(clone[p].trunk > 0)
  <2> SUFFICES ASSUME clone[p].trunk > 0 PROVE FALSE
    OBVIOUS
  <2>1. \E q \in Projects : IsRepositoryAt(q, CdTo(p, cwd)) /\ clone[q].trunk > 0
    BY <1>2, <1>4
  <2>2. StatusOf(p, cwd, status) = "OK"
    BY <1>2, <2>1 DEF StatusOf
  <2>3. QED
    BY <2>2
<1>6. QED
  BY <1>5 DEF TypeOK, Clones

\* What cloneStatus.sh has reported as not cloned has fetched nothing, for any
\* projects of at most two levels and whatever conversions came before.
THEOREM ReportsAreTrue == Spec => []ReportedNotCloned
<1>1. Init => ReportInv
  <2> SUFFICES ASSUME Init PROVE ReportInv
    OBVIOUS
  <2>1. job.step = "project" /\ \A p \in Projects : job.report[p] = ""
    BY NothingReported DEF Init, NoJob
  <2>2. \A p \in Projects : clone[p].trunk = 0
    BY DEF Init, NoClone
  <2>3. QED
    BY <2>1, <2>2 DEF ReportInv, NothingFetched, ReportsOwn, SyncsClone, ReportedNotCloned
<1>2. TypeOK /\ TypeOK' /\ ReportInv /\ [Next]_vars => ReportInv'
  <2> SUFFICES ASSUME TypeOK, TypeOK', ReportInv, [Next]_vars PROVE ReportInv'
    OBVIOUS
  <2>0. /\ clone \in [Projects -> Clones] /\ job \in Job /\ job' \in Job
        /\ NothingFetched /\ ReportsOwn /\ SyncsClone /\ ReportedNotCloned
    BY DEF TypeOK, ReportInv
  <2>1. ASSUME NothingFetched', SyncsClone', job'.script # "status",
               job'.report = job.report, job.script # "status"
        PROVE  ReportInv'
    BY <2>0, <2>1 DEF ReportInv, ReportsOwn, ReportedNotCloned
  <2>2. ASSUME clone' = clone, \A p \in Projects : job'.report[p] = "",
               job'.step = "project"
        PROVE  ReportInv'
    BY <2>0, <2>2 DEF ReportInv, ReportsOwn, ReportedNotCloned, NothingFetched, SyncsClone
  <2>3. ASSUME clone' = clone, job' = job PROVE ReportInv'
    BY <2>0, <2>3 DEF ReportInv, ReportsOwn, ReportedNotCloned, NothingFetched, SyncsClone
  <2>4. CASE RemoveOld
    <3>1. job'.script = "convert" /\ job'.report = job.report /\ job.script = "convert"
      BY <2>0, <2>4 DEF RemoveOld, Running, GoTo, Job
    <3>2. NothingFetched'
      BY <2>0, <2>4 DEF RemoveOld, Removed, NothingFetched, NoClone, Clones
    <3>3. QED
      BY <2>1, <3>1, <3>2 DEF SyncsClone
  <2>5. ASSUME NEW script \in {"convert", "sync"}, GetAuthors(script) PROVE ReportInv'
    <3>1. /\ job'.script = script /\ job'.report = job.report /\ job.script = script
          /\ job.step = "authors"
          /\ job'.step = "project" \/ job'.at = job.at
      BY <2>0, <2>5 DEF GetAuthors, Running, GoTo, NextLine, Job
    <3>2. SyncsClone'
      BY <2>0, <2>5, <3>1 DEF GetAuthors, SyncsClone
    <3>3. QED
      BY <2>0, <2>1, <2>5, <3>1, <3>2 DEF GetAuthors, NothingFetched
  <2>6. CASE CloneFromSvn
    <3>1. PICK k \in 0..svn[Project], complete \in BOOLEAN :
            /\ clone' = [clone EXCEPT ![Project] = Fetched(Project, k, complete)]
            /\ job' = [job EXCEPT !.step = "commit", !.failed = @ \/ ~complete]
      BY <2>6 DEF CloneFromSvn
    <3>2. job'.script = "convert" /\ job'.report = job.report /\ job.script = "convert"
      BY <2>0, <2>6, <3>1 DEF CloneFromSvn, Running, Job
    <3>3. Fetched(Project, k, complete).there
      BY DEF Fetched, NoClone
    <3>4. NothingFetched'
      BY <2>0, <3>1, <3>3 DEF NothingFetched
    <3>5. QED
      BY <2>1, <3>2, <3>4 DEF SyncsClone
  <2>7. CASE CommitGitignore
    <3>1. job'.script = "convert" /\ job'.report = job.report /\ job.script = "convert"
      BY <2>0, <2>7 DEF CommitGitignore, Running, GoTo, Job
    <3>2. NothingFetched'
      BY <2>0, <2>7 DEF CommitGitignore, NothingFetched, Clones
    <3>3. QED
      BY <2>1, <3>1, <3>2 DEF SyncsClone
  <2>8. CASE Push
    <3>1. job'.script = "convert" /\ job'.report = job.report /\ job.script = "convert"
      BY <2>0, <2>8 DEF Push, Running, NextLine, Job
    <3>2. QED
      BY <2>0, <2>1, <2>8, <3>1 DEF Push, NothingFetched, SyncsClone
  <2>9. CASE CheckProject
    <3>1. job'.script = "sync" /\ job'.report = job.report /\ job.script = "sync"
      BY <2>0, <2>9 DEF CheckProject, Running, NextLine, Job
    <3>2. SyncsClone'
      <4>1. CASE NextLine(FALSE)
        BY <2>0, <4>1 DEF NextLine, SyncsClone, Job
      <4>2. CASE \E q \in Projects : /\ IsRepositoryAt(q, Project)
                                     /\ job' = [job EXCEPT !.step = "authors", !.at = q]
        BY <2>0, <2>9, <4>2 DEF CheckProject, SyncsClone, IsRepositoryAt, Job
      <4>3. QED
        BY <2>9, <4>1, <4>2 DEF CheckProject
    <3>3. QED
      BY <2>0, <2>1, <2>9, <3>1, <3>2 DEF CheckProject, NothingFetched
  <2>10. CASE FetchFromSvn
    <3>1. /\ job'.script = "sync" /\ job'.report = job.report /\ job.script = "sync"
          /\ job'.at = job.at /\ job.step = "fetch" /\ job.at \in Projects
      BY <2>0, <2>10 DEF FetchFromSvn, Running, GoTo, Job, TypeOK
    <3>2. clone[job.at].there
      BY <2>0, <3>1 DEF SyncsClone
    <3>3. /\ clone'[job.at].there = clone[job.at].there
          /\ \A p \in Projects \ {job.at} : clone'[p] = clone[p]
      <4>1. CASE clone' = [clone EXCEPT
                   ![job.at].trunk = svn[job.at],
                   ![job.at].master = IF @ = <<>> THEN History(job.at, svn[job.at]) ELSE @]
        BY <2>0, <3>1, <4>1 DEF Clones
      <4>2. CASE \E k \in clone[job.at].trunk..svn[job.at] :
                   clone' = [clone EXCEPT ![job.at].trunk = k]
        BY <2>0, <3>1, <4>2 DEF Clones
      <4>3. QED
        BY <2>10, <4>1, <4>2 DEF FetchFromSvn
    <3>4. NothingFetched' /\ SyncsClone'
      BY <2>0, <3>1, <3>2, <3>3 DEF NothingFetched, SyncsClone
    <3>5. QED
      BY <2>1, <3>1, <3>4
  <2>11. CASE SyncRebase
    <3>1. /\ job'.script = "sync" /\ job'.report = job.report /\ job.script = "sync"
          /\ job'.at = job.at /\ job.step = "rebase" /\ job.at \in Projects
      BY <2>0, <2>11 DEF SyncRebase, Running, GoTo, Job, TypeOK
    <3>2. NothingFetched' /\ SyncsClone'
      BY <2>0, <2>11, <3>1 DEF SyncRebase, NothingFetched, SyncsClone, Clones
    <3>3. QED
      BY <2>1, <3>1, <3>2
  <2>12. CASE SkipPush
    <3>1. /\ job'.script = "sync" /\ job'.report = job.report /\ job.script = "sync"
          /\ job'.step = "project"
      BY <2>0, <2>12 DEF SkipPush, Running, NextLine, Job
    <3>2. QED
      BY <2>0, <2>1, <2>12, <3>1 DEF SkipPush, NothingFetched, SyncsClone
  <2>13. CASE ReportLine
    <3>1. Project \in Projects /\ job.script = "status" /\ clone' = clone
      BY <2>0, <2>13, LineType DEF ReportLine, Running
    <3>2. PICK status \in {StatusOf(Project, job.cwd, job.clonedStatus)} :
            job' = [job EXCEPT !.todo = Tail(@), !.cwd = CdTo(Project, @),
                               !.clonedStatus = status, !.report[Project] = status]
      BY <2>13 DEF ReportLine
    <3>3. /\ job'.script = "status"
          /\ job'.report[Project] = status
          /\ \A p \in Projects \ {Project} : job'.report[p] = job.report[p]
      BY <2>0, <3>1, <3>2 DEF Job
    <3>4. ReportedNotCloned'
      <4> SUFFICES ASSUME NEW p \in Projects, job'.report[p] = "NO", Len(p) <= 2
                   PROVE  clone[p].trunk = 0
        BY <3>1 DEF ReportedNotCloned
      <4>1. CASE p = Project
        BY <2>0, <3>2, <3>3, <4>1, NotClonedStatus
      <4>2. CASE p # Project
        BY <2>0, <3>3, <4>2 DEF ReportedNotCloned
      <4>3. QED
        BY <4>1, <4>2
    <3>5. QED
      BY <2>0, <3>1, <3>3, <3>4 DEF ReportInv, ReportsOwn, NothingFetched, SyncsClone
  <2>14. CASE End \/ Kill \/ \E script \in {"convert", "sync", "status"}, file \in Files :
                                 Start(script, file)
    BY <2>2, <2>14, NothingReported DEF End, Kill, Start, NoJob
  <2>15. ASSUME NEW p \in Projects, CommitToSvn(p) PROVE ReportInv'
    BY <2>3, <2>15 DEF CommitToSvn
  <2>16. CASE UNCHANGED vars
    BY <2>3, <2>16 DEF vars
  <2>17. QED
    BY <2>4, <2>5, <2>6, <2>7, <2>8, <2>9, <2>10, <2>11, <2>12, <2>13, <2>14, <2>15, <2>16
    DEF Next, Convert, Sync
<1>3. ReportInv => ReportedNotCloned
  BY DEF ReportInv
<1>4. QED
  BY <1>1, <1>2, <1>3, TypeCorrect, PTL DEF Spec

-----------------------------------------------------------------------------
(***************************************************************************)
(* What convertsvn2git.sh leaves behind, line by line.                      *)
(***************************************************************************)

\* The lines that are left are the last ones of the file.
LinesInv ==
  /\ Len(job.todo) <= Len(job.file)
  /\ \A k \in 1..Len(job.todo) : job.todo[k] = job.file[Done + k]

\* As long as nothing has failed, the clone of the current line is complete when it
\* is pushed.
CurrentLine ==
  (job.script = "convert" /\ ~job.failed) =>
    /\ job.step \in {"commit", "push"} => clone[Project].there
    /\ job.step = "push" => clone[Project].master # <<>>

\* Line i is kept: its clone is there, or a later line is of a project around it.
Kept(i) ==
  \/ clone[job.file[i]].there /\ clone[job.file[i]].master # <<>>
  \/ \E j \in (i + 1)..Len(job.file) : WithinOrAt(job.file[i], job.file[j])

ConvertInv == LinesInv /\ CurrentLine /\ ConvertedStay

LEMMA JobLines ==
  ASSUME job \in Job, LinesInv
  PROVE  /\ Done \in Nat /\ Done + Len(job.todo) = Len(job.file)
         /\ \A i \in 1..Done : job.file[i] \in Projects
         /\ job.todo # <<>> => /\ Done + 1 \in 1..Len(job.file)
                              /\ Project = job.file[Done + 1]
<1>1. /\ job.todo \in Seq(Projects) /\ job.file \in Seq(Projects)
      /\ Len(job.todo) \in Nat /\ Len(job.file) \in Nat
  BY LenProperties DEF Job
<1>2. Done \in Nat /\ Done + Len(job.todo) = Len(job.file)
  BY <1>1 DEF Done, LinesInv
<1>3. \A i \in 1..Done : job.file[i] \in Projects
  BY <1>1, <1>2, ElementOfSeq
<1>4. ASSUME job.todo # <<>> PROVE Done + 1 \in 1..Len(job.file) /\ Project = job.file[Done + 1]
  <2>1. Len(job.todo) # 0 /\ Head(job.todo) = job.todo[1]
    BY <1>1, <1>4, EmptySeq, HeadTailProperties
  <2>2. 1 \in 1..Len(job.todo)
    BY <1>1, <2>1
  <2>3. QED
    BY <1>1, <1>2, <2>1, <2>2 DEF Project, LinesInv
<1>5. QED
  BY <1>2, <1>3, <1>4

LEMMA LinesLeft ==
  ASSUME job \in Job, LinesInv, job.todo # <<>>, job'.file = job.file,
         job'.todo \in {job.todo, Tail(job.todo)}
  PROVE  LinesInv' /\ (job'.todo = Tail(job.todo) => Done' = Done + 1)
<1>1. /\ job.todo \in Seq(Projects) /\ job.file \in Seq(Projects)
      /\ Len(job.todo) \in Nat /\ Len(job.file) \in Nat
  BY LenProperties DEF Job
<1>2. CASE job'.todo = Tail(job.todo)
  <2>1. /\ Len(job'.todo) = Len(job.todo) - 1 /\ Len(job.todo) > 0
        /\ \A k \in 1..Len(job'.todo) : job'.todo[k] = job.todo[k + 1]
    BY <1>1, <1>2, HeadTailProperties
  <2>2. Done' = Done + 1 /\ Done \in Nat
    BY <1>1, <2>1, JobLines DEF Done
  <2>3. ASSUME NEW k \in 1..Len(job'.todo) PROVE job'.todo[k] = job'.file[Done' + k]
    <3>1. k + 1 \in 1..Len(job.todo) /\ job.todo[k + 1] = job.file[Done + (k + 1)]
      BY <1>1, <2>1 DEF LinesInv
    <3>2. Done + (k + 1) = Done' + k
      BY <1>1, <2>1, <2>2
    <3>3. QED
      BY <2>1, <3>1, <3>2
  <2>4. QED
    BY <1>1, <2>1, <2>2, <2>3 DEF LinesInv
<1>3. CASE job'.todo = job.todo /\ job'.todo # Tail(job.todo)
  BY <1>3 DEF LinesInv, Done
<1>4. QED
  BY <1>2, <1>3

LEMMA NextLineLines ==
  ASSUME job \in Job, LinesInv, job.todo # <<>>, NEW failed \in BOOLEAN, NextLine(failed)
  PROVE  /\ LinesInv' /\ Done' = Done + 1 /\ job'.file = job.file
         /\ job'.step = "project" /\ job'.failed = (job.failed \/ failed)
<1>1. /\ job'.todo = Tail(job.todo) /\ job'.file = job.file /\ job'.step = "project"
      /\ job'.failed = (job.failed \/ failed)
  BY DEF NextLine, Job
<1>2. QED
  BY <1>1, LinesLeft

\* Within a line, the lines before it are kept when their clones are, or when the
\* project of the line is around theirs.
Spared(q) ==
  \/ WithinOrAt(q, Project)
  \/ clone'[q].there = clone[q].there /\ (clone[q].master # <<>> => clone'[q].master # <<>>)

LEMMA SameLine ==
  ASSUME job \in Job, ConvertInv, job.todo # <<>>,
         job'.file = job.file, job'.todo = job.todo, job'.script = job.script,
         job'.failed \/ job'.failed = job.failed,
         \A q \in Projects : Spared(q)
  PROVE  LinesInv' /\ ConvertedStay'
<1>1. LinesInv /\ ConvertedStay
  BY DEF ConvertInv
<1>2. Done' = Done /\ LinesInv'
  BY <1>1 DEF Done, LinesInv
<1>3. /\ Done \in Nat /\ \A i \in 1..Done : job.file[i] \in Projects
      /\ Done + 1 \in 1..Len(job.file) /\ Project = job.file[Done + 1]
  BY <1>1, JobLines
<1>4. ASSUME job.script = "convert", ~job.failed, NEW i \in 1..Done PROVE Kept(i)'
  <2>1. Kept(i) /\ job.file[i] \in Projects
    BY <1>1, <1>3, <1>4 DEF ConvertedStay, Kept
  <2>2. CASE WithinOrAt(job.file[i], Project)
    <3>1. Done + 1 \in (i + 1)..Len(job.file)
      BY <1>3
    <3>2. QED
      BY <1>3, <2>2, <3>1 DEF Kept
  <2>3. CASE ~WithinOrAt(job.file[i], Project)
    BY <2>1, <2>3 DEF Kept, Spared
  <2>4. QED
    BY <2>2, <2>3
<1>5. QED
  BY <1>2, <1>4 DEF ConvertedStay, Kept

\* A conversion whose lines all went well has their clones, for any file: the same
\* project twice, and projects in one another.
THEOREM ConversionsStay == Spec => []ConvertedStay
<1>1. Init => ConvertInv
  <2> SUFFICES ASSUME Init PROVE ConvertInv
    OBVIOUS
  <2>1. job.script = "none" /\ job.todo = <<>> /\ job.file = <<>>
    BY DEF Init, NoJob, NewJob
  <2>2. QED
    BY <2>1 DEF ConvertInv, LinesInv, CurrentLine, ConvertedStay
<1>2. TypeOK /\ TypeOK' /\ ConvertInv /\ [Next]_vars => ConvertInv'
  <2> SUFFICES ASSUME TypeOK, TypeOK', ConvertInv, [Next]_vars PROVE ConvertInv'
    OBVIOUS
  <2>0. /\ clone \in [Projects -> Clones] /\ job \in Job
        /\ LinesInv /\ CurrentLine /\ ConvertedStay
    BY DEF TypeOK, ConvertInv
  <2>1. ASSUME LinesInv', job'.script # "convert" PROVE ConvertInv'
    BY <2>1 DEF ConvertInv, CurrentLine, ConvertedStay
  <2>2. ASSUME clone' = clone, job' = job PROVE ConvertInv'
    BY <2>0, <2>2 DEF ConvertInv, LinesInv, CurrentLine, ConvertedStay, Done, Project
  <2>3. ASSUME job'.todo = job'.file, job'.step = "project", job' \in Job PROVE ConvertInv'
    <3>1. Len(job'.file) \in Nat
      BY <2>3, LenProperties DEF Job
    <3>2. Done' = 0
      BY <2>3, <3>1 DEF Done
    <3>3. QED
      BY <2>3, <3>1, <3>2 DEF ConvertInv, LinesInv, CurrentLine, ConvertedStay
  <2>4. CASE RemoveOld
    <3>1. /\ job.script = "convert" /\ job.todo # <<>> /\ Project \in Projects
          /\ clone' = Removed(Project)
      BY <2>0, <2>4, LineType DEF RemoveOld, Running
    <3>2. /\ job'.file = job.file /\ job'.todo = job.todo /\ job'.script = job.script
          /\ job'.failed = job.failed /\ job'.step = "authors"
      BY <2>0, <2>4 DEF RemoveOld, GoTo, Job
    <3>3. ASSUME NEW q \in Projects PROVE Spared(q)
      BY <2>0, <3>1 DEF Removed, Clones, Spared
    <3>4. LinesInv' /\ ConvertedStay'
      BY <2>0, <3>1, <3>2, <3>3, SameLine DEF ConvertInv
    <3>5. QED
      BY <3>2, <3>4 DEF ConvertInv, CurrentLine
  <2>5. ASSUME NEW script \in {"convert", "sync"}, GetAuthors(script) PROVE ConvertInv'
    <3>1. job.script = script /\ job.todo # <<>> /\ clone' = clone
      BY <2>5 DEF GetAuthors, Running
    <3>2. CASE GoTo("fetch")
      <4>1. /\ job'.file = job.file /\ job'.todo = job.todo /\ job'.script = job.script
            /\ job'.failed = job.failed /\ job'.step = "fetch"
        BY <2>0, <3>2 DEF GoTo, Job
      <4>2. LinesInv' /\ ConvertedStay'
        BY <2>0, <3>1, <4>1, SameLine DEF ConvertInv, Spared
      <4>3. QED
        BY <4>1, <4>2 DEF ConvertInv, CurrentLine
    <3>3. CASE NextLine(TRUE)
      <4>1. LinesInv' /\ job'.failed
        BY <2>0, <3>1, <3>3, NextLineLines
      <4>2. QED
        BY <4>1 DEF ConvertInv, CurrentLine, ConvertedStay
    <3>4. QED
      BY <2>5, <3>2, <3>3 DEF GetAuthors
  <2>6. CASE CloneFromSvn
    <3>1. Project \in Projects /\ job.todo # <<>> /\ job.script = "convert"
      BY <2>0, <2>6, LineType DEF CloneFromSvn, Running
    <3>2. PICK k \in 0..svn[Project], complete \in BOOLEAN :
            /\ clone' = [clone EXCEPT ![Project] = Fetched(Project, k, complete)]
            /\ job' = [job EXCEPT !.step = "commit", !.failed = @ \/ ~complete]
      BY <2>6 DEF CloneFromSvn
    <3>3. /\ job'.file = job.file /\ job'.todo = job.todo /\ job'.script = job.script
          /\ job'.failed = (job.failed \/ ~complete) /\ job'.step = "commit"
          /\ job'.failed \/ job'.failed = job.failed
      BY <2>0, <3>2 DEF Job
    <3>4. /\ clone'[Project].there
          /\ \A q \in Projects \ {Project} : clone'[q] = clone[q]
      BY <2>0, <3>1, <3>2 DEF Fetched, NoClone
    <3>5. ASSUME NEW q \in Projects PROVE Spared(q)
      BY <3>1, <3>4, PathInItself DEF Spared
    <3>6. LinesInv' /\ ConvertedStay'
      BY <2>0, <3>1, <3>3, <3>5, SameLine DEF ConvertInv
    <3>7. Project' = Project
      BY <3>3 DEF Project
    <3>8. QED
      BY <3>3, <3>4, <3>6, <3>7 DEF ConvertInv, CurrentLine
  <2>7. CASE CommitGitignore
    <3>1. /\ Project \in Projects /\ job.todo # <<>> /\ job.script = "convert"
          /\ job.step = "commit"
      BY <2>0, <2>7, LineType DEF CommitGitignore, Running
    <3> DEFINE s == Append(clone[Project].master, Made(Project, made + 1))
    <3>2. /\ job'.file = job.file /\ job'.todo = job.todo /\ job'.script = job.script
          /\ job'.step = "push"
          /\ \/ job'.failed /\ clone' = clone
             \/ /\ job'.failed = job.failed
                /\ \/ NothingToCommit(Project) /\ clone' = clone
                   \/ clone' = [clone EXCEPT ![Project].master = s]
      <4>1. CASE NothingToCommit(Project) /\ clone' = clone /\ GoTo("push")
        BY <2>0, <3>1, <4>1 DEF GoTo, Job
      <4>2. CASE clone' = [clone EXCEPT ![Project].master = s] /\ GoTo("push")
        <5> HIDE DEF s
        <5> QED  BY <2>0, <3>1, <4>2 DEF GoTo, Job
      <4>3. CASE clone' = clone /\ job' = [job EXCEPT !.step = "push", !.failed = TRUE]
        BY <2>0, <3>1, <4>3 DEF Job
      <4>4. QED
        BY <2>7, <4>1, <4>2, <4>3 DEF CommitGitignore
    <3>3. /\ clone'[Project].there = clone[Project].there
          /\ job'.failed \/ clone'[Project].master # <<>>
          /\ clone[Project].master # <<>> => clone'[Project].master # <<>>
          /\ \A q \in Projects \ {Project} : clone'[q] = clone[q]
      <4>1. CASE clone' = clone /\ (job'.failed \/ NothingToCommit(Project))
        BY <4>1 DEF NothingToCommit
      <4>2. CASE clone' = [clone EXCEPT ![Project].master = s]
        <5>1. clone' = [clone EXCEPT ![Project].master = s]
          BY <4>2
        <5>2. clone[Project].master \in Seq(Commits) /\ Made(Project, made + 1) \in Commits
          BY <2>0, <3>1, CommitTypes DEF Clones, TypeOK
        <5>3. s # <<>>
          BY <5>2, AppendProperties
        <5>4. QED
          <6> HIDE DEF s
          <6> QED
            BY <2>0, <3>1, <5>1, <5>3 DEF Clones
      <4>3. QED
        BY <3>2, <4>1, <4>2
    <3> HIDE DEF s
    <3>4. LinesInv' /\ ConvertedStay'
      <4>1. ASSUME NEW q \in Projects PROVE Spared(q)
        BY <3>1, <3>3 DEF Spared
      <4>2. QED
        BY <2>0, <3>1, <3>2, <4>1, SameLine DEF ConvertInv
    <3>5. Project' = Project
      BY <3>2 DEF Project
    <3>6. CurrentLine'
      BY <2>0, <3>1, <3>2, <3>3, <3>5 DEF CurrentLine
    <3>7. QED
      BY <3>4, <3>6 DEF ConvertInv
  <2>8. CASE Push
    <3>1. /\ Project \in Projects /\ job.todo # <<>> /\ job.script = "convert"
          /\ job.step = "push" /\ clone' = clone
      BY <2>0, <2>8, LineType DEF Push, Running
    <3>2. PICK failed \in BOOLEAN : NextLine(failed)
      BY <2>8 DEF Push
    <3>3. /\ LinesInv' /\ Done' = Done + 1 /\ job'.file = job.file
          /\ job'.step = "project" /\ job'.failed = (job.failed \/ failed)
      BY <2>0, <3>1, <3>2, NextLineLines
    <3>4. /\ Done \in Nat /\ Project = job.file[Done + 1]
      BY <2>0, <3>1, JobLines
    <3>5. ConvertedStay'
      <4>1. ASSUME ~job'.failed, NEW i \in 1..(Done + 1) PROVE Kept(i)'
        <5>1. ~job.failed
          BY <3>3, <4>1
        <5>2. CASE i = Done + 1
          <6>1. clone[Project].there /\ clone[Project].master # <<>>
            BY <2>0, <3>1, <5>1 DEF CurrentLine
          <6>2. QED
            BY <3>1, <3>3, <3>4, <5>2, <6>1 DEF Kept
        <5>3. CASE i # Done + 1
          <6>1. i \in 1..Done
            BY <3>4, <5>3
          <6>2. Kept(i)
            BY <2>0, <3>1, <5>1, <6>1 DEF ConvertedStay, Kept
          <6>3. QED
            BY <3>1, <3>3, <6>2 DEF Kept
        <5>4. QED
          BY <5>2, <5>3
      <4>2. QED
        BY <3>3, <4>1 DEF ConvertedStay, Kept
    <3>6. QED
      BY <3>3, <3>5 DEF ConvertInv, CurrentLine
  <2>9. CASE CheckProject \/ SkipPush \/ FetchFromSvn \/ SyncRebase \/ ReportLine
    <3>1. job.script \in {"sync", "status"} /\ job.todo # <<>>
      BY <2>9 DEF CheckProject, SkipPush, FetchFromSvn, SyncRebase, ReportLine, Running
    <3>2. job'.script = job.script /\ job'.file = job.file
          /\ job'.todo \in {job.todo, Tail(job.todo)}
      BY <2>0, <2>9 DEF CheckProject, SkipPush, FetchFromSvn, SyncRebase, ReportLine, NextLine,
                        GoTo, Job
    <3>3. LinesInv'
      BY <2>0, <3>1, <3>2, LinesLeft
    <3>4. QED
      BY <2>1, <3>1, <3>2, <3>3
  <2>10. CASE End \/ Kill \/ \E script \in {"convert", "sync", "status"}, file \in Files :
                                 Start(script, file)
    <3>1. \A script, file : NewJob(script, file).todo = NewJob(script, file).file
                            /\ NewJob(script, file).step = "project"
      BY DEF NewJob
    <3>2. QED
      BY <2>3, <2>10, <3>1 DEF End, Kill, Start, NoJob, TypeOK
  <2>11. ASSUME NEW p \in Projects, CommitToSvn(p) PROVE ConvertInv'
    BY <2>2, <2>11 DEF CommitToSvn
  <2>12. CASE UNCHANGED vars
    BY <2>2, <2>12 DEF vars
  <2>13. QED
    BY <2>4, <2>5, <2>6, <2>7, <2>8, <2>9, <2>10, <2>11, <2>12 DEF Next, Convert, Sync
<1>3. ConvertInv => ConvertedStay
  BY DEF ConvertInv
<1>4. QED
  BY <1>1, <1>2, <1>3, TypeCorrect, PTL DEF Spec
=============================================================================
