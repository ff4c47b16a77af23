---------------------------- MODULE RequestBuild ----------------------------
(***************************************************************************)
(* A release request (Jenkins/request_build.sh). The job makes its          *)
(* workspace a copy of the target stream, accepts into it the change sets   *)
(* the staging stream has for the requested work items and, in the first    *)
(* iteration of a release, checks the new versions of the poms in and       *)
(* delivers the workspace to the staging stream. Developers deliver to      *)
(* both streams meanwhile; any command may fail and end the job.            *)
(*                                                                         *)
(* Left out: the field Planned For, which the job writes for people to      *)
(* read, the mail, and Maven, whose result the script does not act upon.    *)
(***************************************************************************)
EXTENDS Naturals

CONSTANTS
  Items,       \* work items
  ChangeSets,
  ItemOf,      \* workitems[0] of a change set
  Needs,       \* the change sets a change set depends on, all of them
  Mentions,    \* <<i, c>>: the line of c, not a change set of i, contains i
  InStaging, InTarget,   \* the streams at the start
  MaxRuns      \* bound: requests

ASSUME ItemsAssumption ==
  /\ ItemOf \in [ChangeSets -> Items]
  /\ Mentions \subseteq Items \X ChangeSets
ASSUME NeedsAssumption ==
  /\ Needs \in [ChangeSets -> SUBSET ChangeSets]
  /\ \A c \in ChangeSets : \A d \in Needs[c] : Needs[d] \subseteq Needs[c]
ASSUME StreamsAssumption ==
  \A S \in {InStaging, InTarget} :
    S \subseteq ChangeSets /\ \A c \in S : Needs[c] \subseteq S
ASSUME RunsAssumption == MaxRuns \in Nat

-----------------------------------------------------------------------------
VARIABLES
  \* Kept by RTC. A job's own change set, with its poms, is named by its number.
  staging, target,   \* the change sets of the streams
  stagingPoms,       \* the jobs whose poms the staging stream has
  ws, wsPoms,        \* the workspace of the release, the same for every job
  conflicts,         \* the workspace has unresolved conflicts
  basis,             \* what was in the workspace when a job's poms were checked in
  \* The job
  run, phase,
  ITEMS,             \* the requested work items the loop has not come to
  requested,         \* all of them
  first,             \* the iteration is it01
  compare,           \* COMPARE_JSON_FILE
  CHANGESETS,
  aborted            \* the jobs that ended with an error

streams == <<staging, target, stagingPoms>>
workspace == <<ws, wsPoms, conflicts, basis>>
request == <<requested, first>>
list == <<ITEMS, compare, CHANGESETS>>
vars == <<streams, workspace, run, phase, request, list, aborted>>

Jobs == 1..MaxRuns
Phases == {"idle", "started", "prepared", "listing", "accepted", "checked in"}

\* What scm accept writes, as far as the script looks for it: an accept that
\* completes with conflicts may say both.
Messages == {"missing", "conflicts", "completed"}

Init ==
  /\ staging = InStaging /\ target = InTarget /\ stagingPoms = {}
  /\ ws = {} /\ wsPoms = {} /\ conflicts = FALSE
  /\ basis = [r \in Jobs |-> {}]
  /\ run = 0 /\ phase = "idle" /\ requested = {} /\ first = FALSE
  /\ ITEMS = {} /\ compare = {} /\ CHANGESETS = {}
  /\ aborted = {}

-----------------------------------------------------------------------------
(* Developers *)

DeliverStaging(c) ==
  /\ c \notin staging /\ Needs[c] \subseteq staging
  /\ staging' = staging \union {c}
  /\ UNCHANGED <<target, stagingPoms, workspace, run, phase, request, list, aborted>>

DeliverTarget(c) ==
  /\ c \notin target /\ Needs[c] \subseteq target
  /\ target' = target \union {c}
  /\ UNCHANGED <<staging, stagingPoms, workspace, run, phase, request, list, aborted>>

-----------------------------------------------------------------------------
(* The job *)

RequestKeepsList(S, it01) ==   \* mutant: CHANGESETS is not emptied first
  /\ phase = "idle" /\ run < MaxRuns
  /\ run' = run + 1 /\ phase' = "started"
  /\ requested' = S /\ ITEMS' = S /\ first' = it01
  /\ compare' = {}
  /\ UNCHANGED <<streams, workspace, CHANGESETS, aborted>>

\* A new shell, with the request read from the work item.
Request(S, it01) ==
  /\ phase = "idle" /\ run < MaxRuns
  /\ run' = run + 1 /\ phase' = "started"
  /\ requested' = S /\ ITEMS' = S /\ first' = it01
  /\ compare' = {} /\ CHANGESETS' = {}
  /\ UNCHANGED <<streams, workspace, aborted>>

\* cleanup_and_exit 1.
Abort ==
  /\ phase' = "idle"
  /\ aborted' = aborted \union {run}

\* A command that has changed nothing fails, in any phase but the accept's.
CommandFails ==
  /\ phase \notin {"idle", "listing"}
  /\ Abort
  /\ UNCHANGED <<streams, workspace, run, request, list>>

\* replace-component --all: the workspace is what the target stream is now,
\* whatever an earlier request has left there.
ReplaceComponents ==
  /\ phase = "started" /\ phase' = "prepared"
  /\ ws' = target /\ wsPoms' = {} /\ conflicts' = FALSE
  /\ UNCHANGED <<streams, basis, run, request, list, aborted>>

\* scm compare of the two streams, which may both have moved on.
Compare ==
  /\ phase = "prepared" /\ phase' = "listing"
  /\ compare' = staging \ target
  /\ UNCHANGED <<streams, workspace, run, request, ITEMS, CHANGESETS, aborted>>

\* grep of the number of the item over the lines of the comparison.
ITEM_CHANGESETS(i) == {c \in compare : ItemOf[c] = i \/ <<i, c>> \in Mentions}

Overwritten(i) == ITEM_CHANGESETS(i)   \* mutant: the last item's only

Extended(i) == CHANGESETS \union ITEM_CHANGESETS(i)

ListItem(i) ==
  /\ phase = "listing" /\ i \in ITEMS
  /\ ITEMS' = ITEMS \ {i}
  /\ CHANGESETS' = Extended(i)
  /\ UNCHANGED <<streams, workspace, run, phase, request, compare, aborted>>

-----------------------------------------------------------------------------
(* multi_changesets_accept *)

Missing == (UNION {Needs[c] : c \in CHANGESETS}) \ (ws \union CHANGESETS)

\* What scm accept does and writes. With change sets missing, nothing is
\* accepted; it may also fail, or refuse because of the conflicts, before it
\* has accepted anything.
Accepts(output) ==
  \/ /\ output \in {{}, {"conflicts"}} /\ UNCHANGED <<ws, conflicts>>
  \/ /\ Missing # {} /\ output = {"missing"} /\ UNCHANGED <<ws, conflicts>>
  \/ /\ Missing = {} /\ ws' = ws \union CHANGESETS
     /\ \/ output = {"completed"} /\ UNCHANGED conflicts
        \/ CHANGESETS \ ws # {} /\ output \in {{"conflicts"}, {"conflicts", "completed"}}
           /\ conflicts' = TRUE

ReturnsOnCompleted(output) == output # {}   \* mutant: conflicts do not count

\* The function returns; otherwise it ends the script. Missing change sets end
\* nothing: they are only mentioned, and not even that, as line 80 lists those
\* of ${items}, a variable that is not set.
Returns(output) == "conflicts" \notin output /\ output # {}

Accept ==
  /\ phase = "listing" /\ ITEMS = {}
  /\ \E output \in SUBSET Messages :
       /\ Accepts(output)
       /\ IF Returns(output) THEN phase' = "accepted" /\ UNCHANGED aborted ELSE Abort
  /\ UNCHANGED <<streams, wsPoms, basis, run, request, list>>

-----------------------------------------------------------------------------
(* The first iteration *)

\* The new versions are checked in: a change set on top of the workspace.
CheckIn ==
  /\ phase = "accepted" /\ first
  /\ phase' = "checked in"
  /\ wsPoms' = wsPoms \union {run}
  /\ basis' = [basis EXCEPT ![run] = ws]
  /\ UNCHANGED <<streams, ws, conflicts, run, request, list, aborted>>

DeliverPoms ==   \* mutant: the poms without what they are based on
  /\ phase = "checked in" /\ phase' = "idle"
  /\ stagingPoms' = stagingPoms \union wsPoms
  /\ UNCHANGED <<staging, target, workspace, run, request, list, aborted>>

\* scm deliver -s WS -t STAG_STREAM: everything the workspace has.
Deliver ==
  /\ phase = "checked in" /\ phase' = "idle"
  /\ staging' = staging \union ws
  /\ stagingPoms' = stagingPoms \union wsPoms
  /\ UNCHANGED <<target, workspace, run, request, list, aborted>>

\* Later iterations deliver nothing: lines 246 and 249 are commented out.
End ==
  /\ phase = "accepted" /\ ~first
  /\ phase' = "idle"
  /\ UNCHANGED <<streams, workspace, run, request, list, aborted>>

Job ==
  \/ \E S \in SUBSET Items, it01 \in BOOLEAN : Request(S, it01)
  \/ ReplaceComponents \/ Compare \/ (\E i \in Items : ListItem(i)) \/ Accept
  \/ CheckIn \/ Deliver \/ End \/ CommandFails

Next ==
  \/ \E c \in ChangeSets : DeliverStaging(c) \/ DeliverTarget(c)
  \/ Job

Spec == Init /\ [][Next]_vars

-----------------------------------------------------------------------------
(* Properties *)

\* Every variable has its type (all of request_build.sh).
TypeOK ==
  /\ staging \in SUBSET ChangeSets /\ target \in SUBSET ChangeSets
  /\ stagingPoms \in SUBSET Jobs
  /\ ws \in SUBSET ChangeSets /\ wsPoms \in SUBSET Jobs
  /\ conflicts \in BOOLEAN /\ basis \in [Jobs -> SUBSET ChangeSets]
  /\ run \in 0..MaxRuns /\ phase \in Phases /\ (phase # "idle" => run \in Jobs)
  /\ requested \in SUBSET Items /\ first \in BOOLEAN
  /\ ITEMS \in SUBSET requested
  /\ compare \in SUBSET ChangeSets /\ CHANGESETS \in SUBSET compare
  /\ aborted \in SUBSET Jobs

\* The staging stream has everything its change sets depend on, the versions of
\* the poms included, although jobs deliver to it a workspace that was made of
\* another stream some time ago, whatever developers do meanwhile (lines 158,
\* 224 and 242).
StagingClosed ==
  /\ \A c \in staging : Needs[c] \subseteq staging
  /\ \A r \in stagingPoms : basis[r] \subseteq staging

\* A job that has ended in an error leaves nothing behind: its poms, checked in
\* but not delivered, do not reach the staging stream with a later request
\* that works in the same workspace (lines 158 and 240).
AbortedLeaveNothing == stagingPoms \intersect aborted = {}

\* A job that goes on after the accept has all the change sets of its items
\* that were in the comparison, or one of those listed needs a change set that
\* the workspace does not have (lines 184 to 224).
RequestHonoured ==
  phase \in {"accepted", "checked in"} =>
    \/ {c \in compare : ItemOf[c] \in requested} \subseteq ws
    \/ Missing # {}

\* What a job delivers to the staging stream is free of conflicts, and comes
\* from the target stream or is its own: every change set it had accepted is
\* there already (lines 76 and 242).
DeliversHotfixesOnly ==
  [][Deliver => /\ ~conflicts
                /\ staging' \ staging \subseteq target
                /\ stagingPoms' \ stagingPoms \subseteq {run}]_vars

=============================================================================
