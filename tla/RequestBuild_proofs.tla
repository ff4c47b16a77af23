------------------------- MODULE RequestBuild_proofs -------------------------
(* Proofs about RequestBuild, for any items, change sets and dependencies.    *)
EXTENDS RequestBuild, TLAPS

\* A job's number is used once: it is not among those that ended, and what its
\* predecessors have left in the streams or in the workspace is theirs.
OwnNumbers ==
  /\ aborted \subseteq 1..run /\ stagingPoms \subseteq 1..run
  /\ AbortedLeaveNothing
  /\ phase # "idle" => run \notin aborted \union stagingPoms
  /\ phase \in {"prepared", "listing", "accepted"} => wsPoms = {}
  /\ phase = "checked in" => wsPoms \subseteq {run}

\* The streams and the workspace have what their change sets depend on.
AllClosed ==
  /\ StagingClosed
  /\ \A c \in target : Needs[c] \subseteq target
  /\ \A c \in ws : Needs[c] \subseteq ws
  /\ \A r \in wsPoms : basis[r] \subseteq ws

\* The workspace of a job comes from the streams, and has conflicts only when
\* the job has ended.
FromStreams ==
  /\ compare \subseteq staging
  /\ phase \notin {"idle", "started"} => ws \subseteq target \union staging /\ ~conflicts

\* The list has the change sets of the items the loop has come to.
ListedSoFar ==
  /\ phase \in {"started", "prepared"} => ITEMS = requested /\ CHANGESETS = {}
  /\ phase \in {"listing", "accepted", "checked in"} =>
       {c \in compare : ItemOf[c] \in requested \ ITEMS} \subseteq CHANGESETS
  /\ phase \in {"accepted", "checked in"} =>
       ITEMS = {} /\ (CHANGESETS \subseteq ws \/ Missing # {})

Inv == TypeOK /\ OwnNumbers /\ AllClosed /\ FromStreams /\ ListedSoFar

-----------------------------------------------------------------------------
\* The initial state.
LEMMA InitInv == Init => Inv
<1> SUFFICES ASSUME Init PROVE Inv
  OBVIOUS
<1> USE DEF Init
<1>1. InStaging \subseteq ChangeSets /\ InTarget \subseteq ChangeSets
  BY StreamsAssumption
<1>2. TypeOK
  <2>1. basis \in [Jobs -> SUBSET ChangeSets]
    OBVIOUS
  <2>2. run \in 0..MaxRuns
    BY RunsAssumption
  <2>. QED
    BY <1>1, <2>1, <2>2 DEF TypeOK, Phases
<1>5. OwnNumbers
  BY DEF OwnNumbers, AbortedLeaveNothing
<1>3. AllClosed
  BY StreamsAssumption DEF AllClosed, StagingClosed
<1>4. FromStreams /\ ListedSoFar
  BY DEF FromStreams, ListedSoFar
<1>. QED
  BY <1>2, <1>3, <1>4, <1>5 DEF Inv

\* Types.
LEMMA TypePreserved == TypeOK /\ ListedSoFar /\ [Next]_vars => TypeOK'
<1> SUFFICES ASSUME TypeOK, ListedSoFar, [Next]_vars PROVE TypeOK'
  OBVIOUS
<1> USE ItemsAssumption, NeedsAssumption, RunsAssumption
        DEF TypeOK, Jobs, Phases
<1>1. ASSUME NEW c \in ChangeSets, DeliverStaging(c) PROVE TypeOK'
  BY <1>1 DEF DeliverStaging, workspace, request, list
<1>2. ASSUME NEW c \in ChangeSets, DeliverTarget(c) PROVE TypeOK'
  BY <1>2 DEF DeliverTarget, workspace, request, list
<1>3. ASSUME NEW S \in SUBSET Items, NEW it01 \in BOOLEAN, Request(S, it01) PROVE TypeOK'
  BY <1>3 DEF Request, streams, workspace
<1>4. CASE ReplaceComponents
  BY <1>4 DEF ReplaceComponents, streams, request, list
<1>5. CASE Compare
  BY <1>5 DEF Compare, ListedSoFar, streams, workspace, request
<1>6. ASSUME NEW i \in Items, ListItem(i) PROVE TypeOK'
  BY <1>6 DEF ListItem, Extended, ITEM_CHANGESETS, streams, workspace, request
<1>7. CASE Accept
  BY <1>7 DEF Accept, Accepts, Abort, streams, request, list
<1>8. CASE CheckIn
  BY <1>8 DEF CheckIn, streams, request, list
<1>9. CASE Deliver
  BY <1>9 DEF Deliver, workspace, request, list
<1>10. CASE End
  BY <1>10 DEF End, streams, workspace, request, list
<1>11. CASE CommandFails
  BY <1>11 DEF CommandFails, Abort, streams, workspace, request, list
<1>12. CASE UNCHANGED vars
  BY <1>12 DEF vars, streams, workspace, request, list
<1>. QED
  BY <1>1, <1>2, <1>3, <1>4, <1>5, <1>6, <1>7, <1>8, <1>9, <1>10, <1>11, <1>12 DEF Next, Job

\* Numbers of jobs.
LEMMA NumbersPreserved == Inv /\ [Next]_vars => OwnNumbers'
<1> SUFFICES ASSUME Inv, [Next]_vars PROVE OwnNumbers'
  OBVIOUS
<1> USE RunsAssumption DEF Inv, TypeOK, OwnNumbers, AbortedLeaveNothing, Jobs, Phases
<1>0. run \in Nat /\ (phase # "idle" => run \in 1..run)
  <2>1. run \in 0..MaxRuns /\ (phase # "idle" => run \in 1..MaxRuns)
    OBVIOUS
  <2>. HIDE DEF Inv, OwnNumbers, TypeOK
  <2>. QED
    BY <2>1, RunsAssumption
<1>1. ASSUME NEW c \in ChangeSets, DeliverStaging(c) PROVE OwnNumbers'
  BY <1>1 DEF DeliverStaging, workspace, request, list
<1>2. ASSUME NEW c \in ChangeSets, DeliverTarget(c) PROVE OwnNumbers'
  BY <1>2 DEF DeliverTarget, workspace, request, list
<1>3. ASSUME NEW S \in SUBSET Items, NEW it01 \in BOOLEAN, Request(S, it01) PROVE OwnNumbers'
  BY <1>3 DEF Request, streams, workspace
<1>4. CASE ReplaceComponents
  BY <1>4 DEF ReplaceComponents, streams, request, list
<1>5. CASE Compare
  BY <1>5 DEF Compare, streams, workspace, request
<1>6. ASSUME NEW i \in Items, ListItem(i) PROVE OwnNumbers'
  BY <1>6 DEF ListItem, streams, workspace, request
<1>7. CASE Accept
  <2>1. phase = "listing" /\ UNCHANGED <<streams, wsPoms, run>> /\ aborted' \subseteq aborted \union {run}
    BY <1>7 DEF Accept, Abort
  <2>2. aborted' \subseteq 1..run /\ stagingPoms \intersect aborted' = {}
    BY <1>0, <2>1
  <2>3. (phase' = "accepted" /\ aborted' = aborted) \/ phase' = "idle"
    BY <1>7 DEF Accept, Abort
  <2>. QED
    BY <2>1, <2>2, <2>3 DEF streams
<1>8. CASE CheckIn
  BY <1>8 DEF CheckIn, streams, request, list
<1>9. CASE Deliver
  <2>1. stagingPoms' \subseteq stagingPoms \union {run} /\ phase = "checked in"
    BY <1>9 DEF Deliver
  <2>2. stagingPoms' \subseteq 1..run /\ stagingPoms' \intersect aborted = {}
    BY <1>0, <2>1
  <2>. QED
    BY <1>9, <2>1, <2>2 DEF Deliver, workspace
<1>10. CASE End
  BY <1>10 DEF End, streams, workspace, request, list
<1>11. CASE CommandFails
  <2>1. phase # "idle" /\ aborted' = aborted \union {run} /\ phase' = "idle"
    BY <1>11 DEF CommandFails, Abort
  <2>2. aborted' \subseteq 1..run /\ stagingPoms \intersect aborted' = {}
    BY <1>0, <2>1
  <2>. QED
    BY <1>11, <2>1, <2>2 DEF CommandFails, streams, workspace
<1>12. CASE UNCHANGED vars
  BY <1>12 DEF vars, streams, workspace, request, list
<1>. QED
  BY <1>1, <1>2, <1>3, <1>4, <1>5, <1>6, <1>7, <1>8, <1>9, <1>10, <1>11, <1>12 DEF Next, Job

\* With nothing missing, the workspace and the list have all the list needs.
LEMMA NothingMissing ==
  ASSUME Missing = {}, NEW c \in CHANGESETS
  PROVE  Needs[c] \subseteq ws \union CHANGESETS
<1>1. SUFFICES ASSUME NEW d \in Needs[c], d \notin ws \union CHANGESETS PROVE FALSE
  OBVIOUS
<1>2. d \in Missing
  BY <1>1 DEF Missing
<1>. QED
  BY <1>2

\* Closure under dependencies.
LEMMA ClosedPreserved == Inv /\ [Next]_vars => AllClosed'
<1> SUFFICES ASSUME Inv, [Next]_vars PROVE AllClosed'
  OBVIOUS
<1> USE NeedsAssumption DEF Inv, TypeOK, OwnNumbers, AllClosed, StagingClosed, FromStreams, ListedSoFar, Jobs
<1>1. ASSUME NEW c \in ChangeSets, DeliverStaging(c) PROVE AllClosed'
  BY <1>1 DEF DeliverStaging, workspace, request, list
<1>2. ASSUME NEW c \in ChangeSets, DeliverTarget(c) PROVE AllClosed'
  BY <1>2 DEF DeliverTarget, workspace, request, list
<1>3. ASSUME NEW S \in SUBSET Items, NEW it01 \in BOOLEAN, Request(S, it01) PROVE AllClosed'
  BY <1>3 DEF Request, streams, workspace
<1>4. CASE ReplaceComponents
  BY <1>4 DEF ReplaceComponents, streams, request, list
<1>5. CASE Compare
  BY <1>5 DEF Compare, streams, workspace, request
<1>6. ASSUME NEW i \in Items, ListItem(i) PROVE AllClosed'
  BY <1>6 DEF ListItem, streams, workspace, request, Extended
<1>7. CASE Accept
  <2>1. ws' = ws \/ (ws' = ws \union CHANGESETS /\ Missing = {})
    BY <1>7 DEF Accept, Accepts
  <2>2. ASSUME Missing = {}, ws' = ws \union CHANGESETS PROVE \A c \in ws' : Needs[c] \subseteq ws'
    <3>1. ASSUME NEW c \in CHANGESETS PROVE Needs[c] \subseteq ws'
      BY <2>2, NothingMissing
    <3>2. ASSUME NEW c \in ws PROVE Needs[c] \subseteq ws'
      BY <2>2
    <3>3. \A c \in ws' : Needs[c] \subseteq ws'
      BY <2>2, <3>1, <3>2
    <3>. QED
      BY <3>3
  <2>3. UNCHANGED <<staging, target, stagingPoms, wsPoms, basis>>
    BY <1>7 DEF Accept, streams
  <2>4. \A c \in ws' : Needs[c] \subseteq ws'
    BY <2>1, <2>2
  <2>. QED
    BY <2>1, <2>3, <2>4
<1>8. CASE CheckIn
  BY <1>8 DEF CheckIn, streams, request, list
<1>9. CASE Deliver
  BY <1>9 DEF Deliver, workspace, request, list
<1>10. CASE End
  BY <1>10 DEF End, streams, workspace, request, list
<1>11. CASE CommandFails
  BY <1>11 DEF CommandFails, Abort, streams, workspace, request, list
<1>12. CASE UNCHANGED vars
  BY <1>12 DEF vars, streams, workspace, request, list
<1>. QED
  BY <1>1, <1>2, <1>3, <1>4, <1>5, <1>6, <1>7, <1>8, <1>9, <1>10, <1>11, <1>12 DEF Next, Job

\* Where the workspace comes from.
LEMMA StreamsPreserved == Inv /\ [Next]_vars => FromStreams'
<1> SUFFICES ASSUME Inv, [Next]_vars PROVE FromStreams'
  OBVIOUS
<1> USE DEF Inv, TypeOK, FromStreams, Phases
<1>1. ASSUME NEW c \in ChangeSets, DeliverStaging(c) PROVE FromStreams'
  BY <1>1 DEF DeliverStaging, workspace, request, list
<1>2. ASSUME NEW c \in ChangeSets, DeliverTarget(c) PROVE FromStreams'
  BY <1>2 DEF DeliverTarget, workspace, request, list
<1>3. ASSUME NEW S \in SUBSET Items, NEW it01 \in BOOLEAN, Request(S, it01) PROVE FromStreams'
  BY <1>3 DEF Request, streams, workspace
<1>4. CASE ReplaceComponents
  BY <1>4 DEF ReplaceComponents, streams, request, list
<1>5. CASE Compare
  BY <1>5 DEF Compare, streams, workspace, request
<1>6. ASSUME NEW i \in Items, ListItem(i) PROVE FromStreams'
  BY <1>6 DEF ListItem, streams, workspace, request
<1>7. CASE Accept
  BY <1>7 DEF Accept, Accepts, Abort, streams, request, list, Returns, Messages
<1>8. CASE CheckIn
  BY <1>8 DEF CheckIn, streams, request, list
<1>9. CASE Deliver
  BY <1>9 DEF Deliver, workspace, request, list
<1>10. CASE End
  BY <1>10 DEF End, streams, workspace, request, list
<1>11. CASE CommandFails
  BY <1>11 DEF CommandFails, Abort, streams, workspace, request, list
<1>12. CASE UNCHANGED vars
  BY <1>12 DEF vars, streams, workspace, request, list
<1> HIDE DEF Inv, TypeOK, FromStreams
<1>. QED
  BY <1>1, <1>2, <1>3, <1>4, <1>5, <1>6, <1>7, <1>8, <1>9, <1>10, <1>11, <1>12 DEF Next, Job

\* The list of change sets.
LEMMA ListPreserved == Inv /\ [Next]_vars => ListedSoFar'
<1> SUFFICES ASSUME Inv, [Next]_vars PROVE ListedSoFar'
  OBVIOUS
<1> USE DEF Inv, TypeOK, ListedSoFar, Missing, Phases
<1>1. ASSUME NEW c \in ChangeSets, DeliverStaging(c) PROVE ListedSoFar'
  BY <1>1 DEF DeliverStaging, workspace, request, list
<1>2. ASSUME NEW c \in ChangeSets, DeliverTarget(c) PROVE ListedSoFar'
  BY <1>2 DEF DeliverTarget, workspace, request, list
<1>3. ASSUME NEW S \in SUBSET Items, NEW it01 \in BOOLEAN, Request(S, it01) PROVE ListedSoFar'
  BY <1>3 DEF Request, streams, workspace
<1>4. CASE ReplaceComponents
  BY <1>4 DEF ReplaceComponents, streams, request, list
<1>5. CASE Compare
  BY <1>5 DEF Compare, streams, workspace, request
<1>6. ASSUME NEW i \in Items, ListItem(i) PROVE ListedSoFar'
  BY <1>6 DEF ListItem, streams, workspace, request, Extended, ITEM_CHANGESETS
<1>7. CASE Accept
  BY <1>7 DEF Accept, Accepts, Abort, streams, request, list, Returns
<1>8. CASE CheckIn
  BY <1>8 DEF CheckIn, streams, request, list
<1>9. CASE Deliver
  BY <1>9 DEF Deliver, workspace, request, list
<1>10. CASE End
  BY <1>10 DEF End, streams, workspace, request, list
<1>11. CASE CommandFails
  BY <1>11 DEF CommandFails, Abort, streams, workspace, request, list
<1>12. CASE UNCHANGED vars
  BY <1>12 DEF vars, streams, workspace, request, list
<1> HIDE DEF Inv, TypeOK, ListedSoFar
<1>. QED
  BY <1>1, <1>2, <1>3, <1>4, <1>5, <1>6, <1>7, <1>8, <1>9, <1>10, <1>11, <1>12 DEF Next, Job

-----------------------------------------------------------------------------
\* The five parts are one inductive invariant.
THEOREM Invariance == Spec => []Inv
<1>1. Inv /\ [Next]_vars => Inv'
  BY TypePreserved, NumbersPreserved, ClosedPreserved, StreamsPreserved, ListPreserved DEF Inv
<1>. QED
  BY <1>1, InitInv, PTL DEF Spec

\* Every variable has its type, for any request.
THEOREM TypeCorrect == Spec => []TypeOK
BY Invariance, PTL DEF Inv

\* The staging stream has whatever its change sets depend on, in spite of jobs
\* that deliver workspaces made some time ago (lines 158 and 242).
THEOREM StagingStaysClosed == Spec => []StagingClosed
BY Invariance, PTL DEF Inv, AllClosed

\* Poms a failed job has checked in never reach the staging stream (lines 158
\* and 240).
THEOREM NothingOfAborted == Spec => []AbortedLeaveNothing
BY Invariance, PTL DEF Inv, OwnNumbers

\* A job that goes on has the change sets of its items, or lacks what one of
\* them needs (lines 184 to 224).
THEOREM RequestsAreHonoured == Spec => []RequestHonoured
<1>1. Inv => RequestHonoured
  BY DEF Inv, TypeOK, ListedSoFar, RequestHonoured
<1>. QED
  BY <1>1, Invariance, PTL

\* A delivery has no conflicts and adds to the staging stream only what the
\* target stream has, and the poms of the job (lines 76 and 242).
THEOREM OnlyHotfixesDelivered == Spec => DeliversHotfixesOnly
<1>1. Inv /\ Deliver => /\ ~conflicts /\ staging' \ staging \subseteq target
                       /\ stagingPoms' \ stagingPoms \subseteq {run}
  BY DEF Inv, Deliver, FromStreams, OwnNumbers
<1>. QED
  BY <1>1, Invariance, PTL DEF DeliversHotfixesOnly

=============================================================================
